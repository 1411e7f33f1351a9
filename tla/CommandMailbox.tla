--------------------------- MODULE CommandMailbox ---------------------------
(***************************************************************************)
(* The native command service: the shared mailbox of command-state.h, the  *)
(* external writer that publishes, settles and stops through its gate, the *)
(* UI owner that services requests inside COMMAND_DRAIN, the source hooks  *)
(* of the application's own threads, and the consumer thread that retires  *)
(* slots and closes the session.                                           *)
(*                                                                         *)
(* Four threads run here.  Every step is one store to shared memory, or    *)
(* one decisive load, of the thread that takes it; loads of words that     *)
(* only move one way are taken together with the store that follows them.  *)
(* A definition whose comment starts with "Fault" is not part of the       *)
(* model: it is a mistake the properties below are known to catch.         *)
(***************************************************************************)
EXTENDS Integers, Sequences

CONSTANTS
    SlotCount,        \* COMMAND_SLOTS
    Last,             \* COMMAND_SEQUENCE_LAST
    QueuedControls,   \* fields whose native setter goes through the app queue
    SyncControls,     \* CF_SELECTION, CF_ARM: completed inside the call
    JogControls,      \* JOG_BAR, JOG_BEAT, JOG_PULSE
    ClosePolls,       \* 100 in consume()
    MeterPolls,       \* 200 in command_consume_tick()
    EventRows,        \* COMMAND_EVENTS, rows of one lane of one slot
    Environment       \* which outside events may happen, see Events

ASSUME SizeAssumption ==
    /\ {SlotCount, Last, ClosePolls, MeterPolls} \subseteq Nat \ {0}
    /\ EventRows \in Nat

ASSUME ControlAssumption ==
    /\ QueuedControls \cap SyncControls = {}
    /\ (QueuedControls \cup SyncControls) \cap JogControls = {}
    /\ QueuedControls \cup SyncControls \cup JogControls # {}

\* A killed bridge, a New-Project confirmation, a value committed by the user,
\* a trace row that cannot be written, an owner seam on a foreign thread, a
\* clock that cannot be read, the end of a finite window, and the application's
\* own exit.
Events == {"writer_dies", "new_project", "commit", "trace_loss", "foreign_owner",
           "clock", "window", "exit"}
ASSUME EnvironmentAssumption == Environment \subseteq Events

Slots    == 0 .. (SlotCount - 1)
Tickets  == 0 .. Last                  \* sequence numbers; 0 is "none"
Controls == QueuedControls \cup SyncControls \cup JogControls
Threads  == {"ui", "audio"}            \* enrolled source threads

VARIABLES
    session,    \* flags of CommandState, new_project_intent and stop words
    gate,       \* external_gate: 0 idle, 1 writer, 2 permanently shut
    total,      \* published, consumed, reclaimed of CommandState
    slot,       \* the CommandSlot array
    running,    \* observer_running
    inHook,     \* command_in_hook, the UI owner's flight
    violation,  \* command_violation
    lane,       \* lane_in_hook of each enrolled thread
    started,    \* native_started
    active,     \* active_request
    app,        \* the application: its queue of calls, and every call made
    w,          \* the external writer
    o,          \* the UI owner inside a drain
    h,          \* each thread inside a source hook
    item,       \* the queued call "audio" is running, with invocation.phase
    watched,    \* source_requests of the UI thread's commit hook
    c           \* the consumer thread

mailbox == <<session, gate, total, slot>>
private == <<running, inHook, violation, lane, started, active>>
sources == <<h, item, watched>>
vars    == <<mailbox, private, app, w, o, sources, c>>

SlotWords == [seq : Tickets, control : Controls, published : Tickets,
              processed : Tickets, rejected : BOOLEAN, dispatched : Tickets,
              returned : Tickets, done : Tickets, sealed : Tickets,
              settled : Tickets, reclaimed : Tickets,
              rows : 0 .. EventRows,   \* other-commit rows in the event lane
              ahead : BOOLEAN]         \* created after the last heartbeat

WriterPcs == {"out", "entering", "entered", "inside", "changing", "stored",
              "confirmed", "counted", "certified", "quiet", "leaving", "dead"}
OwnerPcs  == {"out", "checked", "hooked", "service", "ordinary", "ordered",
              "validate", "call", "return", "process", "consume", "leave"}
HookPcs   == {"out", "checked", "marked", "inside", "cleared", "leave"}
Seams     == {"new_project", "commit", "enter", "body", "done"}
ClosePcs  == {"sleep", "retire", "drained", "lanes", "seal", "count", "release",
              "finalize", "shut", "gate", "sources", "report", "close",
              "closed", "failed"}

Sessions == [alive : BOOLEAN, error : BOOLEAN, traceError : BOOLEAN,
             closed : BOOLEAN, externalStop : BOOLEAN, stopRequested : BOOLEAN,
             stopSequence : Tickets, intent : {0, 1, 3}]
Totals    == [published : Tickets, consumed : Nat, reclaimed : Nat]
Apps      == [queue : Seq(Tickets), calls : [Tickets -> Nat]]
Jobs      == [pc : WriterPcs, op : {"none", "publish", "settle", "stop"},
              seq : Tickets, slot : Slots, control : Controls]
Drains    == [pc : OwnerPcs, cursor : Slots, visit : 0 .. SlotCount,
              serving : Slots, faulted : BOOLEAN]
Hooks     == [pc : HookPcs, seam : Seams]
Items     == [seq : Tickets, phase : 0 .. 2]
Consumers == [pc : ClosePcs, sweep : 0 .. SlotCount,
              closePolls : 0 .. ClosePolls, meterPolls : 0 .. MeterPolls]

TypeOK ==
    /\ session \in Sessions /\ gate \in 0 .. 2 /\ total \in Totals
    /\ slot \in [Slots -> SlotWords]
    /\ running \in BOOLEAN /\ inHook \in BOOLEAN /\ violation \in BOOLEAN
    /\ lane \in [Threads -> BOOLEAN]
    /\ started \in [Slots -> Tickets] /\ active \in [Slots -> Tickets]
    /\ app \in Apps /\ w \in Jobs /\ o \in Drains
    /\ h \in [Threads -> Hooks] /\ item \in Items /\ watched \subseteq Tickets
    /\ c \in Consumers

AnyControl == CHOOSE control \in Controls : TRUE
NoJob  == [pc |-> "out", op |-> "none", seq |-> 0, slot |-> 0, control |-> AnyControl]
NoItem == [seq |-> 0, phase |-> 0]

\* The mailbox as startup() leaves it: zeroed, alive, running.
Init ==
    /\ session = [alive |-> TRUE, error |-> FALSE, traceError |-> FALSE,
                  closed |-> FALSE, externalStop |-> FALSE,
                  stopRequested |-> FALSE, stopSequence |-> 0, intent |-> 0]
    /\ gate = 0
    /\ total = [published |-> 0, consumed |-> 0, reclaimed |-> 0]
    /\ slot = [at \in Slots |->
                 [seq |-> 0, control |-> AnyControl, published |-> 0,
                  processed |-> 0, rejected |-> FALSE, dispatched |-> 0,
                  returned |-> 0, done |-> 0, sealed |-> 0, settled |-> 0,
                  reclaimed |-> 0, rows |-> 0, ahead |-> FALSE]]
    /\ running = TRUE /\ inHook = FALSE /\ violation = FALSE
    /\ lane = [t \in Threads |-> FALSE]
    /\ started = [at \in Slots |-> 0] /\ active = [at \in Slots |-> 0]
    /\ app = [queue |-> <<>>, calls |-> [n \in Tickets |-> 0]]
    /\ w = NoJob
    /\ o = [pc |-> "out", cursor |-> 0, visit |-> 0, serving |-> 0, faulted |-> FALSE]
    /\ h = [t \in Threads |-> [pc |-> "out", seam |-> "new_project"]]
    /\ item = NoItem /\ watched = {}
    /\ c = [pc |-> "sleep", sweep |-> 0, closePolls |-> 0, meterPolls |-> 0]

-----------------------------------------------------------------------------
(* Shared predicates of command-state.h *)

\* Every control here stands for one owner; two relative jogs are independent.
Conflict(a, b) == a = b /\ a \notin JogControls

\* Fault: a slot is taken for free as soon as its request is answered.
InFlightUntilAnswered(at) == slot[at].published # slot[at].processed

InFlight(at) == slot[at].published # slot[at].reclaimed
Jog(at) == slot[at].control \in JogControls

\* command_request_read: the payload is whole and belongs to the sequence asked.
Readable(at) == slot[at].seq = slot[at].published

\* Fault: a consumed request is taken for a released one.
IdleWhenConsumed == total.published = total.consumed

Idle ==
    /\ total.published = total.consumed
    /\ total.published = total.reclaimed
    /\ \A at \in Slots : ~InFlight(at)

WriterAdmitted ==
    /\ ~session.externalStop /\ session.alive /\ ~session.closed
    /\ ~session.error /\ ~session.traceError /\ ~session.stopRequested

\* Fault: only another shutdown is recognised.
IntentSetOtherOnly == session.intent = 3

IntentSet == session.intent # 0

Maybe(event) == IF event \in Environment THEN BOOLEAN ELSE {FALSE}

\* A lane that is full or mismatched loses its row and latches trace_error.
LoseRow(lost) == session' = [session EXCEPT !.traceError = @ \/ lost]

-----------------------------------------------------------------------------
(* The external writer.  A job enters the gate by CAS, re-reads the session *)
(* flags, does its stores and leaves; a failed CAS or a failed check ends   *)
(* the job.  Only the lock holder runs, so there is one writer at a time.   *)

WriterFrame == <<private, app, o, sources, c>>
Go(pc) == w' = [w EXCEPT !.pc = pc]

Begin(op, seq, at, control) ==
    /\ w.pc = "out"
    /\ w' = [pc |-> "entering", op |-> op, seq |-> seq, slot |-> at, control |-> control]
    /\ UNCHANGED <<WriterFrame, mailbox>>

\* command_free: every submission picks its slot with it.
FirstFree(at) == ~InFlight(at) /\ \A other \in Slots : other < at => InFlight(other)

BeginJob ==
    \/ \E control \in Controls, at \in Slots :
          /\ ~IntentSet /\ total.published < Last /\ FirstFree(at)
          /\ Begin("publish", total.published + 1, at, control)
    \/ \E at \in Slots :
          slot[at].published # 0 /\ Begin("settle", slot[at].published, at, AnyControl)
    \/ Begin("stop", 0, 0, AnyControl)

\* command_writer_enter's CAS; a weak CAS may lose its reservation four times.
EnterGate ==
    /\ w.pc = "entering"
    /\ \/ gate = 0 /\ gate' = 1 /\ Go("entered")
       \/ w' = NoJob /\ UNCHANGED gate
    /\ UNCHANGED <<WriterFrame, session, total, slot>>

AdmitWriter ==
    /\ w.pc = "entered"
    /\ Go(IF WriterAdmitted THEN "inside" ELSE "leaving")
    /\ UNCHANGED <<WriterFrame, mailbox>>

\* Fault: an answered request no longer counts as a conflict.
PublishableAfterAnswer ==
    /\ ~IntentSet /\ ~InFlight(w.slot)
    /\ w.seq = total.published + 1 /\ w.seq <= Last
    /\ \A at \in Slots : (InFlight(at) /\ slot[at].processed # slot[at].published) =>
           Readable(at) /\ ~Conflict(slot[at].control, w.control)

\* The checks of command_publish_request_at under the gate.
Publishable ==
    /\ ~IntentSet /\ ~InFlight(w.slot)
    /\ w.seq = total.published + 1 /\ w.seq <= Last
    /\ \A at \in Slots : InFlight(at) =>
           Readable(at) /\ ~Conflict(slot[at].control, w.control)

\* command_request_store, first half: sequence 0 marks a changing payload.
CheckPublish ==
    /\ w.pc = "inside" /\ w.op = "publish"
    /\ \/ Publishable /\ Go("changing") /\ slot' = [slot EXCEPT ![w.slot].seq = 0]
       \/ ~Publishable /\ Go("leaving") /\ UNCHANGED slot
    /\ UNCHANGED <<WriterFrame, session, gate, total>>

StoreRequest ==
    /\ w.pc = "changing" /\ Go("stored")
    /\ slot' = [slot EXCEPT ![w.slot].seq = w.seq, ![w.slot].control = w.control]
    /\ UNCHANGED <<WriterFrame, session, gate, total>>

ConfirmIntent ==
    /\ w.pc = "stored" /\ Go(IF IntentSet THEN "leaving" ELSE "confirmed")
    /\ UNCHANGED <<WriterFrame, mailbox>>

PublishTotal ==
    /\ w.pc = "confirmed" /\ Go("counted")
    /\ total' = [total EXCEPT !.published = w.seq]
    /\ UNCHANGED <<WriterFrame, session, gate, slot>>

\* The request's "created" tick may lead the consumer's last heartbeat.
PublishSlot ==
    /\ w.pc = "counted" /\ Go("leaving")
    /\ \E early \in BOOLEAN :
          slot' = [slot EXCEPT ![w.slot].published = w.seq, ![w.slot].ahead = early]
    /\ UNCHANGED <<WriterFrame, session, gate, total>>

\* command_publish_settlement: only a sealed transaction is certified.
CheckSealed ==
    /\ w.pc = "inside" /\ w.op = "settle"
    /\ Go(IF slot[w.slot].published = w.seq /\ slot[w.slot].sealed = w.seq
             THEN "certified" ELSE "leaving")
    /\ UNCHANGED <<WriterFrame, mailbox>>

StoreSettled ==
    /\ w.pc = "certified" /\ Go("leaving")
    /\ slot' = [slot EXCEPT ![w.slot].settled = w.seq]
    /\ UNCHANGED <<WriterFrame, session, gate, total>>

\* command_request_stop: an explicit stop only at a reclaimed frontier.
CheckIdle ==
    /\ w.pc = "inside" /\ w.op = "stop"
    /\ Go(IF Idle THEN "quiet" ELSE "leaving")
    /\ UNCHANGED <<WriterFrame, mailbox>>

StoreStop ==
    /\ w.pc = "quiet" /\ Go("leaving")
    /\ session' = [session EXCEPT !.stopSequence = total.published, !.stopRequested = TRUE]
    /\ UNCHANGED <<WriterFrame, gate, total, slot>>

LeaveGate ==
    /\ w.pc = "leaving" /\ w' = NoJob /\ gate' = 0
    /\ UNCHANGED <<WriterFrame, session, total, slot>>

\* The bridge process is killed inside the gate: the word stays 1, so no later
\* writer gets in either.
WriterDies ==
    /\ "writer_dies" \in Environment
    /\ w.pc \notin {"out", "entering", "dead"}
    /\ w' = [NoJob EXCEPT !.pc = "dead"]
    /\ UNCHANGED <<WriterFrame, mailbox>>

Writer ==
    \/ BeginJob \/ EnterGate \/ AdmitWriter
    \/ CheckPublish \/ StoreRequest \/ ConfirmIntent \/ PublishTotal \/ PublishSlot
    \/ CheckSealed \/ StoreSettled \/ CheckIdle \/ StoreStop
    \/ LeaveGate \/ WriterDies

-----------------------------------------------------------------------------
(* The UI owner: observer_hook's COMMAND_DRAIN path, service and service_one *)
(* with its jog twin.  A drain visits the ordinary slots once from a rotating *)
(* cursor, then the relative ones in publication order.                      *)

OwnerFrame == <<gate, violation, lane, w, sources, c>>
Step(pc) == o' = [o EXCEPT !.pc = pc]
Ticket == slot[o.serving].published

\* Owner hooks do not nest: a drain starts outside every other UI hook.
DrainCheck ==
    /\ o.pc = "out" /\ h["ui"].pc = "out" /\ running
    /\ Step("checked")
    /\ UNCHANGED <<OwnerFrame, session, total, slot, running, inHook, started, active, app>>

DrainEnter ==
    /\ o.pc = "checked" /\ Step("hooked") /\ inHook' = TRUE
    /\ UNCHANGED <<OwnerFrame, session, total, slot, running, started, active, app>>

DrainRecheck ==
    /\ o.pc = "hooked" /\ Step(IF running THEN "service" ELSE "leave")
    /\ UNCHANGED <<OwnerFrame, session, total, slot, running, inHook, started, active, app>>

\* The consumer has asked for the meters to be closed.
MetersClosing == c.meterPolls > 0

ServiceStart ==
    /\ o.pc = "service"
    /\ IF MetersClosing \/ session.stopRequested \/ IntentSet
          THEN Step("leave")
          ELSE o' = [o EXCEPT !.pc = "ordinary", !.cursor = (@ + 1) % SlotCount]
    /\ UNCHANGED <<OwnerFrame, session, total, slot, running, inHook, started, active, app>>

Waiting(at) ==
    /\ slot[at].published # 0 /\ InFlight(at)
    /\ slot[at].processed # slot[at].published

Older(other, at) ==
    slot[other].published # 0 /\ slot[other].published < slot[at].published

\* Fault: a request waits for every older one, not only for conflicting ones.
HeldByAnyOlder(at) ==
    \E other \in Slots \ {at} : Older(other, at) /\ InFlight(other)

\* service_one holds a request behind an older one on the same control.
HeldByControl(at) ==
    \E other \in Slots \ {at} :
        /\ Older(other, at) /\ InFlight(other)
        /\ Readable(other) => Conflict(slot[other].control, slot[at].control)

\* Fault: a jog waits only until the older one is processed.
HeldUntilProcessed(at) ==
    \E other \in Slots \ {at} :
        /\ Older(other, at) /\ slot[other].processed # slot[other].published
        /\ Readable(other) /\ Jog(other)

\* jog_service holds a jog until the older jog's native callback is done.
HeldByJog(at) ==
    \E other \in Slots \ {at} :
        /\ Older(other, at) /\ slot[other].done # slot[other].published
        /\ Readable(other) /\ Jog(other)

\* What service_one, resolve and the two scans can wait for.
Held(at) ==
    \/ IntentSet \/ slot[at].ahead
    \/ IF Jog(at) THEN HeldByJog(at) ELSE HeldByControl(at)

\* Copy the request into `accepted' and reset the slot's lanes, then either
\* refuse it (`why' of resolve) or mark it active and go on to the validation.
Accept(at, visit) ==
    /\ started' = [started EXCEPT ![at] = 0]
    /\ \E refuse \in BOOLEAN :
          /\ o' = [o EXCEPT !.pc = IF refuse THEN "process" ELSE "validate",
                            !.serving = at, !.visit = visit]
          /\ slot' = [slot EXCEPT ![at].rejected = refuse, ![at].rows = 0]
          /\ active' = IF refuse THEN active
                       ELSE [active EXCEPT ![at] = slot[at].published]
          /\ \E lost \in Maybe("trace_loss") : LoseRow(lost /\ ~refuse)

Turn == (o.cursor + SlotCount - 1 + o.visit) % SlotCount

\* One turn of service's first loop.
ServeOrdinary ==
    /\ o.pc = "ordinary"
    /\ \/ /\ o.visit < SlotCount /\ running /\ ~session.traceError
          /\ Waiting(Turn) /\ Readable(Turn) /\ ~Jog(Turn) /\ ~Held(Turn)
          /\ Accept(Turn, o.visit + 1)
       \/ /\ \/ /\ o.visit = SlotCount /\ Step("ordered")
             \/ /\ o.visit < SlotCount /\ ~(running /\ ~session.traceError)
                /\ Step("leave")
             \/ /\ o.visit < SlotCount /\ running /\ ~session.traceError
                /\ ~(Waiting(Turn) /\ Readable(Turn) /\ ~Jog(Turn) /\ ~Held(Turn))
                /\ o' = [o EXCEPT !.visit = @ + 1]
          /\ UNCHANGED <<session, slot, started, active>>
    /\ UNCHANGED <<OwnerFrame, total, running, inHook, app>>

\* One turn of its second loop: it stops at the first jog it cannot process.
WaitingJogs == {at \in Slots : Waiting(at) /\ Readable(at) /\ Jog(at)}
FirstJog(at) ==
    /\ at \in WaitingJogs
    /\ \A other \in WaitingJogs : slot[at].published <= slot[other].published

ServeOrdered ==
    /\ o.pc = "ordered"
    /\ \/ \E at \in Slots :
             /\ FirstJog(at) /\ running /\ ~session.traceError /\ ~Held(at)
             /\ Accept(at, o.visit)
       \/ /\ ~running \/ session.traceError \/ \A at \in Slots : FirstJog(at) => Held(at)
          /\ Step("leave") /\ UNCHANGED <<session, slot, started, active>>
    /\ UNCHANGED <<OwnerFrame, total, running, inHook, app>>

\* jog_service does not look at the New-Project intent again here.
Stopping ==
    \/ ~running \/ violation \/ session.error \/ session.traceError
    \/ IntentSet /\ ~Jog(o.serving)

\* The last checks before the native call.  A failure here refuses the request
\* and, for everything but a jog, also fails the whole session.
Validate ==
    /\ o.pc = "validate"
    /\ \/ /\ ~Stopping /\ Step("call")
          /\ started' = [started EXCEPT ![o.serving] = Ticket]
          /\ UNCHANGED <<slot, active>>
       \/ /\ o' = [o EXCEPT !.pc = "process", !.faulted = ~Jog(o.serving)]
          /\ slot' = [slot EXCEPT ![o.serving].rejected = TRUE]
          /\ active' = [active EXCEPT ![o.serving] = 0]
          /\ UNCHANGED started
    /\ UNCHANGED <<OwnerFrame, session, total, running, inHook, app>>

\* The native call.  A synchronous control completes inside it, a queued one is
\* pushed onto the application's queue.  A jog can come back without a proof that
\* it was queued: it is refused, and the session fails if a payload was seen.
Call ==
    /\ o.pc = "call"
    /\ \/ /\ slot[o.serving].control \in SyncControls
          /\ app' = [app EXCEPT !.calls[Ticket] = @ + 1]
          /\ active' = [active EXCEPT ![o.serving] = 0]
          /\ slot' = [slot EXCEPT ![o.serving].done = Ticket]
          /\ Step("return")
       \/ /\ slot[o.serving].control \notin SyncControls
          /\ app' = [app EXCEPT !.calls[Ticket] = @ + 1, !.queue = Append(@, Ticket)]
          /\ Step("return") /\ UNCHANGED <<active, slot>>
       \/ /\ Jog(o.serving)
          /\ \E queued \in BOOLEAN :
                /\ app' = [app EXCEPT !.calls[Ticket] = @ + 1,
                              !.queue = IF queued THEN Append(@, Ticket) ELSE @]
                /\ o' = [o EXCEPT !.pc = "process", !.faulted = queued]
          /\ active' = [active EXCEPT ![o.serving] = 0]
          /\ slot' = [slot EXCEPT ![o.serving].rejected = TRUE]
    /\ UNCHANGED <<OwnerFrame, session, total, running, inHook, started>>

Return ==
    /\ o.pc = "return" /\ Step("process")
    /\ slot' = [slot EXCEPT ![o.serving].dispatched = Ticket, ![o.serving].returned = Ticket]
    /\ \E lost \in Maybe("trace_loss") : LoseRow(lost)
    /\ UNCHANGED <<OwnerFrame, total, running, inHook, started, active, app>>

Process ==
    /\ o.pc = "process" /\ Step("consume")
    /\ slot' = [slot EXCEPT ![o.serving].processed = Ticket]
    /\ UNCHANGED <<OwnerFrame, session, total, running, inHook, started, active, app>>

\* consumed+1, then command_fail for a final-validation refusal.
Consume ==
    /\ o.pc = "consume"
    /\ total' = [total EXCEPT !.consumed = @ + 1]
    /\ o' = [o EXCEPT !.pc = IF Jog(o.serving) THEN "ordered" ELSE "ordinary",
                      !.serving = 0, !.faulted = FALSE]
    /\ session' = [session EXCEPT !.error = @ \/ o.faulted]
    /\ running' = (running /\ ~o.faulted)
    /\ UNCHANGED <<OwnerFrame, slot, inHook, started, active, app>>

DrainLeave ==
    /\ o.pc = "leave" /\ inHook' = FALSE
    /\ o' = [o EXCEPT !.pc = "out", !.visit = 0]
    /\ UNCHANGED <<OwnerFrame, session, total, slot, running, started, active, app>>

Drain ==
    \/ DrainCheck \/ DrainEnter \/ DrainRecheck \/ ServiceStart
    \/ ServeOrdinary \/ ServeOrdered \/ Validate \/ Call \/ Return
    \/ Process \/ Consume \/ DrainLeave

-----------------------------------------------------------------------------
(* Source hooks.  trace_enter marks the lane, looks at running again and    *)
(* only then lets the hook act; trace_leave clears the mark.  "ui" meets its *)
(* seams between drains: New Project, or a value the user commits.  "audio"  *)
(* meets New Project too, and runs every queued native call through          *)
(* queue_point's enter, body and done seams.                                 *)

HookFrame == <<gate, total, inHook, started, w, o, c>>
Move(t, pc) == h' = [h EXCEPT ![t].pc = pc]

HookStart(t) ==
    /\ h[t].pc = "out" /\ running
    /\ \/ /\ "new_project" \in Environment
          /\ IF t = "ui" THEN o.pc = "out" ELSE item.seq = 0
          /\ h' = [h EXCEPT ![t] = [pc |-> "checked", seam |-> "new_project"]]
       \/ /\ "commit" \in Environment /\ t = "ui" /\ o.pc = "out"
          /\ h' = [h EXCEPT ![t] = [pc |-> "checked", seam |-> "commit"]]
       \/ t = "audio" /\ item.seq # 0 /\ Move(t, "checked")
    /\ UNCHANGED <<HookFrame, session, slot, running, violation, lane, active, app, item, watched>>

HookMark(t) ==
    /\ h[t].pc = "checked" /\ Move(t, "marked")
    /\ lane' = [lane EXCEPT ![t] = TRUE]
    /\ UNCHANGED <<HookFrame, session, slot, running, violation, active, app, item, watched>>

\* The association table is copied from active_request on admission.
HookRecheck(t) ==
    /\ h[t].pc = "marked" /\ Move(t, IF running THEN "inside" ELSE "leave")
    /\ watched' = IF running /\ h[t].seam = "commit"
                     THEN {active[at] : at \in Slots} \ {0} ELSE watched
    /\ UNCHANGED <<HookFrame, session, slot, running, violation, lane, active, app, item>>

\* Site 158: only the owner's accepted confirmation on a healthy session is a
\* New-Project intent (1), any other way here is some other shutdown (3).
NewProject(t) ==
    /\ h[t].pc = "inside" /\ h[t].seam = "new_project" /\ Move(t, "leave")
    /\ \/ session' = [session EXCEPT !.intent = 3]
       \/ /\ t = "ui" /\ session.intent = 0
          /\ ~session.error /\ ~session.traceError /\ ~session.stopRequested
          /\ session' = [session EXCEPT !.intent = 1]
    /\ UNCHANGED <<HookFrame, slot, running, violation, lane, active, app, item, watched>>

HasSlot(seq) == \E at \in Slots : slot[at].published = seq
SlotOf(seq)  == CHOOSE at \in Slots : slot[at].published = seq

\* A commit by someone else is reported to every request still open when the
\* hook was admitted; a request that has lost its slot is a trace fault.
CommitEvent ==
    /\ h["ui"].pc = "inside" /\ h["ui"].seam = "commit"
    /\ \/ watched = {} /\ Move("ui", "leave") /\ UNCHANGED <<session, slot, watched>>
       \/ \E seq \in watched :
             /\ IF HasSlot(seq) /\ slot[SlotOf(seq)].rows < EventRows
                   THEN /\ slot' = [slot EXCEPT ![SlotOf(seq)].rows = @ + 1]
                        /\ UNCHANGED session
                   ELSE LoseRow(TRUE) /\ UNCHANGED slot
             /\ watched' = watched \ {seq} /\ UNCHANGED h
    /\ UNCHANGED <<HookFrame, running, violation, lane, active, app, item>>

\* The application takes the next queued call.
TakeItem ==
    /\ item.seq = 0 /\ app.queue # <<>> /\ h["audio"].pc = "out"
    /\ item' = [seq |-> Head(app.queue), phase |-> 0]
    /\ app' = [app EXCEPT !.queue = Tail(@)]
    /\ h' = [h EXCEPT !["audio"].seam = "enter"]
    /\ UNCHANGED <<HookFrame, session, slot, running, violation, lane, active, watched>>

\* queue_point at M_QUEUE_ENTER and M_COMMAND_BODY: only a call of a request
\* still marked active is followed.
Followed == active[SlotOf(item.seq)] = item.seq

QueuePoint ==
    /\ h["audio"].pc = "inside" /\ h["audio"].seam \in {"enter", "body"}
    /\ item' = [item EXCEPT !.phase = IF Followed THEN @ + 1 ELSE @]
    /\ \E lost \in Maybe("trace_loss") : LoseRow(lost)
    /\ Move("audio", "leave")
    /\ UNCHANGED <<HookFrame, slot, running, violation, lane, active, app, watched>>

\* M_QUEUE_DONE: active_request first, the public receipt after it.
QueueDone ==
    /\ h["audio"].pc = "inside" /\ h["audio"].seam = "done"
    /\ \/ /\ item.phase = 2 /\ Followed
          /\ active' = [active EXCEPT ![SlotOf(item.seq)] = 0]
          /\ \E lost \in Maybe("trace_loss") : LoseRow(lost)
          /\ Move("audio", "cleared")
       \/ /\ ~(item.phase = 2 /\ Followed)
          /\ Move("audio", "leave") /\ UNCHANGED <<session, active>>
    /\ UNCHANGED <<HookFrame, slot, running, violation, lane, app, item, watched>>

StoreDone ==
    /\ h["audio"].pc = "cleared" /\ Move("audio", "leave")
    /\ slot' = [slot EXCEPT ![SlotOf(item.seq)].done = item.seq]
    /\ UNCHANGED <<HookFrame, session, running, violation, lane, active, app, item, watched>>

\* After a seam of the current call comes its next one, or no call at all.
NextSeam ==
    IF item.seq = 0 \/ h["audio"].seam = "done" THEN "new_project"
    ELSE IF h["audio"].seam = "enter" THEN "body" ELSE "done"
Advance ==
    item' = IF h["audio"].seam = "done" THEN NoItem ELSE item

HookLeave(t) ==
    /\ h[t].pc = "leave" /\ lane' = [lane EXCEPT ![t] = FALSE]
    /\ IF t = "audio"
          THEN h' = [h EXCEPT ![t] = [pc |-> "out", seam |-> NextSeam]] /\ Advance
          ELSE h' = [h EXCEPT ![t] = [pc |-> "out", seam |-> "new_project"]]
               /\ UNCHANGED item
    /\ UNCHANGED <<HookFrame, session, slot, running, violation, active, app, watched>>

\* With running clear a seam returns at once and the application goes on.
HookSkip ==
    /\ h["audio"].pc = "out" /\ item.seq # 0 /\ ~running
    /\ h' = [h EXCEPT !["audio"].seam = NextSeam] /\ Advance
    /\ UNCHANGED <<HookFrame, session, slot, running, violation, lane, active, app, watched>>

\* An owner-only seam met on another thread.
ForeignOwner ==
    /\ "foreign_owner" \in Environment /\ h["audio"].pc = "out"
    /\ violation' = TRUE /\ running' = FALSE
    /\ UNCHANGED <<HookFrame, session, slot, lane, active, app, sources>>

Source ==
    \/ \E t \in Threads :
          HookStart(t) \/ HookMark(t) \/ HookRecheck(t) \/ NewProject(t) \/ HookLeave(t)
    \/ CommitEvent \/ TakeItem \/ QueuePoint \/ QueueDone \/ StoreDone
    \/ HookSkip \/ ForeignOwner

-----------------------------------------------------------------------------
(* The consumer thread: command_consume_tick, command_retire and, once      *)
(* running is clear, command_finalize with its bounded number of attempts.  *)

ConsumerFrame == <<inHook, violation, lane, started, active, app, w, o, sources>>
To(pc) == c' = [c EXCEPT !.pc = pc]

Frontier == session.stopSequence = total.published /\ Idle

\* A tick samples the clock, closes on any error, and turns an explicit stop or
\* the end of a finite window into a close once the meters are closed or their
\* polls are used up.
Tick ==
    /\ c.pc = "sleep"
    /\ \E clockLost \in Maybe("clock"), over \in Maybe("window"), metersOpen \in BOOLEAN :
          LET orderly == session.stopRequested \/ over
              polls   == IF orderly /\ metersOpen /\ c.meterPolls < MeterPolls
                            THEN c.meterPolls + 1 ELSE c.meterPolls
              expired == orderly /\ metersOpen /\ polls = MeterPolls
              closing == \/ session.error \/ clockLost \/ expired
                         \/ orderly /\ ~metersOpen
          IN  /\ slot' = IF clockLost THEN slot
                         ELSE [at \in Slots |-> [slot[at] EXCEPT !.ahead = FALSE]]
              /\ session' = [session EXCEPT
                                !.error = @ \/ clockLost \/ expired
                                            \/ (session.stopRequested /\ ~Frontier),
                                !.externalStop = @ \/ closing]
              /\ running' = (running /\ ~closing)
              /\ c' = [c EXCEPT !.pc = IF running' THEN "retire" ELSE "finalize",
                                !.sweep = 0, !.meterPolls = polls]
    /\ UNCHANGED <<ConsumerFrame, gate, total>>

RetireFrame == <<ConsumerFrame, session, gate, running>>
Skip == c' = [c EXCEPT !.pc = "retire", !.sweep = @ + 1]

\* command_retire looks at slot `sweep': processed, not reclaimed, and its own
\* active mark gone.  A pass made by finalize ends in its report.
RetireScan ==
    /\ c.pc = "retire"
    /\ IF c.sweep = SlotCount
          THEN c' = [c EXCEPT !.sweep = 0, !.pc = IF gate = 2 THEN "report"
                                                  ELSE IF running THEN "sleep"
                                                  ELSE "finalize"]
       ELSE IF /\ InFlight(c.sweep) /\ active[c.sweep] = 0
               /\ slot[c.sweep].processed = slot[c.sweep].published
          THEN To("drained")
       ELSE Skip
    /\ UNCHANGED <<RetireFrame, total, slot>>

\* transaction_drained: the UI owner's flight, then every lane.
OwnerOut == ~inHook
LanesOut == \A t \in Threads : ~lane[t]

RetireDrained ==
    /\ \/ c.pc = "drained" /\ IF OwnerOut THEN To("lanes") ELSE Skip
       \/ c.pc = "lanes" /\ IF LanesOut THEN To("seal") ELSE Skip
    /\ UNCHANGED <<RetireFrame, total, slot>>

\* Fault: every rejection is taken for one made before the call.
RefusedEvenIfStarted(at) == slot[at].rejected

\* Refused before any native call: storage only, no receipt is made up.
Refused(at) ==
    /\ slot[at].rejected
    /\ slot[at].dispatched # slot[at].published /\ started[at] # slot[at].published

Completed(at) ==
    slot[at].returned = slot[at].published /\ slot[at].done = slot[at].published

RetireSeal ==
    /\ c.pc = "seal"
    /\ LET seq == slot[c.sweep].published
           certifiable == ~Refused(c.sweep) /\ running /\ Completed(c.sweep)
       IN  /\ slot' = IF certifiable THEN [slot EXCEPT ![c.sweep].sealed = seq] ELSE slot
           /\ IF Refused(c.sweep) \/ (certifiable /\ slot[c.sweep].settled = seq)
                 THEN To("count") ELSE Skip
    /\ UNCHANGED <<RetireFrame, total>>

RetireCount ==
    /\ c.pc = "count" /\ To("release")
    /\ total' = [total EXCEPT !.reclaimed = @ + 1]
    /\ UNCHANGED <<RetireFrame, slot>>

\* "Last old-generation write": the client may reuse the slot from here on.
RetireRelease ==
    /\ c.pc = "release" /\ Skip
    /\ slot' = [slot EXCEPT ![c.sweep].reclaimed = slot[c.sweep].published]
    /\ UNCHANGED <<RetireFrame, total>>

FinalizeFrame == <<ConsumerFrame, total, slot, running>>

\* Faults: the poll count has no bound, or is not advanced.
NotYetUnbounded ==
    c' = [c EXCEPT !.pc = "sleep", !.closePolls = @ + 1] /\ UNCHANGED session
NotYetUncounted ==
    c' = [c EXCEPT !.pc = "sleep"] /\ UNCHANGED session

\* A failed check costs one poll; the last one inhibits output without
\* claiming an immutable state.
NotYet ==
    IF c.closePolls + 1 < ClosePolls
       THEN c' = [c EXCEPT !.pc = "sleep", !.closePolls = @ + 1] /\ UNCHANGED session
       ELSE /\ c' = [c EXCEPT !.pc = "failed", !.closePolls = ClosePolls]
            /\ session' = [session EXCEPT !.error = TRUE, !.alive = FALSE]

\* command_quiescent, in the order of its loads.
FinalizeOwner ==
    /\ c.pc = "finalize"
    /\ IF OwnerOut THEN To("shut") /\ UNCHANGED session ELSE NotYet
    /\ UNCHANGED <<FinalizeFrame, gate>>

FinalizeStop ==
    /\ c.pc = "shut" /\ To("gate")
    /\ session' = [session EXCEPT !.externalStop = TRUE]
    /\ UNCHANGED <<FinalizeFrame, gate>>

\* Fault: the gate is not waited for.
WriterIgnored == TRUE

WriterOut == gate # 1

\* command_writer_shut's permanent CAS 0 -> 2, which may lose its reservation.
FinalizeGate ==
    /\ c.pc = "gate"
    /\ \/ WriterOut /\ To("sources") /\ gate' = 2 /\ UNCHANGED session
       \/ gate # 2 /\ NotYet /\ UNCHANGED gate
    /\ UNCHANGED FinalizeFrame

FinalizeSources ==
    /\ c.pc = "sources"
    /\ IF LanesOut THEN To("retire") /\ UNCHANGED session ELSE NotYet
    /\ UNCHANGED <<FinalizeFrame, gate>>

\* An accepted publication stranded by the close is reported as an error,
\* and so is a meter still holding its token.
FinalizeReport ==
    /\ c.pc = "report" /\ To("close")
    /\ \E held \in BOOLEAN :
          session' = [session EXCEPT !.alive = FALSE,
                        !.error = @ \/ violation \/ ((~Idle \/ held) /\ ~session.traceError)]
    /\ UNCHANGED <<FinalizeFrame, gate>>

FinalizeClose ==
    /\ c.pc = "close" /\ To("closed")
    /\ session' = [session EXCEPT !.closed = TRUE]
    /\ UNCHANGED <<FinalizeFrame, gate>>

Consumer ==
    \/ Tick \/ RetireScan \/ RetireDrained \/ RetireSeal \/ RetireCount \/ RetireRelease
    \/ FinalizeOwner \/ FinalizeStop \/ FinalizeGate \/ FinalizeSources
    \/ FinalizeReport \/ FinalizeClose

\* finish(): the application exits normally and waits for the consumer.
Exit ==
    /\ "exit" \in Environment
    /\ running' = FALSE /\ session' = [session EXCEPT !.externalStop = TRUE]
    /\ UNCHANGED <<gate, total, slot, ConsumerFrame, c>>

-----------------------------------------------------------------------------

Next == Writer \/ Drain \/ Source \/ Consumer \/ Exit

Spec == Init /\ [][Next]_vars

\* Every thread that has a step to take takes it in the end: the consumer sleeps
\* 10 ms between polls, the application keeps draining its queues and its UI.
FairSpec == Spec /\ WF_vars(Consumer) /\ WF_vars(Drain) /\ WF_vars(Source)

-----------------------------------------------------------------------------
(* Safety *)

\* command_publish_request_at scans every unreclaimed slot: two requests for the
\* same control of the same owner are never in flight together, even while one
\* is being retired or a writer has just died.
OneFlightPerControl ==
    \A a, b \in Slots :
        (a # b /\ InFlight(a) /\ InFlight(b) /\ slot[a].control = slot[b].control) => Jog(a)

\* command_request_read never fails for a published, unreclaimed slot, so
\* service_one's C_FORMAT exit is unreachable: a payload only changes while its
\* slot is free.
RequestIntact ==
    \A at \in Slots : slot[at].published # slot[at].reclaimed => Readable(at)

\* What a receipt in a slot says has happened: certified only if sealed, sealed
\* only after the one native call both returned and completed, and a slot handed
\* back uncertified made no native call at all.  No published request ever reaches
\* its native setter twice.
NoFabricatedReceipt ==
    /\ \A n \in Tickets : app.calls[n] <= 1
    /\ \A at \in Slots :
          LET n == slot[at].published
          IN  n # 0 =>
                /\ slot[at].settled = n => slot[at].sealed = n
                /\ slot[at].sealed = n =>
                      slot[at].done = n /\ slot[at].returned = n /\ app.calls[n] = 1
                /\ slot[at].reclaimed = n => slot[at].settled = n \/ app.calls[n] = 0

\* command_request_stop: from the store of stop_requested on, the published
\* frontier stays where it was, every slot is reclaimed and the application
\* holds none of the service's calls.
StopIsQuiet ==
    session.stopRequested =>
        /\ total.published = session.stopSequence
        /\ \A at \in Slots : ~InFlight(at)
        /\ app.queue = <<>> /\ item = NoItem

\* A session that closed without an error left no accepted publication behind
\* ("publication-before-stop cannot masquerade as" a clean close).
CleanCloseIsComplete ==
    (session.closed /\ ~session.error /\ ~session.traceError) =>
        /\ \A at \in Slots : ~InFlight(at)
        /\ total.published = total.reclaimed

\* "every shared byte immutable after closed": no writer, drain, source hook or
\* consumer step changes the mailbox once closed is set.
ClosedIsFinal == [][session.closed => UNCHANGED mailbox]_vars

\* After the owner has accepted a New Project no native call is made.
NewProjectBlocksCalls == [][session.intent = 1 => app'.calls = app.calls]_vars

\* jog_service: a relative packet is dispatched only when every older packet still
\* in flight has had its native callback completed.
JogsInOrder ==
    [][\A at, other \in Slots :
          (/\ app'.calls[slot[at].published] # app.calls[slot[at].published]
           /\ Jog(at) /\ Jog(other) /\ InFlight(other) /\ Older(other, at))
              => slot[other].done = slot[other].published]_vars

\* mirror-input-core.h: "A refused or suppressed request loses its own detents, as
\* the jog and global lanes do; the ones still banked here are unaffected."  So a
\* jog may only be held behind a jog that is itself still in flight.
RefusedJogLosesOnlyItself ==
    \A at \in Slots :
        (Waiting(at) /\ Jog(at) /\ HeldByJog(at))
            => \E other \in Slots \ {at} : InFlight(other) /\ Older(other, at)

-----------------------------------------------------------------------------
(* Liveness *)

SessionEnding == ~running \/ session.traceError \/ IntentSet \/ session.stopRequested

\* consume(): once running is clear the consumer ends, closed or failed, within
\* its bounded polls, whatever the writer, the drain and the sources do.
ClosingEnds == (~running) ~> (c.pc \in {"closed", "failed"})

\* Every published request is answered (processed) unless the session ends: a
\* drain passes no ordinary slot over for ever.
RequestsAreAnswered ==
    \A at \in Slots :
        (slot[at].processed # slot[at].published)
            ~> (slot[at].processed = slot[at].published \/ SessionEnding)

=============================================================================
