----------------------- MODULE CommandMailbox_proofs -----------------------
(***************************************************************************)
(* Proofs about CommandMailbox for any number of slots, controls, polls    *)
(* and sequence numbers: its type invariant, that a payload stays whole    *)
(* while its slot is in flight, that one control has one request in        *)
(* flight, and that a closing mailbox is closed in order.                  *)
(*                                                                         *)
(* The second part is about the receipts of a slot: no receipt is made up  *)
(* and no native call is made twice, a stop finds nothing pending, and     *)
(* jogs are dispatched in order. The argument follows one sequence number  *)
(* from its publication to the release of its slot: while the number waits *)
(* it was never called; once called it is started, and its queued call is  *)
(* the application's only one; and the slot is released only when the call *)
(* is no longer pending.                                                   *)
(***************************************************************************)
EXTENDS CommandMailbox, SequenceTheorems, TLAPS

\* Inside a pass of command_retire the consumer looks at an existing slot.
SweepInRange ==
    c.pc \in {"drained", "lanes", "seal", "count", "release"} => c.sweep \in Slots

\* A queued call passes its seams in order, each at most once: its phase counts
\* no further than the seams behind it.
PhaseInRange ==
    /\ (h["audio"].seam = "enter" /\ h["audio"].pc # "leave") => item.phase = 0
    /\ h["audio"].seam = "enter" => item.phase <= 1
    /\ (h["audio"].seam = "body" /\ h["audio"].pc # "leave") => item.phase <= 1

TypeInv == TypeOK /\ SweepInRange /\ PhaseInRange

\* The constants one by one, as the provers want them.
LEMMA Sizes ==
    /\ SlotCount \in Nat \ {0} /\ Last \in Nat \ {0}
    /\ ClosePolls \in Nat \ {0} /\ MeterPolls \in Nat \ {0} /\ EventRows \in Nat
BY SizeAssumption

\* The turn of a drain is a slot, whatever the cursor and the visit are.
LEMMA ModuloInRange ==
    ASSUME NEW x \in Int
    PROVE  x % SlotCount \in Slots
BY Sizes DEF Slots

\* A control exists, so the record of an idle writer and of an empty slot is typed.
LEMMA AnyControlTyped == AnyControl \in Controls
BY ControlAssumption DEF AnyControl, Controls

\* startup leaves a typed mailbox.
LEMMA InitTyped == Init => TypeInv
<1> SUFFICES ASSUME Init PROVE TypeInv
  OBVIOUS
<1> USE Sizes, AnyControlTyped DEF Init, Slots, Tickets
<1>1. session \in Sessions /\ gate \in 0 .. 2 /\ total \in Totals
  BY DEF Sessions, Totals
<1>2. slot \in [Slots -> SlotWords]
  BY DEF SlotWords
<1>3. /\ running \in BOOLEAN /\ inHook \in BOOLEAN /\ violation \in BOOLEAN
      /\ lane \in [Threads -> BOOLEAN]
  BY Zenon
<1>8. started \in [Slots -> Tickets] /\ active \in [Slots -> Tickets]
  OBVIOUS
<1>4. app \in Apps 
  BY DEF Apps
<1>5. w \in Jobs /\ o \in Drains
  BY DEF Jobs, Drains, NoJob, WriterPcs, OwnerPcs
<1>6. h \in [Threads -> Hooks] /\ item \in Items /\ watched \subseteq Tickets
  BY DEF Hooks, HookPcs, Seams, Items, NoItem
<1>7. c \in Consumers /\ SweepInRange /\ PhaseInRange
  BY DEF Consumers, ClosePcs, SweepInRange, PhaseInRange, NoItem, Threads
<1> QED BY <1>1, <1>2, <1>3, <1>4, <1>5, <1>6, <1>7, <1>8 DEF TypeInv, TypeOK

-----------------------------------------------------------------------------
(* One lemma per thread: its steps keep the types of what they write.       *)

MailboxTyped ==
    /\ session \in Sessions /\ gate \in 0 .. 2 /\ total \in Totals
    /\ slot \in [Slots -> SlotWords]

\* The external writer writes the mailbox and its own job.
LEMMA WriterTyped == TypeInv /\ Writer => TypeInv'
<1> SUFFICES ASSUME TypeInv, Writer PROVE TypeInv'
  OBVIOUS
<1>a. UNCHANGED <<running, inHook, violation, lane, started, active, app, o, h, item, watched, c>>
  BY DEF Writer, BeginJob, Begin, EnterGate, AdmitWriter, CheckPublish, StoreRequest,
     ConfirmIntent, PublishTotal, PublishSlot, CheckSealed, StoreSettled, CheckIdle,
     StoreStop, LeaveGate, WriterDies, WriterFrame, private, sources
<1>0. MailboxTyped /\ w \in Jobs
  BY DEF TypeInv, TypeOK, MailboxTyped
<1>1. MailboxTyped' /\ w' \in Jobs
  <2> USE <1>0, Sizes DEF MailboxTyped, Go, Jobs, WriterPcs
  <2>1. CASE BeginJob
    <3>1. UNCHANGED <<session, gate, total, slot>>
      BY <2>1 DEF BeginJob, Begin, mailbox
    <3>2. w' \in Jobs
      <4> DEFINE Job(op, seq, at, control) ==
            [pc |-> "entering", op |-> op, seq |-> seq, slot |-> at, control |-> control]
      <4>1. CASE \E control \in Controls, at \in Slots :
                    total.published < Last /\ w' = Job("publish", total.published + 1, at, control)
        BY <4>1 DEF Tickets, Totals
      <4>2. CASE \E at \in Slots : w' = Job("settle", slot[at].published, at, AnyControl)
        BY <4>2, AnyControlTyped DEF SlotWords
      <4>3. CASE w' = Job("stop", 0, 0, AnyControl)
        BY <4>3, AnyControlTyped DEF Slots, Tickets
      <4> QED BY <2>1, <4>1, <4>2, <4>3 DEF BeginJob, Begin
    <3> QED BY <3>1, <3>2
  <2>2. CASE EnterGate
    BY <2>2, AnyControlTyped DEF EnterGate, NoJob, Slots, Tickets
  <2>3. CASE AdmitWriter
    BY <2>3 DEF AdmitWriter, mailbox
  <2>4. CASE CheckPublish
    BY <2>4 DEF CheckPublish, SlotWords, Tickets
  <2>5. CASE StoreRequest
    BY <2>5 DEF StoreRequest, SlotWords
  <2>6. CASE ConfirmIntent
    BY <2>6 DEF ConfirmIntent, mailbox
  <2>7. CASE PublishTotal
    BY <2>7 DEF PublishTotal, Totals
  <2>8. CASE PublishSlot
    BY <2>8 DEF PublishSlot, SlotWords
  <2>9. CASE CheckSealed
    BY <2>9 DEF CheckSealed, mailbox
  <2>10. CASE StoreSettled
    BY <2>10 DEF StoreSettled, SlotWords
  <2>11. CASE CheckIdle
    BY <2>11 DEF CheckIdle, mailbox
  <2>12. CASE StoreStop
    BY <2>12 DEF StoreStop, Sessions, Totals
  <2>13. CASE LeaveGate
    BY <2>13, AnyControlTyped DEF LeaveGate, NoJob, Slots, Tickets
  <2>14. CASE WriterDies
    BY <2>14, AnyControlTyped DEF WriterDies, NoJob, mailbox, Slots, Tickets
  <2> QED
    BY <2>1, <2>2, <2>3, <2>4, <2>5, <2>6, <2>7, <2>8, <2>9, <2>10, <2>11, <2>12, <2>13, <2>14 DEF Writer
<1> QED
  BY <1>a, <1>1 DEF TypeInv, TypeOK, SweepInRange, PhaseInRange, MailboxTyped

PrivateTyped ==
    /\ running \in BOOLEAN /\ inHook \in BOOLEAN /\ violation \in BOOLEAN
    /\ lane \in [Threads -> BOOLEAN]
    /\ started \in [Slots -> Tickets] /\ active \in [Slots -> Tickets]

\* One slot changes, to a typed slot: the shape of every store into the array.
LEMMA StoreTyped ==
    ASSUME slot \in [Slots -> SlotWords], NEW at \in Slots, NEW word \in SlotWords,
           slot' = [slot EXCEPT ![at] = word]
    PROVE  slot' \in [Slots -> SlotWords]
OBVIOUS

\* Accepting a request stays inside the slots and writes only tickets.
LEMMA AcceptTyped ==
    ASSUME TypeInv, NEW at \in Slots, NEW visit \in 0 .. SlotCount, Accept(at, visit)
    PROVE  /\ session' \in Sessions /\ slot' \in [Slots -> SlotWords]
           /\ started' \in [Slots -> Tickets] /\ active' \in [Slots -> Tickets]
           /\ o' \in Drains
<1>0. /\ session \in Sessions /\ slot \in [Slots -> SlotWords] /\ o \in Drains
      /\ started \in [Slots -> Tickets] /\ active \in [Slots -> Tickets]
  BY DEF TypeInv, TypeOK
<1>1. session' \in Sessions
  <2>1. PICK lost \in BOOLEAN : LoseRow(lost)
    BY DEF Accept
  <2> QED BY <1>0, <2>1 DEF LoseRow, Sessions
<1>2. slot' \in [Slots -> SlotWords]
  <2>1. PICK refuse \in BOOLEAN : slot' = [slot EXCEPT ![at].rejected = refuse, ![at].rows = 0]
    BY DEF Accept
  <2> DEFINE word == [slot[at] EXCEPT !.rejected = refuse, !.rows = 0]
  <2>2. word \in SlotWords
    <3>1. slot[at] \in SlotWords /\ 0 \in 0 .. EventRows
      BY <1>0, Sizes
    <3>2. CASE refuse = TRUE
      BY <3>1, <3>2 DEF SlotWords
    <3>3. CASE refuse = FALSE
      BY <3>1, <3>3 DEF SlotWords
    <3> QED BY <3>2, <3>3
  <2>3. slot' = [slot EXCEPT ![at] = word]
    BY <1>0, <2>1 DEF SlotWords
  <2> QED BY <1>0, <2>2, <2>3, StoreTyped
<1>3. started' \in [Slots -> Tickets] /\ active' \in [Slots -> Tickets]
  <2>1. slot[at].published \in Tickets /\ 0 \in Tickets
    BY <1>0, Sizes DEF SlotWords, Tickets
  <2>2. active' = active \/ active' = [active EXCEPT ![at] = slot[at].published]
    BY DEF Accept
  <2> QED BY <1>0, <2>1, <2>2 DEF Accept
<1>4. o' \in Drains
  BY <1>0 DEF Accept, Drains, OwnerPcs
<1> QED BY <1>1, <1>2, <1>3, <1>4

\* A turn of either loop accepts one request of an existing slot, or leaves the
\* mailbox alone.
LEMMA DrainAccepts ==
    ASSUME o \in Drains, ServeOrdinary \/ ServeOrdered
    PROVE  \/ \E at \in Slots, visit \in 0 .. SlotCount : Accept(at, visit)
           \/ UNCHANGED <<session, slot, started, active>> /\ o' \in Drains
<1>0. o.cursor \in Slots /\ o.visit \in 0 .. SlotCount
  BY DEF Drains
<1>1. CASE ServeOrdinary /\ o.visit < SlotCount /\ Accept(Turn, o.visit + 1)
  <2>1. Turn \in Slots
    <3>1. o.cursor + SlotCount - 1 + o.visit \in Int
      BY <1>0, Sizes DEF Slots
    <3> QED BY <3>1, ModuloInRange DEF Turn
  <2>2. o.visit + 1 \in 0 .. SlotCount
    BY <1>0, <1>1, Sizes
  <2> QED BY <1>1, <2>1, <2>2
<1>2. CASE ServeOrdered /\ \E at \in Slots : Accept(at, o.visit)
  BY <1>0, <1>2
<1>3. CASE UNCHANGED <<session, slot, started, active>> /\ \E pc \in OwnerPcs : Step(pc)
  BY <1>3 DEF Step, Drains
<1>4. CASE /\ UNCHANGED <<session, slot, started, active>> /\ o.visit < SlotCount
           /\ o' = [o EXCEPT !.visit = @ + 1]
  <2>1. o.visit + 1 \in 0 .. SlotCount
    BY <1>0, <1>4, Sizes
  <2> QED BY <1>4, <2>1 DEF Drains
<1>5. CASE ServeOrdinary
  BY <1>1, <1>3, <1>4, <1>5 DEF ServeOrdinary, OwnerPcs
<1>6. CASE ServeOrdered
  BY <1>2, <1>3, <1>6 DEF ServeOrdered, OwnerPcs
<1> QED BY <1>5, <1>6

\* A lost row latches trace_error and nothing else.
LEMMA LostRowKeeps ==
    ASSUME session \in Sessions, NEW lost, LoseRow(lost)
    PROVE  UNCHANGED <<session.alive, session.error, session.closed, session.externalStop,
                       session.stopRequested, session.stopSequence, session.intent>>
BY DEF LoseRow, Sessions

\* A request is taken by a turn of either loop only while it waits, whole and held by
\* nothing; a turn that takes none moves the drain on within service.
LEMMA TurnTakes ==
    ASSUME o \in Drains, ServeOrdinary \/ ServeOrdered
    PROVE  \/ \E at \in Slots, visit \in 0 .. SlotCount :
                 /\ Accept(at, visit) /\ Waiting(at) /\ Readable(at) /\ ~Held(at)
                 /\ Jog(at) <=> o.pc = "ordered"
           \/ /\ UNCHANGED <<session, slot, started, active>>
              /\ o'.pc \in {"ordinary", "ordered", "leave"} /\ o'.serving = o.serving
<1>0. o.cursor \in Slots /\ o.visit \in 0 .. SlotCount
  BY DEF Drains
<1>1. CASE /\ ServeOrdinary /\ o.visit < SlotCount /\ Waiting(Turn) /\ Readable(Turn)
           /\ ~Jog(Turn) /\ ~Held(Turn) /\ Accept(Turn, o.visit + 1)
  <2>1. Turn \in Slots
    <3>1. o.cursor + SlotCount - 1 + o.visit \in Int
      BY <1>0, Sizes DEF Slots
    <3> QED BY <3>1, ModuloInRange DEF Turn
  <2>2. o.visit + 1 \in 0 .. SlotCount
    BY <1>0, <1>1, Sizes
  <2>3. o.pc = "ordinary"
    BY <1>1 DEF ServeOrdinary
  <2> QED BY <1>1, <2>1, <2>2, <2>3
<1>2. CASE ServeOrdered /\ \E at \in Slots : FirstJog(at) /\ ~Held(at) /\ Accept(at, o.visit)
  BY <1>0, <1>2 DEF ServeOrdered, FirstJog, WaitingJogs
<1>3. CASE /\ UNCHANGED <<session, slot, started, active>>
           /\ Step("ordered") \/ Step("leave")
  BY <1>3 DEF Step, Drains
<1>4. CASE /\ UNCHANGED <<session, slot, started, active>> /\ o.pc = "ordinary"
           /\ o' = [o EXCEPT !.visit = @ + 1]
  BY <1>4 DEF Drains
<1>5. CASE ServeOrdinary
  BY <1>1, <1>3, <1>4, <1>5 DEF ServeOrdinary
<1>6. CASE ServeOrdered
  BY <1>2, <1>3, <1>6 DEF ServeOrdered
<1> QED BY <1>5, <1>6

\* The UI owner's drain never leaves the slots, and writes only tickets.
LEMMA DrainTyped == TypeInv /\ Drain => TypeInv'
<1> SUFFICES ASSUME TypeInv, Drain PROVE TypeInv'
  OBVIOUS
<1>a. UNCHANGED <<gate, violation, lane, w, h, item, watched, c>>
  BY DEF Drain, DrainCheck, DrainEnter, DrainRecheck, ServiceStart, ServeOrdinary,
     ServeOrdered, Validate, Call, Return, Process, Consume, DrainLeave, OwnerFrame, sources
<1>0. /\ session \in Sessions /\ total \in Totals /\ slot \in [Slots -> SlotWords]
      /\ running \in BOOLEAN /\ inHook \in BOOLEAN
      /\ started \in [Slots -> Tickets] /\ active \in [Slots -> Tickets]
      /\ app \in Apps /\ o \in Drains
  BY DEF TypeInv, TypeOK
<1>t. Ticket \in Tickets /\ o.serving \in Slots /\ 0 \in Tickets /\ 0 \in Slots
  <2>1. o.serving \in Slots
    BY <1>0 DEF Drains
  <2>2. Ticket \in Tickets
    BY <1>0, <2>1 DEF Ticket, SlotWords
  <2>3. 0 \in Tickets /\ 0 \in Slots
    BY Sizes DEF Tickets, Slots
  <2> QED BY <2>1, <2>2, <2>3
<1>1. session' \in Sessions
  <2>1. CASE \E lost \in BOOLEAN : LoseRow(lost)
    BY <1>0, <2>1 DEF LoseRow, Sessions
  <2>2. CASE session' = [session EXCEPT !.error = @ \/ o.faulted]
    BY <1>0, <2>2 DEF Sessions
  <2> QED
    BY <1>0, <2>1, <2>2 DEF Drain, DrainCheck, DrainEnter, DrainRecheck, ServiceStart,
       ServeOrdinary, ServeOrdered, Accept, Validate, Call, Return, Process, Consume,
       DrainLeave, Maybe
<1>2. total' \in Totals
  <2>1. CASE total' = [total EXCEPT !.consumed = @ + 1]
    BY <1>0, <2>1 DEF Totals
  <2> QED
    BY <1>0, <2>1 DEF Drain, DrainCheck, DrainEnter, DrainRecheck, ServiceStart,
       ServeOrdinary, ServeOrdered, Validate, Call, Return, Process, Consume, DrainLeave
<1>3. running' \in BOOLEAN /\ inHook' \in BOOLEAN
  BY <1>0, Zenon DEF Drain, DrainCheck, DrainEnter, DrainRecheck, ServiceStart,
     ServeOrdinary, ServeOrdered, Validate, Call, Return, Process, Consume, DrainLeave
<1>4. app' \in Apps
  <2>1. CASE Call
    <3> DEFINE counted == [app.calls EXCEPT ![Ticket] = @ + 1]
    <3>1. counted \in [Tickets -> Nat] /\ Append(app.queue, Ticket) \in Seq(Tickets)
      BY <1>0, <1>t DEF Apps
    <3>2. \/ app' = [app EXCEPT !.calls = counted]
          \/ app' = [app EXCEPT !.calls = counted, !.queue = Append(@, Ticket)]
      BY <1>0, <2>1 DEF Call, Apps
    <3> HIDE DEF counted
    <3> QED BY <1>0, <3>1, <3>2 DEF Apps
  <2> QED
    BY <1>0, <2>1 DEF Drain, DrainCheck, DrainEnter, DrainRecheck, ServiceStart,
       ServeOrdinary, ServeOrdered, Validate, Return, Process, Consume, DrainLeave
<1>5. started' \in [Slots -> Tickets]
  <2>1. CASE \E at \in Slots, seq \in Tickets : started' = [started EXCEPT ![at] = seq]
    BY <1>0, <2>1
  <2>2. CASE \E at \in Slots, visit \in 0 .. SlotCount : Accept(at, visit)
    BY <2>2, AcceptTyped
  <2>3. CASE ServeOrdinary \/ ServeOrdered
    BY <1>0, <2>2, <2>3, DrainAccepts
  <2>4. CASE Validate
    BY <1>0, <1>t, <2>1, <2>4 DEF Validate
  <2> QED
    BY <1>0, <2>3, <2>4 DEF Drain, DrainCheck, DrainEnter, DrainRecheck, ServiceStart,
       Call, Return, Process, Consume, DrainLeave
<1>6. active' \in [Slots -> Tickets]
  <2>1. CASE \E at \in Slots, visit \in 0 .. SlotCount : Accept(at, visit)
    BY <2>1, AcceptTyped
  <2>2. CASE ServeOrdinary \/ ServeOrdered
    BY <1>0, <2>1, <2>2, DrainAccepts
  <2>3. CASE Validate
    BY <1>0, <1>t, <2>3 DEF Validate
  <2>4. CASE Call
    BY <1>0, <1>t, <2>4 DEF Call
  <2> QED
    BY <1>0, <2>2, <2>3, <2>4 DEF Drain, DrainCheck, DrainEnter, DrainRecheck, ServiceStart,
       Return, Process, Consume, DrainLeave
<1>7. slot' \in [Slots -> SlotWords]
  <2> DEFINE At == o.serving
  <2>0. slot[At] \in SlotWords
    BY <1>0, <1>t
  <2>1. CASE \E at \in Slots, visit \in 0 .. SlotCount : Accept(at, visit)
    BY <2>1, AcceptTyped
  <2>2. CASE ServeOrdinary \/ ServeOrdered
    BY <1>0, <2>1, <2>2, DrainAccepts
  <2>3. CASE slot' = [slot EXCEPT ![At].rejected = TRUE]
    BY <1>0, <1>t, <2>3 DEF SlotWords
  <2>4. CASE slot' = [slot EXCEPT ![At].done = Ticket]
    BY <1>0, <1>t, <2>4 DEF SlotWords
  <2>5. CASE slot' = [slot EXCEPT ![At].dispatched = Ticket, ![At].returned = Ticket]
    BY <1>0, <1>t, <2>5 DEF SlotWords
  <2>6. CASE slot' = [slot EXCEPT ![At].processed = Ticket]
    BY <1>0, <1>t, <2>6 DEF SlotWords
  <2>7. CASE slot' = slot
    BY <1>0, <2>7
  <2> QED
    BY <2>2, <2>3, <2>4, <2>5, <2>6, <2>7 DEF Drain, DrainCheck, DrainEnter, DrainRecheck,
       ServiceStart, Validate, Call, Return, Process, Consume, DrainLeave
<1>8. o' \in Drains
  <2>1. CASE \E at \in Slots, visit \in 0 .. SlotCount : Accept(at, visit)
    BY <2>1, AcceptTyped
  <2>2. CASE \E pc \in OwnerPcs : Step(pc)
    BY <1>0, <2>2 DEF Step, Drains
  <2>3. CASE ServeOrdinary \/ ServeOrdered
    BY <1>0, <2>1, <2>3, DrainAccepts
  <2>4. CASE ServiceStart
    <3> DEFINE next == (o.cursor + 1) % SlotCount
    <3>1. next \in Slots
      <4>1. o.cursor + 1 \in Int
        BY <1>0, Sizes DEF Drains, Slots
      <4> QED BY <4>1, ModuloInRange
    <3>2. Step("leave") \/ o' = [o EXCEPT !.pc = "ordinary", !.cursor = next]
      BY <2>4 DEF ServiceStart
    <3> HIDE DEF next
    <3> QED BY <1>0, <3>1, <3>2 DEF Step, Drains, OwnerPcs
  <2>5. CASE Validate \/ Call
    <3>1. \/ Step("call") \/ Step("return")
          \/ \E faulted \in BOOLEAN : o' = [o EXCEPT !.pc = "process", !.faulted = faulted]
      BY <2>5 DEF Validate, Call
    <3>2. CASE o' = [o EXCEPT !.pc = "process", !.faulted = TRUE]
      BY <1>0, <3>2 DEF Drains, OwnerPcs
    <3>3. CASE o' = [o EXCEPT !.pc = "process", !.faulted = FALSE]
      BY <1>0, <3>3 DEF Drains, OwnerPcs
    <3> QED BY <2>2, <3>1, <3>2, <3>3 DEF OwnerPcs
  <2>6. CASE Consume
    <3>1. \E pc \in OwnerPcs : o' = [o EXCEPT !.pc = pc, !.serving = 0, !.faulted = FALSE]
      BY <2>6 DEF Consume, OwnerPcs
    <3> QED BY <1>0, <1>t, <3>1 DEF Drains
  <2>7. CASE DrainLeave
    <3>1. 0 \in 0 .. SlotCount
      BY Sizes
    <3> QED BY <1>0, <2>7, <3>1 DEF DrainLeave, Drains, OwnerPcs
  <2> QED
    BY <2>2, <2>3, <2>4, <2>5, <2>6, <2>7 DEF Drain, DrainCheck, DrainEnter, DrainRecheck,
       Return, Process, OwnerPcs
<1> QED
  BY <1>a, <1>0, <1>1, <1>2, <1>3, <1>4, <1>5, <1>6, <1>7, <1>8 DEF TypeInv, TypeOK, SweepInRange,
     PhaseInRange

\* A source hook writes its own program counter, the lane it marks, and typed words.
LEMMA SourceTyped == TypeInv /\ Source => TypeInv'
<1> SUFFICES ASSUME TypeInv, Source PROVE TypeInv'
  OBVIOUS
<1> DEFINE Hooked == \E t \in Threads :
              HookStart(t) \/ HookMark(t) \/ HookRecheck(t) \/ NewProject(t) \/ HookLeave(t)
<1>s. \/ \E t \in Threads : HookStart(t)
      \/ \E t \in Threads : HookMark(t)
      \/ \E t \in Threads : HookRecheck(t)
      \/ \E t \in Threads : NewProject(t)
      \/ \E t \in Threads : HookLeave(t)
      \/ CommitEvent \/ TakeItem \/ QueuePoint \/ QueueDone \/ StoreDone
      \/ HookSkip \/ ForeignOwner
  BY DEF Source
<1>a. UNCHANGED <<gate, total, inHook, started, w, o, c>>
  BY <1>s DEF HookStart, HookMark, HookRecheck, NewProject, HookLeave, CommitEvent, TakeItem,
     QueuePoint, QueueDone, StoreDone, HookSkip, ForeignOwner, HookFrame
<1>0. /\ session \in Sessions /\ slot \in [Slots -> SlotWords]
      /\ running \in BOOLEAN /\ violation \in BOOLEAN
      /\ lane \in [Threads -> BOOLEAN] /\ active \in [Slots -> Tickets] /\ app \in Apps
      /\ h \in [Threads -> Hooks] /\ item \in Items /\ watched \subseteq Tickets
  BY DEF TypeInv, TypeOK
<1>t. 0 \in Tickets /\ item.seq \in Tickets /\ "audio" \in Threads /\ "ui" \in Threads
  BY <1>0, Sizes DEF Tickets, Items, Threads
<1>1. session' \in Sessions
  <2>1. CASE \E lost \in BOOLEAN : LoseRow(lost)
    BY <1>0, <2>1 DEF LoseRow, Sessions
  <2>2. CASE \E intent \in {1, 3} : session' = [session EXCEPT !.intent = intent]
    BY <1>0, <2>2 DEF Sessions
  <2>3. CASE session' = session
    BY <1>0, <2>3
  <2> QED
    BY <1>s, <2>1, <2>2, <2>3 DEF HookStart, HookMark, HookRecheck, NewProject,
       HookLeave, CommitEvent, TakeItem, QueuePoint, QueueDone, StoreDone, HookSkip,
       ForeignOwner, Maybe, sources
<1>2. running' \in BOOLEAN /\ violation' \in BOOLEAN
  BY <1>0, <1>s, Zenon DEF HookStart, HookMark, HookRecheck, NewProject, HookLeave,
     CommitEvent, TakeItem, QueuePoint, QueueDone, StoreDone, HookSkip, ForeignOwner
<1>3. lane' \in [Threads -> BOOLEAN]
  <2>1. CASE \E t \in Threads, mark \in BOOLEAN : lane' = [lane EXCEPT ![t] = mark]
    BY <1>0, <2>1
  <2>2. CASE lane' = lane
    BY <1>0, <2>2
  <2> QED
    BY <1>s, <2>1, <2>2, Zenon DEF HookStart, HookMark, HookRecheck, NewProject, HookLeave,
       CommitEvent, TakeItem, QueuePoint, QueueDone, StoreDone, HookSkip, ForeignOwner
<1>4. active' \in [Slots -> Tickets]
  <2>1. CASE QueueDone
    BY <1>0, <1>t, <2>1 DEF QueueDone
  <2> QED
    BY <1>0, <1>s, <2>1 DEF HookStart, HookMark, HookRecheck, NewProject, HookLeave,
       CommitEvent, TakeItem, QueuePoint, StoreDone, HookSkip, ForeignOwner
<1>5. slot' \in [Slots -> SlotWords]
  <2>1. CASE CommitEvent
    <3>1. ASSUME NEW seq \in watched, HasSlot(seq), slot[SlotOf(seq)].rows < EventRows,
                 slot' = [slot EXCEPT ![SlotOf(seq)].rows = @ + 1]
          PROVE  slot' \in [Slots -> SlotWords]
      <4>1. SlotOf(seq) \in Slots
        BY <3>1 DEF HasSlot, SlotOf
      <4>2. PICK at \in Slots : at = SlotOf(seq)
        BY <4>1
      <4>3. slot[at].rows + 1 \in 0 .. EventRows
        BY <1>0, <3>1, <4>2, Sizes DEF SlotWords
      <4> QED BY <1>0, <3>1, <4>2, <4>3 DEF SlotWords
    <3> QED BY <1>0, <2>1, <3>1 DEF CommitEvent
  <2>2. CASE StoreDone
    BY <1>0, <1>t, <2>2 DEF StoreDone, SlotWords
  <2> QED
    BY <1>0, <1>s, <2>1, <2>2 DEF HookStart, HookMark, HookRecheck, NewProject, HookLeave,
       TakeItem, QueuePoint, QueueDone, HookSkip, ForeignOwner
<1>6. app' \in Apps
  <2>1. CASE TakeItem
    <3>1. app.queue \in Seq(Tickets) /\ app.queue # <<>>
      BY <1>0, <2>1 DEF TakeItem, Apps
    <3>2. Tail(app.queue) \in Seq(Tickets)
      BY <3>1
    <3> QED BY <1>0, <2>1, <3>2 DEF TakeItem, Apps
  <2> QED
    BY <1>0, <1>s, <2>1 DEF HookStart, HookMark, HookRecheck, NewProject, HookLeave,
       CommitEvent, QueuePoint, QueueDone, StoreDone, HookSkip, ForeignOwner
<1>7. watched' \subseteq Tickets
  <2>1. CASE \E t \in Threads : HookRecheck(t)
    BY <1>0, <2>1 DEF HookRecheck
  <2> QED
    BY <1>0, <1>s, <2>1 DEF HookStart, HookMark, NewProject, HookLeave,
       CommitEvent, TakeItem, QueuePoint, QueueDone, StoreDone, HookSkip, ForeignOwner, sources
<1>8. h' \in [Threads -> Hooks]
  <2>1. CASE \E t \in Threads, pc \in HookPcs : Move(t, pc)
    BY <1>0, <2>1 DEF Move, Hooks
  <2>2. CASE \E t \in Threads, seam \in Seams : h' = [h EXCEPT ![t].seam = seam]
    BY <1>0, <2>2 DEF Hooks
  <2>3. CASE \E t \in Threads, pc \in HookPcs, seam \in Seams :
                h' = [h EXCEPT ![t] = [pc |-> pc, seam |-> seam]]
    BY <1>0, <2>3 DEF Hooks
  <2>4. CASE h' = h
    BY <1>0, <2>4
  <2>5. NextSeam \in Seams
    BY DEF NextSeam, Seams
  <2>6. CASE \E t \in Threads : HookStart(t) \/ HookMark(t) \/ HookRecheck(t) \/ NewProject(t)
    BY <2>1, <2>3, <2>6 DEF HookStart, HookMark, HookRecheck, NewProject, HookPcs, Seams
  <2>7. CASE \E t \in Threads : HookLeave(t)
    <3>1. PICK t \in Threads, seam \in Seams : h' = [h EXCEPT ![t] = [pc |-> "out", seam |-> seam]]
      BY <2>5, <2>7 DEF HookLeave, Seams
    <3> QED BY <2>3, <3>1 DEF HookPcs
  <2>8. CASE CommitEvent \/ QueuePoint \/ QueueDone \/ StoreDone
    BY <1>t, <2>1, <2>4, <2>8 DEF CommitEvent, QueuePoint, QueueDone, StoreDone, HookPcs
  <2>9. CASE TakeItem \/ HookSkip
    BY <1>t, <2>2, <2>5, <2>9 DEF TakeItem, HookSkip, Seams
  <2>10. CASE ForeignOwner
    BY <2>4, <2>10 DEF ForeignOwner, sources
  <2> QED BY <1>s, <2>6, <2>7, <2>8, <2>9, <2>10
<1>9. item' \in Items /\ PhaseInRange'
  <2>0. /\ item.seq \in Tickets /\ item.phase \in 0 .. 2 /\ NoItem \in Items
        /\ NoItem.phase = 0 /\ PhaseInRange
    BY <1>0, <1>t DEF Items, NoItem, TypeInv
  <2>h. \A t \in Threads : h[t] = [pc |-> h[t].pc, seam |-> h[t].seam]
    BY <1>0 DEF Hooks
  <2>1. CASE \E t \in Threads : HookStart(t)
    <3>1. PICK t \in Threads : HookStart(t)
      BY <2>1
    <3>2. item' = item
      BY <3>1 DEF HookStart
    <3>3. \/ h'["audio"].seam \in {"new_project", "commit"}
          \/ h'["audio"].seam = h["audio"].seam /\ h["audio"].pc = "out"
          \/ h'["audio"] = h["audio"]
      BY <1>0, <1>t, <3>1 DEF HookStart, Move, Hooks
    <3> QED BY <1>0, <2>0, <3>2, <3>3 DEF PhaseInRange
  <2>2. CASE \E t \in Threads : HookMark(t) \/ HookRecheck(t) \/ NewProject(t)
    <3>1. PICK t \in Threads : HookMark(t) \/ HookRecheck(t) \/ NewProject(t)
      BY <2>2
    <3>2. item' = item
      BY <3>1 DEF HookMark, HookRecheck, NewProject
    <3>3. /\ h'["audio"].seam = h["audio"].seam
          /\ h'["audio"] = h["audio"] \/ h["audio"].pc # "leave"
      BY <1>0, <1>t, <3>1 DEF HookMark, HookRecheck, NewProject, Move, Hooks
    <3> QED BY <1>0, <2>0, <3>2, <3>3 DEF PhaseInRange
  <2>n. /\ NextSeam # "enter"
        /\ NextSeam = "body" => h["audio"].seam = "enter"
        /\ h["audio"].seam = "done" => NextSeam = "new_project"
    BY DEF NextSeam
  <2>v. ASSUME Advance, h'["audio"] = [pc |-> "out", seam |-> NextSeam]
        PROVE  item' \in Items /\ PhaseInRange'
    <3>1. CASE h["audio"].seam = "done"
      BY <2>0, <2>n, <2>v, <3>1 DEF Advance, PhaseInRange
    <3>2. CASE h["audio"].seam # "done"
      BY <1>0, <2>0, <2>n, <2>v, <3>2 DEF Advance, PhaseInRange
    <3> QED BY <3>1, <3>2
  <2>3. CASE \E t \in Threads : HookLeave(t)
    <3>1. CASE HookLeave("audio")
      <4>1. h'["audio"] = [pc |-> "out", seam |-> NextSeam] /\ Advance
        BY <1>0, <1>t, <3>1 DEF HookLeave
      <4> QED BY <4>1, <2>v
    <3>2. CASE HookLeave("ui")
      <4>1. h'["audio"] = h["audio"] /\ item' = item
        BY <1>0, <1>t, <3>2 DEF HookLeave
      <4> QED BY <1>0, <2>0, <4>1 DEF PhaseInRange
    <3> QED BY <2>3, <3>1, <3>2 DEF Threads
  <2>4. CASE CommitEvent \/ ForeignOwner
    <3>1. item' = item /\ h'["audio"] = h["audio"]
      BY <1>0, <1>t, <2>4 DEF CommitEvent, ForeignOwner, Move, sources
    <3> QED BY <1>0, <2>0, <3>1 DEF PhaseInRange
  <2>5. CASE TakeItem
    <3>1. app.queue \in Seq(Tickets) /\ app.queue # <<>>
      BY <1>0, <2>5 DEF TakeItem, Apps
    <3>2. Head(app.queue) \in Tickets
      BY <3>1
    <3>3. item' = [seq |-> Head(app.queue), phase |-> 0]
      BY <2>5 DEF TakeItem
    <3> QED BY <3>2, <3>3 DEF Items, PhaseInRange
  <2>6. CASE QueuePoint
    <3>1. /\ h["audio"].pc = "inside" /\ h["audio"].seam \in {"enter", "body"}
          /\ h'["audio"].pc = "leave" /\ h'["audio"].seam = h["audio"].seam
      BY <1>0, <1>t, <2>6 DEF QueuePoint, Move, Hooks
    <3>2. item' = item \/ item' = [item EXCEPT !.phase = @ + 1]
      <4>1. item = [item EXCEPT !.phase = item.phase]
        BY <1>0 DEF Items
      <4> QED BY <2>6, <4>1 DEF QueuePoint
    <3>3. item.phase <= 1 /\ (h["audio"].seam = "enter" => item.phase = 0)
      BY <2>0, <3>1 DEF PhaseInRange
    <3>4. item' \in Items /\ (h["audio"].seam = "enter" => item'.phase <= 1)
      BY <1>0, <2>0, <3>2, <3>3 DEF Items
    <3> QED BY <3>1, <3>4 DEF PhaseInRange
  <2>7. CASE QueueDone \/ StoreDone
    <3>1. /\ item' = item /\ h'["audio"].seam = h["audio"].seam
          /\ h["audio"].pc # "leave"
      BY <1>0, <1>t, <2>7 DEF QueueDone, StoreDone, Move, Hooks
    <3> QED BY <1>0, <2>0, <3>1 DEF PhaseInRange
  <2>8. CASE HookSkip
    <3>1. h'["audio"] = [pc |-> "out", seam |-> NextSeam] /\ Advance
      BY <1>0, <1>t, <2>8, <2>h DEF HookSkip, Hooks
    <3> QED BY <3>1, <2>v
  <2> QED BY <1>s, <2>1, <2>2, <2>3, <2>4, <2>5, <2>6, <2>7, <2>8
<1> QED
  BY <1>a, <1>1, <1>2, <1>3, <1>4, <1>5, <1>6, <1>7, <1>8, <1>9 DEF TypeInv, TypeOK,
     SweepInRange

\* The consumer's passes stay inside the slots, its poll counts below their bounds.
LEMMA ConsumerTyped == TypeInv /\ Consumer => TypeInv'
<1> SUFFICES ASSUME TypeInv, Consumer PROVE TypeInv'
  OBVIOUS
<1>a. UNCHANGED <<inHook, violation, lane, started, active, app, w, o, h, item, watched>>
  BY DEF Consumer, Tick, RetireScan, RetireDrained, RetireSeal, RetireCount, RetireRelease,
     FinalizeOwner, FinalizeStop, FinalizeGate, FinalizeSources, FinalizeReport, FinalizeClose,
     RetireFrame, FinalizeFrame, ConsumerFrame, sources
<1>0. /\ session \in Sessions /\ gate \in 0 .. 2 /\ total \in Totals
      /\ slot \in [Slots -> SlotWords] /\ running \in BOOLEAN /\ c \in Consumers
      /\ SweepInRange
  BY DEF TypeInv, TypeOK
<1>1. gate' \in 0 .. 2 /\ running' \in BOOLEAN
  <2>1. gate' \in 0 .. 2
    <3>1. CASE FinalizeGate
      BY <1>0, <3>1 DEF FinalizeGate
    <3>2. CASE gate' = gate
      BY <1>0, <3>2
    <3> QED
      BY <3>1, <3>2 DEF Consumer, Tick, RetireScan, RetireDrained, RetireSeal, RetireCount,
         RetireRelease, FinalizeOwner, FinalizeStop, FinalizeSources, FinalizeReport,
         FinalizeClose, RetireFrame
  <2>2. running' \in BOOLEAN
    <3>1. CASE Tick
      BY <3>1, Zenon DEF Tick
    <3>2. CASE running' = running
      BY <1>0, <3>2
    <3> QED
      BY <3>1, <3>2 DEF Consumer, RetireScan, RetireDrained, RetireSeal, RetireCount,
         RetireRelease, FinalizeOwner, FinalizeStop, FinalizeGate, FinalizeSources,
         FinalizeReport, FinalizeClose, RetireFrame, FinalizeFrame
  <2> QED BY <2>1, <2>2
<1>2. total' \in Totals
  <2>1. CASE RetireCount
    BY <1>0, <2>1 DEF RetireCount, Totals
  <2> QED
    BY <1>0, <2>1 DEF Consumer, Tick, RetireScan, RetireDrained, RetireSeal,
       RetireRelease, FinalizeOwner, FinalizeStop, FinalizeGate, FinalizeSources,
       FinalizeReport, FinalizeClose, RetireFrame, FinalizeFrame
<1>3. session' \in Sessions
  <2>1. CASE Tick
    <3>1. PICK error \in BOOLEAN, stop \in BOOLEAN :
             session' = [session EXCEPT !.error = error, !.externalStop = stop]
      BY <2>1, Zenon DEF Tick
    <3> QED BY <1>0, <3>1 DEF Sessions
  <2>2. CASE NotYet
    BY <1>0, <2>2 DEF NotYet, Sessions
  <2>3. CASE FinalizeStop
    BY <1>0, <2>3 DEF FinalizeStop, Sessions
  <2>4. CASE FinalizeReport
    <3>1. PICK error \in BOOLEAN :
             session' = [session EXCEPT !.alive = FALSE, !.error = error]
      BY <2>4, Zenon DEF FinalizeReport
    <3> QED BY <1>0, <3>1 DEF Sessions
  <2>5. CASE FinalizeClose
    BY <1>0, <2>5 DEF FinalizeClose, Sessions
  <2>6. CASE session' = session
    BY <1>0, <2>6
  <2> QED
    BY <2>1, <2>2, <2>3, <2>4, <2>5, <2>6 DEF Consumer, RetireScan, RetireDrained,
       RetireSeal, RetireCount, RetireRelease, FinalizeOwner, FinalizeGate,
       FinalizeSources, RetireFrame
<1>4. slot' \in [Slots -> SlotWords]
  <2>1. CASE Tick
    <3>1. \/ slot' = slot
          \/ slot' = [at \in Slots |-> [slot[at] EXCEPT !.ahead = FALSE]]
      BY <2>1 DEF Tick
    <3>2. ASSUME NEW at \in Slots
          PROVE  [slot[at] EXCEPT !.ahead = FALSE] \in SlotWords
      <4>1. slot[at] \in SlotWords
        BY <1>0
      <4> QED BY <4>1 DEF SlotWords
    <3> QED BY <1>0, <3>1, <3>2
  <2>2. CASE RetireSeal
    <3>1. c.sweep \in Slots
      BY <1>0, <2>2 DEF RetireSeal, SweepInRange
    <3> QED BY <1>0, <2>2, <3>1 DEF RetireSeal, SlotWords
  <2>3. CASE RetireRelease
    <3>1. c.sweep \in Slots
      BY <1>0, <2>3 DEF RetireRelease, SweepInRange
    <3> QED BY <1>0, <2>3, <3>1 DEF RetireRelease, SlotWords
  <2> QED
    BY <1>0, <2>1, <2>2, <2>3 DEF Consumer, RetireScan, RetireDrained, RetireCount,
       FinalizeOwner, FinalizeStop, FinalizeGate, FinalizeSources, FinalizeReport,
       FinalizeClose, FinalizeFrame
<1>5. c' \in Consumers /\ SweepInRange'
  <2> DEFINE Inner == {"drained", "lanes", "seal", "count", "release"}
  <2>1. ASSUME NEW pc \in ClosePcs, pc \notin Inner, To(pc)
        PROVE  c' \in Consumers /\ SweepInRange'
    BY <1>0, <2>1 DEF To, Consumers, SweepInRange
  <2>2. ASSUME NEW pc \in ClosePcs, c.sweep \in Slots, To(pc)
        PROVE  c' \in Consumers /\ SweepInRange'
    BY <1>0, <2>2 DEF To, Consumers, SweepInRange
  <2>3. ASSUME c.sweep \in Slots, Skip
        PROVE  c' \in Consumers /\ SweepInRange'
    <3>1. c.sweep + 1 \in 0 .. SlotCount
      BY <2>3, Sizes DEF Slots
    <3> QED BY <1>0, <2>3, <3>1 DEF Skip, Consumers, ClosePcs, SweepInRange
  <2>4. ASSUME NotYet
        PROVE  c' \in Consumers /\ SweepInRange'
    <3>1. CASE c.closePolls + 1 < ClosePolls
      <4>1. c.closePolls + 1 \in 0 .. ClosePolls
        BY <1>0, <3>1, Sizes DEF Consumers
      <4>2. c' = [c EXCEPT !.pc = "sleep", !.closePolls = @ + 1]
        BY <2>4, <3>1 DEF NotYet
      <4> QED BY <1>0, <4>1, <4>2 DEF Consumers, ClosePcs, SweepInRange
    <3>2. CASE ~(c.closePolls + 1 < ClosePolls)
      <4>1. c' = [c EXCEPT !.pc = "failed", !.closePolls = ClosePolls]
        BY <2>4, <3>2 DEF NotYet
      <4>2. ClosePolls \in 0 .. ClosePolls
        BY Sizes
      <4> QED BY <1>0, <4>1, <4>2 DEF Consumers, ClosePcs, SweepInRange
    <3> QED BY <3>1, <3>2
  <2>5. CASE Tick
    <3>1. PICK polls \in 0 .. MeterPolls, pc \in {"retire", "finalize"} :
             c' = [c EXCEPT !.pc = pc, !.sweep = 0, !.meterPolls = polls]
      <4>1. c.meterPolls \in 0 .. MeterPolls
        BY <1>0 DEF Consumers
      <4>2. c.meterPolls < MeterPolls => c.meterPolls + 1 \in 0 .. MeterPolls
        BY <4>1, Sizes
      <4> QED BY <2>5, <4>1, <4>2 DEF Tick
    <3>2. 0 \in 0 .. SlotCount
      BY Sizes
    <3> QED BY <1>0, <3>1, <3>2 DEF Consumers, ClosePcs, SweepInRange
  <2>6. CASE RetireScan
    <3>1. CASE c.sweep = SlotCount
      <4>1. PICK pc \in {"report", "sleep", "finalize"} : c' = [c EXCEPT !.sweep = 0, !.pc = pc]
        BY <2>6, <3>1 DEF RetireScan
      <4>2. 0 \in 0 .. SlotCount
        BY Sizes
      <4> QED BY <1>0, <4>1, <4>2 DEF Consumers, ClosePcs, SweepInRange
    <3>2. CASE c.sweep # SlotCount
      <4>1. c.sweep \in Slots
        BY <1>0, <3>2, Sizes DEF Consumers, Slots
      <4>2. To("drained") \/ Skip
        BY <2>6, <3>2 DEF RetireScan
      <4> QED BY <2>2, <2>3, <4>1, <4>2 DEF ClosePcs
    <3> QED BY <3>1, <3>2
  <2>7. CASE RetireDrained \/ RetireSeal \/ RetireCount \/ RetireRelease
    <3>1. c.sweep \in Slots
      BY <1>0, <2>7 DEF RetireDrained, RetireSeal, RetireCount, RetireRelease, SweepInRange
    <3>2. Skip \/ \E pc \in ClosePcs : To(pc)
      BY <2>7 DEF RetireDrained, RetireSeal, RetireCount, RetireRelease, ClosePcs
    <3> QED BY <2>2, <2>3, <3>1, <3>2
  <2>8. CASE \/ FinalizeOwner \/ FinalizeStop \/ FinalizeGate \/ FinalizeSources
             \/ FinalizeReport \/ FinalizeClose
    <3>1. NotYet \/ \E pc \in ClosePcs \ Inner : To(pc)
      BY <2>8 DEF FinalizeOwner, FinalizeStop, FinalizeGate, FinalizeSources, FinalizeReport,
         FinalizeClose, ClosePcs
    <3> QED BY <2>1, <2>4, <3>1
  <2> QED BY <2>5, <2>6, <2>7, <2>8 DEF Consumer
<1> QED
  BY <1>a, <1>1, <1>2, <1>3, <1>4, <1>5 DEF TypeInv, TypeOK, PhaseInRange

\* The application's exit stores two flags.
LEMMA ExitTyped == TypeInv /\ Exit => TypeInv'
<1> SUFFICES ASSUME TypeInv, Exit PROVE TypeInv'
  OBVIOUS
<1>1. UNCHANGED <<gate, total, slot, inHook, violation, lane, started, active, app, w, o, h,
                  item, watched, c>>
  BY DEF Exit, ConsumerFrame, sources
<1>2. session' \in Sessions /\ running' \in BOOLEAN
  BY DEF Exit, TypeInv, TypeOK, Sessions
<1> QED BY <1>1, <1>2 DEF TypeInv, TypeOK, SweepInRange, PhaseInRange

\* A step of any thread, or a stutter, keeps the types.
LEMMA NextTyped == TypeInv /\ [Next]_vars => TypeInv'
<1>1. TypeInv /\ UNCHANGED vars => TypeInv'
  BY DEF vars, mailbox, private, sources, TypeInv, TypeOK, SweepInRange, PhaseInRange
<1> QED
  BY <1>1, WriterTyped, DrainTyped, SourceTyped, ConsumerTyped, ExitTyped DEF Next

\* The mailbox, its threads and the application stay typed, for any number of slots,
\* controls, sequence numbers and polls, whatever outside events may happen.
THEOREM TypeCorrect == Spec => []TypeOK
<1>1. TypeInv => TypeOK
  BY DEF TypeInv
<1> QED BY <1>1, InitTyped, NextTyped, PTL DEF Spec

-----------------------------------------------------------------------------
(* Publication: who may touch a slot's payload, and when.                   *)

\* From the first store of command_request_store to the store of published the slot
\* is nobody else's, no request in flight conflicts with the one being written, and
\* after the payload's last store it is the writer's own.
WriterOwnsSlot ==
    w.pc \in {"changing", "stored", "confirmed", "counted"} =>
        /\ ~InFlight(w.slot)
        /\ \A at \in Slots : InFlight(at) => ~Conflict(slot[at].control, w.control)
        /\ w.pc # "changing" =>
              slot[w.slot].seq = w.seq /\ slot[w.slot].control = w.control

\* The consumer releases only a slot that is in flight, so never the writer's.
SweepInFlight ==
    c.pc \in {"drained", "lanes", "seal", "count", "release"} => InFlight(c.sweep)

PublishInv == RequestIntact /\ OneFlightPerControl /\ WriterOwnsSlot /\ SweepInFlight

\* What a payload is to the writer and to the scans for a conflict.
SamePayloads ==
    \A at \in Slots : /\ slot'[at].seq = slot[at].seq
                      /\ slot'[at].control = slot[at].control
                      /\ slot'[at].published = slot[at].published
                      /\ slot'[at].reclaimed = slot[at].reclaimed

\* Startup publishes nothing.
LEMMA InitPublish == Init => PublishInv
BY DEF Init, PublishInv, RequestIntact, OneFlightPerControl, WriterOwnsSlot, SweepInFlight,
       InFlight, NoJob

\* The receipts and marks of a slot are not its payload.
LEMMA ReceiptKeepsPayload ==
    ASSUME slot \in [Slots -> SlotWords], NEW at, NEW v, NEW u,
           \/ slot' = [slot EXCEPT ![at].rejected = v]
           \/ slot' = [slot EXCEPT ![at].rejected = v, ![at].rows = u]
           \/ slot' = [slot EXCEPT ![at].dispatched = v, ![at].returned = u]
           \/ slot' = [slot EXCEPT ![at].processed = v]
           \/ slot' = [slot EXCEPT ![at].done = v]
           \/ slot' = [slot EXCEPT ![at].sealed = v]
           \/ slot' = [slot EXCEPT ![at].rows = v]
    PROVE  SamePayloads
<1>1. CASE slot' = [slot EXCEPT ![at].rejected = v]
  BY <1>1 DEF SamePayloads, SlotWords
<1>2. CASE slot' = [slot EXCEPT ![at].rejected = v, ![at].rows = u]
  BY <1>2 DEF SamePayloads, SlotWords
<1>3. CASE slot' = [slot EXCEPT ![at].dispatched = v, ![at].returned = u]
  BY <1>3 DEF SamePayloads, SlotWords
<1>4. CASE slot' = [slot EXCEPT ![at].processed = v]
  BY <1>4 DEF SamePayloads, SlotWords
<1>5. CASE slot' = [slot EXCEPT ![at].done = v]
  BY <1>5 DEF SamePayloads, SlotWords
<1>6. CASE slot' = [slot EXCEPT ![at].sealed = v]
  BY <1>6 DEF SamePayloads, SlotWords
<1>7. CASE slot' = [slot EXCEPT ![at].rows = v]
  BY <1>7 DEF SamePayloads, SlotWords
<1> QED BY <1>1, <1>2, <1>3, <1>4, <1>5, <1>6, <1>7

\* The drain, the hooks and the application's exit leave every payload alone.
LEMMA OthersKeepPayloads ==
    ASSUME TypeInv, Drain \/ Source \/ Exit
    PROVE  SamePayloads /\ w' = w /\ c' = c
<1>0. slot \in [Slots -> SlotWords]
  BY DEF TypeInv, TypeOK
<1>1. CASE Drain
  <2>1. w' = w /\ c' = c
    BY <1>1 DEF Drain, DrainCheck, DrainEnter, DrainRecheck, ServiceStart, ServeOrdinary,
       ServeOrdered, Validate, Call, Return, Process, Consume, DrainLeave, OwnerFrame
  <2>2. CASE \E at, visit : Accept(at, visit)
    <3>1. PICK at, visit : Accept(at, visit)
      BY <2>2
    <3>2. PICK refuse : slot' = [slot EXCEPT ![at].rejected = refuse, ![at].rows = 0]
      BY <3>1 DEF Accept
    <3> QED BY <1>0, <2>1, <3>2, ReceiptKeepsPayload, Zenon
  <2>3. CASE slot' = slot
    BY <2>1, <2>3 DEF SamePayloads
  <2>4. CASE ServeOrdinary \/ ServeOrdered
    BY <2>2, <2>3, <2>4 DEF ServeOrdinary, ServeOrdered
  <2>5. CASE Validate
    BY <1>0, <2>1, <2>3, <2>5, ReceiptKeepsPayload, Zenon DEF Validate
  <2>6. CASE Call
    BY <1>0, <2>1, <2>3, <2>6, ReceiptKeepsPayload, Zenon DEF Call
  <2>7. CASE Return \/ Process
    BY <1>0, <2>1, <2>7, ReceiptKeepsPayload, Zenon DEF Return, Process
  <2> QED
    BY <1>1, <2>1, <2>3, <2>4, <2>5, <2>6, <2>7 DEF Drain, DrainCheck, DrainEnter,
       DrainRecheck, ServiceStart, Consume, DrainLeave
<1>2. CASE Source
  <2>1. w' = w /\ c' = c
    BY <1>2 DEF Source, HookStart, HookMark, HookRecheck, NewProject, HookLeave, CommitEvent,
       TakeItem, QueuePoint, QueueDone, StoreDone, HookSkip, ForeignOwner, HookFrame
  <2>2. CASE CommitEvent \/ StoreDone
    <3>1. \/ slot' = slot
          \/ \E at, v : slot' = [slot EXCEPT ![at].rows = v]
          \/ \E at, v : slot' = [slot EXCEPT ![at].done = v]
      BY <2>2 DEF CommitEvent, StoreDone
    <3>2. CASE slot' = slot
      BY <2>1, <3>2 DEF SamePayloads
    <3> QED BY <1>0, <2>1, <3>1, <3>2, ReceiptKeepsPayload, Zenon
  <2>3. CASE slot' = slot
    BY <2>1, <2>3 DEF SamePayloads
  <2> QED
    BY <1>2, <2>1, <2>2, <2>3 DEF Source, HookStart, HookMark, HookRecheck, NewProject,
       HookLeave, TakeItem, QueuePoint, QueueDone, HookSkip, ForeignOwner
<1>3. CASE Exit
  BY <1>3 DEF Exit, ConsumerFrame, SamePayloads
<1> QED BY <1>1, <1>2, <1>3

\* Steps that leave the payloads, the writer and the consumer alone keep the invariant.
LEMMA PayloadsKeepPublish ==
    ASSUME TypeInv, PublishInv, SamePayloads, w' = w, SweepInFlight'
    PROVE  PublishInv'
<1>1. w.slot \in Slots
  BY DEF TypeInv, TypeOK, Jobs
<1>2. RequestIntact'
  BY DEF PublishInv, SamePayloads, RequestIntact, Readable
<1>3. OneFlightPerControl'
  BY DEF PublishInv, SamePayloads, OneFlightPerControl, InFlight, Jog
<1>4. WriterOwnsSlot'
  BY <1>1 DEF PublishInv, SamePayloads, WriterOwnsSlot, InFlight, Conflict
<1> QED BY <1>2, <1>3, <1>4 DEF PublishInv

\* The consumer ends the flight of one slot, which was not the writer's.
LEMMA ConsumerPublish == TypeInv /\ PublishInv /\ Consumer => PublishInv'
<1> SUFFICES ASSUME TypeInv, PublishInv, Consumer PROVE PublishInv'
  OBVIOUS
<1>0. /\ slot \in [Slots -> SlotWords] /\ c \in Consumers /\ SweepInRange /\ w.slot \in Slots
      /\ SweepInFlight /\ WriterOwnsSlot
  BY DEF TypeInv, TypeOK, Jobs, PublishInv
<1>1. CASE RetireRelease
  <2>1. c.sweep \in Slots /\ InFlight(c.sweep)
    BY <1>0, <1>1 DEF RetireRelease, SweepInRange, SweepInFlight
  <2>2. /\ slot' = [slot EXCEPT ![c.sweep].reclaimed = slot[c.sweep].published]
        /\ w' = w /\ c'.pc = "retire"
    BY <1>0, <1>1 DEF RetireRelease, RetireFrame, ConsumerFrame, Skip, Consumers
  <2>3. \A at \in Slots :
           /\ slot'[at].seq = slot[at].seq /\ slot'[at].control = slot[at].control
           /\ slot'[at].published = slot[at].published
           /\ slot'[at].reclaimed = IF at = c.sweep THEN slot[at].published
                                                    ELSE slot[at].reclaimed
    BY <1>0, <2>1, <2>2 DEF SlotWords
  <2>4. \A at \in Slots : slot'[at].published # slot'[at].reclaimed => InFlight(at)
    BY <2>3 DEF InFlight
  <2>5. RequestIntact'
    BY <2>3, <2>4 DEF PublishInv, RequestIntact, Readable, InFlight
  <2>6. OneFlightPerControl'
    BY <2>3, <2>4 DEF PublishInv, OneFlightPerControl, InFlight, Jog
  <2>7. WriterOwnsSlot'
    BY <1>0, <2>2, <2>3, <2>4 DEF WriterOwnsSlot, InFlight, Conflict
  <2>8. SweepInFlight'
    BY <2>2 DEF SweepInFlight
  <2> QED BY <2>5, <2>6, <2>7, <2>8 DEF PublishInv
<1>2. CASE ~RetireRelease
  <2>1. w' = w
    BY DEF Consumer, Tick, RetireScan, RetireDrained, RetireSeal, RetireCount, RetireRelease,
       FinalizeOwner, FinalizeStop, FinalizeGate, FinalizeSources, FinalizeReport,
       FinalizeClose, RetireFrame, FinalizeFrame, ConsumerFrame
  <2>2. SamePayloads
    <3>1. CASE slot' = slot
      BY <3>1 DEF SamePayloads
    <3>2. CASE Tick
      BY <1>0, <3>1, <3>2 DEF Tick, SamePayloads, SlotWords
    <3>3. CASE RetireSeal
      BY <1>0, <3>1, <3>3, ReceiptKeepsPayload, Zenon DEF RetireSeal
    <3> QED
      BY <1>2, <3>1, <3>2, <3>3 DEF Consumer, RetireScan, RetireDrained, RetireCount,
         FinalizeOwner, FinalizeStop, FinalizeGate, FinalizeSources, FinalizeReport,
         FinalizeClose, FinalizeFrame
  <2>3. SweepInFlight'
    <3> DEFINE Inner == {"drained", "lanes", "seal", "count", "release"}
    <3>1. CASE c'.pc \notin Inner
      BY <3>1 DEF SweepInFlight
    <3>2. CASE c.pc \in Inner /\ c'.sweep = c.sweep
      BY <1>0, <2>2, <3>2 DEF SweepInFlight, SweepInRange, SamePayloads, InFlight
    <3>3. CASE RetireScan
      <4>1. CASE c.sweep # SlotCount /\ InFlight(c.sweep) /\ To("drained")
        <5>1. c.sweep \in Slots /\ c'.sweep = c.sweep
          BY <1>0, <4>1, Sizes DEF Consumers, To, Slots
        <5> QED BY <2>2, <4>1, <5>1 DEF SweepInFlight, SamePayloads, InFlight
      <4>2. CASE c'.pc \in {"report", "sleep", "finalize", "retire"}
        BY <4>2 DEF SweepInFlight
      <4> QED BY <1>0, <3>3, <4>1, <4>2 DEF RetireScan, Skip, Consumers
    <3>4. CASE RetireDrained \/ RetireSeal \/ RetireCount
      <4>1. c.pc \in Inner
        BY <3>4 DEF RetireDrained, RetireSeal, RetireCount
      <4>2. c'.pc \notin Inner \/ c'.sweep = c.sweep
        BY <1>0, <3>4 DEF RetireDrained, RetireSeal, RetireCount, To, Skip, Consumers
      <4> QED BY <3>1, <3>2, <4>1, <4>2
    <3>5. CASE Tick \/ FinalizeOwner \/ FinalizeStop \/ FinalizeGate \/ FinalizeSources
               \/ FinalizeReport \/ FinalizeClose
      <4>1. c'.pc \notin Inner
        BY <1>0, <3>5 DEF Tick, FinalizeOwner, FinalizeStop, FinalizeGate, FinalizeSources,
           FinalizeReport, FinalizeClose, NotYet, To, Consumers
      <4> QED BY <3>1, <4>1
    <3> QED BY <1>2, <3>3, <3>4, <3>5 DEF Consumer
  <2> QED BY <2>1, <2>2, <2>3, PayloadsKeepPublish
<1> QED BY <1>1, <1>2

\* The writer's own steps: the only ones that change a payload or put one in flight.
LEMMA WriterPublish == TypeInv /\ PublishInv /\ Writer => PublishInv'
<1> SUFFICES ASSUME TypeInv, PublishInv, Writer PROVE PublishInv'
  OBVIOUS
<1>0. /\ slot \in [Slots -> SlotWords] /\ w \in Jobs /\ w.slot \in Slots /\ SweepInRange
      /\ RequestIntact /\ OneFlightPerControl /\ WriterOwnsSlot /\ SweepInFlight
  BY DEF TypeInv, TypeOK, Jobs, PublishInv
<1>c. c' = c
  BY DEF Writer, BeginJob, Begin, EnterGate, AdmitWriter, CheckPublish, StoreRequest,
     ConfirmIntent, PublishTotal, PublishSlot, CheckSealed, StoreSettled, CheckIdle,
     StoreStop, LeaveGate, WriterDies, WriterFrame
<1> DEFINE Writing == {"changing", "stored", "confirmed", "counted"}
<1>k. ASSUME SamePayloads, w'.pc \notin Writing
      PROVE  PublishInv'
  <2>1. RequestIntact'
    BY <1>0, <1>k DEF SamePayloads, RequestIntact, Readable
  <2>2. OneFlightPerControl'
    BY <1>0, <1>k DEF SamePayloads, OneFlightPerControl, InFlight, Jog
  <2>3. WriterOwnsSlot'
    BY <1>k DEF WriterOwnsSlot
  <2>4. SweepInFlight'
    BY <1>0, <1>c, <1>k DEF SweepInFlight, SweepInRange, SamePayloads, InFlight
  <2> QED BY <2>1, <2>2, <2>3, <2>4 DEF PublishInv
<1>1. CASE \/ BeginJob \/ EnterGate \/ AdmitWriter \/ CheckSealed \/ CheckIdle
           \/ StoreStop \/ LeaveGate \/ WriterDies
  <2>1. SamePayloads
    BY <1>1 DEF BeginJob, Begin, EnterGate, AdmitWriter, CheckSealed, CheckIdle, StoreStop,
       LeaveGate, WriterDies, mailbox, SamePayloads
  <2>2. w'.pc \notin Writing
    BY <1>0, <1>1 DEF BeginJob, Begin, EnterGate, AdmitWriter, CheckSealed, CheckIdle,
       StoreStop, LeaveGate, WriterDies, NoJob, Go, Jobs
  <2> QED BY <1>k, <2>1, <2>2
<1>2. CASE StoreSettled
  <2>1. SamePayloads
    BY <1>0, <1>2 DEF StoreSettled, SamePayloads, SlotWords
  <2>2. w'.pc \notin Writing
    BY <1>0, <1>2 DEF StoreSettled, Go, Jobs
  <2> QED BY <1>k, <2>1, <2>2
<1>3. CASE CheckPublish
  <2>1. CASE ~Publishable
    <3>1. SamePayloads /\ w'.pc \notin Writing
      BY <1>0, <1>3, <2>1 DEF CheckPublish, SamePayloads, Go, Jobs
    <3> QED BY <1>k, <3>1
  <2>2. CASE Publishable
    <3>1. /\ ~InFlight(w.slot) /\ w' = [w EXCEPT !.pc = "changing"]
          /\ \A at \in Slots : InFlight(at) => ~Conflict(slot[at].control, w.control)
      BY <1>3, <2>2 DEF CheckPublish, Publishable, Go
    <3>2. \A at \in Slots :
             /\ slot'[at].control = slot[at].control
             /\ slot'[at].published = slot[at].published
             /\ slot'[at].reclaimed = slot[at].reclaimed
             /\ at # w.slot => slot'[at].seq = slot[at].seq
      BY <1>0, <1>3, <2>2 DEF CheckPublish, SlotWords
    <3>3. RequestIntact'
      BY <1>0, <3>1, <3>2 DEF RequestIntact, Readable, InFlight
    <3>4. OneFlightPerControl'
      BY <1>0, <3>2 DEF OneFlightPerControl, InFlight, Jog
    <3>5. WriterOwnsSlot'
      <4>1. w'.pc = "changing" /\ w'.slot = w.slot /\ w'.control = w.control
        BY <1>0, <3>1 DEF Jobs
      <4> QED BY <1>0, <3>1, <3>2, <4>1 DEF WriterOwnsSlot, InFlight, Conflict
    <3>6. SweepInFlight'
      BY <1>0, <1>c, <3>2 DEF SweepInFlight, SweepInRange, InFlight
    <3> QED BY <3>3, <3>4, <3>5, <3>6 DEF PublishInv
  <2> QED BY <2>1, <2>2
<1>4. CASE StoreRequest
  <2>1. w.pc = "changing" /\ w' = [w EXCEPT !.pc = "stored"]
    BY <1>4 DEF StoreRequest, Go
  <2>2. /\ ~InFlight(w.slot)
        /\ \A at \in Slots : InFlight(at) => ~Conflict(slot[at].control, w.control)
    BY <1>0, <2>1 DEF WriterOwnsSlot
  <2>3. \A at \in Slots :
           /\ slot'[at].published = slot[at].published
           /\ slot'[at].reclaimed = slot[at].reclaimed
           /\ slot'[at].seq = IF at = w.slot THEN w.seq ELSE slot[at].seq
           /\ slot'[at].control = IF at = w.slot THEN w.control ELSE slot[at].control
    BY <1>0, <1>4 DEF StoreRequest, SlotWords
  <2>4. RequestIntact'
    BY <1>0, <2>2, <2>3 DEF RequestIntact, Readable, InFlight
  <2>5. OneFlightPerControl'
    BY <1>0, <2>2, <2>3 DEF OneFlightPerControl, InFlight, Jog
  <2>6. WriterOwnsSlot'
    <3>1. w'.slot = w.slot /\ w'.control = w.control /\ w'.seq = w.seq
      BY <1>0, <2>1 DEF Jobs
    <3> QED BY <1>0, <2>2, <2>3, <3>1 DEF WriterOwnsSlot, InFlight, Conflict
  <2>7. SweepInFlight'
    BY <1>0, <1>c, <2>3 DEF SweepInFlight, SweepInRange, InFlight
  <2> QED BY <2>4, <2>5, <2>6, <2>7 DEF PublishInv
<1>5. CASE ConfirmIntent \/ PublishTotal
  <2>1. SamePayloads
    BY <1>5 DEF ConfirmIntent, PublishTotal, mailbox, SamePayloads
  <2>2. /\ w.pc \in {"stored", "confirmed"}
        /\ w'.slot = w.slot /\ w'.control = w.control /\ w'.seq = w.seq
    BY <1>0, <1>5 DEF ConfirmIntent, PublishTotal, Go, Jobs
  <2>3. RequestIntact'
    BY <1>0, <2>1 DEF SamePayloads, RequestIntact, Readable
  <2>4. OneFlightPerControl'
    BY <1>0, <2>1 DEF SamePayloads, OneFlightPerControl, InFlight, Jog
  <2>5. WriterOwnsSlot'
    BY <1>0, <2>1, <2>2 DEF WriterOwnsSlot, SamePayloads, InFlight, Conflict
  <2>6. SweepInFlight'
    BY <1>0, <1>c, <2>1 DEF SweepInFlight, SweepInRange, SamePayloads, InFlight
  <2> QED BY <2>3, <2>4, <2>5, <2>6 DEF PublishInv
<1>6. CASE PublishSlot
  <2>1. /\ ~InFlight(w.slot) /\ slot[w.slot].seq = w.seq /\ slot[w.slot].control = w.control
        /\ \A at \in Slots : InFlight(at) => ~Conflict(slot[at].control, w.control)
    BY <1>0, <1>6 DEF PublishSlot, WriterOwnsSlot
  <2>2. PICK early \in BOOLEAN :
           slot' = [slot EXCEPT ![w.slot].published = w.seq, ![w.slot].ahead = early]
    BY <1>6 DEF PublishSlot
  <2>3. \A at \in Slots :
           /\ slot'[at].seq = slot[at].seq /\ slot'[at].control = slot[at].control
           /\ slot'[at].reclaimed = slot[at].reclaimed
           /\ slot'[at].published = IF at = w.slot THEN w.seq ELSE slot[at].published
    BY <1>0, <2>2 DEF SlotWords
  <2>4. w'.pc = "leaving"
    BY <1>0, <1>6 DEF PublishSlot, Go, Jobs
  <2>5. RequestIntact'
    BY <1>0, <2>1, <2>3 DEF RequestIntact, Readable
  <2>6. OneFlightPerControl'
    BY <1>0, <2>1, <2>3 DEF OneFlightPerControl, InFlight, Jog, Conflict
  <2>7. WriterOwnsSlot'
    BY <2>4 DEF WriterOwnsSlot
  <2>8. SweepInFlight'
    <3>1. c.pc \in {"drained", "lanes", "seal", "count", "release"} =>
             c.sweep \in Slots /\ c.sweep # w.slot
      BY <1>0, <2>1 DEF SweepInFlight, SweepInRange
    <3> QED BY <1>0, <1>c, <2>3, <3>1 DEF SweepInFlight, InFlight
  <2> QED BY <2>5, <2>6, <2>7, <2>8 DEF PublishInv
<1> QED BY <1>1, <1>2, <1>3, <1>4, <1>5, <1>6 DEF Writer

\* A step of any thread, or a stutter, keeps the publication invariant.
LEMMA NextPublish == TypeInv /\ PublishInv /\ [Next]_vars => PublishInv'
<1>1. TypeInv /\ PublishInv /\ UNCHANGED vars => PublishInv'
  BY DEF vars, mailbox, private, sources, PublishInv, RequestIntact, OneFlightPerControl,
     WriterOwnsSlot, SweepInFlight, InFlight, Readable, Jog, Conflict
<1>2. TypeInv /\ PublishInv /\ (Drain \/ Source \/ Exit) => PublishInv'
  <2> SUFFICES ASSUME TypeInv, PublishInv, Drain \/ Source \/ Exit PROVE PublishInv'
    OBVIOUS
  <2>1. SamePayloads /\ w' = w /\ c' = c
    BY OthersKeepPayloads
  <2>2. SweepInFlight'
    BY <2>1 DEF TypeInv, SweepInRange, PublishInv, SweepInFlight, SamePayloads, InFlight
  <2> QED BY <2>1, <2>2, PayloadsKeepPublish
<1> QED BY <1>1, <1>2, WriterPublish, ConsumerPublish DEF Next

\* command_request_read never fails for a request in flight: whatever is killed or
\* stopped, a payload only changes while its slot is free.
THEOREM PayloadsAreIntact == Spec => []RequestIntact
<1>1. Init => TypeInv /\ PublishInv
  BY InitTyped, InitPublish
<1>2. TypeInv /\ PublishInv /\ [Next]_vars => (TypeInv /\ PublishInv)'
  BY NextTyped, NextPublish
<1>3. PublishInv => RequestIntact
  BY DEF PublishInv
<1> QED BY <1>1, <1>2, <1>3, PTL DEF Spec

\* The gate's conflict scan keeps two requests for one absolute control from ever
\* being in flight together, for any number of slots.
THEOREM ConflictsAreSerialised == Spec => []OneFlightPerControl
<1>1. Init => TypeInv /\ PublishInv
  BY InitTyped, InitPublish
<1>2. TypeInv /\ PublishInv /\ [Next]_vars => (TypeInv /\ PublishInv)'
  BY NextTyped, NextPublish
<1>3. PublishInv => OneFlightPerControl
  BY DEF PublishInv
<1> QED BY <1>1, <1>2, <1>3, PTL DEF Spec

--------------------------------------------------------------------------------
(***************************************************************************)
(* Proofs about the end of a command session, for any number of slots,     *)
(* controls and polls: nothing changes a mailbox that was closed, a close   *)
(* without an error leaves no publication behind, and an accepted New       *)
(* Project is the end of native calls.  The argument is that each look of   *)
(* command_quiescent, once passed with running clear, stays true of the     *)
(* threads it looked at while the consumer goes on to the next one.         *)
(***************************************************************************)

RetirePass == {"retire", "drained", "lanes", "seal", "count", "release"}
Finalizing == {"finalize", "shut", "gate", "sources", "report", "close", "closed", "failed"}
Reported   == {"report", "close", "closed"}

\* Program points of a drain at which it has no access to the mailbox left to make
\* but to look at running again.
Resting == {"out", "checked", "hooked", "leave"}

\* The words the consumer looks at tell where the other threads are.
WordsTellTheTruth ==
    /\ w.pc \notin {"out", "entering"} => gate = 1
    /\ o.pc \notin {"out", "checked"} => inHook
    /\ \A t \in Threads : h[t].pc \notin {"out", "checked"} => lane[t]

\* A look that has been passed stays true.
LooksStayTrue ==
    /\ c.pc \in Finalizing \/ gate = 2 => ~running
    /\ c.pc \in Reported => gate = 2
    /\ c.pc \in {"shut", "gate", "sources"} \/ gate = 2 => o.pc \in Resting
    /\ c.pc \in {"gate", "sources"} \/ gate = 2 => session.externalStop
    /\ gate = 2 /\ c.pc \in RetirePass \cup Reported =>
          \A t \in Threads : h[t].pc \notin {"inside", "cleared"}

\* The report is the last word on whether a publication was stranded.
ReportStands ==
    /\ session.closed => c.pc = "closed"
    /\ c.pc \in {"close", "closed"} /\ ~session.error /\ ~session.traceError => Idle

ClosingInv == WordsTellTheTruth /\ LooksStayTrue /\ ReportStands

\* A UI thread in a source hook is not inside a drain, and a drain begun after the
\* owner's confirmation goes no further than service's first look.
OwnerHasConfirmed ==
    /\ h["ui"].pc # "out" => o.pc = "out"
    /\ session.intent = 1 => o.pc \in Resting \cup {"service"}

\* startup has passed no look yet.
LEMMA InitClosing == Init => ClosingInv /\ OwnerHasConfirmed
BY DEF Init, ClosingInv, WordsTellTheTruth, LooksStayTrue, ReportStands, OwnerHasConfirmed,
   Threads, NoJob, Finalizing, RetirePass, Reported, Resting

\* What the writer may do: it changes the gate and the mailbox only from inside, and
\* its stores leave the consumer's flags alone.
LEMMA WriterReach ==
    ASSUME TypeInv, Writer
    PROVE  /\ UNCHANGED <<private, app, o, sources, c>>
           /\ UNCHANGED <<session.externalStop, session.error, session.traceError,
                          session.closed, session.intent>>
           /\ w.pc \in {"out", "entering"} =>
                 UNCHANGED <<session, total, slot>>
                 /\ \/ gate' = gate /\ w'.pc \in {"out", "entering"}
                    \/ gate = 0 /\ gate' = 1
           /\ w.pc \notin {"out", "entering"} =>
                 \/ gate' = gate /\ w'.pc \notin {"out", "entering"}
                 \/ gate' = 0 /\ w'.pc = "out"
<1>0. session \in Sessions /\ w \in Jobs /\ gate \in 0 .. 2
  BY DEF TypeInv, TypeOK
<1>1. CASE BeginJob
  BY <1>0, <1>1 DEF BeginJob, Begin, WriterFrame, mailbox, Jobs
<1>2. CASE EnterGate \/ LeaveGate
  BY <1>0, <1>2 DEF EnterGate, LeaveGate, WriterFrame, NoJob, Go, Jobs
<1>3. CASE AdmitWriter \/ CheckSealed \/ CheckIdle \/ ConfirmIntent
  BY <1>0, <1>3 DEF AdmitWriter, CheckSealed, CheckIdle, ConfirmIntent, WriterFrame, mailbox,
     Go, Jobs
<1>4. CASE CheckPublish \/ StoreRequest \/ PublishTotal \/ PublishSlot \/ StoreSettled
  <2>1. UNCHANGED <<WriterFrame, session, gate>>
        /\ w.pc \in {"inside", "changing", "confirmed", "counted", "certified"}
        /\ \E pc \in {"changing", "stored", "counted", "leaving"} : Go(pc)
    BY <1>4 DEF CheckPublish, StoreRequest, PublishTotal, PublishSlot, StoreSettled
  <2> QED BY <1>0, <2>1 DEF WriterFrame, Go, Jobs
<1>5. CASE StoreStop
  BY <1>0, <1>5 DEF StoreStop, WriterFrame, Go, Jobs, Sessions
<1>6. CASE WriterDies
  BY <1>0, <1>6 DEF WriterDies, WriterFrame, mailbox, NoJob, Jobs
<1> QED BY <1>1, <1>2, <1>3, <1>4, <1>5, <1>6 DEF Writer

\* The writer is kept out by the shut gate, and moves no look.
LEMMA WriterClosing ==
    ASSUME TypeInv, ClosingInv, OwnerHasConfirmed, Writer
    PROVE  ClosingInv' /\ OwnerHasConfirmed' /\ (session.closed => UNCHANGED mailbox)
<1> USE DEF ClosingInv, private, sources
<1>1. /\ UNCHANGED <<private, o, sources, c>>
      /\ UNCHANGED <<session.externalStop, session.error, session.traceError,
                     session.closed, session.intent>>
      /\ w'.pc \notin {"out", "entering"} => gate' = 1
      /\ (gate = 2) <=> (gate' = 2)
      /\ gate = 2 => UNCHANGED mailbox
  BY WriterReach DEF WordsTellTheTruth, mailbox
<1>2. WordsTellTheTruth'
  BY <1>1 DEF WordsTellTheTruth
<1>3. LooksStayTrue'
  BY <1>1 DEF LooksStayTrue
<1>4. c.pc \in Reported => UNCHANGED mailbox
  BY <1>1 DEF LooksStayTrue
<1>5. ReportStands' /\ (session.closed => UNCHANGED mailbox)
  BY <1>1, <1>4 DEF ReportStands, Reported, mailbox, Idle, InFlight
<1>6. OwnerHasConfirmed'
  BY <1>1 DEF OwnerHasConfirmed
<1> QED BY <1>2, <1>3, <1>5, <1>6

\* What a turn of service may do besides: one session flag, and words of one slot.
LEMMA TurnReach ==
    ASSUME TypeInv, ServeOrdinary \/ ServeOrdered
    PROVE  /\ UNCHANGED <<gate, violation, lane, w, sources, c, total, running, inHook, app>>
           /\ o.pc \in {"ordinary", "ordered"}
           /\ o'.pc \in {"ordinary", "ordered", "validate", "process", "leave"}
           /\ UNCHANGED <<session.closed, session.externalStop, session.intent>>
<1>0. session \in Sessions /\ o \in Drains
  BY DEF TypeInv, TypeOK
<1>1. /\ UNCHANGED <<gate, violation, lane, w, sources, c, total, running, inHook, app>>
      /\ o.pc \in {"ordinary", "ordered"}
  BY DEF ServeOrdinary, ServeOrdered, OwnerFrame
<1>2. CASE \E at \in Slots, visit \in 0 .. SlotCount : Accept(at, visit)
  <2>1. PICK at \in Slots, visit \in 0 .. SlotCount : Accept(at, visit)
    BY <1>2
  <2>2. o'.pc \in {"validate", "process"}
    BY <1>0, <2>1 DEF Accept, Drains
  <2>3. \E lost : LoseRow(lost)
    BY <2>1 DEF Accept
  <2> QED BY <1>0, <1>1, <2>2, <2>3, LostRowKeeps
<1> QED BY <1>0, <1>1, <1>2, TurnTakes

\* What a drain may do: it needs running to get past its second look, it is marked
\* while it is past the first, and it stores nothing while it rests.
LEMMA DrainReach ==
    ASSUME TypeInv, Drain
    PROVE  /\ UNCHANGED <<gate, violation, lane, w, sources, c>>
           /\ UNCHANGED <<session.externalStop, session.closed, session.intent>>
           /\ running' => running
           /\ o.pc \in Resting =>
                 UNCHANGED <<session, total, slot, app, running>>
                 /\ (o'.pc \in Resting \/ (running /\ o'.pc = "service"))
           /\ o.pc = "out" => o'.pc = "checked" /\ h["ui"].pc = "out" /\ inHook' = inHook
           /\ o.pc \notin {"out", "checked"} =>
                 \/ inHook' = inHook /\ o'.pc # "out"
                 \/ o'.pc = "out"
           /\ o.pc = "checked" => inHook' = TRUE /\ o'.pc # "out"
           /\ o.pc = "service" => app' = app /\ (session.intent # 0 => o'.pc = "leave")
<1>0. session \in Sessions /\ o \in Drains
  BY DEF TypeInv, TypeOK
<1> USE DEF OwnerFrame, Step, Resting, Drains
<1>1. CASE DrainCheck \/ DrainEnter
  BY <1>0, <1>1 DEF DrainCheck, DrainEnter
<1>7. CASE DrainRecheck
  <2>1. o' = [o EXCEPT !.pc = "leave"] \/ (running /\ o' = [o EXCEPT !.pc = "service"])
    BY <1>7 DEF DrainRecheck
  <2> QED BY <1>0, <1>7, <2>1 DEF DrainRecheck
<1>9. CASE DrainLeave
  BY <1>0, <1>9 DEF DrainLeave
<1>2. CASE ServiceStart
  BY <1>0, <1>2 DEF ServiceStart, IntentSet
<1>3. CASE ServeOrdinary \/ ServeOrdered
  BY <1>3, TurnReach
<1>4. CASE Validate \/ Process
  BY <1>0, <1>4 DEF Validate, Process
<1>5. CASE Call
  BY <1>0, <1>5 DEF Call
<1>6. CASE Return
  BY <1>0, <1>6, LostRowKeeps DEF Return
<1>8. CASE Consume
  BY <1>0, <1>8 DEF Consume, Sessions
<1> QED BY <1>1, <1>2, <1>3, <1>4, <1>5, <1>6, <1>7, <1>8, <1>9 DEF Drain

\* A drain begun after the look at the owner rests until it leaves.
LEMMA DrainClosing ==
    ASSUME TypeInv, ClosingInv, OwnerHasConfirmed, Drain
    PROVE  /\ ClosingInv' /\ OwnerHasConfirmed'
           /\ session.closed => UNCHANGED mailbox
           /\ session.intent = 1 => UNCHANGED app
<1> USE DrainReach DEF ClosingInv, sources
<1>1. WordsTellTheTruth'
  BY DEF WordsTellTheTruth
<1>2. LooksStayTrue'
  BY DEF LooksStayTrue, Resting, Finalizing
<1>3. c.pc \in Reported => UNCHANGED mailbox
  BY DEF LooksStayTrue, mailbox
<1>4. ReportStands'
  BY <1>3 DEF ReportStands, Reported, mailbox, Idle, InFlight
<1>5. session.closed => UNCHANGED mailbox
  BY <1>3 DEF ReportStands, Reported
<1>6. OwnerHasConfirmed' /\ (session.intent = 1 => UNCHANGED app)
  BY DEF OwnerHasConfirmed, Resting
<1> QED BY <1>1, <1>2, <1>4, <1>5, <1>6

\* What a source hook may do: it needs running to get inside, it is marked while it
\* is there, and only inside it changes the mailbox.
LEMMA SourceReach ==
    ASSUME TypeInv, Source
    PROVE  /\ UNCHANGED <<gate, total, inHook, w, o, c>>
           /\ UNCHANGED <<session.externalStop, session.closed>>
           /\ running' => running
           /\ \A t \in Threads :
                 /\ h'[t].pc \notin {"out", "checked"} =>
                       \/ h[t].pc \notin {"out", "checked"} /\ lane'[t] = lane[t]
                       \/ lane'[t] = TRUE
                 /\ h'[t].pc \in {"inside", "cleared"} =>
                       running \/ h[t].pc \in {"inside", "cleared"}
           /\ (\A t \in Threads : h[t].pc \notin {"inside", "cleared"})
                 => UNCHANGED <<session, slot>>
           /\ h'["ui"].pc = "out" \/ h["ui"].pc # "out" \/ o.pc = "out"
           /\ session'.intent = 1 => session.intent = 1 \/ h["ui"].pc = "inside"
           /\ app'.calls = app.calls
<1>0. /\ session \in Sessions /\ h \in [Threads -> Hooks] /\ lane \in [Threads -> BOOLEAN]
      /\ app \in Apps /\ "audio" \in Threads /\ "ui" \in Threads
  BY DEF TypeInv, TypeOK, Threads
<1> DEFINE Inside(t) == h[t].pc \in {"inside", "cleared"}
           Placed ==
              /\ h'["ui"].pc = "out" \/ h["ui"].pc # "out" \/ o.pc = "out"
              /\ \A t \in Threads :
                    /\ h'[t].pc \in {"inside", "cleared"} => running \/ Inside(t)
                    /\ h'[t].pc \notin {"out", "checked"} =>
                          \/ h[t].pc \notin {"out", "checked"} /\ lane'[t] = lane[t]
                          \/ lane'[t] = TRUE
<1>s. \/ \E t \in Threads : HookStart(t)
      \/ \E t \in Threads : HookMark(t)
      \/ \E t \in Threads : HookRecheck(t)
      \/ \E t \in Threads : NewProject(t)
      \/ \E t \in Threads : HookLeave(t)
      \/ CommitEvent \/ TakeItem \/ QueuePoint \/ QueueDone \/ StoreDone
      \/ HookSkip \/ ForeignOwner
  BY DEF Source
<1>1. /\ UNCHANGED <<gate, total, inHook, w, o, c>>
      /\ (\A t \in Threads : ~Inside(t)) => UNCHANGED <<session, slot>>
  BY <1>s, <1>0 DEF HookStart, HookMark, HookRecheck, NewProject, HookLeave, CommitEvent,
     TakeItem, QueuePoint, QueueDone, StoreDone, HookSkip, ForeignOwner, HookFrame
<1>2. running' => running
  BY <1>s, Zenon DEF HookStart, HookMark, HookRecheck, NewProject, HookLeave, CommitEvent,
     TakeItem, QueuePoint, QueueDone, StoreDone, HookSkip, ForeignOwner, HookFrame
<1>3. UNCHANGED <<session.externalStop, session.closed>>
      /\ (session'.intent = 1 => session.intent = 1 \/ h["ui"].pc = "inside")
  <2>1. CASE \E lost : LoseRow(lost)
    BY <1>0, <2>1, LostRowKeeps
  <2>2. CASE \E t \in Threads : NewProject(t)
    BY <1>0, <2>2 DEF NewProject, Sessions
  <2> QED
    BY <1>s, <2>1, <2>2 DEF HookStart, HookMark, HookRecheck, HookLeave, CommitEvent,
       TakeItem, QueuePoint, QueueDone, StoreDone, HookSkip, ForeignOwner, HookFrame
<1>4. app'.calls = app.calls
  BY <1>s, <1>0 DEF HookStart, HookMark, HookRecheck, NewProject, HookLeave, CommitEvent,
     TakeItem, QueuePoint, QueueDone, StoreDone, HookSkip, ForeignOwner, HookFrame, Apps
<1>5. Placed
  <2>1. ASSUME NEW t \in Threads, HookStart(t) PROVE Placed
    BY <1>0, <2>1 DEF HookStart, Move, Hooks, Threads
  <2>2. ASSUME NEW t \in Threads, HookMark(t) PROVE Placed
    BY <1>0, <2>2 DEF HookMark, Move, Hooks
  <2>3. ASSUME NEW t \in Threads, HookRecheck(t) PROVE Placed
    <3>1. Move(t, "leave") \/ (running /\ Move(t, "inside"))
      BY <2>3 DEF HookRecheck
    <3> QED BY <1>0, <2>3, <3>1 DEF HookRecheck, Move, Hooks
  <2>4. ASSUME NEW t \in Threads, NewProject(t) PROVE Placed
    BY <1>0, <2>4 DEF NewProject, Move, Hooks
  <2>5. ASSUME NEW t \in Threads, HookLeave(t) PROVE Placed
    <3>1. \E seam : h' = [h EXCEPT ![t] = [pc |-> "out", seam |-> seam]]
      BY <2>5 DEF HookLeave
    <3>2. lane' = [lane EXCEPT ![t] = FALSE]
      BY <2>5 DEF HookLeave
    <3> QED BY <1>0, <3>1, <3>2
  <2>6. CASE CommitEvent \/ QueuePoint \/ QueueDone \/ StoreDone
    BY <1>0, <2>6 DEF CommitEvent, QueuePoint, QueueDone, StoreDone, Move, Hooks
  <2>7. CASE TakeItem \/ HookSkip
    BY <1>0, <2>7 DEF TakeItem, HookSkip, Hooks
  <2>8. CASE ForeignOwner
    BY <2>8 DEF ForeignOwner, HookFrame, sources
  <2> QED BY <1>s, <2>1, <2>2, <2>3, <2>4, <2>5, <2>6, <2>7, <2>8
<1> QED BY <1>1, <1>2, <1>3, <1>4, <1>5

\* No hook gets inside once running is clear, and the consumer has seen the last out.
LEMMA SourceClosing ==
    ASSUME TypeInv, ClosingInv, OwnerHasConfirmed, Source
    PROVE  /\ ClosingInv' /\ OwnerHasConfirmed'
           /\ session.closed => UNCHANGED mailbox
           /\ app'.calls = app.calls
<1> USE SourceReach DEF ClosingInv
<1>0. "ui" \in Threads
  BY DEF Threads
<1>1. WordsTellTheTruth'
  BY DEF WordsTellTheTruth
<1>2. LooksStayTrue'
  BY DEF LooksStayTrue, Finalizing
<1>3. c.pc \in Reported => UNCHANGED mailbox
  BY DEF LooksStayTrue, mailbox
<1>4. ReportStands'
  BY <1>3 DEF ReportStands, Reported, mailbox, Idle, InFlight
<1>5. session.closed => UNCHANGED mailbox
  BY <1>3 DEF ReportStands, Reported
<1>6. OwnerHasConfirmed'
  BY <1>0 DEF OwnerHasConfirmed, Resting
<1> QED BY <1>1, <1>2, <1>4, <1>5, <1>6

\* A tick only clears running and only adds flags.
LEMMA TickReach ==
    ASSUME TypeInv, Tick
    PROVE  /\ UNCHANGED <<inHook, violation, lane, started, active, app, w, o, h, item, watched,
                          gate, total>>
           /\ UNCHANGED <<session.traceError, session.closed, session.intent,
                          session.stopRequested, session.stopSequence>>
           /\ session.externalStop => session'.externalStop
           /\ session.error => session'.error
           /\ running' => running
           /\ c.pc = "sleep" /\ c'.pc \in {"retire", "finalize"}
           /\ c'.pc = "retire" => running'
           /\ c'.pc = "finalize" => ~running'
<1>0. session \in Sessions /\ c \in Consumers
  BY DEF TypeInv, TypeOK
<1>1. PICK error, stop :
          /\ session' = [session EXCEPT !.error = error, !.externalStop = stop]
          /\ session.error => error
          /\ session.externalStop => stop
  BY Zenon DEF Tick
<1>2. running' => running
  BY Zenon DEF Tick
<1>3. /\ UNCHANGED <<session.traceError, session.closed, session.intent,
                     session.stopRequested, session.stopSequence>>
      /\ session.externalStop => session'.externalStop
      /\ session.error => session'.error
  BY <1>0, <1>1 DEF Sessions
<1>4. PICK polls :
          c' = [c EXCEPT !.pc = IF running' THEN "retire" ELSE "finalize",
                         !.sweep = 0, !.meterPolls = polls]
  BY Zenon DEF Tick
<1>5. c'.pc = IF running' THEN "retire" ELSE "finalize"
  BY <1>0, <1>4 DEF Consumers
<1>6. /\ UNCHANGED <<inHook, violation, lane, started, active, app, w, o, h, item, watched,
                     gate, total>>
      /\ c.pc = "sleep"
  BY DEF Tick, ConsumerFrame, sources
<1> QED BY <1>2, <1>3, <1>5, <1>6

\* A failed look costs a poll: the consumer sleeps again, or gives up.
LEMMA NotYetReach ==
    ASSUME TypeInv, NotYet
    PROVE  /\ c'.pc \in {"sleep", "failed"}
           /\ UNCHANGED <<session.traceError, session.closed, session.intent,
                          session.externalStop, session.stopRequested, session.stopSequence>>
           /\ session.error => session'.error
BY DEF TypeInv, TypeOK, NotYet, Sessions, Consumers

\* The consumer passes its looks in order, and its report sees the stranded requests.
LEMMA ConsumerClosing ==
    ASSUME TypeInv, ClosingInv, OwnerHasConfirmed, Consumer
    PROVE  ClosingInv' /\ OwnerHasConfirmed' /\ ~session.closed /\ UNCHANGED app
<1> USE DEF ClosingInv, sources
<1>0. session \in Sessions /\ c \in Consumers /\ gate \in 0 .. 2
  BY DEF TypeInv, TypeOK
<1>1. UNCHANGED <<inHook, violation, lane, started, active, app, w, o, h>>
  BY DEF Consumer, Tick, RetireScan, RetireDrained, RetireSeal, RetireCount, RetireRelease,
     FinalizeOwner, FinalizeStop, FinalizeGate, FinalizeSources, FinalizeReport,
     FinalizeClose, RetireFrame, FinalizeFrame, ConsumerFrame
<1>2. ~session.closed
  BY DEF Consumer, Tick, RetireScan, RetireDrained, RetireSeal, RetireCount, RetireRelease,
     FinalizeOwner, FinalizeStop, FinalizeGate, FinalizeSources, FinalizeReport,
     FinalizeClose, ReportStands
<1>3. CASE Tick
  <2>1. /\ gate' = gate /\ c.pc = "sleep" /\ c'.pc \in {"retire", "finalize"}
        /\ c'.pc = "retire" => running'
        /\ c'.pc = "finalize" => ~running'
        /\ running' => running
        /\ session'.intent = session.intent /\ session'.closed = session.closed
        /\ session.externalStop => session'.externalStop
    BY <1>3, TickReach
  <2>2. WordsTellTheTruth' /\ OwnerHasConfirmed'
    BY <1>1, <2>1 DEF WordsTellTheTruth, OwnerHasConfirmed
  <2>3. LooksStayTrue'
    BY <1>1, <2>1 DEF LooksStayTrue, Finalizing, Reported, RetirePass
  <2>4. ReportStands'
    BY <1>2, <2>1 DEF ReportStands
  <2> QED BY <1>1, <1>2, <2>2, <2>3, <2>4
<1>4. CASE RetireScan \/ RetireDrained \/ RetireSeal \/ RetireCount \/ RetireRelease
  <2>1. /\ UNCHANGED <<session, gate, running>> /\ c.pc \in RetirePass
        /\ \/ c'.pc \in RetirePass
           \/ c'.pc = "report" /\ gate = 2
           \/ c'.pc = "sleep" /\ running
           \/ c'.pc = "finalize" /\ ~running
    BY <1>0, <1>4 DEF RetireScan, RetireDrained, RetireSeal, RetireCount, RetireRelease,
       RetireFrame, RetirePass, Skip, To, Consumers
  <2>2. WordsTellTheTruth' /\ OwnerHasConfirmed'
    BY <1>1, <2>1 DEF WordsTellTheTruth, OwnerHasConfirmed
  <2>3. LooksStayTrue'
    BY <1>1, <2>1 DEF LooksStayTrue, Finalizing, Reported, RetirePass
  <2>4. ReportStands'
    BY <1>2, <2>1 DEF ReportStands, RetirePass
  <2> QED BY <1>1, <1>2, <2>2, <2>3, <2>4
<1>5. CASE FinalizeOwner \/ FinalizeGate \/ FinalizeSources
  <2>1. /\ c.pc \in {"finalize", "gate", "sources"} /\ running' = running
        /\ session'.intent = session.intent /\ session'.closed = session.closed
        /\ session.externalStop => session'.externalStop
        /\ gate' # gate => gate' = 2 /\ gate # 1
        /\ \/ c'.pc \in {"sleep", "failed"} /\ gate' = gate
           \/ c.pc = "finalize" /\ c'.pc = "shut" /\ ~inHook /\ gate' = gate
           \/ c.pc = "gate" /\ c'.pc = "sources" /\ gate' = 2
           \/ c.pc = "sources" /\ c'.pc = "retire" /\ LanesOut /\ gate' = gate
    BY <1>0, <1>5, NotYetReach DEF FinalizeOwner, FinalizeGate, FinalizeSources,
       FinalizeFrame, To, OwnerOut, WriterOut, Consumers
  <2>2. WordsTellTheTruth' /\ OwnerHasConfirmed'
    BY <1>1, <2>1 DEF WordsTellTheTruth, OwnerHasConfirmed
  <2>3. LooksStayTrue'
    BY <1>1, <2>1 DEF LooksStayTrue, WordsTellTheTruth, Finalizing, Reported, RetirePass,
       Resting, LanesOut
  <2>4. ReportStands'
    BY <1>2, <2>1 DEF ReportStands
  <2> QED BY <1>1, <1>2, <2>2, <2>3, <2>4
<1>6. CASE FinalizeStop \/ FinalizeReport \/ FinalizeClose
  <2>1. /\ UNCHANGED <<gate, total, slot, running>>
        /\ session'.intent = session.intent
        /\ session.externalStop => session'.externalStop
        /\ \/ c.pc = "shut" /\ c'.pc = "gate" /\ session'.externalStop /\ ~session'.closed
           \/ c.pc = "report" /\ c'.pc = "close" /\ ~session'.closed
              /\ (~session'.error /\ ~session'.traceError => Idle)
           \/ c.pc = "close" /\ c'.pc = "closed" /\ session'.error = session.error
              /\ session'.traceError = session.traceError
    BY <1>0, <1>2, <1>6 DEF FinalizeStop, FinalizeReport, FinalizeClose, FinalizeFrame, To,
       Consumers, Sessions
  <2>2. WordsTellTheTruth' /\ OwnerHasConfirmed'
    BY <1>1, <2>1 DEF WordsTellTheTruth, OwnerHasConfirmed
  <2>3. LooksStayTrue'
    BY <1>1, <2>1 DEF LooksStayTrue, Finalizing, Reported, RetirePass
  <2>4. Idle' <=> Idle
    BY <2>1 DEF Idle, InFlight
  <2>5. ReportStands'
    BY <1>2, <2>1, <2>4 DEF ReportStands
  <2> QED BY <1>1, <1>2, <2>2, <2>3, <2>5
<1> QED BY <1>3, <1>4, <1>5, <1>6 DEF Consumer

\* The application's exit sets a flag that a closed session has set already.
LEMMA ExitClosing ==
    ASSUME TypeInv, ClosingInv, OwnerHasConfirmed, Exit
    PROVE  /\ ClosingInv' /\ OwnerHasConfirmed' /\ UNCHANGED app
           /\ session.closed => UNCHANGED mailbox
<1> USE DEF ClosingInv, sources
<1>0. session \in Sessions
  BY DEF TypeInv, TypeOK
<1>1. /\ UNCHANGED <<gate, total, slot, inHook, lane, app, w, o, h, c>>
      /\ running' = FALSE /\ session' = [session EXCEPT !.externalStop = TRUE]
  BY DEF Exit, ConsumerFrame
<1>2. UNCHANGED <<session.error, session.traceError, session.closed, session.intent>>
      /\ session'.externalStop
  BY <1>0, <1>1 DEF Sessions
<1>3. session.externalStop => session' = session
  BY <1>0, <1>1 DEF Sessions
<1>4. session.closed => UNCHANGED mailbox
  BY <1>1, <1>3 DEF ReportStands, LooksStayTrue, Reported, mailbox
<1>5. WordsTellTheTruth' /\ LooksStayTrue' /\ OwnerHasConfirmed'
  BY <1>1, <1>2 DEF WordsTellTheTruth, LooksStayTrue, OwnerHasConfirmed
<1>6. ReportStands'
  BY <1>1, <1>2 DEF ReportStands, Idle, InFlight
<1> QED BY <1>1, <1>4, <1>5, <1>6

\* Every thread's steps, put together with what they leave alone.
LEMMA NextClosing ==
    ASSUME TypeInv, ClosingInv, OwnerHasConfirmed, [Next]_vars
    PROVE  /\ ClosingInv' /\ OwnerHasConfirmed'
           /\ session.closed => UNCHANGED mailbox
           /\ session.intent = 1 => app'.calls = app.calls
<1>1. CASE UNCHANGED vars
  BY <1>1 DEF vars, mailbox, private, sources, ClosingInv, WordsTellTheTruth, LooksStayTrue,
     ReportStands, OwnerHasConfirmed, Idle, InFlight
<1>2. CASE Writer
  BY <1>2, WriterClosing, WriterReach DEF private
<1>3. CASE Drain
  BY <1>3, DrainClosing
<1>4. CASE Source
  BY <1>4, SourceClosing
<1>5. CASE Consumer
  BY <1>5, ConsumerClosing
<1>6. CASE Exit
  BY <1>6, ExitClosing
<1> QED BY <1>1, <1>2, <1>3, <1>4, <1>5, <1>6 DEF Next

\* The looks of command_quiescent hold together in every state of every session.
THEOREM ClosingIsOrdered == Spec => [](TypeInv /\ ClosingInv /\ OwnerHasConfirmed)
<1>1. Init => TypeInv /\ ClosingInv /\ OwnerHasConfirmed
  BY InitTyped, InitClosing
<1>2. TypeInv /\ ClosingInv /\ OwnerHasConfirmed /\ [Next]_vars
         => (TypeInv /\ ClosingInv /\ OwnerHasConfirmed)'
  BY NextTyped, NextClosing
<1> QED BY <1>1, <1>2, PTL DEF Spec

\* "every shared byte immutable after closed": whatever the bridge, the owner, the
\* sources and the application's exit still do.
THEOREM ClosedMailboxIsFinal == Spec => ClosedIsFinal
<1>1. TypeInv /\ ClosingInv /\ OwnerHasConfirmed /\ [Next]_vars
         => [session.closed => UNCHANGED mailbox]_vars
  BY NextClosing
<1> QED BY <1>1, ClosingIsOrdered, PTL DEF Spec, ClosedIsFinal

\* The owner's confirmation is the last word: no drain calls a native setter after it.
THEOREM ConfirmedProjectEndsCalls == Spec => NewProjectBlocksCalls
<1>1. TypeInv /\ ClosingInv /\ OwnerHasConfirmed /\ [Next]_vars
         => [session.intent = 1 => app'.calls = app.calls]_vars
  BY NextClosing
<1> QED BY <1>1, ClosingIsOrdered, PTL DEF Spec, NewProjectBlocksCalls

\* "publication-before-stop cannot masquerade as" a clean close.
THEOREM CleanCloseStrandsNothing == Spec => []CleanCloseIsComplete
<1>1. TypeInv /\ ClosingInv /\ OwnerHasConfirmed => CleanCloseIsComplete
  BY DEF ClosingInv, ReportStands, Idle, CleanCloseIsComplete
<1> QED BY <1>1, ClosingIsOrdered, PTL

-----------------------------------------------------------------------------
\* Receipts: a number from its publication to the release of its slot.

Number(at)  == slot[at].published
Serving(at) == o.serving = at /\ o.pc \in {"validate", "call", "return", "process", "consume"}
Sweeping(at) == c.sweep = at /\ c.pc \in {"drained", "lanes", "seal", "count", "release"}
Pending(n)  == item.seq = n \/ \E i \in DOMAIN app.queue : app.queue[i] = n

\* What a slot says of its request: numbers of this request, or of an older one.
Words(at) == {slot[at].processed, slot[at].returned, slot[at].dispatched, slot[at].done,
              slot[at].sealed, slot[at].settled, slot[at].reclaimed, started[at], active[at]}

\* A number is counted before its slot carries it.
Frontmost == IF w.pc = "counted" THEN total.published - 1 ELSE total.published

\* Numbers are given out in order, a slot's words are no newer than its request, and
\* the application has seen no number that no slot has carried.
NumbersInOrder ==
    /\ w.pc \in {"changing", "stored", "confirmed", "counted"} => w.seq = Frontmost + 1
    /\ \A at \in Slots :
          /\ Number(at) <= Frontmost
          /\ \A word \in Words(at) : word <= Number(at)
    /\ \A n \in Tickets : n > Frontmost => app.calls[n] = 0
    /\ \A a, b \in Slots : Number(a) = Number(b) /\ a # b => Number(a) = 0

\* The owner answers a waiting request once, and the request it has not called yet
\* was never called.
OneCallPerNumber ==
    /\ \A n \in Tickets : app.calls[n] <= 1
    /\ \A at \in Slots :
          /\ Serving(at) => InFlight(at) /\ Number(at) # 0
          /\ Serving(at) => (slot[at].processed = Number(at) <=> o.pc = "consume")
          /\ Serving(at) /\ o.pc = "call" => started[at] = Number(at) /\ active[at] = Number(at)
          /\ Serving(at) /\ o.pc = "validate" => active[at] = Number(at)
          /\ Serving(at) /\ o.pc = "return" => app.calls[Number(at)] = 1
          /\ Waiting(at) /\ ~(Serving(at) /\ o.pc \in {"return", "process"})
                => app.calls[Number(at)] = 0

\* Each receipt stands on the one before it.
ReceiptsAreEarned ==
    /\ \A at \in Slots : Number(at) # 0 =>
          /\ app.calls[Number(at)] # 0 => started[at] = Number(at)
          /\ slot[at].returned = Number(at) => app.calls[Number(at)] = 1
          /\ slot[at].sealed = Number(at) =>
                slot[at].done = Number(at) /\ slot[at].returned = Number(at)
          /\ slot[at].settled = Number(at) => slot[at].sealed = Number(at)
          /\ slot[at].reclaimed = Number(at) =>
                slot[at].settled = Number(at) \/ app.calls[Number(at)] = 0
    /\ w.pc = "certified" => slot[w.slot].sealed = w.seq /\ Number(w.slot) = w.seq

\* A call the application still holds is the only one of its number, and its slot is
\* in flight; once the call is no longer followed it is at its last seam, or came
\* back refused.
PendingCallsHaveSlots ==
    /\ \A i \in DOMAIN app.queue : app.queue[i] # 0 /\ app.queue[i] # item.seq
    /\ \A i, j \in DOMAIN app.queue : i # j => app.queue[i] # app.queue[j]
    /\ \A n \in Tickets : n # 0 /\ Pending(n) =>
          app.calls[n] = 1 /\ \E at \in Slots : Number(at) = n /\ InFlight(at)
    /\ \A at \in Slots : Number(at) # 0 /\ Pending(Number(at)) /\ active[at] # Number(at) =>
          \/ slot[at].returned # Number(at) /\ ~(Serving(at) /\ o.pc = "return")
          \/ /\ item.seq = Number(at) /\ h["audio"].seam = "done"
             /\ h["audio"].pc \in {"cleared", "leave"}
    /\ item.seq = 0 => item = NoItem
    /\ item.seq = 0 <=> h["audio"].seam = "new_project"
    /\ h["audio"].pc = "cleared" =>
          h["audio"].seam = "done" /\ \A at \in Slots : Number(at) = item.seq => active[at] # item.seq

\* The consumer releases a slot only when its call is over or was never made.
SweepsAreOver ==
    \A at \in Slots : Sweeping(at) =>
        /\ InFlight(at) /\ slot[at].processed = Number(at) /\ Number(at) # 0
        /\ active[at] = 0
        /\ Serving(at) => c.pc = "drained"
        /\ c.pc = "seal" => slot[at].returned # Number(at) \/ ~Pending(Number(at))
        /\ c.pc \in {"count", "release"} =>
              /\ slot[at].settled = Number(at) \/ app.calls[Number(at)] = 0
              /\ ~Pending(Number(at))

LanesMark == h["audio"].pc \notin {"out", "checked"} => lane["audio"] = TRUE

ReceiptInv == /\ NumbersInOrder /\ OneCallPerNumber /\ ReceiptsAreEarned
              /\ PendingCallsHaveSlots /\ SweepsAreOver /\ LanesMark

\* A stop is stored over an idle mailbox, and no writer gets in after it.
StopInv ==
    /\ w.pc = "quiet" => \A at \in Slots : ~InFlight(at)
    /\ session.stopRequested =>
          /\ total.published = session.stopSequence
          /\ \A at \in Slots : ~InFlight(at)
          /\ w.pc \in {"out", "entering", "entered", "leaving", "dead"}

\* A jog on its way to its native call has no unfinished jog before it.
JogInv ==
    \A at, other \in Slots :
        (/\ Serving(at) /\ o.pc \in {"validate", "call"} /\ Jog(at)
         /\ Jog(other) /\ InFlight(other) /\ Older(other, at))
            => slot[other].done = Number(other)

-----------------------------------------------------------------------------
(* Facts every case needs.                                                  *)

\* The words of a slot are natural numbers.
LEMMA WordsAreNumbers ==
    ASSUME TypeInv, NEW at \in Slots
    PROVE  /\ Number(at) \in Tickets /\ Words(at) \subseteq Tickets
           /\ Tickets \subseteq Nat /\ 0 \in Tickets
BY Sizes DEF TypeInv, TypeOK, SlotWords, Tickets, Number, Words

\* A call the application still holds was made once, for a request in flight.
LEMMA PendingIsCalled ==
    ASSUME ReceiptInv, NEW n \in Tickets, n # 0, Pending(n)
    PROVE  app.calls[n] = 1 /\ \E at \in Slots : Number(at) = n /\ InFlight(at)
BY DEF ReceiptInv, PendingCallsHaveSlots

\* SlotOf finds the one slot that carries a number.
LEMMA OneSlotPerNumber ==
    ASSUME NumbersInOrder, NEW at \in Slots, Number(at) # 0
    PROVE  SlotOf(Number(at)) = at
<1>1. \E b \in Slots : slot[b].published = Number(at)
  BY DEF Number
<1>2. SlotOf(Number(at)) \in Slots /\ slot[SlotOf(Number(at))].published = Number(at)
  BY <1>1 DEF SlotOf
<1> QED BY <1>2 DEF NumbersInOrder, Number

\* The words of a slot the invariants speak about.
Receipts(at) ==
    <<slot[at].published, slot[at].processed, slot[at].returned, slot[at].dispatched,
      slot[at].done, slot[at].sealed, slot[at].settled, slot[at].reclaimed,
      started[at], active[at]>>

SameReceipts == \A at \in Slots : UNCHANGED Receipts(at)

\* startup: every word is zero and nobody is anywhere.
LEMMA InitReceipts == Init => ReceiptInv
<1> SUFFICES ASSUME Init PROVE ReceiptInv
  OBVIOUS
<1> USE Sizes DEF Init, NoJob, NoItem, Slots, Tickets, Threads
<1>1. NumbersInOrder
  BY DEF NumbersInOrder, Frontmost, Number, Words
<1>2. OneCallPerNumber
  BY DEF OneCallPerNumber, Serving, Waiting, InFlight, Number
<1>3. ReceiptsAreEarned
  BY DEF ReceiptsAreEarned, Number
<1>4. PendingCallsHaveSlots
  BY DEF PendingCallsHaveSlots, Pending, Number
<1>5. SweepsAreOver /\ LanesMark
  BY DEF SweepsAreOver, Sweeping, LanesMark
<1> QED BY <1>1, <1>2, <1>3, <1>4, <1>5 DEF ReceiptInv

\* A step that changes none of these words keeps the invariant, if the writer, the
\* owner, the audio thread and the consumer go where the invariant lets them be.
LEMMA WordsKept ==
    ASSUME TypeInv, ReceiptInv, TypeInv', SameReceipts, UNCHANGED <<app, item>>,
           Frontmost <= Frontmost',
           w'.pc \in {"changing", "stored", "confirmed", "counted"} => w'.seq = Frontmost' + 1,
           w'.pc = "certified" =>
              slot[w'.slot].sealed = w'.seq /\ slot[w'.slot].published = w'.seq,
           o' = o \/ (/\ o.pc \notin {"return", "process"}
                      /\ \A at \in Slots : ~Serving(at)'),
           h'["audio"].seam = h["audio"].seam,
           \/ h'["audio"].pc = h["audio"].pc
           \/ h'["audio"].pc # "cleared" /\ h["audio"].pc \notin {"cleared", "leave"}
           \/ h'["audio"].pc = "leave",
           LanesMark',
           SweepsAreOver'
    PROVE  ReceiptInv'
<1>0. \A at \in Slots :
         /\ UNCHANGED <<slot[at].published, slot[at].processed, slot[at].returned,
                        slot[at].dispatched, slot[at].done, slot[at].sealed,
                        slot[at].settled, slot[at].reclaimed, started[at], active[at]>>
         /\ Number(at)' = Number(at) /\ InFlight(at)' = InFlight(at)
         /\ Waiting(at)' = Waiting(at) /\ Words(at)' = Words(at)
  BY DEF SameReceipts, Receipts, Number, InFlight, Waiting, Words
<1>1. NumbersInOrder'
  <2>1. Frontmost \in Int /\ Frontmost' \in Int /\ Tickets \subseteq Nat
    BY DEF TypeInv, TypeOK, Totals, Tickets, Frontmost
  <2>2. \A at \in Slots : Number(at) \in Nat
    BY WordsAreNumbers
  <2>3. \A n \in Tickets : n > Frontmost' => app'.calls[n] = 0
    BY <2>1 DEF ReceiptInv, NumbersInOrder
  <2>4. ASSUME NEW at \in Slots PROVE Number(at)' <= Frontmost'
    <3>1. Number(at)' = Number(at) /\ Number(at) \in Int /\ Number(at) <= Frontmost
      BY <1>0, <2>2 DEF ReceiptInv, NumbersInOrder
    <3> QED BY <2>1, <3>1
  <2>5. \A at \in Slots : \A word \in Words(at)' : word <= Number(at)'
    BY <1>0 DEF ReceiptInv, NumbersInOrder
  <2>6. \A a, b \in Slots : Number(a)' = Number(b)' /\ a # b => Number(a)' = 0
    BY <1>0 DEF ReceiptInv, NumbersInOrder
  <2> QED BY <2>3, <2>4, <2>5, <2>6 DEF NumbersInOrder
<1>2. \A at \in Slots : \/ o' = o /\ (Serving(at)' <=> Serving(at))
                        \/ ~Serving(at)' /\ o.pc \notin {"return", "process"}
  BY DEF Serving
<1>3. OneCallPerNumber'
  BY <1>0, <1>2 DEF ReceiptInv, OneCallPerNumber, Serving
<1>4. ReceiptsAreEarned'
  <2>1. w'.slot \in Slots
    BY DEF TypeInv, TypeOK, Jobs
  <2> QED BY <1>0, <2>1 DEF ReceiptInv, ReceiptsAreEarned, Number
<1>5. PendingCallsHaveSlots'
  <2>1. \A n : Pending(n)' <=> Pending(n)
    BY DEF Pending
  <2> QED BY <1>0, <1>2, <2>1 DEF ReceiptInv, PendingCallsHaveSlots, Serving
<1> QED BY <1>1, <1>3, <1>4, <1>5 DEF ReceiptInv

\* The same for what the consumer relies on, when it does not move itself.
LEMMA SweepsKept ==
    ASSUME ReceiptInv, SameReceipts, UNCHANGED <<app, item, c>>,
           o' = o \/ \A at \in Slots : ~Serving(at)'
    PROVE  SweepsAreOver'
<1>1. \A at \in Slots :
         /\ slot'[at].processed = slot[at].processed /\ slot'[at].returned = slot[at].returned
         /\ slot'[at].settled = slot[at].settled /\ active'[at] = active[at]
         /\ Number(at)' = Number(at) /\ InFlight(at)' = InFlight(at)
         /\ Sweeping(at)' <=> Sweeping(at)
         /\ Serving(at)' => Serving(at)
  BY DEF SameReceipts, Receipts, Number, InFlight, Sweeping, Serving
<1>2. \A n : Pending(n)' <=> Pending(n)
  BY DEF Pending
<1> QED BY <1>1, <1>2 DEF ReceiptInv, SweepsAreOver

-----------------------------------------------------------------------------
(* The writer.                                                              *)

\* Up to the store of published, and around a settlement or a stop, the writer
\* touches no word of a request.
LEMMA WriterKeeps ==
    ASSUME TypeInv, ReceiptInv, Writer, ~PublishSlot, ~StoreSettled
    PROVE  ReceiptInv'
<1>0. /\ w \in Jobs /\ total \in Totals /\ slot \in [Slots -> SlotWords] /\ TypeInv'
      /\ total.published \in Nat /\ w.seq \in Nat
  BY WriterTyped DEF TypeInv, TypeOK, Tickets, Totals, Jobs
<1>1. UNCHANGED <<private, app, o, sources, c>>
  BY DEF Writer, BeginJob, Begin, EnterGate, AdmitWriter, CheckPublish, StoreRequest,
     ConfirmIntent, PublishTotal, PublishSlot, CheckSealed, StoreSettled, CheckIdle,
     StoreStop, LeaveGate, WriterDies, WriterFrame
<1>2. SameReceipts
  <2>1. CASE slot' = slot
    BY <1>1, <2>1 DEF SameReceipts, Receipts, private
  <2>2. CASE CheckPublish
    BY <1>0, <1>1, <2>1, <2>2 DEF CheckPublish, SameReceipts, Receipts, private, SlotWords
  <2>3. CASE StoreRequest
    BY <1>0, <1>1, <2>3 DEF StoreRequest, SameReceipts, Receipts, private, SlotWords
  <2> QED
    BY <2>1, <2>2, <2>3 DEF Writer, BeginJob, Begin, EnterGate, AdmitWriter, ConfirmIntent,
       PublishTotal, CheckSealed, CheckIdle, StoreStop, LeaveGate, WriterDies, mailbox
<1> DEFINE Placed ==
       /\ Frontmost <= Frontmost'
       /\ w'.pc \in {"changing", "stored", "confirmed", "counted"} => w'.seq = Frontmost' + 1
       /\ w'.pc = "certified" =>
             slot[w'.slot].sealed = w'.seq /\ slot[w'.slot].published = w'.seq
<1>n. w.pc \in {"changing", "stored", "confirmed", "counted"} => w.seq = Frontmost + 1
  BY DEF ReceiptInv, NumbersInOrder
<1>3. Placed
  <2> USE <1>0, <1>n DEF Frontmost, Totals, Jobs, Go
  <2>1. CASE BeginJob
    BY <2>1 DEF BeginJob, Begin, mailbox
  <2>2. CASE EnterGate \/ LeaveGate
    <3>1. /\ total' = total /\ w.pc \in {"entering", "leaving"}
          /\ w'.pc \in {"out", "entered"}
      BY <2>2 DEF EnterGate, LeaveGate, NoJob
    <3> QED BY <3>1
  <2>9. CASE AdmitWriter
    <3>1. Go("inside") \/ Go("leaving")
      BY <2>9 DEF AdmitWriter
    <3> QED BY <2>9, <3>1 DEF AdmitWriter, mailbox
  <2>3. CASE CheckPublish
    BY <2>3 DEF CheckPublish, Publishable
  <2>4. CASE StoreRequest \/ ConfirmIntent
    BY <2>4 DEF StoreRequest, ConfirmIntent, mailbox
  <2>5. CASE PublishTotal
    BY <2>5 DEF PublishTotal
  <2>6. CASE CheckSealed
    BY <2>6 DEF CheckSealed, mailbox
  <2>7. CASE CheckIdle \/ StoreStop
    BY <2>7 DEF CheckIdle, StoreStop, mailbox
  <2>8. CASE WriterDies
    BY <2>8 DEF WriterDies, NoJob, mailbox
  <2> QED BY <2>1, <2>2, <2>3, <2>4, <2>5, <2>6, <2>7, <2>8, <2>9 DEF Writer
<1>4. SweepsAreOver' /\ LanesMark'
  BY <1>1, <1>2, SweepsKept DEF ReceiptInv, LanesMark, private, sources
<1> QED BY <1>0, <1>1, <1>2, <1>3, <1>4, WordsKept DEF sources

\* A settlement is stored over a sealed transaction of the same number.
LEMMA SettlementKeeps ==
    ASSUME TypeInv, ReceiptInv, StoreSettled
    PROVE  ReceiptInv'
<1>0. /\ w \in Jobs /\ slot \in [Slots -> SlotWords] /\ w.slot \in Slots /\ w.pc = "certified"
      /\ w'.pc = "leaving" /\ UNCHANGED <<private, app, o, sources, c, total>>
      /\ slot' = [slot EXCEPT ![w.slot].settled = w.seq]
      /\ slot[w.slot].sealed = w.seq /\ Number(w.slot) = w.seq
  BY DEF StoreSettled, Go, TypeInv, TypeOK, Jobs, WriterFrame, ReceiptInv, ReceiptsAreEarned
<1>1. \A at \in Slots :
         /\ slot'[at].processed = slot[at].processed /\ slot'[at].returned = slot[at].returned
         /\ slot'[at].dispatched = slot[at].dispatched /\ slot'[at].done = slot[at].done
         /\ slot'[at].sealed = slot[at].sealed /\ slot'[at].reclaimed = slot[at].reclaimed
         /\ started'[at] = started[at] /\ active'[at] = active[at]
         /\ \/ slot'[at].settled = slot[at].settled
            \/ slot'[at].settled = Number(at) /\ slot[at].sealed = Number(at)
         /\ Number(at)' = Number(at) /\ InFlight(at)' = InFlight(at)
         /\ Waiting(at)' = Waiting(at)
         /\ Serving(at)' = Serving(at) /\ Sweeping(at)' = Sweeping(at)
  BY <1>0 DEF SlotWords, private, Number, InFlight, Waiting, Serving, Sweeping
<1>2. NumbersInOrder'
  <2>1. Frontmost' = Frontmost
    BY <1>0 DEF Frontmost
  <2>2. ASSUME NEW at \in Slots, NEW word \in Words(at)' PROVE word <= Number(at)'
    <3>1. word \in Words(at) \/ word = Number(at)
      BY <1>1 DEF Words
    <3>2. Number(at) \in Nat
      BY WordsAreNumbers
    <3> QED BY <1>1, <3>1, <3>2 DEF ReceiptInv, NumbersInOrder
  <2> QED BY <1>0, <1>1, <2>1, <2>2 DEF ReceiptInv, NumbersInOrder
<1>3. OneCallPerNumber'
  BY <1>0, <1>1 DEF ReceiptInv, OneCallPerNumber, Serving
<1>4. ReceiptsAreEarned'
  BY <1>0, <1>1 DEF ReceiptInv, ReceiptsAreEarned
<1>p. \A n : Pending(n)' <=> Pending(n)
  BY <1>0 DEF Pending, sources
<1>5. PendingCallsHaveSlots'
  BY <1>0, <1>1, <1>p DEF ReceiptInv, PendingCallsHaveSlots, Serving, sources
<1>6. SweepsAreOver' /\ LanesMark'
  BY <1>0, <1>1, <1>p DEF ReceiptInv, SweepsAreOver, LanesMark, sources, private
<1> QED BY <1>2, <1>3, <1>4, <1>5, <1>6 DEF ReceiptInv

\* The store of published: the slot was free, so its old number is over, and its new
\* one is newer than anything said or called so far.
LEMMA PublicationKeeps ==
    ASSUME TypeInv, PublishInv, ReceiptInv, PublishSlot
    PROVE  ReceiptInv'
<1>0. /\ w \in Jobs /\ slot \in [Slots -> SlotWords] /\ w.slot \in Slots /\ w.pc = "counted"
      /\ w'.pc = "leaving" /\ UNCHANGED <<private, app, o, sources, c, total>>
      /\ w.seq = total.published /\ w.seq \in Tickets /\ w.seq \in Nat
      /\ Frontmost = w.seq - 1
  <2>1. w \in Jobs /\ total \in Totals /\ w.pc = "counted" /\ total.published \in Nat
    BY DEF PublishSlot, TypeInv, TypeOK, Tickets, Totals
  <2>2. w.seq = Frontmost + 1 /\ Frontmost = total.published - 1
    BY <2>1 DEF ReceiptInv, NumbersInOrder, Frontmost
  <2> QED BY <2>1, <2>2 DEF PublishSlot, Go, TypeInv, TypeOK, Jobs, WriterFrame, Tickets
<1>f. ~InFlight(w.slot)
  BY <1>0 DEF PublishInv, WriterOwnsSlot
<1>g. ~Serving(w.slot) /\ ~Sweeping(w.slot)
  BY <1>0, <1>f DEF ReceiptInv, OneCallPerNumber, SweepsAreOver
<1>t. \A at \in Slots : /\ Number(at) \in Nat /\ Words(at) \subseteq Nat
                        /\ Number(at) < w.seq
                        /\ \A word \in Words(at) : word < w.seq
  <2>1. ASSUME NEW at \in Slots
        PROVE  /\ Number(at) \in Nat /\ Words(at) \subseteq Nat
               /\ Number(at) < w.seq
               /\ \A word \in Words(at) : word < w.seq
    <3>1. Number(at) \in Nat /\ Words(at) \subseteq Nat /\ w.seq \in Nat
      BY <1>0, WordsAreNumbers
    <3>2. Number(at) <= w.seq - 1
      BY <1>0 DEF ReceiptInv, NumbersInOrder, Frontmost
    <3>3. \A word \in Words(at) : word <= Number(at)
      BY DEF ReceiptInv, NumbersInOrder
    <3> QED BY <3>1, <3>2, <3>3
  <2> QED BY <2>1
<1>c. app.calls[w.seq] = 0 /\ w.seq # 0
  <2>1. w.seq # 0
    BY <1>0, <1>t
  <2>2. w.seq > Frontmost
    BY <1>0
  <2> QED BY <1>0, <2>1, <2>2 DEF ReceiptInv, NumbersInOrder
<1>1. \A at \in Slots :
         /\ slot'[at].processed = slot[at].processed /\ slot'[at].returned = slot[at].returned
         /\ slot'[at].dispatched = slot[at].dispatched /\ slot'[at].done = slot[at].done
         /\ slot'[at].sealed = slot[at].sealed /\ slot'[at].reclaimed = slot[at].reclaimed
         /\ slot'[at].settled = slot[at].settled
         /\ started'[at] = started[at] /\ active'[at] = active[at]
         /\ Number(at)' = IF at = w.slot THEN w.seq ELSE Number(at)
         /\ Words(at)' = Words(at)
         /\ Serving(at)' = Serving(at) /\ Sweeping(at)' = Sweeping(at)
  BY <1>0 DEF PublishSlot, SlotWords, private, Number, Words, Serving, Sweeping
<1>2. \A at \in Slots : at # w.slot => /\ InFlight(at)' = InFlight(at)
                                       /\ Waiting(at)' = Waiting(at)
  BY <1>1 DEF InFlight, Waiting, Number
<1>3. slot[w.slot].processed # w.seq /\ slot[w.slot].returned # w.seq
      /\ slot[w.slot].sealed # w.seq /\ slot[w.slot].settled # w.seq
      /\ slot[w.slot].reclaimed # w.seq
  BY <1>0, <1>t DEF Words
<1>4. NumbersInOrder'
  <2>1. Frontmost' = w.seq
    BY <1>0 DEF Frontmost
  <2>2. ASSUME NEW at \in Slots
        PROVE  Number(at)' <= w.seq /\ \A word \in Words(at)' : word <= Number(at)'
    <3>1. /\ Number(at) \in Nat /\ Words(at) \subseteq Nat /\ Number(at) < w.seq
          /\ \A word \in Words(at) : word < w.seq
          /\ \A word \in Words(at) : word <= Number(at)
      BY <1>t DEF ReceiptInv, NumbersInOrder
    <3>2. Words(at)' = Words(at) /\ (Number(at)' = w.seq \/ Number(at)' = Number(at))
      BY <1>1
    <3> QED BY <1>0, <3>1, <3>2
  <2>3. ASSUME NEW n \in Tickets, n > w.seq PROVE app.calls[n] = 0
    <3>1. n > Frontmost
      BY <1>0, <2>3 DEF Tickets
    <3> QED BY <3>1 DEF ReceiptInv, NumbersInOrder
  <2>4. \A a, b \in Slots : Number(a)' = Number(b)' /\ a # b => Number(a)' = 0
    BY <1>1, <1>t DEF ReceiptInv, NumbersInOrder
  <2> QED BY <1>0, <2>1, <2>2, <2>3, <2>4 DEF NumbersInOrder
<1>5. OneCallPerNumber'
  BY <1>0, <1>1, <1>2, <1>3, <1>c, <1>g DEF ReceiptInv, OneCallPerNumber, Serving
<1>6. ReceiptsAreEarned'
  BY <1>0, <1>1, <1>3, <1>c DEF ReceiptInv, ReceiptsAreEarned
<1>p. \A n : Pending(n)' <=> Pending(n)
  BY <1>0 DEF Pending, sources
<1>q. ~Pending(w.seq)
  BY <1>0, <1>c, PendingIsCalled
<1>7. PendingCallsHaveSlots'
  <2>1. ASSUME NEW n \in Tickets, n # 0, Pending(n)
        PROVE  app.calls[n] = 1 /\ \E at \in Slots : Number(at)' = n /\ InFlight(at)'
    BY <1>1, <1>2, <1>f, <2>1, PendingIsCalled
  <2>2. \A at \in Slots : Number(at)' = item.seq => at # w.slot /\ Number(at) = item.seq
    BY <1>1, <1>q DEF Pending
  <2> QED
    BY <1>0, <1>1, <1>p, <1>q, <2>1, <2>2 DEF ReceiptInv, PendingCallsHaveSlots, Serving, sources
<1>8. SweepsAreOver' /\ LanesMark'
  BY <1>0, <1>1, <1>2, <1>g, <1>p DEF ReceiptInv, SweepsAreOver, LanesMark, sources, private
<1> QED BY <1>4, <1>5, <1>6, <1>7, <1>8 DEF ReceiptInv

\* Whatever the writer does.
LEMMA WriterReceipts ==
    ASSUME TypeInv, PublishInv, ReceiptInv, Writer
    PROVE  ReceiptInv'
BY WriterKeeps, SettlementKeeps, PublicationKeeps

-----------------------------------------------------------------------------
(* The UI owner.                                                            *)

\* What every step of a drain leaves alone.
LEMMA DrainLeaves ==
    ASSUME TypeInv, Drain
    PROVE  /\ UNCHANGED <<gate, violation, lane, w, sources, c>>
           /\ total'.published = total.published
           /\ session'.stopRequested = session.stopRequested
           /\ session'.stopSequence = session.stopSequence
<1>0. session \in Sessions /\ total \in Totals
  BY DEF TypeInv, TypeOK
<1>1. UNCHANGED <<gate, violation, lane, w, sources, c>>
  BY DEF Drain, DrainCheck, DrainEnter, DrainRecheck, ServiceStart, ServeOrdinary,
     ServeOrdered, Validate, Call, Return, Process, Consume, DrainLeave, OwnerFrame
<1>2. total'.published = total.published
  <2>1. CASE Consume
    BY <1>0, <2>1 DEF Consume, Totals
  <2> QED
    BY <2>1 DEF Drain, DrainCheck, DrainEnter, DrainRecheck, ServiceStart, ServeOrdinary,
       ServeOrdered, Validate, Call, Return, Process, DrainLeave
<1>3. session'.stopRequested = session.stopRequested
      /\ session'.stopSequence = session.stopSequence
  <2>1. CASE Consume
    BY <1>0, <2>1 DEF Consume, Sessions
  <2>2. CASE \E lost : LoseRow(lost)
    BY <1>0, <2>2, LostRowKeeps
  <2> QED
    BY <2>1, <2>2 DEF Drain, DrainCheck, DrainEnter, DrainRecheck, ServiceStart,
       ServeOrdinary, ServeOrdered, Accept, Validate, Call, Return, Process, DrainLeave
<1> QED BY <1>1, <1>2, <1>3

\* What no step of a drain disturbs.
LEMMA DrainFrame ==
    ASSUME TypeInv, ReceiptInv, Drain
    PROVE  /\ Frontmost' = Frontmost /\ LanesMark'
           /\ w'.pc \in {"changing", "stored", "confirmed", "counted"} =>
                 w'.seq = Frontmost' + 1
           /\ \A at \in Slots : Sweeping(at)' = Sweeping(at)
BY DrainLeaves DEF Frontmost, LanesMark, ReceiptInv, NumbersInOrder, sources, Sweeping

\* Outside the service of one request a drain touches no word of any.
LEMMA DrainKeeps ==
    ASSUME TypeInv, ReceiptInv, Drain, SameReceipts, app' = app,
           o.pc \notin {"return", "process"}, \A at \in Slots : ~Serving(at)'
    PROVE  ReceiptInv'
<1>1. TypeInv' /\ UNCHANGED <<w, sources, c>>
  BY DrainTyped, DrainLeaves
<1>2. SweepsAreOver'
  BY <1>1, SweepsKept DEF sources
<1>3. w.pc = "certified" =>
         slot[w.slot].sealed = w.seq /\ slot[w.slot].published = w.seq
  BY DEF ReceiptInv, ReceiptsAreEarned, Number
<1>4. Frontmost <= Frontmost'
  BY DrainFrame DEF TypeInv, TypeOK, Totals, Tickets, Frontmost
<1> QED BY <1>1, <1>2, <1>3, <1>4, DrainFrame, WordsKept DEF sources

\* A request is accepted while it waits: the application has not seen its number.
LEMMA AcceptReceipts ==
    ASSUME TypeInv, ReceiptInv, Drain, NEW at \in Slots, NEW visit \in 0 .. SlotCount,
           Accept(at, visit), Waiting(at), app' = app, o.pc \in {"ordinary", "ordered"}
    PROVE  ReceiptInv'
<1>0. /\ slot \in [Slots -> SlotWords] /\ o \in Drains
      /\ started \in [Slots -> Tickets] /\ active \in [Slots -> Tickets]
      /\ UNCHANGED <<w, sources, c>> /\ w.slot \in Slots
  BY DrainLeaves DEF TypeInv, TypeOK, Jobs
<1>1. o'.serving = at /\ o'.pc \in {"process", "validate"}
  BY <1>0 DEF Accept, Drains
<1>2. PICK refuse \in BOOLEAN :
         /\ slot' = [slot EXCEPT ![at].rejected = refuse, ![at].rows = 0]
         /\ active' = IF refuse THEN active ELSE [active EXCEPT ![at] = Number(at)]
         /\ o'.pc = IF refuse THEN "process" ELSE "validate"
  BY <1>0 DEF Accept, Number, Drains
<1>3. \A b \in Slots :
         /\ slot'[b].processed = slot[b].processed /\ slot'[b].returned = slot[b].returned
         /\ slot'[b].dispatched = slot[b].dispatched /\ slot'[b].done = slot[b].done
         /\ slot'[b].sealed = slot[b].sealed /\ slot'[b].reclaimed = slot[b].reclaimed
         /\ slot'[b].settled = slot[b].settled
         /\ Number(b)' = Number(b) /\ InFlight(b)' = InFlight(b) /\ Waiting(b)' = Waiting(b)
         /\ ~Serving(b) /\ (Serving(b)' <=> b = at)
  BY <1>0, <1>1, <1>2 DEF SlotWords, Number, InFlight, Waiting, Serving
<1>4. \A b \in Slots :
         /\ started'[b] = IF b = at THEN 0 ELSE started[b]
         /\ b # at => active'[b] = active[b]
         /\ active'[b] = active[b] \/ active'[b] = Number(b)
         /\ o'.pc = "validate" => active'[at] = Number(at)
  BY <1>0, <1>2 DEF Accept, Number
<1>5. /\ app.calls[Number(at)] = 0 /\ Number(at) # 0 /\ Number(at) \in Tickets
      /\ ~Sweeping(at) /\ ~Pending(Number(at))
  <2>1. app.calls[Number(at)] = 0 /\ Number(at) # 0 /\ Number(at) \in Tickets
    BY <1>3, WordsAreNumbers DEF ReceiptInv, OneCallPerNumber, Waiting, Number
  <2>2. ~Sweeping(at)
    BY DEF ReceiptInv, SweepsAreOver, Waiting, Number
  <2> QED BY <2>1, <2>2, PendingIsCalled
<1>6. NumbersInOrder'
  <2>1. ASSUME NEW b \in Slots, NEW word \in Words(b)' PROVE word <= Number(b)'
    <3>1. word \in Words(b) \/ word = 0 \/ word = Number(b)
      BY <1>3, <1>4 DEF Words
    <3>2. Number(b) \in Nat
      BY WordsAreNumbers
    <3> QED BY <1>3, <3>1, <3>2 DEF ReceiptInv, NumbersInOrder
  <2> QED BY <1>3, <2>1, DrainFrame DEF ReceiptInv, NumbersInOrder
<1>7. OneCallPerNumber'
  BY <1>1, <1>3, <1>4, <1>5 DEF ReceiptInv, OneCallPerNumber, Waiting, Number
<1>8. ReceiptsAreEarned'
  BY <1>0, <1>3, <1>4, <1>5 DEF ReceiptInv, ReceiptsAreEarned
<1>p. \A n : Pending(n)' <=> Pending(n)
  BY <1>0 DEF Pending, sources
<1>9. PendingCallsHaveSlots'
  BY <1>0, <1>1, <1>3, <1>4, <1>5, <1>p DEF ReceiptInv, PendingCallsHaveSlots, Pending, sources
<1>10. SweepsAreOver'
  BY <1>0, <1>3, <1>4, <1>5, <1>p, DrainFrame DEF ReceiptInv, SweepsAreOver
<1> QED BY <1>6, <1>7, <1>8, <1>9, <1>10, DrainFrame DEF ReceiptInv

\* The request being served has a number of its own, which the consumer is not at.
LEMMA ServedRequest ==
    ASSUME TypeInv, ReceiptInv, o.pc \in {"validate", "call", "return", "process"}
    PROVE  /\ o.serving \in Slots /\ Serving(o.serving) /\ Ticket = Number(o.serving)
           /\ Ticket \in Tickets /\ Ticket # 0 /\ Ticket \in Nat /\ InFlight(o.serving)
           /\ ~Sweeping(o.serving)
           /\ o.pc \notin {"return", "process"} =>
                 app.calls[Ticket] = 0 /\ ~Pending(Ticket)
           /\ \A b \in Slots : b # o.serving => ~Serving(b) /\ Number(b) # Ticket
<1>1. o.serving \in Slots /\ Serving(o.serving) /\ Ticket = Number(o.serving)
  BY DEF TypeInv, TypeOK, Drains, Serving, Ticket, Number
<1>2. Ticket \in Tickets /\ Ticket \in Nat
  BY <1>1, WordsAreNumbers
<1>3. /\ Ticket # 0 /\ InFlight(o.serving)
      /\ slot[o.serving].processed # Number(o.serving)
  BY <1>1 DEF ReceiptInv, OneCallPerNumber
<1>4. ~Sweeping(o.serving)
  BY <1>1, <1>3 DEF ReceiptInv, SweepsAreOver
<1>5. ASSUME o.pc \notin {"return", "process"}
      PROVE  app.calls[Ticket] = 0 /\ ~Pending(Ticket)
  <2>1. Waiting(o.serving)
    BY <1>1, <1>3 DEF Waiting, Number
  <2>2. app.calls[Ticket] = 0
    BY <1>1, <1>5, <2>1 DEF ReceiptInv, OneCallPerNumber
  <2> QED BY <1>2, <1>3, <2>2, PendingIsCalled
<1>6. \A b \in Slots : b # o.serving => ~Serving(b) /\ Number(b) # Ticket
  BY <1>1, <1>3 DEF ReceiptInv, NumbersInOrder, Serving
<1> QED BY <1>1, <1>2, <1>3, <1>4, <1>5, <1>6

\* The last checks before the call mark the request started, or refuse it.
LEMMA ValidateReceipts ==
    ASSUME TypeInv, ReceiptInv, Validate
    PROVE  ReceiptInv'
<1> DEFINE s == o.serving
<1>d. Drain
  BY DEF Drain
<1>0. /\ slot \in [Slots -> SlotWords] /\ o \in Drains /\ o.pc = "validate"
      /\ started \in [Slots -> Tickets] /\ active \in [Slots -> Tickets]
      /\ UNCHANGED <<w, sources, c>> /\ w.slot \in Slots /\ app' = app
  BY <1>d, DrainLeaves DEF TypeInv, TypeOK, Jobs, Validate
<1>s. /\ s \in Slots /\ Serving(s) /\ Ticket = Number(s)
      /\ Ticket # 0 /\ Ticket \in Nat /\ ~Sweeping(s) /\ InFlight(s)
      /\ app.calls[Ticket] = 0 /\ ~Pending(Ticket)
      /\ \A b \in Slots : b # s => ~Serving(b)
  BY <1>0, ServedRequest
<1>1. /\ o'.serving = s /\ o'.pc \in {"process", "call"}
      /\ slot' = slot \/ slot' = [slot EXCEPT ![s].rejected = TRUE]
  BY <1>0 DEF Validate, Step, Drains
<1>3. \A b \in Slots :
         /\ slot'[b].processed = slot[b].processed /\ slot'[b].returned = slot[b].returned
         /\ slot'[b].dispatched = slot[b].dispatched /\ slot'[b].done = slot[b].done
         /\ slot'[b].sealed = slot[b].sealed /\ slot'[b].reclaimed = slot[b].reclaimed
         /\ slot'[b].settled = slot[b].settled
         /\ Number(b)' = Number(b) /\ InFlight(b)' = InFlight(b) /\ Waiting(b)' = Waiting(b)
         /\ Serving(b)' <=> b = s
  BY <1>0, <1>s, <1>1 DEF SlotWords, Number, InFlight, Waiting, Serving
<1>4. \A b \in Slots :
         /\ b # s => active'[b] = active[b] /\ started'[b] = started[b]
         /\ active'[b] \in {active[b], 0} /\ started'[b] \in {started[b], Number(b)}
         /\ o'.pc = "call" => active'[b] = active[b] /\ started'[s] = Ticket
  <2>1. CASE active' = active /\ started' = [started EXCEPT ![s] = Ticket]
    BY <1>0, <1>s, <2>1
  <2>2. CASE o'.pc = "process" /\ active' = [active EXCEPT ![s] = 0] /\ started' = started
    BY <1>0, <1>s, <2>2
  <2> QED BY <1>0, <2>1, <2>2 DEF Validate, Step, Drains
<1>6. NumbersInOrder'
  <2>1. ASSUME NEW b \in Slots, NEW word \in Words(b)' PROVE word <= Number(b)'
    <3>1. word \in Words(b) \/ word = 0 \/ word = Number(b)
      BY <1>3, <1>4 DEF Words
    <3>2. Number(b) \in Nat
      BY WordsAreNumbers
    <3> QED BY <1>3, <3>1, <3>2 DEF ReceiptInv, NumbersInOrder
  <2> QED BY <1>d, <1>0, <1>3, <2>1, DrainFrame DEF ReceiptInv, NumbersInOrder
<1>7. OneCallPerNumber'
  BY <1>0, <1>s, <1>1, <1>3, <1>4 DEF ReceiptInv, OneCallPerNumber
<1>8. ReceiptsAreEarned'
  BY <1>0, <1>s, <1>3, <1>4 DEF ReceiptInv, ReceiptsAreEarned
<1>p. \A n : Pending(n)' <=> Pending(n)
  BY <1>0 DEF Pending, sources
<1>9. PendingCallsHaveSlots'
  BY <1>0, <1>s, <1>1, <1>3, <1>4, <1>p DEF ReceiptInv, PendingCallsHaveSlots, Pending, sources
<1>10. SweepsAreOver'
  BY <1>d, <1>0, <1>s, <1>3, <1>4, <1>p, DrainFrame DEF ReceiptInv, SweepsAreOver
<1> QED BY <1>d, <1>6, <1>7, <1>8, <1>9, <1>10, DrainFrame DEF ReceiptInv

\* The native call: the only step that adds to the application's calls.  Until it the
\* number was never called, after it the call is the number's one and only.
LEMMA CallReach ==
    ASSUME TypeInv, ReceiptInv, Call
    PROVE  /\ UNCHANGED <<w, sources, c, started>>
           /\ app'.calls = [app.calls EXCEPT ![Ticket] = 1]
           /\ app'.queue = app.queue \/ app'.queue = Append(app.queue, Ticket)
           /\ o'.serving = o.serving /\ o'.pc \in {"return", "process"}
           /\ \/ UNCHANGED <<slot, active>> /\ o'.pc = "return"
              \/ /\ active' = [active EXCEPT ![o.serving] = 0]
                 /\ \/ slot' = [slot EXCEPT ![o.serving].done = Ticket] /\ app'.queue = app.queue
                    \/ slot' = [slot EXCEPT ![o.serving].rejected = TRUE] /\ o'.pc = "process"
<1>0. o \in Drains /\ app \in Apps /\ o.pc = "call" /\ Drain
  BY DEF TypeInv, TypeOK, Call, Drain
<1>1. Ticket \in Tickets /\ app.calls[Ticket] = 0
  BY <1>0, ServedRequest
<1>2. UNCHANGED <<w, sources, c, started>>
  BY <1>0, DrainLeaves DEF Call
<1>3. CASE /\ slot[o.serving].control \in SyncControls
           /\ app' = [app EXCEPT !.calls[Ticket] = @ + 1]
           /\ active' = [active EXCEPT ![o.serving] = 0]
           /\ slot' = [slot EXCEPT ![o.serving].done = Ticket]
           /\ Step("return")
  BY <1>0, <1>1, <1>2, <1>3 DEF Step, Drains, Apps
<1>4. CASE /\ slot[o.serving].control \notin SyncControls
           /\ app' = [app EXCEPT !.calls[Ticket] = @ + 1, !.queue = Append(@, Ticket)]
           /\ Step("return") /\ UNCHANGED <<active, slot>>
  BY <1>0, <1>1, <1>2, <1>4 DEF Step, Drains, Apps
<1>5. CASE /\ Jog(o.serving)
           /\ \E queued \in BOOLEAN :
                /\ app' = [app EXCEPT !.calls[Ticket] = @ + 1,
                              !.queue = IF queued THEN Append(@, Ticket) ELSE @]
                /\ o' = [o EXCEPT !.pc = "process", !.faulted = queued]
           /\ active' = [active EXCEPT ![o.serving] = 0]
           /\ slot' = [slot EXCEPT ![o.serving].rejected = TRUE]
  <2>1. PICK queued \in BOOLEAN :
                /\ app' = [app EXCEPT !.calls[Ticket] = @ + 1,
                              !.queue = IF queued THEN Append(@, Ticket) ELSE @]
                /\ o' = [o EXCEPT !.pc = "process", !.faulted = queued]
    BY <1>5
  <2>2. app'.calls = [app.calls EXCEPT ![Ticket] = 1]
        /\ (app'.queue = app.queue \/ app'.queue = Append(app.queue, Ticket))
    BY <1>0, <1>1, <2>1 DEF Apps
  <2>3. o'.serving = o.serving /\ o'.pc = "process"
    BY <1>0, <2>1 DEF Drains
  <2> QED BY <1>2, <1>5, <2>2, <2>3
<1> QED BY <1>3, <1>4, <1>5 DEF Call

\* A call is pending, or over, only from here on.
LEMMA CallReceipts ==
    ASSUME TypeInv, ReceiptInv, Call
    PROVE  ReceiptInv'
<1> DEFINE s == o.serving
<1>d. Drain /\ o.pc = "call"
  BY DEF Drain, Call
<1>0. /\ slot \in [Slots -> SlotWords] /\ active \in [Slots -> Tickets] /\ w.slot \in Slots
      /\ app.calls \in [Tickets -> Nat] /\ app.queue \in Seq(Tickets)
      /\ UNCHANGED <<w, sources, c, started>>
  BY CallReach DEF TypeInv, TypeOK, Jobs, Apps
<1>s. /\ s \in Slots /\ Serving(s) /\ Ticket = Number(s) /\ Ticket \in Tickets
      /\ Ticket # 0 /\ Ticket \in Nat /\ ~Sweeping(s) /\ InFlight(s)
      /\ app.calls[Ticket] = 0 /\ ~Pending(Ticket)
      /\ \A b \in Slots : b # s => ~Serving(b) /\ Number(b) # Ticket
  BY <1>d, ServedRequest
<1>1. started[s] = Ticket /\ active[s] = Ticket
      /\ slot[s].returned # Ticket /\ slot[s].sealed # Ticket
  BY <1>d, <1>s DEF ReceiptInv, OneCallPerNumber, ReceiptsAreEarned
<1>2. \A n \in Tickets : app'.calls[n] = IF n = Ticket THEN 1 ELSE app.calls[n]
  BY <1>0, <1>s, CallReach
<1>3. \A b \in Slots :
         /\ slot'[b].processed = slot[b].processed /\ slot'[b].returned = slot[b].returned
         /\ slot'[b].dispatched = slot[b].dispatched
         /\ \/ slot'[b].done = slot[b].done
            \/ b = s /\ slot'[b].done = Ticket /\ app'.queue = app.queue
         /\ slot'[b].sealed = slot[b].sealed /\ slot'[b].reclaimed = slot[b].reclaimed
         /\ slot'[b].settled = slot[b].settled
         /\ Number(b)' = Number(b) /\ InFlight(b)' = InFlight(b) /\ Waiting(b)' = Waiting(b)
         /\ Serving(b)' <=> b = s
  <2>1. /\ o'.serving = s /\ o'.pc \in {"return", "process"}
        /\ \/ slot' = slot
           \/ slot' = [slot EXCEPT ![s].done = Ticket] /\ app'.queue = app.queue
           \/ slot' = [slot EXCEPT ![s].rejected = TRUE]
    BY CallReach
  <2>2. \A b \in Slots : Serving(b)' <=> b = s
    BY <2>1 DEF Serving
  <2>3. \A b \in Slots :
           /\ slot'[b].processed = slot[b].processed /\ slot'[b].returned = slot[b].returned
           /\ slot'[b].dispatched = slot[b].dispatched
           /\ \/ slot'[b].done = slot[b].done
              \/ b = s /\ slot'[b].done = Ticket /\ app'.queue = app.queue
           /\ slot'[b].sealed = slot[b].sealed /\ slot'[b].reclaimed = slot[b].reclaimed
           /\ slot'[b].settled = slot[b].settled /\ slot'[b].published = slot[b].published
    <3>1. CASE slot' = slot
      BY <3>1
    <3>2. CASE slot' = [slot EXCEPT ![s].done = Ticket] /\ app'.queue = app.queue
      BY <1>0, <1>s, <3>2 DEF SlotWords
    <3>3. CASE slot' = [slot EXCEPT ![s].rejected = TRUE]
      BY <1>0, <1>s, <3>3 DEF SlotWords
    <3> QED BY <2>1, <3>1, <3>2, <3>3
  <2> QED BY <2>2, <2>3 DEF Number, InFlight, Waiting
<1>4. \A b \in Slots :
         /\ started'[b] = started[b]
         /\ b # s => active'[b] = active[b]
         /\ active'[b] \in {active[b], 0}
         /\ active'[b] # active[b] => o'.pc = "process" \/ app'.queue = app.queue
  BY <1>0, <1>s, CallReach
<1>q. /\ \A i \in DOMAIN app'.queue :
            (i \in DOMAIN app.queue /\ app'.queue[i] = app.queue[i]) \/ app'.queue[i] = Ticket
      /\ \A i, j \in DOMAIN app'.queue : i # j =>
            \/ i \in DOMAIN app.queue /\ app'.queue[i] = app.queue[i]
            \/ j \in DOMAIN app.queue /\ app'.queue[j] = app.queue[j]
      /\ \A i \in DOMAIN app.queue : i \in DOMAIN app'.queue /\ app'.queue[i] = app.queue[i]
  <2>1. CASE app'.queue = app.queue
    BY <2>1
  <2>2. CASE app'.queue = Append(app.queue, Ticket)
    <3>1. DOMAIN app.queue = 1 .. Len(app.queue) /\ Len(app.queue) \in Nat
      BY <1>0
    <3>2. /\ DOMAIN app'.queue = 1 .. (Len(app.queue) + 1)
          /\ app'.queue[Len(app.queue) + 1] = Ticket
          /\ \A i \in 1 .. Len(app.queue) : app'.queue[i] = app.queue[i]
      BY <1>0, <1>s, <2>2
    <3> QED BY <3>1, <3>2
  <2> QED BY <2>1, <2>2, CallReach
<1>p. /\ \A n : Pending(n) => Pending(n)'
      /\ \A n : Pending(n)' => Pending(n) \/ n = Ticket
      /\ app'.queue = app.queue => \A n : Pending(n)' => Pending(n)
  BY <1>0, <1>q DEF Pending, sources
<1>6. NumbersInOrder'
  <2>1. ASSUME NEW b \in Slots, NEW word \in Words(b)' PROVE word <= Number(b)'
    <3>1. word \in Words(b) \/ word = 0 \/ word = Number(b)
      BY <1>s, <1>3, <1>4 DEF Words
    <3>2. Number(b) \in Nat
      BY WordsAreNumbers
    <3> QED BY <1>3, <3>1, <3>2 DEF ReceiptInv, NumbersInOrder
  <2>2. Frontmost \in Int /\ Number(s) <= Frontmost
    BY <1>s DEF TypeInv, TypeOK, Totals, Tickets, Frontmost, ReceiptInv, NumbersInOrder
  <2>3. ASSUME NEW n \in Tickets, n > Frontmost PROVE app'.calls[n] = 0
    <3>1. n # Ticket
      BY <1>s, <2>2, <2>3
    <3> QED BY <1>2, <2>3, <3>1 DEF ReceiptInv, NumbersInOrder
  <2> QED BY <1>d, <1>0, <1>3, <2>1, <2>3, DrainFrame DEF ReceiptInv, NumbersInOrder
<1>n. \A b \in Slots : Number(b) \in Tickets
  BY WordsAreNumbers
<1>o. o'.pc \in {"return", "process"} /\ app'.calls[Ticket] = 1
      /\ slot[s].processed # Ticket
  BY <1>d, <1>s, <1>2, CallReach DEF ReceiptInv, OneCallPerNumber
<1>c. \A b \in Slots : b # s => app'.calls[Number(b)] = app.calls[Number(b)]
  BY <1>s, <1>2, <1>n
<1>7. OneCallPerNumber'
  <2>1. \A n \in Tickets : app'.calls[n] <= 1
    BY <1>2 DEF ReceiptInv, OneCallPerNumber
  <2>2. ASSUME NEW b \in Slots, Serving(b)'
        PROVE  /\ InFlight(b)' /\ Number(b)' # 0
               /\ slot'[b].processed # Number(b)'
               /\ app'.calls[Number(b)'] = 1
    BY <1>s, <1>o, <1>3, <2>2
  <2>3. ASSUME NEW b \in Slots, Waiting(b)', ~(Serving(b)' /\ o'.pc \in {"return", "process"})
        PROVE  app'.calls[Number(b)'] = 0
    <3>1. b # s /\ Waiting(b) /\ ~Serving(b) /\ Number(b)' = Number(b)
      BY <1>s, <1>o, <1>3, <2>3
    <3> QED BY <1>c, <3>1 DEF ReceiptInv, OneCallPerNumber
  <2> QED BY <1>o, <2>1, <2>2, <2>3 DEF OneCallPerNumber
<1>8. ReceiptsAreEarned'
  <2>1. ASSUME NEW b \in Slots, Number(b) # 0
        PROVE  /\ app'.calls[Number(b)] # 0 => started'[b] = Number(b)
               /\ slot'[b].returned = Number(b) => app'.calls[Number(b)] = 1
               /\ slot'[b].sealed = Number(b) =>
                     slot'[b].done = Number(b) /\ slot'[b].returned = Number(b)
               /\ slot'[b].settled = Number(b) => slot'[b].sealed = Number(b)
               /\ slot'[b].reclaimed = Number(b) =>
                     slot'[b].settled = Number(b) \/ app'.calls[Number(b)] = 0
    <3>1. CASE b = s
      <4>1. slot[s].reclaimed # Ticket /\ slot[s].settled # Ticket
        BY <1>s, <1>1, <2>1, <3>1 DEF InFlight, Number, ReceiptInv, ReceiptsAreEarned
      <4> QED BY <1>s, <1>1, <1>o, <1>3, <1>4, <3>1, <4>1
    <3>2. CASE b # s
      BY <1>c, <1>3, <1>4, <2>1, <3>2 DEF ReceiptInv, ReceiptsAreEarned
    <3> QED BY <3>1, <3>2
  <2>2. w.pc = "certified" => slot'[w.slot].sealed = w.seq /\ slot'[w.slot].published = w.seq
    BY <1>0, <1>3 DEF ReceiptInv, ReceiptsAreEarned, Number
  <2>3. w' = w /\ \A b \in Slots : Number(b)' = Number(b)
    BY <1>0, <1>3
  <2> QED BY <2>1, <2>2, <2>3 DEF ReceiptsAreEarned, Number
<1>9. PendingCallsHaveSlots'
  <2>1. /\ \A i \in DOMAIN app'.queue : app'.queue[i] # 0 /\ app'.queue[i] # item.seq
        /\ \A i, j \in DOMAIN app'.queue : i # j => app'.queue[i] # app'.queue[j]
    BY <1>s, <1>q DEF ReceiptInv, PendingCallsHaveSlots, Pending
  <2>2. ASSUME NEW n \in Tickets, n # 0, Pending(n)'
        PROVE  app'.calls[n] = 1 /\ \E at \in Slots : Number(at)' = n /\ InFlight(at)'
    BY <1>s, <1>2, <1>3, <1>p, <2>2, PendingIsCalled
  <2>3. ASSUME NEW at \in Slots, Number(at) # 0, Pending(Number(at))', active'[at] # Number(at)
        PROVE  \/ slot'[at].returned # Number(at) /\ ~(Serving(at)' /\ o'.pc = "return")
               \/ /\ item.seq = Number(at) /\ h["audio"].seam = "done"
                  /\ h["audio"].pc \in {"cleared", "leave"}
    <3>1. CASE at = s
      <4>1. app'.queue # app.queue
        BY <1>s, <1>3, <1>p, <2>3, <3>1
      <4>2. o'.pc = "process"
        BY <1>s, <1>1, <1>3, <1>4, <2>3, <3>1, <4>1
      <4> QED BY <1>s, <1>1, <1>3, <3>1, <4>2
    <3>2. CASE at # s
      <4>1. Number(at) # 0 /\ Pending(Number(at)) /\ active[at] # Number(at)
        BY <1>s, <1>3, <1>4, <1>p, <2>3, <3>2
      <4> QED BY <1>s, <1>3, <3>2, <4>1 DEF ReceiptInv, PendingCallsHaveSlots
    <3> QED BY <3>1, <3>2
  <2> QED
    BY <1>0, <1>3, <1>4, <2>1, <2>2, <2>3 DEF ReceiptInv, PendingCallsHaveSlots, sources
<1>10. SweepsAreOver'
  <2>1. ASSUME NEW b \in Slots, Sweeping(b)
        PROVE  /\ b # s /\ Number(b) # Ticket /\ active'[b] = active[b]
               /\ app'.calls[Number(b)] = app.calls[Number(b)]
               /\ Pending(Number(b))' => Pending(Number(b))
    BY <1>s, <1>4, <1>p, <1>c, <1>3, <2>1
  <2> QED BY <1>d, <1>0, <1>3, <2>1, DrainFrame DEF ReceiptInv, SweepsAreOver
<1> QED BY <1>d, <1>6, <1>7, <1>8, <1>9, <1>10, DrainFrame DEF ReceiptInv

\* The call has returned, then the request is answered: both only of a called number
\* or a refused one.
LEMMA AnswerReceipts ==
    ASSUME TypeInv, ReceiptInv, Return \/ Process
    PROVE  ReceiptInv'
<1> DEFINE s == o.serving
<1>d. Drain /\ o.pc \in {"return", "process"}
  BY DEF Drain, Return, Process
<1>0. /\ slot \in [Slots -> SlotWords] /\ o \in Drains /\ w.slot \in Slots
      /\ UNCHANGED <<w, sources, c, started, active, app>>
  BY <1>d, DrainLeaves DEF TypeInv, TypeOK, Jobs, Return, Process
<1>s. /\ s \in Slots /\ Serving(s) /\ Ticket = Number(s) /\ Ticket \in Tickets
      /\ Ticket # 0 /\ Ticket \in Nat /\ ~Sweeping(s) /\ InFlight(s)
      /\ \A b \in Slots : b # s => ~Serving(b) /\ Number(b) # Ticket
  BY <1>d, ServedRequest
<1>1. /\ o'.serving = s
      /\ \/ o.pc = "return" /\ o'.pc = "process"
         \/ o.pc = "process" /\ o'.pc = "consume"
  BY <1>0 DEF Return, Process, Step, Drains
<1>2. \/ /\ o.pc = "return"
         /\ slot' = [slot EXCEPT ![s].dispatched = Ticket, ![s].returned = Ticket]
      \/ /\ o.pc = "process"
         /\ slot' = [slot EXCEPT ![s].processed = Ticket]
  BY DEF Return, Process
<1>3. \A b \in Slots :
         /\ \/ slot'[b].processed = slot[b].processed /\ (b = s => o.pc = "return")
            \/ b = s /\ o.pc = "process" /\ slot'[b].processed = Ticket
         /\ \/ slot'[b].returned = slot[b].returned /\ slot'[b].dispatched = slot[b].dispatched
            \/ b = s /\ o.pc = "return" /\ slot'[b].returned = Ticket
                     /\ slot'[b].dispatched = Ticket
         /\ slot'[b].sealed = slot[b].sealed /\ slot'[b].reclaimed = slot[b].reclaimed
         /\ slot'[b].settled = slot[b].settled /\ slot'[b].done = slot[b].done
         /\ Number(b)' = Number(b) /\ InFlight(b)' = InFlight(b)
         /\ Serving(b)' <=> b = s
  BY <1>0, <1>s, <1>1, <1>2 DEF SlotWords, Number, InFlight, Serving
<1>4. \A b \in Slots : b # s => Waiting(b)' = Waiting(b)
  BY <1>3 DEF Waiting, Number
<1>6. NumbersInOrder'
  <2>1. ASSUME NEW b \in Slots, NEW word \in Words(b)' PROVE word <= Number(b)'
    <3>1. word \in Words(b) \/ word = Number(b)
      BY <1>0, <1>s, <1>3 DEF Words
    <3>2. Number(b) \in Nat
      BY WordsAreNumbers
    <3> QED BY <1>3, <3>1, <3>2 DEF ReceiptInv, NumbersInOrder
  <2> QED BY <1>d, <1>0, <1>3, <2>1, DrainFrame DEF ReceiptInv, NumbersInOrder
<1>7. OneCallPerNumber'
  BY <1>0, <1>s, <1>1, <1>3, <1>4 DEF ReceiptInv, OneCallPerNumber, Waiting, Number
<1>8. ReceiptsAreEarned'
  <2>1. o.pc = "return" => app.calls[Ticket] = 1
    BY <1>s DEF ReceiptInv, OneCallPerNumber
  <2> QED BY <1>0, <1>s, <1>3, <2>1 DEF ReceiptInv, ReceiptsAreEarned
<1>p. \A n : Pending(n)' <=> Pending(n)
  BY <1>0 DEF Pending, sources
<1>9. PendingCallsHaveSlots'
  <2>1. ASSUME NEW b \in Slots, Number(b) # 0, Pending(Number(b)), active[b] # Number(b)
        PROVE  \/ slot'[b].returned # Number(b) /\ ~(Serving(b)' /\ o'.pc = "return")
               \/ /\ item.seq = Number(b) /\ h["audio"].seam = "done"
                  /\ h["audio"].pc \in {"cleared", "leave"}
    BY <1>s, <1>1, <1>3, <2>1 DEF ReceiptInv, PendingCallsHaveSlots
  <2> QED BY <1>0, <1>3, <1>p, <2>1 DEF ReceiptInv, PendingCallsHaveSlots, sources
<1>10. SweepsAreOver'
  BY <1>d, <1>0, <1>s, <1>3, <1>p, DrainFrame DEF ReceiptInv, SweepsAreOver
<1> QED BY <1>d, <1>6, <1>7, <1>8, <1>9, <1>10, DrainFrame DEF ReceiptInv

\* Whatever the owner does inside a drain.
LEMMA DrainReceipts ==
    ASSUME TypeInv, ReceiptInv, Drain
    PROVE  ReceiptInv'
<1>0. o \in Drains
  BY DEF TypeInv, TypeOK
<1>1. ASSUME DrainCheck \/ DrainEnter \/ DrainRecheck \/ ServiceStart \/ Consume \/ DrainLeave
      PROVE  ReceiptInv'
  <2>1. /\ UNCHANGED <<slot, started, active, app>> /\ o.pc \notin {"return", "process"}
        /\ o'.pc \in {"checked", "hooked", "service", "leave", "ordinary", "ordered", "out"}
    BY <1>0, <1>1 DEF DrainCheck, DrainEnter, DrainRecheck, ServiceStart, Consume, DrainLeave,
       Step, Drains
  <2> QED BY <2>1, DrainKeeps DEF SameReceipts, Receipts, Serving
<1>2. ASSUME ServeOrdinary \/ ServeOrdered
      PROVE  ReceiptInv'
  <2>0. app' = app /\ o.pc \in {"ordinary", "ordered"}
    BY <1>2 DEF ServeOrdinary, ServeOrdered
  <2>1. ASSUME NEW at \in Slots, NEW visit \in 0 .. SlotCount, Accept(at, visit), Waiting(at)
        PROVE  ReceiptInv'
    BY <2>0, <2>1, AcceptReceipts
  <2>2. ASSUME o'.pc \in {"ordinary", "ordered", "leave"},
               UNCHANGED <<session, slot, started, active>>
        PROVE  ReceiptInv'
    BY <2>0, <2>2, DrainKeeps DEF SameReceipts, Receipts, Serving
  <2> QED BY <1>0, <1>2, <2>1, <2>2, TurnTakes
<1> QED BY <1>1, <1>2, ValidateReceipts, CallReceipts, AnswerReceipts DEF Drain

-----------------------------------------------------------------------------
(* The source hooks.                                                        *)

\* What every step of a source hook leaves alone.
LEMMA SourceFrame ==
    ASSUME TypeInv, ReceiptInv, Source
    PROVE  /\ UNCHANGED <<gate, total, inHook, started, w, o, c>>
           /\ Frontmost' = Frontmost /\ Frontmost <= Frontmost' /\ w.slot \in Slots
           /\ w.pc \in {"changing", "stored", "confirmed", "counted"} =>
                 w.seq = Frontmost + 1
           /\ w.pc = "certified" =>
                 slot[w.slot].sealed = w.seq /\ slot[w.slot].published = w.seq
<1>1. UNCHANGED <<gate, total, inHook, started, w, o, c>>
  BY DEF Source, HookStart, HookMark, HookRecheck, NewProject, HookLeave, CommitEvent,
     TakeItem, QueuePoint, QueueDone, StoreDone, HookSkip, ForeignOwner, HookFrame
<1>2. Frontmost' = Frontmost /\ Frontmost \in Int
  BY <1>1 DEF Frontmost, TypeInv, TypeOK, Totals, Tickets
<1> QED BY <1>1, <1>2 DEF ReceiptInv, NumbersInOrder, ReceiptsAreEarned, Number, TypeInv, TypeOK, Jobs

\* A hook that only enters, marks, rechecks, shuts down, reports a commit or leaves
\* touches no receipt.
LEMMA HookKeeps ==
    ASSUME TypeInv, ReceiptInv, Source, SameReceipts, UNCHANGED <<app, item>>,
           h'["audio"].seam = h["audio"].seam,
           \/ h'["audio"].pc = h["audio"].pc
           \/ h'["audio"].pc # "cleared" /\ h["audio"].pc \notin {"cleared", "leave"}
           \/ h'["audio"].pc = "leave",
           LanesMark'
    PROVE  ReceiptInv'
<1>1. TypeInv' /\ UNCHANGED <<w, o, c>>
  BY SourceTyped, SourceFrame
<1>2. SweepsAreOver'
  BY <1>1, SweepsKept
<1> QED BY <1>1, <1>2, SourceFrame, WordsKept

\* The seams that are met without a queued call, and all of the UI thread's.
LEMMA OtherHooks ==
    ASSUME TypeInv, ReceiptInv, NEW t \in Threads,
           \/ HookStart(t) \/ HookMark(t) \/ HookRecheck(t) \/ NewProject(t) \/ CommitEvent
           \/ ForeignOwner \/ (t = "ui" /\ HookLeave(t))
    PROVE  ReceiptInv'
<1>0. /\ h \in [Threads -> Hooks] /\ lane \in [Threads -> BOOLEAN] /\ "audio" \in Threads
      /\ slot \in [Slots -> SlotWords] /\ Source
      /\ h["audio"] \in Hooks
  BY DEF TypeInv, TypeOK, Threads, Source
<1>1. SameReceipts
  <2>1. CASE slot' = slot /\ UNCHANGED <<started, active>>
    BY <2>1 DEF SameReceipts, Receipts
  <2>2. CASE /\ UNCHANGED <<started, active>>
             /\ \E at : slot' = [slot EXCEPT ![at].rows = @ + 1]
    BY <1>0, <2>2 DEF SameReceipts, Receipts, SlotWords
  <2> QED
    BY <2>1, <2>2 DEF HookStart, HookMark, HookRecheck, NewProject, CommitEvent, ForeignOwner,
       HookLeave, HookFrame
<1>2. UNCHANGED <<app, item>>
  BY DEF HookStart, HookMark, HookRecheck, NewProject, CommitEvent, ForeignOwner, HookLeave,
     HookFrame, sources
<1>3. /\ h'["audio"].seam = h["audio"].seam
      /\ \/ h'["audio"].pc = h["audio"].pc
         \/ h'["audio"].pc # "cleared" /\ h["audio"].pc \notin {"cleared", "leave"}
      /\ LanesMark'
  <2>i. item.seq = 0 => h["audio"].seam = "new_project"
    BY DEF ReceiptInv, PendingCallsHaveSlots
  <2>l. LanesMark
    BY DEF ReceiptInv
  <2>1. CASE HookStart(t)
    BY <1>0, <2>i, <2>l, <2>1 DEF HookStart, HookFrame, Move, Hooks, LanesMark, Threads
  <2>2. CASE HookMark(t)
    BY <1>0, <2>l, <2>2 DEF HookMark, HookFrame, Move, Hooks, LanesMark, Threads
  <2>3. CASE HookRecheck(t)
    <3>1. Move(t, "inside") \/ Move(t, "leave")
      BY <2>3 DEF HookRecheck
    <3> QED BY <1>0, <2>l, <2>3, <3>1 DEF HookRecheck, HookFrame, Move, Hooks, LanesMark, Threads
  <2>4. CASE NewProject(t)
    BY <1>0, <2>l, <2>4 DEF NewProject, HookFrame, Move, Hooks, LanesMark, Threads
  <2>5. CASE CommitEvent
    BY <1>0, <2>l, <2>5 DEF CommitEvent, HookFrame, Move, Hooks, LanesMark, Threads
  <2>6. CASE ForeignOwner
    BY <1>0, <2>l, <2>6 DEF ForeignOwner, HookFrame, LanesMark, sources
  <2>7. CASE t = "ui" /\ HookLeave(t)
    BY <1>0, <2>l, <2>7 DEF HookLeave, HookFrame, Hooks, LanesMark, Threads
  <2> QED BY <2>1, <2>2, <2>3, <2>4, <2>5, <2>6, <2>7
<1> QED BY <1>0, <1>1, <1>2, <1>3, HookKeeps

\* A step of the application's that changes no word of any request: it makes no call
\* pending that was not, so the sweeps stay what they were.
LEMMA ApplicationMoves ==
    ASSUME TypeInv, ReceiptInv, Source, SameReceipts, app'.calls = app.calls,
           \A n : n # 0 => (Pending(n)' => Pending(n)),
           PendingCallsHaveSlots', LanesMark'
    PROVE  ReceiptInv'
<1>0. \A at \in Slots :
         /\ UNCHANGED <<slot[at].published, slot[at].processed, slot[at].returned,
                        slot[at].dispatched, slot[at].done, slot[at].sealed,
                        slot[at].settled, slot[at].reclaimed, started[at], active[at]>>
         /\ Number(at)' = Number(at) /\ InFlight(at)' = InFlight(at)
         /\ Waiting(at)' = Waiting(at) /\ Words(at)' = Words(at)
         /\ Serving(at)' = Serving(at) /\ Sweeping(at)' = Sweeping(at)
  BY SourceFrame
     DEF SameReceipts, Receipts, Number, InFlight, Waiting, Words, Serving, Sweeping
<1>1. NumbersInOrder'
  BY <1>0, SourceFrame DEF ReceiptInv, NumbersInOrder
<1>2. OneCallPerNumber'
  BY <1>0, SourceFrame DEF ReceiptInv, OneCallPerNumber
<1>3. ReceiptsAreEarned'
  BY <1>0, SourceFrame DEF ReceiptInv, ReceiptsAreEarned
<1>4. SweepsAreOver'
  BY <1>0, SourceFrame DEF ReceiptInv, SweepsAreOver
<1> QED BY <1>1, <1>2, <1>3, <1>4 DEF ReceiptInv

\* The application takes the head of its queue: a pending call stays pending, once.
LEMMA TakeReceipts ==
    ASSUME TypeInv, ReceiptInv, TakeItem
    PROVE  ReceiptInv'
<1> DEFINE q == app.queue
<1>0. /\ app \in Apps /\ q \in Seq(Tickets) /\ h \in [Threads -> Hooks] /\ "audio" \in Threads
      /\ Source /\ UNCHANGED <<slot, active, lane>> /\ item.seq = 0 /\ q # <<>>
      /\ h["audio"].pc = "out"
  BY DEF TypeInv, TypeOK, Threads, Source, TakeItem, Apps
<1>1. /\ item'.seq = q[1] /\ app'.calls = app.calls /\ app'.queue = Tail(q)
      /\ h'["audio"].pc = "out" /\ h'["audio"].seam = "enter"
  BY <1>0 DEF TakeItem, Apps, Hooks
<1>2. /\ Len(q) \in Nat /\ Len(q) > 0 /\ DOMAIN q = 1 .. Len(q) /\ 1 \in DOMAIN q
      /\ DOMAIN app'.queue = 1 .. (Len(q) - 1)
      /\ \A i \in 1 .. (Len(q) - 1) : app'.queue[i] = q[i + 1] /\ i + 1 \in DOMAIN q /\ i + 1 # 1
  <2>1. Len(q) \in Nat /\ Len(q) > 0 /\ DOMAIN q = 1 .. Len(q)
    BY <1>0, EmptySeq
  <2>2. /\ Len(Tail(q)) = Len(q) - 1
        /\ \A i \in 1 .. Len(Tail(q)) : Tail(q)[i] = q[i + 1]
        /\ Tail(q) \in Seq(Tickets)
    BY <1>0, HeadTailProperties
  <2> QED BY <1>1, <2>1, <2>2
<1>3. item'.seq # 0
  BY <1>1, <1>2 DEF ReceiptInv, PendingCallsHaveSlots
<1>4. \A n : n # 0 => (Pending(n)' <=> Pending(n))
  <2>1. ASSUME NEW n, n # 0, Pending(n)' PROVE Pending(n)
    BY <1>1, <1>2, <2>1 DEF Pending
  <2>2. ASSUME NEW n, n # 0, Pending(n) PROVE Pending(n)'
    <3>1. PICK i \in DOMAIN q : q[i] = n
      BY <1>0, <2>2 DEF Pending
    <3>2. CASE i = 1
      BY <1>1, <3>1, <3>2 DEF Pending
    <3>3. CASE i # 1
      <4>1. i - 1 \in 1 .. (Len(q) - 1) /\ i - 1 + 1 = i
        BY <1>2, <3>3
      <4> QED BY <1>2, <3>1, <4>1 DEF Pending
    <3> QED BY <3>2, <3>3
  <2> QED BY <2>1, <2>2
<1>5. PendingCallsHaveSlots'
  <2>1. ASSUME NEW i \in DOMAIN app'.queue
        PROVE  app'.queue[i] # 0 /\ app'.queue[i] # item'.seq
    BY <1>1, <1>2, <2>1 DEF ReceiptInv, PendingCallsHaveSlots
  <2>2. ASSUME NEW i \in DOMAIN app'.queue, NEW j \in DOMAIN app'.queue, i # j
        PROVE  app'.queue[i] # app'.queue[j]
    <3>1. i + 1 # j + 1 /\ i + 1 \in DOMAIN q /\ j + 1 \in DOMAIN q
      BY <1>2, <2>2
    <3>2. app'.queue[i] = q[i + 1] /\ app'.queue[j] = q[j + 1]
      BY <1>2, <2>2
    <3> QED BY <3>1, <3>2 DEF ReceiptInv, PendingCallsHaveSlots
  <2>3. ASSUME NEW n \in Tickets, n # 0, Pending(n)'
        PROVE  app'.calls[n] = 1 /\ \E at \in Slots : Number(at)' = n /\ InFlight(at)'
    BY <1>0, <1>1, <1>4, <2>3, PendingIsCalled DEF Number, InFlight
  <2>4. \A at \in Slots : Number(at)' # 0 /\ Pending(Number(at))' /\ active'[at] # Number(at)' =>
          slot'[at].returned # Number(at)' /\ ~(Serving(at)' /\ o'.pc = "return")
    BY <1>0, <1>4, SourceFrame DEF ReceiptInv, PendingCallsHaveSlots, Number, Serving
  <2> QED BY <1>1, <1>3, <2>1, <2>2, <2>3, <2>4 DEF PendingCallsHaveSlots
<1>6. LanesMark'
  BY <1>1 DEF LanesMark
<1> QED
  BY <1>0, <1>1, <1>4, <1>5, <1>6, SourceFrame, ApplicationMoves DEF SameReceipts, Receipts

\* The call being run gets its phase, at a seam that is not its last.
LEMMA PointReceipts ==
    ASSUME TypeInv, ReceiptInv, QueuePoint
    PROVE  ReceiptInv'
<1>0. /\ h \in [Threads -> Hooks] /\ "audio" \in Threads /\ item \in Items /\ Source
      /\ UNCHANGED <<slot, active, lane, app>>
      /\ h["audio"].pc = "inside" /\ h["audio"].seam \in {"enter", "body"}
  BY DEF TypeInv, TypeOK, Threads, Source, QueuePoint
<1>1. /\ item'.seq = item.seq /\ item.seq # 0
      /\ h'["audio"].pc = "leave" /\ h'["audio"].seam = h["audio"].seam
  <2>1. item.seq # 0
    BY <1>0 DEF ReceiptInv, PendingCallsHaveSlots
  <2> QED BY <1>0, <2>1 DEF QueuePoint, Move, Hooks, Items
<1>2. \A n : Pending(n)' <=> Pending(n)
  BY <1>0, <1>1 DEF Pending
<1>3. PendingCallsHaveSlots'
  BY <1>0, <1>1, <1>2, SourceFrame
     DEF ReceiptInv, PendingCallsHaveSlots, Number, InFlight, Serving
<1>4. LanesMark'
  BY <1>0, <1>1 DEF ReceiptInv, LanesMark
<1> QED
  BY <1>0, <1>2, <1>3, <1>4, SourceFrame, ApplicationMoves DEF SameReceipts, Receipts

\* Leaving a seam, or skipping it: after the last one the call is over.
LEMMA AdvanceReceipts ==
    ASSUME TypeInv, ReceiptInv, HookLeave("audio") \/ HookSkip
    PROVE  ReceiptInv'
<1>0. /\ h \in [Threads -> Hooks] /\ "audio" \in Threads /\ Source
      /\ UNCHANGED <<slot, active, app>> /\ Advance
      /\ h["audio"].pc \in {"leave", "out"}
  BY DEF TypeInv, TypeOK, Threads, Source, HookLeave, HookSkip
<1>1. h'["audio"].pc = "out" /\ h'["audio"].seam = NextSeam
  BY <1>0 DEF HookLeave, HookSkip, Hooks
<1>i. /\ item.seq = 0 => item = NoItem
      /\ item.seq = 0 <=> h["audio"].seam = "new_project"
  BY DEF ReceiptInv, PendingCallsHaveSlots
<1>2. \/ item' = NoItem /\ h'["audio"].seam = "new_project"
      \/ /\ item' = item /\ item.seq # 0 /\ h["audio"].seam # "done"
         /\ h'["audio"].seam \in {"body", "done"}
  BY <1>0, <1>1, <1>i DEF Advance, NextSeam
<1>3. \A n : n # 0 => (Pending(n)' => Pending(n))
  BY <1>0, <1>2 DEF Pending, NoItem
<1>4. PendingCallsHaveSlots'
  <2>1. \A i \in DOMAIN app.queue : app.queue[i] # 0 /\ app.queue[i] # item'.seq
    BY <1>2 DEF ReceiptInv, PendingCallsHaveSlots, NoItem
  <2>2. \A i, j \in DOMAIN app.queue : i # j => app.queue[i] # app.queue[j]
    BY DEF ReceiptInv, PendingCallsHaveSlots
  <2>3. ASSUME NEW n \in Tickets, n # 0, Pending(n)'
        PROVE  app.calls[n] = 1 /\ \E at \in Slots : Number(at) = n /\ InFlight(at)
    BY <1>3, <2>3, PendingIsCalled
  <2>4. ASSUME NEW at \in Slots, Number(at) # 0, Pending(Number(at)), Pending(Number(at))',
               Number(at)' = Number(at), active[at] # Number(at)
        PROVE  slot[at].returned # Number(at) /\ ~(Serving(at) /\ o.pc = "return")
    <3>1. CASE item' = NoItem
      <4>1. item.seq # Number(at)
        BY <1>0, <2>4, <3>1 DEF Pending, NoItem, ReceiptInv, PendingCallsHaveSlots
      <4> QED BY <2>4, <4>1 DEF ReceiptInv, PendingCallsHaveSlots
    <3>2. CASE item' # NoItem
      <4>1. h["audio"].seam # "done"
        BY <1>2, <3>2
      <4> QED BY <2>4, <4>1 DEF ReceiptInv, PendingCallsHaveSlots
    <3> QED BY <3>1, <3>2
  <2>5. item'.seq = 0 => item' = NoItem
    BY <1>2
  <2>6. item'.seq = 0 <=> h'["audio"].seam = "new_project"
    BY <1>2 DEF NoItem
  <2>7. \A at \in Slots : /\ Number(at)' = Number(at) /\ InFlight(at)' = InFlight(at)
                          /\ Serving(at)' = Serving(at)
    BY <1>0, SourceFrame DEF Number, InFlight, Serving
  <2> QED
    BY <1>0, <1>1, <1>3, <2>1, <2>2, <2>3, <2>4, <2>5, <2>6, <2>7, SourceFrame
       DEF PendingCallsHaveSlots
<1>5. LanesMark'
  BY <1>1 DEF LanesMark
<1> QED
  BY <1>0, <1>3, <1>4, <1>5, SourceFrame, ApplicationMoves DEF SameReceipts, Receipts

\* The call the application is running is that of the one request in flight with its
\* number, which the owner has dispatched.
LEMMA RunningCall ==
    ASSUME TypeInv, ReceiptInv, item.seq # 0
    PROVE  /\ SlotOf(item.seq) \in Slots /\ Number(SlotOf(item.seq)) = item.seq
           /\ InFlight(SlotOf(item.seq)) /\ item.seq \in Tickets /\ item.seq \in Nat
           /\ app.calls[item.seq] = 1 /\ Pending(item.seq)
           /\ \A at \in Slots : Number(at) = item.seq <=> at = SlotOf(item.seq)
           /\ ~(Serving(SlotOf(item.seq)) /\ o.pc \in {"validate", "call"})
<1>1. item.seq \in Tickets /\ item.seq \in Nat /\ Pending(item.seq)
  BY DEF TypeInv, TypeOK, Items, Tickets, Pending
<1>2. PICK at \in Slots : Number(at) = item.seq /\ InFlight(at)
  BY <1>1, PendingIsCalled
<1>3. SlotOf(item.seq) = at
  BY <1>2, OneSlotPerNumber DEF ReceiptInv
<1>4. \A b \in Slots : Number(b) = item.seq <=> b = at
  BY <1>2 DEF ReceiptInv, NumbersInOrder
<1>5. ~(Serving(at) /\ o.pc \in {"validate", "call"})
  BY <1>1, <1>2, ServedRequest DEF Serving
<1> QED BY <1>1, <1>2, <1>3, <1>4, <1>5, PendingIsCalled

\* The last seam of a followed call clears its mark; of any other it does nothing.
LEMMA DoneReceipts ==
    ASSUME TypeInv, ReceiptInv, QueueDone
    PROVE  ReceiptInv'
<1> DEFINE s == SlotOf(item.seq)
<1>0. /\ h \in [Threads -> Hooks] /\ "audio" \in Threads /\ Source /\ active \in [Slots -> Tickets]
      /\ UNCHANGED <<slot, lane, app, item>> /\ lane["audio"] = TRUE
      /\ h["audio"].pc = "inside" /\ h["audio"].seam = "done"
  BY DEF TypeInv, TypeOK, Threads, Source, QueueDone, ReceiptInv, LanesMark
<1>s. /\ item.seq # 0 /\ s \in Slots /\ Number(s) = item.seq /\ item.seq \in Nat
      /\ \A at \in Slots : Number(at) = item.seq <=> at = s
      /\ ~(Serving(s) /\ o.pc \in {"validate", "call"})
  <2>1. item.seq # 0
    BY <1>0 DEF ReceiptInv, PendingCallsHaveSlots
  <2> QED BY <2>1, RunningCall
<1>1. CASE active' = active /\ Move("audio", "leave")
  <2>1. h'["audio"].pc = "leave" /\ h'["audio"].seam = h["audio"].seam
    BY <1>0, <1>1 DEF Move, Hooks
  <2> QED
    BY <1>0, <1>1, <2>1, SourceFrame, HookKeeps DEF SameReceipts, Receipts, LanesMark
<1>2. CASE active' = [active EXCEPT ![s] = 0] /\ Move("audio", "cleared")
  <2>1. h'["audio"].pc = "cleared" /\ h'["audio"].seam = "done"
    BY <1>0, <1>2 DEF Move, Hooks
  <2>2. \A at \in Slots : active'[at] = IF at = s THEN 0 ELSE active[at]
    BY <1>0, <1>s, <1>2
  <2>3. \A at \in Slots : /\ Number(at)' = Number(at) /\ InFlight(at)' = InFlight(at)
                          /\ Waiting(at)' = Waiting(at) /\ Serving(at)' = Serving(at)
                          /\ Sweeping(at)' = Sweeping(at)
    BY <1>0, SourceFrame DEF Number, InFlight, Waiting, Serving, Sweeping
  <2>4. NumbersInOrder'
    <3>1. ASSUME NEW at \in Slots, NEW word \in Words(at)' PROVE word <= Number(at)'
      <4>1. word \in Words(at) \/ word = 0
        BY <1>0, <2>2, SourceFrame DEF Words
      <4>2. Number(at) \in Nat
        BY WordsAreNumbers
      <4> QED BY <2>3, <4>1, <4>2 DEF ReceiptInv, NumbersInOrder
    <3> QED BY <1>0, <2>3, <3>1, SourceFrame DEF ReceiptInv, NumbersInOrder
  <2>5. OneCallPerNumber'
    BY <1>0, <1>s, <2>2, <2>3, SourceFrame DEF ReceiptInv, OneCallPerNumber
  <2>6. ReceiptsAreEarned'
    BY <1>0, <2>3, SourceFrame DEF ReceiptInv, ReceiptsAreEarned
  <2>7. \A n : Pending(n)' <=> Pending(n)
    BY <1>0 DEF Pending
  <2>8. PendingCallsHaveSlots'
    BY <1>0, <1>s, <2>1, <2>2, <2>3, <2>7, SourceFrame DEF ReceiptInv, PendingCallsHaveSlots
  <2>9. SweepsAreOver' /\ LanesMark'
    BY <1>0, <2>1, <2>2, <2>3, <2>7, SourceFrame DEF ReceiptInv, SweepsAreOver, LanesMark
  <2> QED BY <2>4, <2>5, <2>6, <2>8, <2>9 DEF ReceiptInv
<1> QED BY <1>1, <1>2 DEF QueueDone

\* The public receipt of completion follows the private mark.
LEMMA StoreReceipts ==
    ASSUME TypeInv, ReceiptInv, StoreDone
    PROVE  ReceiptInv'
<1> DEFINE s == SlotOf(item.seq)
<1>0. /\ h \in [Threads -> Hooks] /\ "audio" \in Threads /\ Source
      /\ slot \in [Slots -> SlotWords] /\ UNCHANGED <<active, lane, app, item>>
      /\ h["audio"].pc = "cleared" /\ h["audio"].seam = "done" /\ lane["audio"] = TRUE
      /\ slot' = [slot EXCEPT ![s].done = item.seq] /\ Move("audio", "leave")
  BY DEF TypeInv, TypeOK, Threads, Source, StoreDone, ReceiptInv, LanesMark,
     PendingCallsHaveSlots
<1>s. /\ item.seq # 0 /\ s \in Slots /\ Number(s) = item.seq /\ item.seq \in Nat
      /\ \A at \in Slots : Number(at) = item.seq <=> at = s
      /\ active[s] # item.seq
  <2>1. item.seq # 0
    BY <1>0 DEF ReceiptInv, PendingCallsHaveSlots
  <2>2. /\ s \in Slots /\ Number(s) = item.seq /\ item.seq \in Nat
        /\ \A at \in Slots : Number(at) = item.seq <=> at = s
    BY <2>1, RunningCall
  <2> QED BY <1>0, <2>1, <2>2 DEF ReceiptInv, PendingCallsHaveSlots
<1>1. h'["audio"].pc = "leave" /\ h'["audio"].seam = "done"
  BY <1>0 DEF Move, Hooks
<1>3. \A b \in Slots :
         /\ slot'[b].processed = slot[b].processed /\ slot'[b].returned = slot[b].returned
         /\ slot'[b].dispatched = slot[b].dispatched
         /\ slot'[b].done = slot[b].done \/ slot'[b].done = Number(b)
         /\ slot'[b].sealed = slot[b].sealed /\ slot'[b].reclaimed = slot[b].reclaimed
         /\ slot'[b].settled = slot[b].settled
         /\ Number(b)' = Number(b) /\ InFlight(b)' = InFlight(b) /\ Waiting(b)' = Waiting(b)
         /\ Serving(b)' = Serving(b) /\ Sweeping(b)' = Sweeping(b)
  BY <1>0, <1>s, SourceFrame DEF SlotWords, Number, InFlight, Waiting, Serving, Sweeping
<1>4. NumbersInOrder'
  <2>1. ASSUME NEW at \in Slots, NEW word \in Words(at)' PROVE word <= Number(at)'
    <3>1. word \in Words(at) \/ word = Number(at)
      BY <1>0, <1>3, SourceFrame DEF Words
    <3>2. Number(at) \in Nat
      BY WordsAreNumbers
    <3> QED BY <1>3, <3>1, <3>2 DEF ReceiptInv, NumbersInOrder
  <2> QED BY <1>0, <1>3, <2>1, SourceFrame DEF ReceiptInv, NumbersInOrder
<1>5. OneCallPerNumber'
  BY <1>0, <1>3, SourceFrame DEF ReceiptInv, OneCallPerNumber
<1>6. ReceiptsAreEarned'
  BY <1>0, <1>3, SourceFrame DEF ReceiptInv, ReceiptsAreEarned
<1>7. \A n : Pending(n)' <=> Pending(n)
  BY <1>0 DEF Pending
<1>8. PendingCallsHaveSlots'
  BY <1>0, <1>1, <1>3, <1>7, SourceFrame DEF ReceiptInv, PendingCallsHaveSlots
<1>9. SweepsAreOver' /\ LanesMark'
  <2>1. LanesMark'
    BY <1>0, <1>1 DEF LanesMark
  <2>2. SweepsAreOver'
    BY <1>0, <1>3, <1>7, SourceFrame DEF ReceiptInv, SweepsAreOver
  <2> QED BY <2>1, <2>2
<1> QED BY <1>4, <1>5, <1>6, <1>8, <1>9 DEF ReceiptInv

\* Whatever a source hook does.
LEMMA SourceReceipts ==
    ASSUME TypeInv, ReceiptInv, Source
    PROVE  ReceiptInv'
<1>1. ASSUME NEW t \in Threads, HookLeave(t) PROVE ReceiptInv'
  BY <1>1, AdvanceReceipts, OtherHooks DEF Threads
<1>2. ASSUME CommitEvent \/ ForeignOwner PROVE ReceiptInv'
  BY <1>2, OtherHooks DEF Threads
<1> QED
  BY <1>1, <1>2, OtherHooks, TakeReceipts, PointReceipts, DoneReceipts, StoreReceipts,
     AdvanceReceipts DEF Source

-----------------------------------------------------------------------------
(* The consumer and the exit.                                               *)

\* What the consumer and the exit leave alone.
LEMMA ConsumerFrames ==
    ASSUME TypeInv, ReceiptInv, Consumer \/ Exit
    PROVE  /\ UNCHANGED <<inHook, violation, lane, started, active, app, w, o, h, item, watched>>
           /\ total'.published = total.published
           /\ Frontmost' = Frontmost /\ Frontmost <= Frontmost' /\ w.slot \in Slots
           /\ w.pc \in {"changing", "stored", "confirmed", "counted"} =>
                 w.seq = Frontmost + 1
           /\ w.pc = "certified" =>
                 slot[w.slot].sealed = w.seq /\ slot[w.slot].published = w.seq
           /\ LanesMark' /\ LanesMark
           /\ \A n : Pending(n)' <=> Pending(n)
           /\ \A at \in Slots : Serving(at)' = Serving(at)
<1>0. total \in Totals
  BY DEF TypeInv, TypeOK
<1>1. UNCHANGED <<inHook, violation, lane, started, active, app, w, o, h, item, watched>>
  BY DEF Consumer, Tick, RetireScan, RetireDrained, RetireSeal, RetireCount, RetireRelease,
     FinalizeOwner, FinalizeStop, FinalizeGate, FinalizeSources, FinalizeReport, FinalizeClose,
     RetireFrame, FinalizeFrame, ConsumerFrame, sources, Exit
<1>2. total'.published = total.published
  <2>1. CASE RetireCount
    BY <1>0, <2>1 DEF RetireCount, Totals
  <2> QED
    BY <2>1 DEF Consumer, Tick, RetireScan, RetireDrained, RetireSeal, RetireRelease,
       FinalizeOwner, FinalizeStop, FinalizeGate, FinalizeSources, FinalizeReport,
       FinalizeClose, RetireFrame, FinalizeFrame, Exit
<1>3. Frontmost' = Frontmost /\ Frontmost \in Int
  BY <1>1, <1>2 DEF Frontmost, TypeInv, TypeOK, Totals, Tickets
<1>4. LanesMark' /\ LanesMark
  BY <1>1 DEF ReceiptInv, LanesMark
<1>5. \A n : Pending(n)' <=> Pending(n)
  BY <1>1 DEF Pending
<1> QED
  BY <1>1, <1>2, <1>3, <1>4, <1>5
     DEF Serving, ReceiptInv, NumbersInOrder, ReceiptsAreEarned, Number, TypeInv, TypeOK, Jobs

\* A step of theirs that writes no receipt keeps the invariant if the sweep it is in,
\* or goes on to, is over.
LEMMA ConsumerKeeps ==
    ASSUME TypeInv, ReceiptInv, Consumer \/ Exit, SameReceipts, SweepsAreOver'
    PROVE  ReceiptInv'
BY ConsumerTyped, ExitTyped, ConsumerFrames, WordsKept

\* Outside the retirement of a slot there is no sweep to speak of.
LEMMA ClosingStepsKeep ==
    ASSUME TypeInv, ReceiptInv,
           \/ Tick \/ FinalizeOwner \/ FinalizeStop \/ FinalizeGate \/ FinalizeSources
           \/ FinalizeReport \/ FinalizeClose \/ Exit
    PROVE  ReceiptInv'
<1>0. c \in Consumers /\ slot \in [Slots -> SlotWords] /\ (Consumer \/ Exit)
  BY DEF TypeInv, TypeOK, Consumer
<1>1. SameReceipts
  <2>1. ASSUME Tick PROVE SameReceipts
    <3>1. slot' = slot \/ slot' = [at \in Slots |-> [slot[at] EXCEPT !.ahead = FALSE]]
      BY <2>1, Zenon DEF Tick
    <3>2. \A at \in Slots : slot'[at] = slot[at] \/ slot'[at] = [slot[at] EXCEPT !.ahead = FALSE]
      BY <3>1
    <3> QED BY <1>0, <3>2, ConsumerFrames DEF SameReceipts, Receipts, SlotWords
  <2> QED
    BY <1>0, <2>1, ConsumerFrames DEF FinalizeOwner, FinalizeStop, FinalizeGate,
       FinalizeSources, FinalizeReport, FinalizeClose, FinalizeFrame, Exit, SameReceipts, Receipts
<1>2. SweepsAreOver'
  <2>1. CASE Exit
    BY <1>0, <1>1, <2>1, SweepsKept, ConsumerFrames DEF Exit
  <2>2. CASE Tick
    <3>1. c'.pc \in {"retire", "finalize"}
      BY <2>2, TickReach
    <3> QED BY <3>1 DEF SweepsAreOver, Sweeping
  <2>3. CASE \/ FinalizeOwner \/ FinalizeStop \/ FinalizeGate \/ FinalizeSources
             \/ FinalizeReport \/ FinalizeClose
    <3>1. c'.pc \in {"sleep", "failed", "shut", "gate", "sources", "retire", "close", "closed"}
      BY <1>0, <2>3 DEF FinalizeOwner, FinalizeStop, FinalizeGate, FinalizeSources,
         FinalizeReport, FinalizeClose, NotYet, To, Consumers
    <3> QED BY <3>1 DEF SweepsAreOver, Sweeping
  <2> QED BY <2>1, <2>2, <2>3
<1> QED BY <1>0, <1>1, <1>2, ConsumerKeeps

\* The two looks of transaction_drained: with the owner out and every lane unmarked, a
\* call that is still pending has not returned its receipt.
LEMMA LooksReceipts ==
    ASSUME TypeInv, ClosingInv, ReceiptInv, RetireScan \/ RetireDrained \/ RetireCount
    PROVE  ReceiptInv'
<1>0. /\ c \in Consumers /\ (Consumer \/ Exit) /\ slot' = slot
      /\ c.pc \in {"retire", "drained", "lanes", "count"}
  BY DEF TypeInv, TypeOK, Consumer, RetireScan, RetireDrained, RetireCount, RetireFrame
<1>1. SameReceipts
  BY <1>0, ConsumerFrames DEF SameReceipts, Receipts
<1>2. \/ c'.pc \in {"retire", "report", "sleep", "finalize"}
      \/ /\ c.pc = "retire" /\ c'.pc = "drained" /\ c'.sweep = c.sweep
         /\ InFlight(c.sweep) /\ active[c.sweep] = 0
         /\ slot[c.sweep].processed = slot[c.sweep].published
      \/ c.pc = "drained" /\ c'.pc = "lanes" /\ c'.sweep = c.sweep /\ ~inHook
      \/ c.pc = "lanes" /\ c'.pc = "seal" /\ c'.sweep = c.sweep /\ ~lane["audio"]
      \/ c.pc = "count" /\ c'.pc = "release" /\ c'.sweep = c.sweep
  <2>1. CASE RetireScan
    BY <1>0, <2>1 DEF RetireScan, Consumers, To, Skip
  <2>2. CASE RetireDrained
    BY <1>0, <2>2 DEF RetireDrained, Consumers, To, Skip, OwnerOut, LanesOut, Threads
  <2>3. CASE RetireCount
    BY <1>0, <2>3 DEF RetireCount, Consumers, To
  <2> QED BY <2>1, <2>2, <2>3
<1>3. ASSUME NEW at \in Slots, c'.sweep = at,
             c'.pc \in {"drained", "lanes", "seal", "count", "release"}
      PROVE  /\ InFlight(at) /\ slot[at].processed = Number(at) /\ Number(at) # 0
             /\ active[at] = 0
             /\ Serving(at) => c'.pc = "drained"
             /\ c'.pc = "seal" => slot[at].returned # Number(at) \/ ~Pending(Number(at))
             /\ c'.pc \in {"count", "release"} =>
                   /\ slot[at].settled = Number(at) \/ app.calls[Number(at)] = 0
                   /\ ~Pending(Number(at))
  <2>1. CASE c'.pc = "drained"
    <3>1. /\ InFlight(at) /\ slot[at].processed = Number(at) /\ active[at] = 0
      BY <1>2, <1>3, <2>1 DEF Number
    <3>2. Number(at) # 0
      <4>1. slot[at].reclaimed <= Number(at) /\ slot[at].reclaimed \in Nat
        BY WordsAreNumbers DEF ReceiptInv, NumbersInOrder, Words
      <4> QED BY <3>1, <4>1 DEF InFlight, Number
    <3> QED BY <2>1, <3>1, <3>2
  <2>2. CASE c'.pc # "drained"
    <3>1. Sweeping(at) /\ c.pc \in {"drained", "lanes", "count"}
      BY <1>2, <1>3, <2>2 DEF Sweeping
    <3>2. /\ InFlight(at) /\ slot[at].processed = Number(at) /\ Number(at) # 0
          /\ active[at] = 0
          /\ c.pc \in {"count", "release"} =>
                /\ slot[at].settled = Number(at) \/ app.calls[Number(at)] = 0
                /\ ~Pending(Number(at))
          /\ Serving(at) => c.pc = "drained"
      BY <3>1 DEF ReceiptInv, SweepsAreOver
    <3>3. c.pc = "drained" => ~Serving(at)
      BY <1>2, <2>2, <1>3 DEF ClosingInv, WordsTellTheTruth, Serving
    <3>4. ASSUME c'.pc = "seal", Pending(Number(at)) PROVE slot[at].returned # Number(at)
      <4>1. h["audio"].pc \in {"out", "checked"}
        BY <1>2, <3>4 DEF ReceiptInv, LanesMark
      <4> QED BY <3>2, <3>4, <4>1 DEF ReceiptInv, PendingCallsHaveSlots
    <3> QED BY <1>2, <1>3, <2>2, <3>2, <3>3, <3>4
  <2> QED BY <2>1, <2>2
<1>4. SweepsAreOver'
  <2>1. \A at \in Slots : /\ Number(at)' = Number(at) /\ InFlight(at)' = InFlight(at)
                          /\ slot'[at] = slot[at] /\ active'[at] = active[at]
                          /\ Serving(at)' = Serving(at)
                          /\ Sweeping(at)' =>
                               /\ c'.sweep = at
                               /\ c'.pc \in {"drained", "lanes", "seal", "count", "release"}
    BY <1>0, ConsumerFrames DEF Number, InFlight, Sweeping
  <2> QED BY <1>0, <1>3, <2>1, ConsumerFrames DEF SweepsAreOver
<1> QED BY <1>0, <1>1, <1>4, ConsumerKeeps

\* A transaction is sealed over both receipts of its call; a slot whose request was
\* refused goes on without one, for no call was made.
LEMMA SealReceipts ==
    ASSUME TypeInv, ReceiptInv, RetireSeal
    PROVE  ReceiptInv'
<1> DEFINE s == c.sweep
<1>0. /\ c \in Consumers /\ Consumer /\ slot \in [Slots -> SlotWords] /\ c.pc = "seal"
      /\ s \in 0 .. SlotCount
  BY DEF TypeInv, TypeOK, Consumer, RetireSeal, Consumers
<1>s. s \in Slots /\ Sweeping(s)
  BY <1>0 DEF TypeInv, SweepInRange, Sweeping, Slots
<1>n. /\ Number(s) # 0 /\ Number(s) \in Tickets /\ Number(s) \in Nat
      /\ InFlight(s) /\ slot[s].processed = Number(s) /\ active[s] = 0 /\ ~Serving(s)
      /\ slot[s].returned # Number(s) \/ ~Pending(Number(s))
  BY <1>0, <1>s, WordsAreNumbers DEF ReceiptInv, SweepsAreOver
<1>1. \/ slot' = slot
      \/ /\ slot' = [slot EXCEPT ![s].sealed = Number(s)]
         /\ slot[s].done = Number(s) /\ slot[s].returned = Number(s)
  BY DEF RetireSeal, Completed, Number
<1>2. \/ c'.pc = "retire"
      \/ /\ c'.pc = "count" /\ c'.sweep = s
         /\ \/ Refused(s)
            \/ slot[s].settled = Number(s) /\ slot[s].returned = Number(s)
  BY <1>0 DEF RetireSeal, Completed, Number, To, Skip, Consumers
<1>3. \A b \in Slots :
         /\ slot'[b].processed = slot[b].processed /\ slot'[b].returned = slot[b].returned
         /\ slot'[b].dispatched = slot[b].dispatched /\ slot'[b].done = slot[b].done
         /\ \/ slot'[b].sealed = slot[b].sealed
            \/ /\ slot'[b].sealed = Number(b)
               /\ slot[b].done = Number(b) /\ slot[b].returned = Number(b)
         /\ slot'[b].settled = slot[b].settled /\ slot'[b].reclaimed = slot[b].reclaimed
         /\ Number(b)' = Number(b) /\ InFlight(b)' = InFlight(b) /\ Waiting(b)' = Waiting(b)
  <2>1. CASE slot' = slot
    BY <2>1 DEF Number, InFlight, Waiting
  <2>2. CASE /\ slot' = [slot EXCEPT ![s].sealed = Number(s)]
             /\ slot[s].done = Number(s) /\ slot[s].returned = Number(s)
    BY <1>0, <1>s, <2>2 DEF SlotWords, Number, InFlight, Waiting
  <2> QED BY <1>1, <2>1, <2>2
<1>4. NumbersInOrder'
  <2>1. ASSUME NEW at \in Slots, NEW word \in Words(at)' PROVE word <= Number(at)'
    <3>1. word \in Words(at) \/ word = Number(at)
      BY <1>0, <1>3, ConsumerFrames DEF Words
    <3>2. Number(at) \in Nat
      BY WordsAreNumbers
    <3> QED BY <1>3, <3>1, <3>2 DEF ReceiptInv, NumbersInOrder
  <2> QED BY <1>0, <1>3, <2>1, ConsumerFrames DEF ReceiptInv, NumbersInOrder
<1>5. OneCallPerNumber'
  BY <1>0, <1>3, ConsumerFrames DEF ReceiptInv, OneCallPerNumber
<1>6. ReceiptsAreEarned'
  BY <1>0, <1>3, ConsumerFrames DEF ReceiptInv, ReceiptsAreEarned, Number
<1>7. PendingCallsHaveSlots'
  BY <1>0, <1>3, ConsumerFrames DEF ReceiptInv, PendingCallsHaveSlots
<1>r. Refused(s) => app.calls[Number(s)] = 0 /\ ~Pending(Number(s))
  <2>1. Refused(s) => app.calls[Number(s)] = 0
    BY <1>s, <1>n DEF Refused, ReceiptInv, ReceiptsAreEarned, Number
  <2> QED BY <1>n, <2>1, PendingIsCalled
<1>8. SweepsAreOver'
  <2>1. CASE c'.pc = "retire"
    BY <2>1 DEF SweepsAreOver, Sweeping
  <2>2. CASE c'.pc = "count" /\ c'.sweep = s
    <3>1. slot[s].settled = Number(s) \/ app.calls[Number(s)] = 0
      BY <1>2, <1>r, <2>2
    <3>2. ~Pending(Number(s))
      BY <1>2, <1>r, <1>n, <2>2
    <3> QED
      BY <1>0, <1>s, <1>n, <1>3, <2>2, <3>1, <3>2, ConsumerFrames DEF SweepsAreOver, Sweeping
  <2> QED BY <1>2, <2>1, <2>2
<1> QED BY <1>0, <1>4, <1>5, <1>6, <1>7, <1>8, ConsumerFrames DEF ReceiptInv

\* "Last old-generation write": the slot is free, its call over or never made.
LEMMA ReleaseReceipts ==
    ASSUME TypeInv, ReceiptInv, RetireRelease
    PROVE  ReceiptInv'
<1> DEFINE s == c.sweep
<1>0. /\ c \in Consumers /\ Consumer /\ slot \in [Slots -> SlotWords] /\ c.pc = "release"
      /\ s \in 0 .. SlotCount /\ c'.pc = "retire"
      /\ slot' = [slot EXCEPT ![s].reclaimed = Number(s)]
  BY DEF TypeInv, TypeOK, Consumer, RetireRelease, Consumers, Skip, Number
<1>s. s \in Slots /\ Sweeping(s)
  BY <1>0 DEF TypeInv, SweepInRange, Sweeping, Slots
<1>n. /\ Number(s) # 0 /\ ~Serving(s) /\ slot[s].processed = Number(s)
      /\ slot[s].settled = Number(s) \/ app.calls[Number(s)] = 0
      /\ ~Pending(Number(s))
  BY <1>0, <1>s DEF ReceiptInv, SweepsAreOver
<1>3. \A b \in Slots :
         /\ slot'[b].processed = slot[b].processed /\ slot'[b].returned = slot[b].returned
         /\ slot'[b].dispatched = slot[b].dispatched /\ slot'[b].done = slot[b].done
         /\ slot'[b].sealed = slot[b].sealed /\ slot'[b].settled = slot[b].settled
         /\ b # s => slot'[b].reclaimed = slot[b].reclaimed /\ InFlight(b)' = InFlight(b)
         /\ b = s => slot'[b].reclaimed = Number(b) /\ ~InFlight(b)'
         /\ Number(b)' = Number(b) /\ (Waiting(b)' => Waiting(b))
  BY <1>0, <1>s DEF SlotWords, Number, InFlight, Waiting
<1>4. NumbersInOrder'
  <2>1. ASSUME NEW at \in Slots, NEW word \in Words(at)' PROVE word <= Number(at)'
    <3>1. word \in Words(at) \/ word = Number(at)
      BY <1>0, <1>3, ConsumerFrames DEF Words
    <3>2. Number(at) \in Nat
      BY WordsAreNumbers
    <3> QED BY <1>3, <3>1, <3>2 DEF ReceiptInv, NumbersInOrder
  <2> QED BY <1>0, <1>3, <2>1, ConsumerFrames DEF ReceiptInv, NumbersInOrder
<1>5. OneCallPerNumber'
  BY <1>0, <1>n, <1>3, ConsumerFrames DEF ReceiptInv, OneCallPerNumber
<1>6. ReceiptsAreEarned'
  BY <1>0, <1>n, <1>3, ConsumerFrames DEF ReceiptInv, ReceiptsAreEarned, Number
<1>7. PendingCallsHaveSlots'
  <2>1. ASSUME NEW n \in Tickets, n # 0, Pending(n)
        PROVE  app.calls[n] = 1 /\ \E at \in Slots : Number(at)' = n /\ InFlight(at)'
    <3>1. PICK at \in Slots : Number(at) = n /\ InFlight(at)
      BY <2>1, PendingIsCalled
    <3>2. at # s
      BY <1>n, <2>1, <3>1
    <3> QED BY <1>3, <2>1, <3>1, <3>2, PendingIsCalled
  <2> QED BY <1>0, <1>3, <2>1, ConsumerFrames DEF ReceiptInv, PendingCallsHaveSlots
<1>8. SweepsAreOver'
  BY <1>0 DEF SweepsAreOver, Sweeping
<1> QED BY <1>0, <1>4, <1>5, <1>6, <1>7, <1>8, ConsumerFrames DEF ReceiptInv

\* Whatever any of them does.
LEMMA NextReceipts ==
    ASSUME TypeInv, PublishInv, ClosingInv, ReceiptInv, [Next]_vars
    PROVE  ReceiptInv'
<1>1. CASE Next
  BY <1>1, WriterReceipts, DrainReceipts, SourceReceipts, ClosingStepsKeep, LooksReceipts,
     SealReceipts, ReleaseReceipts DEF Next, Consumer
<1>2. CASE UNCHANGED vars
  BY <1>2 DEF vars, mailbox, private, sources, ReceiptInv, NumbersInOrder, OneCallPerNumber,
     ReceiptsAreEarned, PendingCallsHaveSlots, SweepsAreOver, LanesMark, Frontmost, Number,
     Words, Serving, Sweeping, Waiting, InFlight, Pending
<1> QED BY <1>1, <1>2

-----------------------------------------------------------------------------
(* A stop, and the order of jogs.                                           *)

\* Only the store of published starts a flight, and no other step moves a number or
\* the control of a request in flight.
LEMMA FlightsOnlyEnd ==
    ASSUME TypeInv, PublishInv, Next, ~PublishSlot
    PROVE  \A at \in Slots :
              /\ slot'[at].published = slot[at].published
              /\ InFlight(at)' => InFlight(at)
              /\ InFlight(at) => slot'[at].control = slot[at].control
<1>0. /\ slot \in [Slots -> SlotWords] /\ w \in Jobs /\ w.slot \in Slots
      /\ SweepInRange /\ c \in Consumers
  BY DEF TypeInv, TypeOK, Jobs
<1>1. CASE SamePayloads
  BY <1>1 DEF SamePayloads, InFlight
<1>2. CASE Drain \/ Source \/ Exit
  BY <1>1, <1>2, OthersKeepPayloads
<1>3. CASE Writer
  <2>1. CASE slot' = slot
    BY <1>1, <2>1 DEF SamePayloads
  <2>2. CASE CheckPublish
    BY <1>0, <2>1, <2>2 DEF CheckPublish, SlotWords, InFlight
  <2>3. CASE StoreRequest
    <3>1. ~InFlight(w.slot)
      BY <2>3 DEF StoreRequest, PublishInv, WriterOwnsSlot
    <3> QED BY <1>0, <2>3, <3>1 DEF StoreRequest, SlotWords, InFlight
  <2>4. CASE StoreSettled
    BY <1>0, <2>4 DEF StoreSettled, SlotWords, InFlight
  <2> QED
    BY <1>3, <2>1, <2>2, <2>3, <2>4 DEF Writer, BeginJob, Begin, EnterGate, AdmitWriter,
       ConfirmIntent, PublishTotal, CheckSealed, CheckIdle, StoreStop, LeaveGate, WriterDies,
       mailbox
<1>4. CASE Consumer
  <2>1. CASE slot' = slot
    BY <1>1, <2>1 DEF SamePayloads
  <2>2. CASE Tick
    <3>1. slot' = slot \/ slot' = [at \in Slots |-> [slot[at] EXCEPT !.ahead = FALSE]]
      BY <2>2, Zenon DEF Tick
    <3> QED BY <1>0, <1>1, <3>1 DEF SamePayloads, SlotWords
  <2>3. CASE RetireSeal
    BY <1>0, <1>1, <2>1, <2>3, ReceiptKeepsPayload, Zenon DEF RetireSeal
  <2>4. CASE RetireRelease
    <3>1. slot' = [slot EXCEPT ![c.sweep].reclaimed = slot[c.sweep].published]
      BY <2>4 DEF RetireRelease
    <3> QED BY <1>0, <3>1 DEF SlotWords, InFlight
  <2> QED
    BY <1>4, <2>1, <2>2, <2>3, <2>4 DEF Consumer, RetireScan, RetireDrained, RetireCount,
       FinalizeOwner, FinalizeStop, FinalizeGate, FinalizeSources, FinalizeReport,
       FinalizeClose, FinalizeFrame
<1> QED BY <1>2, <1>3, <1>4 DEF Next

\* Steps that are not the writer's do not request a stop or publish a number.
LEMMA StopsKept ==
    ASSUME TypeInv, ReceiptInv, Drain \/ Source \/ Consumer \/ Exit
    PROVE  /\ w' = w /\ total'.published = total.published
           /\ session'.stopRequested = session.stopRequested
           /\ session'.stopSequence = session.stopSequence
<1>0. session \in Sessions
  BY DEF TypeInv, TypeOK
<1>1. CASE Drain
  BY <1>1, DrainLeaves
<1>2. CASE Source
  <2>1. session'.stopRequested = session.stopRequested
        /\ session'.stopSequence = session.stopSequence
    <3>1. CASE \E lost : LoseRow(lost)
      BY <1>0, <3>1, LostRowKeeps
    <3>2. CASE session' = session
      BY <3>2
    <3>3. CASE \E t \in Threads : NewProject(t)
      BY <1>0, <3>3 DEF NewProject, Sessions
    <3> QED
      BY <1>2, <3>1, <3>2, <3>3 DEF Source, HookStart, HookMark, HookRecheck, HookLeave,
         CommitEvent, TakeItem, QueuePoint, QueueDone, StoreDone, HookSkip, ForeignOwner
  <2> QED BY <1>2, <2>1, SourceFrame
<1>3. CASE Consumer \/ Exit
  <2>1. session'.stopRequested = session.stopRequested
        /\ session'.stopSequence = session.stopSequence
    <3>1. CASE Tick
      BY <3>1, TickReach
    <3>2. CASE NotYet
      BY <3>2, NotYetReach
    <3>3. CASE session' = session
      BY <3>3
    <3>4. CASE FinalizeStop \/ FinalizeReport \/ FinalizeClose \/ Exit
      BY <1>0, <3>4 DEF FinalizeStop, FinalizeReport, FinalizeClose, Exit, Sessions
    <3> QED
      BY <1>3, <3>1, <3>2, <3>3, <3>4 DEF Consumer, RetireScan, RetireDrained, RetireSeal,
         RetireCount, RetireRelease, RetireFrame, FinalizeOwner, FinalizeGate, FinalizeSources
  <2> QED BY <1>3, <2>1, ConsumerFrames
<1> QED BY <1>1, <1>2, <1>3

\* Nothing is requested at startup.
LEMMA InitStop == Init => StopInv /\ JogInv
BY DEF Init, StopInv, JogInv, Serving, InFlight, NoJob

\* A stop is stored over an idle mailbox; afterwards admission fails.
LEMMA NextStop ==
    ASSUME TypeInv, PublishInv, ReceiptInv, StopInv, [Next]_vars
    PROVE  StopInv'
<1>0. w \in Jobs /\ session \in Sessions /\ total \in Totals
  BY DEF TypeInv, TypeOK
<1>1. CASE UNCHANGED vars
  BY <1>1 DEF vars, mailbox, StopInv, InFlight
<1>2. CASE Drain \/ Source \/ Consumer \/ Exit
  <2>1. \A at \in Slots : InFlight(at)' => InFlight(at)
    <3>1. ~PublishSlot
      BY <1>0, <1>2, StopsKept DEF PublishSlot, Go, Jobs
    <3> QED BY <1>2, <3>1, FlightsOnlyEnd DEF Next
  <2> QED BY <1>2, <2>1, StopsKept DEF StopInv
<1>3. CASE Writer /\ ~PublishSlot
  <2>1. \A at \in Slots : InFlight(at)' => InFlight(at)
    BY <1>3, FlightsOnlyEnd DEF Next
  <2>2. CASE StoreStop
    BY <1>0, <2>1, <2>2 DEF StoreStop, Go, Jobs, Sessions, StopInv
  <2>3. CASE CheckIdle
    <3>1. (Idle /\ Go("quiet")) \/ Go("leaving")
      BY <2>3 DEF CheckIdle
    <3>2. UNCHANGED <<session, total>> /\ w.pc = "inside"
      BY <2>3 DEF CheckIdle, mailbox
    <3> QED BY <1>0, <2>1, <3>1, <3>2 DEF Go, Jobs, StopInv, Idle
  <2>4. CASE AdmitWriter
    <3>1. (~session.stopRequested /\ Go("inside")) \/ Go("leaving")
      BY <2>4 DEF AdmitWriter, WriterAdmitted
    <3>2. UNCHANGED <<session, total>>
      BY <2>4 DEF AdmitWriter, mailbox
    <3> QED BY <1>0, <2>1, <3>1, <3>2 DEF Go, Jobs, StopInv
  <2>5. CASE BeginJob \/ EnterGate \/ LeaveGate \/ WriterDies
    <3>1. /\ UNCHANGED <<session, total>>
          /\ w'.pc \in {"entering", "out", "dead"} \/ (w'.pc = "entered" /\ w.pc = "entering")
      BY <1>0, <2>5 DEF BeginJob, Begin, EnterGate, LeaveGate, WriterDies, mailbox, Go, Jobs, NoJob
    <3> QED BY <2>1, <3>1 DEF StopInv
  <2>6. CASE CheckPublish \/ StoreRequest \/ ConfirmIntent \/ PublishTotal \/ CheckSealed
             \/ StoreSettled
    <3>1. /\ session' = session /\ w'.pc # "quiet"
          /\ w.pc \notin {"out", "entering", "entered", "leaving", "dead"}
      BY <1>0, <2>6 DEF CheckPublish, StoreRequest, ConfirmIntent, PublishTotal, CheckSealed,
         StoreSettled, mailbox, Go, Jobs
    <3> QED BY <3>1 DEF StopInv
  <2> QED BY <1>3, <2>2, <2>3, <2>4, <2>5, <2>6 DEF Writer
<1>4. CASE PublishSlot
  <2>1. session' = session /\ w'.pc = "leaving" /\ w.pc = "counted"
    BY <1>0, <1>4 DEF PublishSlot, Go, Jobs
  <2> QED BY <2>1 DEF StopInv
<1> QED BY <1>1, <1>2, <1>3, <1>4 DEF Next

\* A step that gives no jog to the owner, starts no flight and takes no completion
\* back keeps the order.
LEMMA JogsKept ==
    ASSUME ReceiptInv, JogInv,
           \A at \in Slots :
              /\ slot'[at].published = slot[at].published
              /\ InFlight(at)' => InFlight(at)
              /\ InFlight(at) => slot'[at].control = slot[at].control
              /\ slot'[at].done = slot[at].done \/ slot'[at].done = Number(at),
           \A at \in Slots :
              (Serving(at) /\ o.pc \in {"validate", "call"})' =>
                 Serving(at) /\ o.pc \in {"validate", "call"}
    PROVE  JogInv'
<1>1. \A at \in Slots : Serving(at) => InFlight(at)
  BY DEF ReceiptInv, OneCallPerNumber
<1> QED BY <1>1 DEF JogInv, Jog, Older, Number

\* The publication of the newest number puts no jog before a served one.
LEMMA PublishedJogs ==
    ASSUME TypeInv, PublishInv, ReceiptInv, JogInv, PublishSlot
    PROVE  JogInv'
<1>0. /\ slot \in [Slots -> SlotWords] /\ w \in Jobs /\ w.slot \in Slots /\ w.pc = "counted"
      /\ UNCHANGED <<o, active, started>> /\ w.seq \in Nat /\ total.published \in Nat
  BY DEF PublishSlot, WriterFrame, private, TypeInv, TypeOK, Jobs, Totals, Tickets
<1>1. ~InFlight(w.slot) /\ ~Serving(w.slot)
  <2>1. ~InFlight(w.slot)
    BY <1>0 DEF PublishInv, WriterOwnsSlot
  <2> QED BY <1>0, <2>1 DEF ReceiptInv, OneCallPerNumber
<1>2. \A at \in Slots : Number(at) \in Nat /\ Number(at) < w.seq
  <2>1. w.seq = Frontmost + 1 /\ Frontmost = total.published - 1
    BY <1>0 DEF ReceiptInv, NumbersInOrder, Frontmost
  <2>2. \A at \in Slots : Number(at) \in Nat /\ Number(at) <= Frontmost
    BY WordsAreNumbers DEF ReceiptInv, NumbersInOrder
  <2> QED BY <1>0, <2>1, <2>2
<1>3. \A at \in Slots :
         /\ slot'[at].control = slot[at].control /\ slot'[at].done = slot[at].done
         /\ slot'[at].published = IF at = w.slot THEN w.seq ELSE Number(at)
         /\ at # w.slot => InFlight(at)' = InFlight(at)
         /\ Serving(at)' = Serving(at)
  BY <1>0 DEF PublishSlot, SlotWords, Number, InFlight, Serving
<1> SUFFICES ASSUME NEW at \in Slots, NEW other \in Slots,
                    (/\ Serving(at) /\ o.pc \in {"validate", "call"} /\ Jog(at)
                     /\ Jog(other) /\ InFlight(other) /\ Older(other, at))'
             PROVE  (slot[other].done = Number(other))'
  BY DEF JogInv
<1>4. at # w.slot /\ Serving(at)
  BY <1>1, <1>3
<1>5. other # w.slot
  BY <1>0, <1>2, <1>3, <1>4 DEF Older
<1>6. Jog(at) /\ Jog(other) /\ InFlight(other) /\ Older(other, at) /\ o.pc \in {"validate", "call"}
  BY <1>0, <1>3, <1>4, <1>5 DEF Jog, Older, Number
<1> QED BY <1>3, <1>4, <1>5, <1>6 DEF JogInv, Number

\* jog_service accepts a jog only when no jog before it is unfinished.
LEMMA AcceptedJogs ==
    ASSUME TypeInv, PublishInv, ReceiptInv, JogInv, NEW at \in Slots, NEW visit \in 0 .. SlotCount,
           Accept(at, visit), ~Held(at), o.pc \in {"ordinary", "ordered"}
    PROVE  JogInv'
<1>0. slot \in [Slots -> SlotWords] /\ o \in Drains
  BY DEF TypeInv, TypeOK
<1>1. o'.serving = at
  BY <1>0 DEF Accept, Drains
<1>2. PICK refuse \in BOOLEAN :
         slot' = [slot EXCEPT ![at].rejected = refuse, ![at].rows = 0]
  BY DEF Accept
<1>3. \A b \in Slots :
         /\ slot'[b].control = slot[b].control /\ slot'[b].done = slot[b].done
         /\ slot'[b].published = slot[b].published /\ slot'[b].reclaimed = slot[b].reclaimed
         /\ Serving(b)' => b = at
  BY <1>0, <1>1, <1>2 DEF SlotWords, Serving
<1> SUFFICES ASSUME NEW b \in Slots, NEW other \in Slots,
                    (/\ Serving(b) /\ o.pc \in {"validate", "call"} /\ Jog(b)
                     /\ Jog(other) /\ InFlight(other) /\ Older(other, b))'
             PROVE  (slot[other].done = Number(other))'
  BY DEF JogInv
<1>4. b = at /\ Jog(at) /\ Jog(other) /\ InFlight(other) /\ Older(other, at)
  BY <1>3 DEF Jog, InFlight, Older
<1>5. other # at /\ Readable(other)
  <2>1. slot[other].published \in Nat /\ slot[other].published < slot[at].published
    BY <1>4, WordsAreNumbers DEF Older, Number
  <2> QED BY <1>4, <2>1 DEF PublishInv, RequestIntact, InFlight
<1>6. slot[other].done = slot[other].published
  BY <1>4, <1>5 DEF Held, HeldByJog
<1> QED BY <1>3, <1>6 DEF Number

\* What a step does to completions: it takes none back.
LEMMA DoneOnlyGrows ==
    ASSUME TypeInv, PublishInv, ReceiptInv, Next
    PROVE  \A at \in Slots : slot'[at].done = slot[at].done \/ slot'[at].done = Number(at)
<1>0. slot \in [Slots -> SlotWords] /\ w.slot \in Slots
  BY DEF TypeInv, TypeOK, Jobs
<1>1. CASE Writer
  <2>1. CASE slot' = slot
    BY <2>1
  <2>2. CASE CheckPublish \/ StoreRequest \/ StoreSettled
    BY <1>0, <2>1, <2>2 DEF CheckPublish, StoreRequest, StoreSettled, SlotWords
  <2>3. CASE PublishSlot
    BY <1>0, <2>3 DEF PublishSlot, SlotWords
  <2> QED
    BY <1>1, <2>1, <2>2, <2>3 DEF Writer, BeginJob, Begin, EnterGate, AdmitWriter,
       ConfirmIntent, PublishTotal, CheckSealed, CheckIdle, StoreStop, LeaveGate, WriterDies,
       mailbox
<1>2. CASE Drain
  <2>1. CASE slot' = slot
    BY <2>1
  <2>2. CASE \E at, visit : Accept(at, visit)
    <3>1. PICK at, refuse : slot' = [slot EXCEPT ![at].rejected = refuse, ![at].rows = 0]
      BY <2>2 DEF Accept
    <3> QED BY <1>0, <3>1 DEF SlotWords
  <2>3. CASE Validate \/ Return \/ Process
    BY <1>0, <2>1, <2>3 DEF Validate, Return, Process, SlotWords
  <2>4. CASE Call
    <3>1. Ticket = Number(o.serving)
      BY DEF Ticket, Number
    <3>2. \/ slot' = slot
          \/ slot' = [slot EXCEPT ![o.serving].done = Ticket]
          \/ slot' = [slot EXCEPT ![o.serving].rejected = TRUE]
      BY <2>4, CallReach
    <3> QED BY <1>0, <3>1, <3>2 DEF SlotWords
  <2> QED
    BY <1>2, <2>1, <2>2, <2>3, <2>4 DEF Drain, DrainCheck, DrainEnter, DrainRecheck,
       ServiceStart, ServeOrdinary, ServeOrdered, Consume, DrainLeave
<1>3. CASE Source
  <2>1. CASE slot' = slot
    BY <2>1
  <2>2. CASE StoreDone
    <3>1. item.seq # 0
      BY <2>2 DEF StoreDone, ReceiptInv, PendingCallsHaveSlots
    <3>2. slot' = [slot EXCEPT ![SlotOf(item.seq)].done = item.seq]
      BY <2>2 DEF StoreDone
    <3> QED BY <1>0, <3>1, <3>2, RunningCall DEF SlotWords
  <2>3. CASE \E at : slot' = [slot EXCEPT ![at].rows = @ + 1]
    BY <1>0, <2>3 DEF SlotWords
  <2> QED
    BY <1>3, <2>1, <2>2, <2>3 DEF Source, HookStart, HookMark, HookRecheck, NewProject,
       HookLeave, CommitEvent, TakeItem, QueuePoint, QueueDone, HookSkip, ForeignOwner
<1>4. CASE Consumer \/ Exit
  <2>1. CASE slot' = slot
    BY <2>1
  <2>2. CASE Tick
    <3>1. slot' = slot \/ slot' = [at \in Slots |-> [slot[at] EXCEPT !.ahead = FALSE]]
      BY <2>2, Zenon DEF Tick
    <3> QED BY <1>0, <3>1 DEF SlotWords
  <2>3. CASE RetireSeal \/ RetireRelease
    BY <1>0, <2>1, <2>3 DEF RetireSeal, RetireRelease, SlotWords
  <2> QED
    BY <1>4, <2>1, <2>2, <2>3 DEF Consumer, RetireScan, RetireDrained, RetireCount,
       FinalizeOwner, FinalizeStop, FinalizeGate, FinalizeSources, FinalizeReport,
       FinalizeClose, FinalizeFrame, Exit
<1> QED BY <1>1, <1>2, <1>3, <1>4 DEF Next

\* A jog is validated and called in the order of publication.
LEMMA NextJogs ==
    ASSUME TypeInv, PublishInv, ReceiptInv, JogInv, [Next]_vars
    PROVE  JogInv'
<1>1. CASE UNCHANGED vars
  BY <1>1 DEF vars, mailbox, JogInv, Serving, Jog, InFlight, Older, Number
<1>2. CASE PublishSlot
  BY <1>2, PublishedJogs
<1>3. CASE \E at \in Slots, visit \in 0 .. SlotCount :
              Accept(at, visit) /\ ~Held(at) /\ o.pc \in {"ordinary", "ordered"}
  BY <1>3, AcceptedJogs
<1>4. ASSUME Next, ~PublishSlot,
             ~ \E at \in Slots, visit \in 0 .. SlotCount :
                 Accept(at, visit) /\ ~Held(at) /\ o.pc \in {"ordinary", "ordered"}
      PROVE  JogInv'
  <2>1. \A at \in Slots :
           /\ slot'[at].published = slot[at].published
           /\ InFlight(at)' => InFlight(at)
           /\ InFlight(at) => slot'[at].control = slot[at].control
           /\ slot'[at].done = slot[at].done \/ slot'[at].done = Number(at)
    BY <1>4, FlightsOnlyEnd, DoneOnlyGrows
  <2>2. \A at \in Slots :
           (Serving(at) /\ o.pc \in {"validate", "call"})' =>
              Serving(at) /\ o.pc \in {"validate", "call"}
    <3>0. o \in Drains
      BY DEF TypeInv, TypeOK
    <3>1. CASE o' = o
      BY <3>1 DEF Serving
    <3>2. CASE Drain
      <4>1. CASE ServeOrdinary \/ ServeOrdered
        <5>1. o.pc \in {"ordinary", "ordered"}
          BY <4>1 DEF ServeOrdinary, ServeOrdered
        <5>2. o'.pc \in {"ordinary", "ordered", "leave"}
          BY <1>4, <3>0, <4>1, <5>1, TurnTakes
        <5> QED BY <5>2
      <4>2. CASE Validate
        BY <3>0, <4>2 DEF Validate, Step, Drains, Serving
      <4>3. CASE Call
        BY <4>3, CallReach
      <4>4. CASE DrainCheck \/ DrainEnter \/ DrainRecheck \/ ServiceStart \/ Return \/ Process
                 \/ Consume \/ DrainLeave
        <5>1. o'.pc \notin {"validate", "call"}
          BY <3>0, <4>4 DEF DrainCheck, DrainEnter, DrainRecheck, ServiceStart, Return, Process,
             Consume, DrainLeave, Step, Drains
        <5> QED BY <5>1
      <4> QED BY <3>2, <4>1, <4>2, <4>3, <4>4 DEF Drain
    <3>3. Writer \/ Source \/ Consumer \/ Exit => o' = o
      BY SourceFrame, ConsumerFrames
         DEF Writer, BeginJob, Begin, EnterGate, AdmitWriter, CheckPublish, StoreRequest,
             ConfirmIntent, PublishTotal, PublishSlot, CheckSealed, StoreSettled, CheckIdle,
             StoreStop, LeaveGate, WriterDies, WriterFrame
    <3> QED BY <1>4, <3>1, <3>2, <3>3 DEF Next
  <2> QED BY <2>1, <2>2, JogsKept
<1> QED BY <1>1, <1>2, <1>3, <1>4

\* The packet being called is the oldest unfinished jog.
LEMMA CallInOrder ==
    ASSUME TypeInv, PublishInv, ReceiptInv, JogInv, Next, NEW at \in Slots, NEW other \in Slots,
           app'.calls[slot[at].published] # app.calls[slot[at].published],
           Jog(at), Jog(other), InFlight(other), Older(other, at)
    PROVE  slot[other].done = slot[other].published
<1>1. CASE Call
  <2>0. o.pc = "call" /\ app.calls \in [Tickets -> Nat]
    BY <1>1 DEF Call, TypeInv, TypeOK, Apps
  <2>1. Number(at) \in Tickets /\ Number(at) = slot[at].published
    BY WordsAreNumbers DEF Number
  <2>2. Number(at) = Ticket
    BY <1>1, <2>0, <2>1, CallReach
  <2>3. at = o.serving /\ Serving(at)
    BY <2>0, <2>2, ServedRequest
  <2> QED BY <2>0, <2>3 DEF JogInv, Number
<1>2. CASE ~Call
  <2>1. app'.calls = app.calls
    <3>1. CASE Writer
      BY <3>1 DEF Writer, BeginJob, Begin, EnterGate, AdmitWriter, CheckPublish, StoreRequest,
         ConfirmIntent, PublishTotal, PublishSlot, CheckSealed, StoreSettled, CheckIdle,
         StoreStop, LeaveGate, WriterDies, WriterFrame
    <3>2. CASE Drain
      BY <1>2, <3>2 DEF Drain, DrainCheck, DrainEnter, DrainRecheck, ServiceStart,
         ServeOrdinary, ServeOrdered, Validate, Return, Process, Consume, DrainLeave
    <3>3. CASE Source
      BY <3>3 DEF Source, HookStart, HookMark, HookRecheck, NewProject, HookLeave, CommitEvent,
         TakeItem, QueuePoint, QueueDone, StoreDone, HookSkip, ForeignOwner, TypeInv, TypeOK, Apps
    <3>4. CASE Consumer \/ Exit
      BY <3>4, ConsumerFrames
    <3> QED BY <3>1, <3>2, <3>3, <3>4 DEF Next
  <2> QED BY <2>1
<1> QED BY <1>1, <1>2

-----------------------------------------------------------------------------
(* The theorems.                                                            *)

MailboxInv == /\ TypeInv /\ PublishInv /\ ClosingInv /\ OwnerHasConfirmed
              /\ ReceiptInv /\ StopInv /\ JogInv

\* One invariant holds it all together, for any number of slots and controls.
THEOREM ReceiptsHold == Spec => []MailboxInv
<1>1. Init => MailboxInv
  BY InitTyped, InitPublish, InitClosing, InitReceipts, InitStop DEF MailboxInv
<1>2. MailboxInv /\ [Next]_vars => MailboxInv'
  BY NextTyped, NextPublish, NextClosing, NextReceipts, NextStop, NextJogs DEF MailboxInv
<1> QED BY <1>1, <1>2, PTL DEF Spec

\* command_retire and the bridge certify only what was called, returned and completed,
\* and no request ever reaches its native setter twice.
THEOREM NoReceiptIsFabricated == Spec => []NoFabricatedReceipt
<1>1. MailboxInv => NoFabricatedReceipt
  BY DEF MailboxInv, ReceiptInv, OneCallPerNumber, ReceiptsAreEarned, NoFabricatedReceipt, Number
<1> QED BY <1>1, ReceiptsHold, PTL

\* command_request_stop leaves nothing of the service's in the mailbox, nor in the
\* application's queue, nor in its hands.
THEOREM StopFindsNothing == Spec => []StopIsQuiet
<1>1. MailboxInv => StopIsQuiet
  <2> SUFFICES ASSUME MailboxInv, session.stopRequested PROVE
         /\ total.published = session.stopSequence
         /\ \A at \in Slots : ~InFlight(at)
         /\ app.queue = <<>> /\ item = NoItem
    BY DEF StopIsQuiet
  <2>1. /\ total.published = session.stopSequence
        /\ \A at \in Slots : ~InFlight(at)
    BY DEF MailboxInv, StopInv
  <2>2. ReceiptInv /\ app.queue \in Seq(Tickets) /\ item.seq \in Tickets
    BY DEF MailboxInv, TypeInv, TypeOK, Apps, Items
  <2>3. ASSUME NEW n \in Tickets, n # 0 PROVE ~Pending(n)
    BY <2>1, <2>2, <2>3, PendingIsCalled
  <2>4. app.queue = <<>>
    <3>1. SUFFICES ASSUME app.queue # <<>> PROVE FALSE
      OBVIOUS
    <3>2. 1 \in DOMAIN app.queue /\ app.queue[1] \in Tickets
      BY <2>2, <3>1, EmptySeq
    <3>3. app.queue[1] # 0
      BY <2>2, <3>2 DEF ReceiptInv, PendingCallsHaveSlots
    <3> QED BY <2>3, <3>2, <3>3 DEF Pending
  <2>5. item.seq = 0
    BY <2>2, <2>3 DEF Pending
  <2> QED BY <2>1, <2>2, <2>4, <2>5 DEF ReceiptInv, PendingCallsHaveSlots
<1> QED BY <1>1, ReceiptsHold, PTL

\* jog_service dispatches relative packets in the order they were published.
THEOREM JogsAreInOrder == Spec => JogsInOrder
<1>1. MailboxInv /\ [Next]_vars =>
         [\A at, other \in Slots :
             (/\ app'.calls[slot[at].published] # app.calls[slot[at].published]
              /\ Jog(at) /\ Jog(other) /\ InFlight(other) /\ Older(other, at))
                 => slot[other].done = slot[other].published]_vars
  <2>1. ASSUME MailboxInv, Next PROVE
          \A at, other \in Slots :
             (/\ app'.calls[slot[at].published] # app.calls[slot[at].published]
              /\ Jog(at) /\ Jog(other) /\ InFlight(other) /\ Older(other, at))
                 => slot[other].done = slot[other].published
    BY <2>1, CallInOrder DEF MailboxInv
  <2> QED BY <2>1
<1> QED BY <1>1, ReceiptsHold, PTL DEF Spec, JogsInOrder
=============================================================================
