---------------------------- MODULE ProcessorRing ------------------------------
(* The ring the application's hooks publish diagnostic observations through        *)
(* (command-state.h, processor-observation.inc).                                   *)
(*                                                                                 *)
(* A client opens a window of observation, which is a generation.  Each thread of  *)
(* the application has a lane; its hooks enter the generation, take a ticket and   *)
(* fill the ticket's cell, dropping the observation rather than waiting.  Getters  *)
(* are observed in pairs, a call and its return, through a small stack of frames.  *)
(* A collector in another process reads the cells by ticket, pass after pass, and  *)
(* reports the tickets it did not see.  Filters, loss counters and what an          *)
(* observation says are left out.                                                   *)
EXTENDS Naturals, Sequences, SequencesExt, FiniteSets

CONSTANTS Lanes,      \* 1 .. COMMAND_LANES, one for each observed thread
          Cells,      \* PROCESSOR_OBSERVATIONS
          Attempts,   \* exclusives tried
          Frames,     \* getter frames a thread keeps
          Nesting,    \* bound: getter calls of a lane within each other
          Tickets,    \* where the ticket counter ends
          Windows     \* bound: windows opened

ASSUME RingAssumption ==
  /\ IsFiniteSet(Lanes) /\ Lanes # {} /\ Lanes = 1 .. Cardinality(Lanes)
  /\ Cells \in Nat \ {0} /\ {Attempts, Frames, Tickets, Windows} \subseteq Nat
  /\ Nesting \in [Lanes -> Nat]

VARIABLES generation, until,   \* until: the window's time is not over
          count, cell,
          open, active,
          getters, frames, beyond,  \* a thread's getter calls, frames and overflow
          lane, hook,              \* a hook in progress
          client, reader,
          put                      \* the tickets published

ringVars == <<generation, until, count, cell, open, active, getters, frames, beyond, lane, hook,
              client, reader, put>>
published == <<generation, until, count, cell, open, active, put>>
thread == <<getters, frames, beyond>>

CellOf(s) == (s - 1) % Cells
NoHook == [site |-> "set", generation |-> 0, at |-> 0, tries |-> 0]

-------------------------------------------------------------------------------
(* A hook. *)

LaneGoes(l, next) == lane' = [lane EXCEPT ![l] = next]
LaneAt(l, next) == lane[l] = next /\ UNCHANGED <<client, reader>>

Outer(l) == frames[l] # <<>> \/ beyond[l] > 0
Wanted(l, site) == IF site = "done" THEN Outer(l) ELSE until \/ (site = "get" /\ Outer(l))
Returned(l, site) == getters' = IF site = "done" THEN [getters EXCEPT ![l] = @ - 1] ELSE getters

\* A native call or return, and its hook when it is wanted.  When tracing fails the
\* hook has no lane of its own and at most keeps the frames in order.
Observe(l, site) ==
    /\ LaneAt(l, "idle") /\ UNCHANGED <<published, frames, beyond>>
    /\ site = "done" => getters[l] > 0
    /\ IF site = "get" THEN getters[l] < Nesting[l] /\ getters' = [getters EXCEPT ![l] = @ + 1]
       ELSE IF Wanted(l, site) THEN UNCHANGED getters ELSE Returned(l, site)
    /\ IF ~Wanted(l, site) THEN UNCHANGED <<lane, hook>>
       ELSE /\ hook' = [hook EXCEPT ![l].site = site]
            /\ LaneGoes(l, "enter") \/ LaneGoes(l, IF Outer(l) THEN "frame" ELSE "leave")

\* processor_enter: the generation, the lane's mark and the generation again.
EnterRing(l) ==
    /\ LaneAt(l, "enter") /\ UNCHANGED <<published, thread>>
    /\ IF generation = 0 \/ generation % 2 = 1 THEN LaneGoes(l, "frame") /\ UNCHANGED hook
       ELSE LaneGoes(l, "mark") /\ hook' = [hook EXCEPT ![l].generation = generation]
Mark(l) ==
    /\ LaneAt(l, "mark") /\ active' = [active EXCEPT ![l] = hook[l].generation] /\ LaneGoes(l, "again")
    /\ UNCHANGED <<generation, until, count, cell, open, put, thread, hook>>
Recheck(l) ==
    /\ LaneAt(l, "again") /\ LaneGoes(l, "frame")
    /\ IF generation = hook[l].generation THEN UNCHANGED <<active, hook>>
       ELSE /\ active' = [active EXCEPT ![l] = 0]
            /\ hook' = [hook EXCEPT ![l].generation = 0]
    /\ UNCHANGED <<generation, until, count, cell, open, put, thread>>

Entered(l) == hook[l].generation # 0

\* processor_observe: what is recorded, and the getter's frame.  A pair is recorded
\* when call and return are of one getter and one generation.
Frame(l) ==
    LET h == hook[l]
        record == Entered(l) /\ until
        Then(next) == LaneGoes(l, IF next THEN "ticket" ELSE "close")
    IN
    /\ LaneAt(l, "frame") /\ UNCHANGED <<published, getters, hook>>
    /\ CASE h.site = "set" -> Then(record) /\ UNCHANGED <<frames, beyond>>
         [] h.site = "get" ->
              IF ~record /\ ~Outer(l) THEN Then(FALSE) /\ UNCHANGED <<frames, beyond>>
              ELSE IF Len(frames[l]) = Frames \/ beyond[l] > 0
              THEN beyond' = [beyond EXCEPT ![l] = @ + 1] /\ Then(FALSE) /\ UNCHANGED frames
              ELSE /\ frames' = [frames EXCEPT ![l] = Append(@,
                         [call |-> getters[l], generation |-> h.generation, record |-> record])]
                   /\ Then(record) /\ UNCHANGED beyond
         [] h.site = "done" ->
              IF beyond[l] > 0
              THEN beyond' = [beyond EXCEPT ![l] = @ - 1] /\ Then(FALSE) /\ UNCHANGED frames
              ELSE LET f == Last(frames[l]) IN
                   /\ frames' = [frames EXCEPT ![l] = Front(@)] /\ UNCHANGED beyond
                   /\ Then(/\ Entered(l) /\ f.record
                           /\ f.call = getters[l] /\ f.generation = h.generation)

\* The lane's open count, and processor_leave.
Close(l) ==
    /\ LaneAt(l, "close") /\ open' = [open EXCEPT ![l] = Len(frames[l]) + beyond[l]]
    /\ LaneGoes(l, "leave") /\ hook' = [hook EXCEPT ![l].at = 0, ![l].tries = 0]
    /\ UNCHANGED <<generation, until, count, cell, active, put, thread>>
LeaveRing(l) ==
    /\ LaneAt(l, "leave") /\ LaneGoes(l, "idle") /\ hook' = [hook EXCEPT ![l] = NoHook]
    /\ active' = IF Entered(l) THEN [active EXCEPT ![l] = 0] ELSE active
    /\ Returned(l, hook[l].site)
    /\ UNCHANGED <<generation, until, count, cell, open, put, frames, beyond>>

-------------------------------------------------------------------------------
(* processor_publish *)

Ticket(l) == hook[l].at + 1
TicketCell(l) == CellOf(Ticket(l))
Tries(l, next) ==   \* an exclusive that failed: the observation is dropped in the end
    IF hook[l].tries + 1 = Attempts THEN LaneGoes(l, "close") ELSE LaneGoes(l, next)

LoadCount(l) ==
    /\ LaneAt(l, "ticket") /\ hook' = [hook EXCEPT ![l].at = count, ![l].tries = 0]
    /\ LaneGoes(l, "reserve") /\ UNCHANGED <<published, thread>>
\* No ticket is left: the window ends.  An exclusive may fail without a reason.
Reserve(l) ==
    /\ LaneAt(l, "reserve") /\ UNCHANGED <<generation, cell, open, active, put, thread>>
    /\ \/ /\ hook[l].at >= Tickets /\ until' = FALSE /\ LaneGoes(l, "close")
          /\ UNCHANGED <<count, hook>>
       \/ /\ hook[l].at < Tickets /\ count = hook[l].at /\ count' = count + 1
          /\ hook' = [hook EXCEPT ![l].tries = 0] /\ LaneGoes(l, "claim") /\ UNCHANGED until
       \/ /\ hook[l].at < Tickets /\ Tries(l, "reserve")
          /\ hook' = [hook EXCEPT ![l].at = count, ![l].tries = @ + 1]
          /\ UNCHANGED <<until, count>>

Put(l, field, v) ==
    /\ cell' = [cell EXCEPT ![TicketCell(l)][field] = v]
    /\ UNCHANGED <<generation, until, count, open, active, thread>>
Claim(l) ==
    /\ LaneAt(l, "claim") /\ UNCHANGED put
    /\ \/ cell[TicketCell(l)].guard = 0 /\ Put(l, "guard", 1) /\ LaneGoes(l, "compare") /\ UNCHANGED hook
       \/ /\ cell[TicketCell(l)].guard = 1 /\ LaneGoes(l, "close")
          /\ UNCHANGED <<generation, until, count, cell, open, active, thread, hook>>
       \/ /\ cell[TicketCell(l)].guard = 0 /\ Tries(l, "claim")
          /\ hook' = [hook EXCEPT ![l].tries = @ + 1]
          /\ UNCHANGED <<generation, until, count, cell, open, active, thread>>
\* A delayed producer cannot replace a newer ticket.
CompareTicket(l) ==
    /\ LaneAt(l, "compare") /\ UNCHANGED <<put, hook>>
    /\ IF cell[TicketCell(l)].sequence >= Ticket(l)
       THEN Put(l, "guard", 0) /\ LaneGoes(l, "close")
       ELSE Put(l, "sequence", 0) /\ LaneGoes(l, "word1")
FillCell(l) ==
    /\ UNCHANGED <<put, hook>>
    /\ \/ LaneAt(l, "word1") /\ Put(l, "first", Ticket(l)) /\ LaneGoes(l, "word2")
       \/ LaneAt(l, "word2") /\ Put(l, "second", Ticket(l)) /\ LaneGoes(l, "publish")
Publish(l) ==
    /\ LaneAt(l, "publish") /\ Put(l, "sequence", Ticket(l)) /\ put' = put \cup {Ticket(l)}
    /\ LaneGoes(l, "unlock") /\ UNCHANGED hook
Unlock(l) == LaneAt(l, "unlock") /\ Put(l, "guard", 0) /\ LaneGoes(l, "close") /\ UNCHANGED <<put, hook>>

-------------------------------------------------------------------------------
(* The client, the clock and the collector. *)

OthersStay == UNCHANGED <<count, cell, open, active, thread, lane, hook, reader, put>>

\* The time is over, or the client ends the window.
Expire == until /\ until' = FALSE /\ UNCHANGED <<generation, client>> /\ OthersStay

\* processor_begin: an odd generation, each lane's open count and then its mark.
BeginWindow ==
    /\ client.pc = "idle" /\ ~until /\ count < Tickets
    /\ generation < 2 * Windows /\ generation % 2 = 0
    /\ generation' = generation + 1 /\ client' = [pc |-> "open", lane |-> 1]
    /\ UNCHANGED until /\ OthersStay
Passed == IF client.lane = Cardinality(Lanes) THEN [pc |-> "until", lane |-> 1]
          ELSE [pc |-> "open", lane |-> client.lane + 1]
Scan ==
    /\ \/ client.pc = "open" /\ open[client.lane] = 0
          /\ client' = [client EXCEPT !.pc = "active"] /\ UNCHANGED generation
       \/ client.pc = "active" /\ active[client.lane] = 0
          /\ client' = Passed /\ UNCHANGED generation
       \/ /\ \/ client.pc = "open" /\ open[client.lane] # 0
             \/ client.pc = "active" /\ active[client.lane] # 0
          /\ client' = [pc |-> "idle", lane |-> 1] /\ generation' = generation - 1
    /\ UNCHANGED until /\ OthersStay
Opens ==
    /\ \/ client.pc = "until" /\ until' = TRUE /\ UNCHANGED generation
          /\ client' = [client EXCEPT !.pc = "even"]
       \/ client.pc = "even" /\ generation' = generation + 1 /\ UNCHANGED until
          /\ client' = [client EXCEPT !.pc = "idle"]
    /\ OthersStay

\* processor_stream: passes of processor_collect, the last one final.  A pass reports the
\* tickets that have left the ring unseen, and reads those the ring may still hold.
Reading(next) == reader.pc = next /\ UNCHANGED <<published, thread, lane, hook, client>>
NotReading == [pc |-> "idle", final |-> FALSE, floor |-> 1, count |-> 0, sequence |-> 0,
               first |-> 0, second |-> 0, seen |-> [c \in 0 .. Cells - 1 |-> 0],
               shown |-> {}, missed |-> {}, wrong |-> FALSE]
Low == IF count > Cells THEN count - Cells + 1 ELSE 1
NotSeen(s) == reader.seen[CellOf(s)] # s
Passing == {s \in reader.floor .. Low - 1 : s - reader.floor >= Cells \/ NotSeen(s)}
Collect(final) ==
    /\ Reading("idle")
    /\ reader' = [reader EXCEPT !.pc = "next", !.final = final, !.count = count, !.sequence = Low,
                                !.floor = Low, !.missed = @ \cup Passing]
Finish ==
    /\ Reading("next") /\ reader.sequence > reader.count
    /\ reader' = IF reader.final
                 THEN [reader EXCEPT !.pc = "ended",
                          !.missed = @ \cup {s \in reader.floor .. reader.count : NotSeen(s)}]
                 ELSE [reader EXCEPT !.pc = "idle", !.count = 0, !.sequence = 0]

\* processor_read, of a ticket that is not seen yet.
Seen == cell[CellOf(reader.sequence)]
Whole == {reader.first, reader.second} = {reader.sequence}
Passes == [reader EXCEPT !.pc = "next", !.sequence = @ + 1, !.first = 0, !.second = 0]
ReadCell ==
    \/ /\ Reading("next") /\ reader.sequence <= reader.count
       /\ reader' = IF NotSeen(reader.sequence) /\ Seen.sequence = reader.sequence
                    THEN [reader EXCEPT !.pc = "first"] ELSE Passes
    \/ /\ Reading("first") /\ reader' = [reader EXCEPT !.pc = "second", !.first = Seen.first]
    \/ /\ Reading("second") /\ reader' = [reader EXCEPT !.pc = "check", !.second = Seen.second]
    \/ /\ Reading("check")
       /\ reader' = IF Seen.sequence # reader.sequence THEN Passes
                    ELSE [Passes EXCEPT
                             !.seen[CellOf(reader.sequence)] = reader.sequence,
                             !.shown = @ \cup {reader.sequence},
                             !.wrong = @ \/ ~Whole \/ reader.sequence \in reader.shown]

-------------------------------------------------------------------------------
RingInit ==
    /\ generation = 0 /\ until = FALSE /\ count = 0 /\ put = {}
    /\ cell = [c \in 0 .. Cells - 1 |-> [guard |-> 0, sequence |-> 0, first |-> 0, second |-> 0]]
    /\ open = [l \in Lanes |-> 0] /\ active = [l \in Lanes |-> 0]
    /\ getters = [l \in Lanes |-> 0] /\ frames = [l \in Lanes |-> <<>>] /\ beyond = [l \in Lanes |-> 0]
    /\ lane = [l \in Lanes |-> "idle"] /\ hook = [l \in Lanes |-> NoHook]
    /\ client = [pc |-> "idle", lane |-> 1]
    /\ reader = NotReading

LaneHook(l) ==
    \/ \E site \in {"set", "get", "done"} : Observe(l, site)
    \/ EnterRing(l) \/ Mark(l) \/ Recheck(l) \/ Frame(l) \/ Close(l) \/ LeaveRing(l)
    \/ LoadCount(l) \/ Reserve(l) \/ Claim(l) \/ CompareTicket(l) \/ FillCell(l) \/ Publish(l) \/ Unlock(l)
RingNext == (\E l \in Lanes : LaneHook(l)) \/ Expire \/ BeginWindow \/ Scan \/ Opens
            \/ Collect(FALSE) \/ Collect(TRUE) \/ Finish \/ ReadCell
RingSpec == RingInit /\ [][RingNext]_ringVars

-------------------------------------------------------------------------------
RingTypeOK ==
    /\ generation \in 0 .. 2 * Windows /\ until \in BOOLEAN /\ count \in 0 .. Tickets
    /\ put \subseteq 1 .. count
    /\ \A l \in Lanes :
          /\ Len(frames[l]) <= Frames /\ Len(frames[l]) + beyond[l] <= getters[l]
          /\ active[l] \in 0 .. generation /\ hook[l].at \in 0 .. Tickets

\* processor_collect, processor_publish, processor_begin: what the collector prints is an
\* observation, whole, and once; it reports missing what it did not print and, when it
\* ends, no less than that; a cell at rest shows the newest observation put into it; and
\* no window opens while a hook that entered an earlier one still runs.
ObservationsAreTrue ==
    /\ ~reader.wrong /\ reader.shown \cap reader.missed = {}
    /\ reader.pc = "ended" => 1 .. reader.count \subseteq reader.shown \cup reader.missed
    /\ \A c \in DOMAIN cell : cell[c].guard = 0 =>
          \A s \in put : CellOf(s) = c => s <= cell[c].sequence
    /\ \A l \in Lanes : Entered(l) /\ lane[l] \notin {"mark", "again"} =>
          generation \in {hook[l].generation, hook[l].generation + 1}
===============================================================================
