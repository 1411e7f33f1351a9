------------------------- MODULE ProcessorRing_proofs -------------------------
(* What holds of the diagnostic ring for every number of lanes, cells, attempts,  *)
(* tickets and windows.  Four things are kept apart: who owns a ticket and a      *)
(* cell's guard; what a cell says of the tickets put into it; what the collector  *)
(* has shown and missed; and which generation a hook may still be in.             *)
EXTENDS ProcessorRing, FiniteSetTheorems, SequenceTheorems, TLAPS

-------------------------------------------------------------------------------
(* The invariant.                                                                *)

\* A lane's hook before its frame, the rest of it, and in the rest: the steps that own
\* a ticket, those among them that hold the cell's guard, and those that fill it.
Before == {"enter", "mark", "again", "frame"}
Filling == {"word1", "word2", "publish"}
Locked == {"compare", "unlock"} \cup Filling
Ticketed == {"claim"} \cup Locked
Ticketless == {"ticket", "reserve", "close", "leave"}

RingPlaces == 0 .. Cells - 1
CellSet == [guard : 0 .. 1, sequence : Nat, first : Nat, second : Nat]
FrameSet == [call : Nat, generation : Nat, record : BOOLEAN]
HookSet == [site : {"set", "get", "done"}, generation : Nat, at : 0 .. Tickets, tries : Nat]
ReaderSet == [pc : {"idle", "next", "first", "second", "check", "ended"}, final : BOOLEAN,
              floor : Nat \ {0}, count : Nat, sequence : Nat, first : Nat, second : Nat,
              seen : [RingPlaces -> Nat], shown : SUBSET Nat, missed : SUBSET Nat, wrong : BOOLEAN]

RingKinds ==
  /\ generation \in 0 .. 2 * Windows /\ until \in BOOLEAN
  /\ count \in 0 .. Tickets /\ put \subseteq 1 .. count
  /\ cell \in [RingPlaces -> CellSet]
  /\ open \in [Lanes -> Nat] /\ active \in [Lanes -> Nat]
  /\ getters \in [Lanes -> Nat] /\ frames \in [Lanes -> Seq(FrameSet)] /\ beyond \in [Lanes -> Nat]
  /\ lane \in [Lanes -> {"idle"} \cup Before \cup Ticketless \cup Ticketed]
  /\ hook \in [Lanes -> HookSet]
  /\ client \in [pc : {"idle", "open", "active", "until", "even"}, lane : Lanes]
  /\ reader \in ReaderSet

\* A thread keeps a frame, or counts it, for a getter that has been called.
Depth(l) == Len(frames[l]) + beyond[l]
Nested ==
  \A l \in Lanes :
     /\ Len(frames[l]) <= Frames /\ Depth(l) <= getters[l]
     /\ lane[l] \in Before /\ hook[l].site = "get" => Depth(l) < getters[l]
     /\ lane[l] \in Before /\ hook[l].site = "done" => Depth(l) > 0
     /\ lane[l] \in Ticketless \cup Ticketed /\ hook[l].site = "done" => Depth(l) < getters[l]

\* A ticket is one lane's, and is put once; a guard is one lane's.
Owned ==
  /\ \A l \in Lanes :
        /\ lane[l] \in Ticketed => Ticket(l) <= count
        /\ lane[l] \in Ticketed \ {"unlock"} => Ticket(l) \notin put
        /\ lane[l] \in Locked => cell[TicketCell(l)].guard = 1
  /\ \A l, m \in Lanes :
        l # m => /\ lane[l] \in Ticketed /\ lane[m] \in Ticketed => Ticket(l) # Ticket(m)
                 /\ lane[l] \in Locked /\ lane[m] \in Locked => TicketCell(l) # TicketCell(m)

\* A cell shows the newest ticket put into it, whole, unless a newer one is going in.
Newest ==
  /\ \A c \in RingPlaces :
        /\ cell[c].sequence # 0 =>
              /\ cell[c].sequence \in put /\ CellOf(cell[c].sequence) = c
              /\ cell[c].first = cell[c].sequence /\ cell[c].second = cell[c].sequence
        /\ (\A l \in Lanes : lane[l] \in Filling => TicketCell(l) # c) =>
              \A s \in put : CellOf(s) = c => s <= cell[c].sequence
  /\ \A l \in Lanes :
        /\ lane[l] \in Filling =>
              /\ cell[TicketCell(l)].sequence = 0
              /\ \A s \in put : CellOf(s) = TicketCell(l) => s < Ticket(l)
        /\ lane[l] \in {"word2", "publish"} => cell[TicketCell(l)].first = Ticket(l)
        /\ lane[l] = "publish" => cell[TicketCell(l)].second = Ticket(l)

\* What the collector has shown lies below the ring of its pass, each cell's newest
\* being remembered; what it has missed lies below its floor; and nothing is in neither.
Collected ==
  /\ ~reader.wrong /\ reader.shown \cap reader.missed = {}
  /\ reader.floor = 1 \/ reader.floor + Cells <= count + 1
  /\ reader.shown \subseteq put
  /\ \A s \in reader.shown : s < reader.floor + Cells /\ s <= reader.seen[CellOf(s)]
  /\ \A c \in RingPlaces : reader.seen[c] # 0 =>
        reader.seen[c] \in reader.shown /\ CellOf(reader.seen[c]) = c
  /\ reader.pc \notin {"idle", "ended"} =>
        reader.count < reader.floor + Cells /\ reader.floor <= reader.sequence
  /\ reader.pc # "ended" =>
        /\ \A s \in reader.missed : s < reader.floor
        /\ 1 .. reader.floor - 1 \subseteq reader.shown \cup reader.missed
  /\ reader.pc = "ended" => 1 .. reader.count \subseteq reader.shown \cup reader.missed

\* The words read are the ticket's for as long as the cell says it holds that ticket.
Copied ==
  reader.pc \in {"first", "second", "check"} =>
     /\ reader.sequence \in put /\ reader.sequence <= reader.count /\ NotSeen(reader.sequence)
     /\ Seen.sequence = reader.sequence =>
           /\ reader.pc \in {"second", "check"} => reader.first = reader.sequence
           /\ reader.pc = "check" => reader.second = reader.sequence

\* A hook past its second look is in the generation that stands, or in the one the
\* client is about to leave and must still ask its lane about.
Inside(l) == Entered(l) /\ lane[l] \notin {"mark", "again"}
Windowed ==
  /\ client.pc = "idle" <=> generation % 2 = 0
  /\ \A l \in Lanes :
        /\ hook[l].generation % 2 = 0 /\ hook[l].generation <= generation
        /\ lane[l] \in {"idle", "enter"} => hook[l].generation = 0
        /\ active[l] = IF lane[l] = "again" \/ Inside(l) THEN hook[l].generation ELSE 0
        /\ Inside(l) =>
              \/ generation = hook[l].generation
              \/ /\ generation = hook[l].generation + 1
                 /\ client.pc \in {"open", "active"} /\ client.lane <= l

Ring == Owned /\ Newest
Reported == Collected /\ Copied
RingInv == RingKinds /\ Nested /\ Ring /\ Reported /\ Windowed

-------------------------------------------------------------------------------
(* Numbers and places.                                                           *)

LEMMA RingSizes ==
  /\ Lanes = 1 .. Cardinality(Lanes) /\ Cardinality(Lanes) \in Nat \ {0} /\ 1 \in Lanes
  /\ Cells \in Nat \ {0} /\ Frames \in Nat /\ Tickets \in Nat /\ Windows \in Nat
  /\ Attempts \in Nat
<1>1. Cardinality(Lanes) \in Nat /\ Cardinality(Lanes) # 0
  BY RingAssumption, FS_CardinalityType, FS_EmptySet
<1>2. 1 \in 1 .. Cardinality(Lanes)
  BY <1>1
<1> QED BY <1>1, <1>2, RingAssumption

\* Two tickets of one cell are at least the ring apart.
LEMMA CellApart ==
  ASSUME NEW s \in Nat, NEW t \in Nat, 0 < s, s < t, CellOf(s) = CellOf(t)
  PROVE  s + Cells <= t
<1> DEFINE n == Cells  p == (s - 1) \div n  q == (t - 1) \div n
<1>0. n \in Nat \ {0} /\ s - 1 \in Nat /\ t - 1 \in Nat
  BY RingSizes
<1>1. p \in Nat /\ q \in Nat
  BY <1>0
<1>2. s - 1 = n * p + ((s - 1) % n) /\ t - 1 = n * q + ((t - 1) % n)
  BY <1>0
<1>3. (s - 1) % n = (t - 1) % n /\ (s - 1) % n \in Nat
  BY <1>0 DEF CellOf
<1> HIDE DEF n, p, q
<1>4. n * p < n * q
  BY <1>0, <1>1, <1>2, <1>3
<1>5. p < q
  BY <1>0, <1>1, <1>4
<1>6. n * q >= n * p + n
  BY <1>0, <1>1, <1>5
<1>7. s + n <= t
  BY <1>0, <1>1, <1>2, <1>3, <1>6
<1> QED BY <1>7 DEF n

LEMMA CellPlace == ASSUME NEW s \in Nat, 0 < s PROVE CellOf(s) \in RingPlaces
<1>1. s - 1 \in Nat /\ Cells \in Nat \ {0}
  BY RingSizes
<1>2. (s - 1) % Cells \in 0 .. Cells - 1
  BY <1>1
<1> QED BY <1>2 DEF CellOf, RingPlaces

\* A hook's ticket is a positive number and has a cell.
LEMMA TicketPlace ==
  ASSUME RingKinds, NEW l \in Lanes
  PROVE  /\ Ticket(l) \in Nat /\ 0 < Ticket(l) /\ Ticket(l) = hook[l].at + 1
         /\ TicketCell(l) \in RingPlaces /\ TicketCell(l) = CellOf(Ticket(l))
<1>1. hook[l].at \in Nat
  BY RingSizes DEF RingKinds, HookSet
<1>2. Ticket(l) \in Nat /\ 0 < Ticket(l) /\ Ticket(l) = hook[l].at + 1
  BY <1>1 DEF Ticket
<1> QED BY <1>2, CellPlace DEF TicketCell

LEMMA RingNumbers ==
  ASSUME RingKinds
  PROVE  /\ count \in Nat /\ count <= Tickets /\ generation \in Nat
         /\ put \subseteq Nat /\ \A s \in put : 0 < s /\ s <= count
         /\ reader.floor \in Nat /\ 0 < reader.floor /\ reader.count \in Nat /\ reader.sequence \in Nat
         /\ \A c \in RingPlaces : cell[c].sequence \in Nat /\ reader.seen[c] \in Nat
<1>1. /\ count \in Nat /\ count <= Tickets /\ generation \in Nat
  BY RingSizes DEF RingKinds
<1>2. put \subseteq Nat /\ \A s \in put : 0 < s /\ s <= count
  BY <1>1 DEF RingKinds
<1>3. /\ reader.floor \in Nat \ {0} /\ reader.count \in Nat /\ reader.sequence \in Nat
      /\ reader.seen \in [RingPlaces -> Nat]
  BY DEF RingKinds, ReaderSet
<1>4. \A c \in RingPlaces : cell[c].sequence \in Nat
  BY DEF RingKinds, CellSet
<1> QED BY <1>1, <1>2, <1>3, <1>4

LEMMA NoHookOK == NoHook \in HookSet
<1> QED BY RingSizes DEF NoHook, HookSet

LEMMA NotReadingOK == NotReading \in ReaderSet
<1> QED BY DEF NotReading, ReaderSet, RingPlaces

LEMMA RingInitOK == RingInit => RingInv
<1> SUFFICES ASSUME RingInit PROVE RingInv
  OBVIOUS
<1>1. RingKinds
  <2>1. /\ generation \in 0 .. 2 * Windows /\ count \in 0 .. Tickets /\ put \subseteq 1 .. count
    BY RingSizes DEF RingInit
  <2>2. until \in BOOLEAN
    BY DEF RingInit
  <2>3. cell \in [RingPlaces -> CellSet]
    BY DEF RingInit, RingPlaces, CellSet
  <2>4. /\ open \in [Lanes -> Nat] /\ active \in [Lanes -> Nat]
        /\ getters \in [Lanes -> Nat] /\ beyond \in [Lanes -> Nat]
    BY DEF RingInit
  <2>5. frames \in [Lanes -> Seq(FrameSet)]
    BY DEF RingInit
  <2>6. lane \in [Lanes -> {"idle"} \cup Before \cup Ticketless \cup Ticketed]
    BY DEF RingInit
  <2>7. hook \in [Lanes -> HookSet]
    BY NoHookOK DEF RingInit
  <2>8. client \in [pc : {"idle", "open", "active", "until", "even"}, lane : Lanes]
    BY RingSizes DEF RingInit
  <2> QED BY <2>1, <2>2, <2>3, <2>4, <2>5, <2>6, <2>7, <2>8, NotReadingOK DEF RingKinds, RingInit
<1>2. Nested
  BY RingSizes DEF RingInit, Nested, Depth, NoHook, Before, Ticketless, Ticketed, Locked, Filling
<1>3. Ring
  <2>1. \A l \in Lanes : lane[l] = "idle"
    BY DEF RingInit
  <2>2. \A c \in RingPlaces : cell[c].sequence = 0
    BY DEF RingInit, RingPlaces
  <2>3. put = {}
    BY DEF RingInit
  <2>4. Owned
    BY <2>1 DEF Owned, Ticketed, Locked, Filling
  <2>5. Newest
    BY <2>1, <2>2, <2>3 DEF Newest, Filling
  <2> QED BY <2>4, <2>5 DEF Ring
<1>4. Reported
  BY RingSizes DEF RingInit, NotReading, Reported, Collected, Copied, RingPlaces
<1>5. Windowed
  BY DEF RingInit, Windowed, NoHook, Inside, Entered
<1> QED BY <1>1, <1>2, <1>3, <1>4, <1>5 DEF RingInv

-------------------------------------------------------------------------------
(* What a lane's step leaves alone.                                              *)

\* The other lanes are where they were.
Alone(l) ==
  \A m \in Lanes : m # l => lane'[m] = lane[m] /\ hook'[m] = hook[m]

\* A lane that owns no ticket changes nothing of the cells.
LEMMA Aside ==
  ASSUME RingInv, NEW l \in Lanes, Alone(l), UNCHANGED <<cell, put, count>>,
         lane[l] \notin Filling, lane'[l] \notin Ticketed
  PROVE  Ring'
<1>1. /\ \A m \in Lanes : lane'[m] \in Ticketed =>
            m # l /\ lane'[m] = lane[m] /\ Ticket(m)' = Ticket(m) /\ TicketCell(m)' = TicketCell(m)
  BY DEF Alone, Ticket, TicketCell
<1>2. Owned'
  BY <1>1 DEF RingInv, Ring, Owned, Ticketed, Locked
<1>3. Filling \subseteq Ticketed /\ {"word2", "publish"} \subseteq Ticketed
  BY DEF Filling, Ticketed, Locked
<1>4. \A m \in Lanes : lane[m] \in Filling => lane'[m] \in Filling /\ TicketCell(m)' = TicketCell(m)
  BY DEF Alone, Ticket, TicketCell
<1>5. Newest'
  BY <1>1, <1>3, <1>4 DEF RingInv, Ring, Newest
<1> QED BY <1>2, <1>5 DEF Ring

\* New tickets, and cells given up or to tickets put since, do not mislead the collector.
LEMMA Overtaken ==
  ASSUME RingInv, UNCHANGED reader, count' \in Nat, count <= count', put \subseteq put',
         \A c \in RingPlaces : \/ cell'[c].sequence \in {0, cell[c].sequence}
                           \/ cell'[c].sequence \notin put
  PROVE  Reported'
<1>0. /\ count \in Nat /\ reader.floor \in Nat /\ put \subseteq Nat /\ Cells \in Nat
      /\ \A s \in put : 0 < s
  BY RingNumbers, RingSizes DEF RingInv
<1>1. Collected'
  <2>1. reader.floor = 1 \/ reader.floor + Cells <= count' + 1
    <3>1. reader.floor = 1 \/ reader.floor + Cells <= count + 1
      BY DEF RingInv, Reported, Collected
    <3> QED BY <1>0, <3>1
  <2>2. reader.shown \subseteq put'
    BY DEF RingInv, Reported, Collected
  <2> QED BY <2>1, <2>2 DEF RingInv, Reported, Collected
<1>2. Copied'
  <2> SUFFICES ASSUME reader.pc \in {"first", "second", "check"} PROVE Copied'
    BY DEF Copied
  <2>1. /\ reader.sequence \in put /\ reader.sequence <= reader.count /\ NotSeen(reader.sequence)
        /\ Seen.sequence = reader.sequence =>
           /\ reader.pc \in {"second", "check"} => reader.first = reader.sequence
           /\ reader.pc = "check" => reader.second = reader.sequence
    BY DEF RingInv, Reported, Copied
  <2>2. reader.sequence \in Nat /\ 0 < reader.sequence
    BY <1>0, <2>1
  <2>3. Seen'.sequence = reader.sequence => Seen.sequence = reader.sequence
    BY <2>1, <2>2, CellPlace DEF Seen
  <2> QED BY <2>1, <2>3 DEF Copied, NotSeen
<1> QED BY <1>1, <1>2 DEF Reported

\* A hook past its looks stays where the client can ask for it.
LEMMA SameGeneration ==
  ASSUME RingInv, NEW l \in Lanes, Alone(l), UNCHANGED <<generation, client, active>>,
         hook'[l].generation = hook[l].generation,
         lane[l] \notin {"idle", "enter", "mark", "again"},
         lane'[l] \notin {"idle", "enter", "mark", "again"}
  PROVE  Windowed'
<1>1. \A m \in Lanes : hook'[m].generation = hook[m].generation /\ Inside(m)' = Inside(m)
  BY DEF Alone, Inside, Entered
<1>2. \A m \in Lanes : /\ lane'[m] \in {"idle", "enter"} => lane[m] \in {"idle", "enter"}
                       /\ lane'[m] = "again" <=> lane[m] = "again"
  BY DEF Alone
<1> QED BY <1>1, <1>2 DEF RingInv, Windowed

LEMMA SameFrames ==
  ASSUME RingInv, NEW l \in Lanes, Alone(l), UNCHANGED thread,
         hook'[l].site = hook[l].site,
         lane'[l] \in Before => lane[l] \in Before,
         lane'[l] \in Ticketless \cup Ticketed => lane[l] \in Ticketless \cup Ticketed
  PROVE  Nested'
<1>1. \A m \in Lanes : Depth(m)' = Depth(m) /\ hook'[m].site = hook[m].site
  BY DEF Alone, Depth, thread
<1> QED BY <1>1 DEF RingInv, Nested, Alone, thread

-------------------------------------------------------------------------------
(* A hook around its ticket.                                                     *)

\* A lane's move, and the words of its hook, one at a time.
LEMMA LaneMoves ==
  ASSUME RingKinds, NEW l \in Lanes, NEW next \in {"idle"} \cup Before \cup Ticketless \cup Ticketed,
         lane' = [lane EXCEPT ![l] = next]
  PROVE  /\ lane' \in [Lanes -> {"idle"} \cup Before \cup Ticketless \cup Ticketed] /\ lane'[l] = next
         /\ \A m \in Lanes : m # l => lane'[m] = lane[m]
<1> QED BY DEF RingKinds

LEMMA HookMoves ==
  ASSUME RingKinds, NEW l \in Lanes, NEW h \in HookSet, hook' = [hook EXCEPT ![l] = h]
  PROVE  /\ hook' \in [Lanes -> HookSet] /\ hook'[l] = h
         /\ \A m \in Lanes : m # l => hook'[m] = hook[m]
<1> QED BY DEF RingKinds

LEMMA HookSite ==
  ASSUME RingKinds, NEW l \in Lanes, NEW site \in {"set", "get", "done"}
  PROVE  [hook[l] EXCEPT !.site = site] \in HookSet
<1>1. hook[l] \in HookSet
  BY DEF RingKinds
<1> QED BY <1>1 DEF HookSet

LEMMA HookNumber ==
  ASSUME RingKinds, NEW l \in Lanes, NEW number \in Nat
  PROVE  /\ [hook[l] EXCEPT !.generation = number] \in HookSet
         /\ [hook[l] EXCEPT !.tries = number] \in HookSet
<1>1. hook[l] \in HookSet
  BY DEF RingKinds
<1> QED BY <1>1 DEF HookSet

LEMMA HookTicket ==
  ASSUME RingKinds, NEW l \in Lanes, NEW ticket \in 0 .. Tickets, NEW number \in Nat
  PROVE  [hook[l] EXCEPT !.at = ticket, !.tries = number] \in HookSet
<1>1. hook[l] \in HookSet
  BY DEF RingKinds
<1> QED BY <1>1 DEF HookSet

\* Calls and returns are counted before the frame is kept and after it is gone.
LEMMA ObserveOK ==
  ASSUME RingInv, NEW l \in Lanes, NEW site \in {"set", "get", "done"}, Observe(l, site)
  PROVE  RingInv'
<1>1. /\ lane[l] = "idle" /\ UNCHANGED <<client, reader, published, frames, beyond>>
      /\ site = "done" => getters[l] > 0
  BY DEF Observe, LaneAt
<1>2. /\ Alone(l) /\ hook' \in [Lanes -> HookSet]
      /\ lane' \in [Lanes -> {"idle"} \cup Before \cup Ticketless \cup Ticketed]
      /\ lane'[l] \in {"idle", "enter", "frame", "leave"}
      /\ hook'[l].generation = hook[l].generation
      /\ lane'[l] # "idle" => hook'[l].site = site
  <2>1. CASE ~Wanted(l, site)
    <3>1. UNCHANGED <<lane, hook>>
      BY <2>1 DEF Observe
    <3> QED BY <1>1, <3>1 DEF RingInv, RingKinds, Alone
  <2>2. CASE Wanted(l, site)
    <3>1. /\ hook' = [hook EXCEPT ![l].site = site]
          /\ \E next \in {"enter", "frame", "leave"} : lane' = [lane EXCEPT ![l] = next]
      BY <2>2 DEF Observe, LaneGoes
    <3>2. PICK next \in {"enter", "frame", "leave"} : lane' = [lane EXCEPT ![l] = next]
      BY <3>1
    <3>3. /\ lane' \in [Lanes -> {"idle"} \cup Before \cup Ticketless \cup Ticketed] /\ lane'[l] = next
          /\ \A m \in Lanes : m # l => lane'[m] = lane[m]
      <4>1. next \in {"idle"} \cup Before \cup Ticketless \cup Ticketed
        BY DEF Before, Ticketless
      <4> QED BY <3>2, <4>1, LaneMoves DEF RingInv
    <3>4. [hook[l] EXCEPT !.site = site] \in HookSet
      BY HookSite DEF RingInv
    <3>5. hook' = [hook EXCEPT ![l] = [hook[l] EXCEPT !.site = site]]
      BY <3>1
    <3>6. /\ hook' \in [Lanes -> HookSet] /\ hook'[l] = [hook[l] EXCEPT !.site = site]
          /\ \A m \in Lanes : m # l => hook'[m] = hook[m]
      BY <3>4, <3>5, HookMoves DEF RingInv
    <3>7. hook'[l].generation = hook[l].generation /\ hook'[l].site = site
      BY <3>6 DEF RingInv, RingKinds, HookSet
    <3> QED BY <3>3, <3>6, <3>7 DEF Alone
  <2> QED BY <2>1, <2>2
<1>3. /\ getters' \in [Lanes -> Nat] /\ \A m \in Lanes : m # l => getters'[m] = getters[m]
      /\ lane'[l] = "idle" => Depth(l) <= getters'[l]
      /\ lane'[l] # "idle" /\ site = "get" => Depth(l) < getters'[l]
      /\ lane'[l] # "idle" /\ site # "get" => getters'[l] = getters[l]
      /\ lane'[l] # "idle" /\ site = "done" => Depth(l) > 0 /\ lane'[l] # "leave"
  <2>0. /\ getters \in [Lanes -> Nat] /\ Len(frames[l]) \in Nat /\ beyond[l] \in Nat
        /\ Depth(l) = Len(frames[l]) + beyond[l] /\ Depth(l) <= getters[l]
        /\ Outer(l) <=> Depth(l) > 0
    BY DEF RingInv, RingKinds, Nested, Depth, Outer
  <2>1. CASE site = "get"
    <3>1. getters' = [getters EXCEPT ![l] = @ + 1]
      BY <2>1 DEF Observe
    <3> QED BY <2>0, <2>1, <3>1
  <2>2. CASE site # "get" /\ Wanted(l, site)
    <3>1. /\ UNCHANGED getters
          /\ lane' = [lane EXCEPT ![l] = "enter"]
             \/ lane' = [lane EXCEPT ![l] = IF Outer(l) THEN "frame" ELSE "leave"]
      BY <2>2 DEF Observe, LaneGoes
    <3>2. site = "done" => Outer(l)
      BY <2>2 DEF Wanted
    <3> QED BY <2>0, <2>2, <3>1, <3>2 DEF RingInv, RingKinds
  <2>3. CASE site # "get" /\ ~Wanted(l, site)
    <3>1. lane' = lane
      BY <2>3 DEF Observe
    <3>2. getters' = IF site = "done" THEN [getters EXCEPT ![l] = @ - 1] ELSE getters
      BY <2>3 DEF Observe, Returned
    <3>3. site = "done" => ~Outer(l)
      BY <2>3 DEF Wanted
    <3> QED BY <1>1, <2>0, <2>3, <3>1, <3>2, <3>3
  <2> QED BY <2>1, <2>2, <2>3
<1>4. RingKinds'
  BY <1>1, <1>2, <1>3 DEF RingInv, RingKinds, published
<1>5. Nested'
  <2>1. \A m \in Lanes : Depth(m)' = Depth(m)
    BY <1>1 DEF Depth
  <2>2. \A m \in Lanes : m # l => lane'[m] = lane[m] /\ hook'[m] = hook[m]
    BY <1>2 DEF Alone
  <2>3. {"frame", "enter"} \subseteq Before /\ "leave" \notin Before /\ "idle" \notin Before
        /\ {"idle", "frame", "enter"} \cap (Ticketless \cup Ticketed) = {}
    BY DEF Before, Ticketless, Ticketed, Locked, Filling
  <2>4. /\ lane'[l] \in Before /\ hook'[l].site = "get" => Depth(l) < getters'[l]
        /\ lane'[l] \in Before /\ hook'[l].site = "done" => Depth(l) > 0
        /\ ~(lane'[l] \in Ticketless \cup Ticketed /\ hook'[l].site = "done")
    BY <1>2, <1>3, <2>3
  <2>5. Depth(l) <= getters'[l]
    BY <1>2, <1>3 DEF RingInv, Nested, RingKinds, Depth
  <2> QED BY <1>1, <1>3, <2>1, <2>2, <2>4, <2>5 DEF RingInv, Nested
<1>6. Ring' /\ Reported'
  <2>1. UNCHANGED <<cell, put, count>> /\ lane[l] \notin Filling /\ lane'[l] \notin Ticketed
    BY <1>1, <1>2 DEF published, Filling, Ticketed, Locked
  <2>2. Ring'
    BY <1>2, <2>1, Aside
  <2>3. count \in Nat
    BY RingNumbers DEF RingInv
  <2>4. Reported'
    BY <1>1, <2>1, <2>3, Overtaken
  <2> QED BY <2>2, <2>4
<1>7. Windowed'
  BY <1>1, <1>2 DEF RingInv, Windowed, Inside, Entered, Alone, published
<1> QED BY <1>4, <1>5, <1>6, <1>7 DEF RingInv

\* Steps that touch neither cells nor tickets nor frames.
LEMMA Beside ==
  ASSUME RingInv, NEW l \in Lanes, Alone(l), UNCHANGED <<cell, put, count, reader>>,
         lane[l] \notin Ticketed, lane'[l] \notin Ticketed
  PROVE  Ring' /\ Reported'
<1>1. count \in Nat /\ lane[l] \notin Filling
  BY RingNumbers DEF RingInv, Ticketed, Locked
<1> QED BY <1>1, Aside, Overtaken

LEMMA EnterOK == ASSUME RingInv, NEW l \in Lanes, EnterRing(l) PROVE RingInv'
<1>1. /\ lane[l] = "enter" /\ UNCHANGED <<client, reader, published, thread>>
  BY DEF EnterRing, LaneAt
<1>2. \/ lane' = [lane EXCEPT ![l] = "frame"] /\ hook' = hook
      \/ /\ generation # 0 /\ generation % 2 # 1
         /\ lane' = [lane EXCEPT ![l] = "mark"]
         /\ hook' = [hook EXCEPT ![l].generation = generation]
  BY DEF EnterRing, LaneGoes
<1>3. /\ Alone(l) /\ hook' \in [Lanes -> HookSet] /\ hook'[l].site = hook[l].site
      /\ lane' \in [Lanes -> {"idle"} \cup Before \cup Ticketless \cup Ticketed]
      /\ lane'[l] \in {"frame", "mark"}
      /\ hook'[l].generation = (IF lane'[l] = "mark" THEN generation ELSE hook[l].generation)
      /\ lane'[l] = "mark" => generation % 2 = 0
  <2>1. generation \in Nat
    BY RingNumbers DEF RingInv
  <2>2. CASE lane' = [lane EXCEPT ![l] = "frame"] /\ hook' = hook
    <3>1. "frame" \in {"idle"} \cup Before \cup Ticketless \cup Ticketed
      BY DEF Before
    <3>2. /\ lane' \in [Lanes -> {"idle"} \cup Before \cup Ticketless \cup Ticketed] /\ lane'[l] = "frame"
          /\ \A m \in Lanes : m # l => lane'[m] = lane[m]
      BY <2>2, <3>1, LaneMoves DEF RingInv
    <3> QED BY <2>2, <3>2 DEF RingInv, RingKinds, Alone
  <2>3. CASE /\ generation % 2 # 1 /\ lane' = [lane EXCEPT ![l] = "mark"]
             /\ hook' = [hook EXCEPT ![l].generation = generation]
    <3>1. "mark" \in {"idle"} \cup Before \cup Ticketless \cup Ticketed
      BY DEF Before
    <3>2. /\ lane' \in [Lanes -> {"idle"} \cup Before \cup Ticketless \cup Ticketed] /\ lane'[l] = "mark"
          /\ \A m \in Lanes : m # l => lane'[m] = lane[m]
      BY <2>3, <3>1, LaneMoves DEF RingInv
    <3>3. [hook[l] EXCEPT !.generation = generation] \in HookSet
      BY <2>1, HookNumber DEF RingInv
    <3>4. hook' = [hook EXCEPT ![l] = [hook[l] EXCEPT !.generation = generation]]
      BY <2>3
    <3>5. /\ hook' \in [Lanes -> HookSet] /\ hook'[l] = [hook[l] EXCEPT !.generation = generation]
          /\ \A m \in Lanes : m # l => hook'[m] = hook[m]
      BY <3>3, <3>4, HookMoves DEF RingInv
    <3>6. hook'[l].generation = generation /\ hook'[l].site = hook[l].site
      BY <3>5 DEF RingInv, RingKinds, HookSet
    <3>7. generation % 2 = 0
      BY <2>1, <2>3
    <3> QED BY <3>2, <3>5, <3>6, <3>7 DEF Alone
  <2> QED BY <1>2, <2>2, <2>3
<1>4. RingKinds'
  BY <1>1, <1>3 DEF RingInv, RingKinds, published, thread
<1>5. Nested'
  BY <1>1, <1>3, SameFrames DEF Before, Ticketless, Ticketed, Locked, Filling
<1>6. Ring' /\ Reported'
  <2>1. UNCHANGED <<cell, put, count, reader>> /\ lane[l] \notin Ticketed /\ lane'[l] \notin Ticketed
    BY <1>1, <1>3 DEF published, Ticketed, Locked, Filling
  <2> QED BY <1>3, <2>1, Beside
<1>7. Windowed'
  <2>1. generation \in Nat
    BY RingNumbers DEF RingInv
  <2> QED BY <1>1, <1>3, <2>1 DEF RingInv, Windowed, Inside, Entered, Alone, published
<1> QED BY <1>4, <1>5, <1>6, <1>7 DEF RingInv

LEMMA MarkOK == ASSUME RingInv, NEW l \in Lanes, Mark(l) PROVE RingInv'
<1>1. /\ lane[l] = "mark" /\ lane' = [lane EXCEPT ![l] = "again"]
      /\ active' = [active EXCEPT ![l] = hook[l].generation]
      /\ UNCHANGED <<client, reader, generation, until, count, cell, open, put, thread, hook>>
  BY DEF Mark, LaneAt, LaneGoes
<1>2. /\ Alone(l) /\ lane'[l] = "again" /\ hook[l].generation \in Nat
  BY <1>1 DEF Alone, RingInv, RingKinds, HookSet
<1>3. RingKinds'
  BY <1>1, <1>2 DEF RingInv, RingKinds, thread, Before
<1>4. Nested'
  BY <1>1, <1>2, SameFrames DEF Before, Ticketless, Ticketed, Locked, Filling
<1>5. Ring' /\ Reported'
  <2>1. lane[l] \notin Ticketed /\ lane'[l] \notin Ticketed
    BY <1>1, <1>2 DEF Ticketed, Locked, Filling
  <2> QED BY <1>1, <1>2, <2>1, Beside
<1>6. Windowed'
  BY <1>1, <1>2 DEF RingInv, RingKinds, Windowed, Inside, Entered
<1> QED BY <1>3, <1>4, <1>5, <1>6 DEF RingInv

\* The second look: the generation the hook enters is the one that stands.
LEMMA RecheckOK == ASSUME RingInv, NEW l \in Lanes, Recheck(l) PROVE RingInv'
<1>1. /\ lane[l] = "again" /\ lane' = [lane EXCEPT ![l] = "frame"]
      /\ UNCHANGED <<client, reader, generation, until, count, cell, open, put, thread>>
      /\ \/ generation = hook[l].generation /\ UNCHANGED <<active, hook>>
         \/ /\ generation # hook[l].generation
            /\ active' = [active EXCEPT ![l] = 0] /\ hook' = [hook EXCEPT ![l].generation = 0]
  BY DEF Recheck, LaneAt, LaneGoes
<1>2. /\ Alone(l) /\ lane'[l] = "frame" /\ hook' \in [Lanes -> HookSet]
      /\ hook'[l].site = hook[l].site /\ active' \in [Lanes -> Nat]
  <2>1. lane'[l] = "frame" /\ \A m \in Lanes : m # l => lane'[m] = lane[m]
    BY <1>1 DEF RingInv, RingKinds
  <2>2. /\ hook' \in [Lanes -> HookSet] /\ hook'[l].site = hook[l].site
        /\ \A m \in Lanes : m # l => hook'[m] = hook[m]
    <3>1. CASE hook' = hook
      BY <3>1 DEF RingInv, RingKinds
    <3>2. CASE hook' = [hook EXCEPT ![l] = [hook[l] EXCEPT !.generation = 0]]
      <4>1. [hook[l] EXCEPT !.generation = 0] \in HookSet
        BY HookNumber DEF RingInv
      <4> QED BY <3>2, <4>1, HookMoves DEF RingInv, RingKinds, HookSet
    <3> QED BY <1>1, <3>1, <3>2
  <2>3. active' \in [Lanes -> Nat]
    <3>1. active \in [Lanes -> Nat] /\ 0 \in Nat
      BY DEF RingInv, RingKinds
    <3>2. CASE active' = active
      BY <3>1, <3>2
    <3>3. CASE active' = [active EXCEPT ![l] = 0]
      BY <3>1, <3>3
    <3> QED BY <1>1, <3>2, <3>3
  <2> QED BY <2>1, <2>2, <2>3 DEF Alone
<1>3. RingKinds'
  BY <1>1, <1>2 DEF RingInv, RingKinds, thread, Before
<1>4. Nested'
  BY <1>1, <1>2, SameFrames DEF Before, Ticketless, Ticketed, Locked, Filling
<1>5. Ring' /\ Reported'
  <2>1. lane[l] \notin Ticketed /\ lane'[l] \notin Ticketed
    BY <1>1, <1>2 DEF Ticketed, Locked, Filling
  <2> QED BY <1>1, <1>2, <2>1, Beside
<1>6. Windowed'
  <2>1. CASE generation = hook[l].generation /\ UNCHANGED <<active, hook>>
    BY <1>1, <1>2, <2>1 DEF RingInv, RingKinds, Windowed, Inside, Entered
  <2>2. CASE active' = [active EXCEPT ![l] = 0] /\ hook' = [hook EXCEPT ![l].generation = 0]
    <3>1. hook'[l].generation = 0 /\ active'[l] = 0 /\ generation \in Nat
      BY <2>2, RingNumbers DEF RingInv, RingKinds, HookSet
    <3>2. \A m \in Lanes : m # l => /\ active'[m] = active[m] /\ hook'[m] = hook[m]
                                     /\ lane'[m] = lane[m] /\ Inside(m)' = Inside(m)
      BY <1>2, <2>2 DEF RingInv, RingKinds, Alone, Inside, Entered
    <3>3. ~Inside(l)'
      BY <3>1 DEF Inside, Entered
    <3> QED BY <1>1, <1>2, <3>1, <3>2, <3>3 DEF RingInv, Windowed
  <2> QED BY <1>1, <2>1, <2>2
<1> QED BY <1>3, <1>4, <1>5, <1>6 DEF RingInv

\* The getter's frame is kept on its call, or counted, and gone after its return.
LEMMA FrameOK == ASSUME RingInv, NEW l \in Lanes, Frame(l) PROVE RingInv'
<1> DEFINE record == Entered(l) /\ until
<1>1. /\ lane[l] = "frame" /\ UNCHANGED <<client, reader, published, getters, hook>>
      /\ hook[l].site \in {"set", "get", "done"}
  BY DEF Frame, LaneAt, RingInv, RingKinds, HookSet
<1>2. /\ \E next \in {"ticket", "close"} : lane' = [lane EXCEPT ![l] = next]
      /\ \/ UNCHANGED <<frames, beyond>> /\ hook[l].site # "done"
         \/ /\ hook[l].site = "get" /\ beyond' = [beyond EXCEPT ![l] = @ + 1] /\ UNCHANGED frames
         \/ /\ hook[l].site = "get" /\ Len(frames[l]) # Frames /\ UNCHANGED beyond
            /\ frames' = [frames EXCEPT ![l] = Append(@,
                  [call |-> getters[l], generation |-> hook[l].generation, record |-> record])]
         \/ /\ hook[l].site = "done" /\ beyond[l] > 0
            /\ beyond' = [beyond EXCEPT ![l] = @ - 1] /\ UNCHANGED frames
         \/ /\ hook[l].site = "done" /\ ~(beyond[l] > 0)
            /\ frames' = [frames EXCEPT ![l] = Front(@)] /\ UNCHANGED beyond
  <2>1. CASE hook[l].site = "set"
    BY <2>1 DEF Frame, LaneGoes
  <2>2. CASE hook[l].site = "get"
    <3>1. CASE ~record /\ ~Outer(l)
      BY <2>2, <3>1 DEF Frame, LaneGoes
    <3>2. CASE ~(~record /\ ~Outer(l)) /\ (Len(frames[l]) = Frames \/ beyond[l] > 0)
      BY <2>2, <3>2 DEF Frame, LaneGoes
    <3>3. CASE ~(~record /\ ~Outer(l)) /\ ~(Len(frames[l]) = Frames \/ beyond[l] > 0)
      BY <2>2, <3>3 DEF Frame, LaneGoes
    <3> QED BY <3>1, <3>2, <3>3
  <2>3. CASE hook[l].site = "done" /\ beyond[l] > 0
    BY <2>3 DEF Frame, LaneGoes
  <2>4. CASE hook[l].site = "done" /\ ~(beyond[l] > 0)
    BY <2>4 DEF Frame, LaneGoes
  <2> QED BY <1>1, <2>1, <2>2, <2>3, <2>4
<1>3. /\ lane' \in [Lanes -> {"idle"} \cup Before \cup Ticketless \cup Ticketed]
      /\ Alone(l) /\ lane'[l] \in {"ticket", "close"}
  <2>1. PICK next \in {"ticket", "close"} : lane' = [lane EXCEPT ![l] = next]
    BY <1>2
  <2>2. next \in {"idle"} \cup Before \cup Ticketless \cup Ticketed
    BY DEF Ticketless
  <2>3. /\ lane' \in [Lanes -> {"idle"} \cup Before \cup Ticketless \cup Ticketed] /\ lane'[l] = next
        /\ \A m \in Lanes : m # l => lane'[m] = lane[m]
    BY <2>1, <2>2, LaneMoves DEF RingInv
  <2> QED BY <1>1, <2>3 DEF Alone
<1>4. /\ frames' \in [Lanes -> Seq(FrameSet)] /\ beyond' \in [Lanes -> Nat]
      /\ \A m \in Lanes : m # l => frames'[m] = frames[m] /\ beyond'[m] = beyond[m]
      /\ Len(frames'[l]) <= Frames /\ Len(frames'[l]) + beyond'[l] <= getters[l]
      /\ hook[l].site = "done" => Len(frames'[l]) + beyond'[l] < getters[l]
  <2>0. /\ frames \in [Lanes -> Seq(FrameSet)] /\ beyond \in [Lanes -> Nat] /\ getters[l] \in Nat
        /\ frames[l] \in Seq(FrameSet) /\ Len(frames[l]) \in Nat /\ beyond[l] \in Nat
        /\ Len(frames[l]) <= Frames /\ Len(frames[l]) + beyond[l] <= getters[l]
        /\ hook[l].site = "get" => Len(frames[l]) + beyond[l] < getters[l]
        /\ hook[l].site = "done" => Len(frames[l]) + beyond[l] > 0
        /\ Frames \in Nat
    <3>1. /\ frames \in [Lanes -> Seq(FrameSet)] /\ beyond \in [Lanes -> Nat] /\ getters[l] \in Nat
      BY DEF RingInv, RingKinds
    <3>2. frames[l] \in Seq(FrameSet) /\ Len(frames[l]) \in Nat /\ beyond[l] \in Nat
      BY <3>1
    <3>3. /\ Len(frames[l]) <= Frames /\ Depth(l) <= getters[l]
          /\ hook[l].site = "get" => Depth(l) < getters[l]
          /\ hook[l].site = "done" => Depth(l) > 0
      BY <1>1 DEF RingInv, Nested, Before
    <3> QED BY <3>1, <3>2, <3>3, RingSizes DEF Depth
  <2>1. CASE UNCHANGED <<frames, beyond>> /\ hook[l].site # "done"
    BY <2>0, <2>1
  <2>2. CASE hook[l].site = "get" /\ beyond' = [beyond EXCEPT ![l] = @ + 1] /\ UNCHANGED frames
    BY <2>0, <2>2
  <2>3. CASE /\ hook[l].site = "get" /\ Len(frames[l]) # Frames /\ UNCHANGED beyond
             /\ frames' = [frames EXCEPT ![l] = Append(@,
                   [call |-> getters[l], generation |-> hook[l].generation, record |-> record])]
    <3> DEFINE f == [call |-> getters[l], generation |-> hook[l].generation, record |-> record]
    <3>1. record \in BOOLEAN
      BY DEF Entered
    <3>2. hook[l].generation \in Nat
      BY DEF RingInv, RingKinds, HookSet
    <3> HIDE DEF record
    <3>3. f \in FrameSet
      BY <2>0, <3>1, <3>2 DEF FrameSet
    <3> HIDE DEF f
    <3>4. frames' = [frames EXCEPT ![l] = Append(frames[l], f)]
      BY <2>3 DEF f
    <3>5. Append(frames[l], f) \in Seq(FrameSet) /\ Len(Append(frames[l], f)) = Len(frames[l]) + 1
      BY <2>0, <3>3
    <3> QED BY <2>0, <2>3, <3>4, <3>5
  <2>4. CASE /\ hook[l].site = "done" /\ beyond[l] > 0
             /\ beyond' = [beyond EXCEPT ![l] = @ - 1] /\ UNCHANGED frames
    BY <2>0, <2>4
  <2>5. CASE /\ hook[l].site = "done" /\ ~(beyond[l] > 0)
             /\ frames' = [frames EXCEPT ![l] = Front(@)] /\ UNCHANGED beyond
    <3>1. Len(frames[l]) > 0
      BY <2>0, <2>5
    <3>2. Front(frames[l]) \in Seq(FrameSet) /\ Len(Front(frames[l])) = Len(frames[l]) - 1
      <4> DEFINE n == Len(frames[l]) - 1
      <4>1. n \in Nat /\ 1 \in Int /\ n \in Int
        BY <2>0, <3>1
      <4>2. \A i \in 1 .. n : frames[l][i] \in FrameSet
        BY <2>0, <4>1
      <4> HIDE DEF n
      <4>3. SubSeq(frames[l], 1, n) \in Seq(FrameSet)
            /\ Len(SubSeq(frames[l], 1, n)) = IF 1 <= n THEN n - 1 + 1 ELSE 0
        BY <4>1, <4>2, SubSeqProperties
      <4>4. Len(SubSeq(frames[l], 1, n)) = n
        BY <4>1, <4>3
      <4> QED BY <4>3, <4>4 DEF Front, n
    <3> QED BY <2>0, <2>5, <3>2
  <2> HIDE DEF record
  <2> QED BY <1>2, <2>1, <2>2, <2>3, <2>4, <2>5
<1> HIDE DEF record
<1>5. RingKinds'
  BY <1>1, <1>3, <1>4 DEF RingInv, RingKinds, published
<1>6. Nested'
  <2>1. \A m \in Lanes : m # l => Depth(m)' = Depth(m)
    BY <1>4 DEF Depth
  <2>2. lane'[l] \notin Before
    BY <1>3 DEF Before
  <2> QED BY <1>1, <1>3, <1>4, <2>1, <2>2 DEF RingInv, Nested, Depth, Alone
<1>7. Ring' /\ Reported'
  <2>1. UNCHANGED <<cell, put, count, reader>> /\ lane[l] \notin Ticketed /\ lane'[l] \notin Ticketed
    BY <1>1, <1>3 DEF published, Ticketed, Locked, Filling
  <2> QED BY <1>3, <2>1, Beside
<1>8. Windowed'
  BY <1>1, <1>3, SameGeneration DEF published
<1> QED BY <1>5, <1>6, <1>7, <1>8 DEF RingInv

LEMMA CloseOK == ASSUME RingInv, NEW l \in Lanes, Close(l) PROVE RingInv'
<1>1. /\ lane[l] = "close" /\ lane' = [lane EXCEPT ![l] = "leave"]
      /\ open' = [open EXCEPT ![l] = Len(frames[l]) + beyond[l]]
      /\ hook' = [hook EXCEPT ![l] = [hook[l] EXCEPT !.at = 0, !.tries = 0]]
      /\ UNCHANGED <<client, reader, generation, until, count, cell, active, put, thread>>
  BY DEF Close, LaneAt, LaneGoes
<1>2. /\ Alone(l) /\ lane'[l] = "leave" /\ hook' \in [Lanes -> HookSet]
      /\ lane' \in [Lanes -> {"idle"} \cup Before \cup Ticketless \cup Ticketed]
      /\ hook'[l].site = hook[l].site /\ hook'[l].generation = hook[l].generation
  <2>1. [hook[l] EXCEPT !.at = 0, !.tries = 0] \in HookSet
    <3>1. 0 \in 0 .. Tickets /\ 0 \in Nat
      BY RingSizes
    <3> QED BY <3>1, HookTicket DEF RingInv
  <2>2. /\ hook' \in [Lanes -> HookSet] /\ hook'[l] = [hook[l] EXCEPT !.at = 0, !.tries = 0]
        /\ \A m \in Lanes : m # l => hook'[m] = hook[m]
    BY <1>1, <2>1, HookMoves DEF RingInv
  <2>3. hook'[l].site = hook[l].site /\ hook'[l].generation = hook[l].generation
    BY <2>2 DEF RingInv, RingKinds, HookSet
  <2>4. "leave" \in {"idle"} \cup Before \cup Ticketless \cup Ticketed
    BY DEF Ticketless
  <2>5. /\ lane' \in [Lanes -> {"idle"} \cup Before \cup Ticketless \cup Ticketed] /\ lane'[l] = "leave"
        /\ \A m \in Lanes : m # l => lane'[m] = lane[m]
    BY <1>1, <2>4, LaneMoves DEF RingInv
  <2> QED BY <2>2, <2>3, <2>5 DEF Alone
<1>3. RingKinds'
  <2>1. open' \in [Lanes -> Nat]
    BY <1>1 DEF RingInv, RingKinds
  <2> QED BY <1>1, <1>2, <2>1 DEF RingInv, RingKinds, thread
<1>4. Nested'
  BY <1>1, <1>2, SameFrames DEF Before, Ticketless, Ticketed, Locked, Filling
<1>5. Ring' /\ Reported'
  <2>1. lane[l] \notin Ticketed /\ lane'[l] \notin Ticketed
    BY <1>1, <1>2 DEF Ticketed, Locked, Filling
  <2> QED BY <1>1, <1>2, <2>1, Beside
<1>6. Windowed'
  BY <1>1, <1>2, SameGeneration
<1> QED BY <1>3, <1>4, <1>5, <1>6 DEF RingInv

\* The mark goes with the hook, and a return is counted.
LEMMA LeaveOK == ASSUME RingInv, NEW l \in Lanes, LeaveRing(l) PROVE RingInv'
<1>1. /\ lane[l] = "leave" /\ lane' = [lane EXCEPT ![l] = "idle"]
      /\ hook' = [hook EXCEPT ![l] = NoHook]
      /\ active' = (IF Entered(l) THEN [active EXCEPT ![l] = 0] ELSE active)
      /\ getters' = IF hook[l].site = "done" THEN [getters EXCEPT ![l] = @ - 1] ELSE getters
      /\ UNCHANGED <<client, reader, generation, until, count, cell, open, put, frames, beyond>>
  BY DEF LeaveRing, LaneAt, LaneGoes, Returned
<1>2. /\ Alone(l) /\ lane'[l] = "idle" /\ hook' \in [Lanes -> HookSet] /\ hook'[l] = NoHook
      /\ lane' \in [Lanes -> {"idle"} \cup Before \cup Ticketless \cup Ticketed]
  <2>1. /\ hook' \in [Lanes -> HookSet] /\ hook'[l] = NoHook
        /\ \A m \in Lanes : m # l => hook'[m] = hook[m]
    BY <1>1, NoHookOK, HookMoves DEF RingInv
  <2>2. /\ lane' \in [Lanes -> {"idle"} \cup Before \cup Ticketless \cup Ticketed] /\ lane'[l] = "idle"
        /\ \A m \in Lanes : m # l => lane'[m] = lane[m]
    BY <1>1, LaneMoves DEF RingInv
  <2> QED BY <2>1, <2>2 DEF Alone
<1>3. /\ getters' \in [Lanes -> Nat] /\ \A m \in Lanes : m # l => getters'[m] = getters[m]
      /\ Depth(l) <= getters'[l]
  <2>1. /\ getters \in [Lanes -> Nat] /\ Depth(l) \in Nat /\ Depth(l) <= getters[l]
        /\ hook[l].site = "done" => Depth(l) < getters[l]
    BY <1>1 DEF RingInv, RingKinds, Nested, Depth, Ticketless
  <2>2. CASE hook[l].site = "done"
    BY <1>1, <2>1, <2>2
  <2>3. CASE hook[l].site # "done"
    BY <1>1, <2>1, <2>3
  <2> QED BY <2>2, <2>3
<1>4. /\ active' \in [Lanes -> Nat] /\ active'[l] = 0
      /\ \A m \in Lanes : m # l => active'[m] = active[m]
  <2>1. /\ active \in [Lanes -> Nat]
        /\ active[l] = IF lane[l] = "again" \/ Inside(l) THEN hook[l].generation ELSE 0
    BY DEF RingInv, RingKinds, Windowed
  <2>2. CASE Entered(l)
    BY <1>1, <2>1, <2>2
  <2>3. CASE ~Entered(l)
    BY <1>1, <2>1, <2>3 DEF Inside
  <2> QED BY <2>2, <2>3
<1>5. RingKinds'
  BY <1>1, <1>2, <1>3, <1>4 DEF RingInv, RingKinds
<1>6. Nested'
  <2>1. \A m \in Lanes : Depth(m)' = Depth(m)
    BY <1>1 DEF Depth
  <2>2. "idle" \notin Before \cup Ticketless \cup Ticketed
    BY DEF Before, Ticketless, Ticketed, Locked, Filling
  <2> QED BY <1>1, <1>2, <1>3, <2>1, <2>2 DEF RingInv, Nested, Alone
<1>7. Ring' /\ Reported'
  <2>1. lane[l] \notin Ticketed /\ lane'[l] \notin Ticketed
    BY <1>1, <1>2 DEF Ticketed, Locked, Filling
  <2> QED BY <1>1, <1>2, <2>1, Beside
<1>8. Windowed'
  <2>1. hook'[l].generation = 0 /\ generation \in Nat
    BY <1>2, RingNumbers DEF NoHook, RingInv
  <2>2. \A m \in Lanes : m # l => Inside(m)' = Inside(m)
    BY <1>2 DEF Alone, Inside, Entered
  <2>3. ~Inside(l)'
    BY <2>1 DEF Inside, Entered
  <2> QED BY <1>1, <1>2, <1>4, <2>1, <2>2, <2>3 DEF RingInv, Windowed, Alone
<1> QED BY <1>5, <1>6, <1>7, <1>8 DEF RingInv

-------------------------------------------------------------------------------
(* A ticket, and the cell it goes into.                                          *)

\* A step on a lane's own ticket leaves the frames and the generation as they are.
LEMMA OnTicket ==
  ASSUME RingInv, NEW l \in Lanes, Alone(l), UNCHANGED <<generation, open, active, thread, client>>,
         lane[l] \in Ticketless \cup Ticketed, lane'[l] \in Ticketless \cup Ticketed,
         hook'[l].site = hook[l].site, hook'[l].generation = hook[l].generation
  PROVE  Nested' /\ Windowed'
<1>1. lane[l] \notin Before \cup {"idle", "enter", "mark", "again"}
      /\ lane'[l] \notin Before \cup {"idle", "enter", "mark", "again"}
  BY DEF Ticketless, Ticketed, Locked, Filling, Before
<1>2. Nested'
  BY <1>1, SameFrames
<1>3. Windowed'
  BY <1>1, SameGeneration
<1> QED BY <1>2, <1>3

LEMMA LoadCountOK == ASSUME RingInv, NEW l \in Lanes, LoadCount(l) PROVE RingInv'
<1>1. /\ lane[l] = "ticket" /\ lane' = [lane EXCEPT ![l] = "reserve"]
      /\ hook' = [hook EXCEPT ![l] = [hook[l] EXCEPT !.at = count, !.tries = 0]]
      /\ UNCHANGED <<client, reader, published, thread>>
  BY DEF LoadCount, LaneAt, LaneGoes
<1>2. /\ Alone(l) /\ lane'[l] = "reserve" /\ hook' \in [Lanes -> HookSet]
      /\ lane' \in [Lanes -> {"idle"} \cup Before \cup Ticketless \cup Ticketed]
      /\ hook'[l].site = hook[l].site /\ hook'[l].generation = hook[l].generation
  <2>1. [hook[l] EXCEPT !.at = count, !.tries = 0] \in HookSet
    <3>1. count \in 0 .. Tickets /\ 0 \in Nat
      BY DEF RingInv, RingKinds
    <3> QED BY <3>1, HookTicket DEF RingInv
  <2>2. /\ hook' \in [Lanes -> HookSet] /\ hook'[l] = [hook[l] EXCEPT !.at = count, !.tries = 0]
        /\ \A m \in Lanes : m # l => hook'[m] = hook[m]
    BY <1>1, <2>1, HookMoves DEF RingInv
  <2>3. hook'[l].site = hook[l].site /\ hook'[l].generation = hook[l].generation
    BY <2>2 DEF RingInv, RingKinds, HookSet
  <2>4. "reserve" \in {"idle"} \cup Before \cup Ticketless \cup Ticketed
    BY DEF Ticketless
  <2>5. /\ lane' \in [Lanes -> {"idle"} \cup Before \cup Ticketless \cup Ticketed] /\ lane'[l] = "reserve"
        /\ \A m \in Lanes : m # l => lane'[m] = lane[m]
    BY <1>1, <2>4, LaneMoves DEF RingInv
  <2> QED BY <2>2, <2>3, <2>5 DEF Alone
<1>3. RingKinds'
  BY <1>1, <1>2 DEF RingInv, RingKinds, published, thread
<1>4. Nested' /\ Windowed'
  BY <1>1, <1>2, OnTicket DEF Ticketless, published
<1>5. Ring' /\ Reported'
  <2>1. lane[l] \notin Ticketed /\ lane'[l] \notin Ticketed /\ UNCHANGED <<cell, put, count, reader>>
    BY <1>1, <1>2 DEF Ticketed, Locked, Filling, published
  <2> QED BY <1>2, <2>1, Beside
<1> QED BY <1>3, <1>4, <1>5 DEF RingInv

\* A new ticket is above every ticket there is.
LEMMA TicketTaken ==
  ASSUME RingInv, NEW l \in Lanes, Alone(l), lane[l] = "reserve", lane'[l] = "claim",
         count = hook[l].at, count' = count + 1, hook'[l].at = hook[l].at, UNCHANGED <<cell, put>>
  PROVE  Ring'
<1>0. /\ count \in Nat /\ put \subseteq Nat /\ \A s \in put : 0 < s /\ s <= count
      /\ \A m \in Lanes : Ticket(m) \in Nat
  BY RingNumbers, TicketPlace DEF RingInv
<1>1. \A m \in Lanes : m # l => /\ lane'[m] = lane[m] /\ Ticket(m)' = Ticket(m)
                                /\ TicketCell(m)' = TicketCell(m)
  BY DEF Alone, Ticket, TicketCell
<1>2. Ticket(l)' = count'
  BY <1>0 DEF Ticket
<1>3. "claim" \in Ticketed /\ "claim" \notin Locked /\ "claim" # "unlock" /\ "reserve" \notin Filling
      /\ "claim" \notin Filling /\ Filling \subseteq Ticketed /\ Locked \subseteq Ticketed
  BY DEF Ticketed, Locked, Filling
<1>4. Owned'
  <2>1. \A m \in Lanes :
           /\ lane'[m] \in Ticketed => Ticket(m)' <= count'
           /\ lane'[m] \in Ticketed \ {"unlock"} => Ticket(m)' \notin put'
           /\ lane'[m] \in Locked => cell'[TicketCell(m)'].guard = 1
    <3> TAKE m \in Lanes
    <3>1. CASE m = l
      BY <1>0, <1>2, <1>3, <3>1
    <3>2. CASE m # l
      <4>1. /\ lane[m] \in Ticketed => Ticket(m) <= count
            /\ lane[m] \in Ticketed \ {"unlock"} => Ticket(m) \notin put
            /\ lane[m] \in Locked => cell[TicketCell(m)].guard = 1
        BY DEF RingInv, Ring, Owned
      <4> QED BY <1>0, <1>1, <3>2, <4>1
    <3> QED BY <3>1, <3>2
  <2>2. \A m, n \in Lanes : m # n => /\ lane'[m] \in Ticketed /\ lane'[n] \in Ticketed
                                             => Ticket(m)' # Ticket(n)'
                                     /\ lane'[m] \in Locked /\ lane'[n] \in Locked
                                             => TicketCell(m)' # TicketCell(n)'
    <3>1. \A m \in Lanes : m # l /\ lane'[m] \in Ticketed => Ticket(m)' < count'
      BY <1>0, <1>1 DEF RingInv, Ring, Owned
    <3>2. \A m \in Lanes : m # l /\ lane'[m] \in Ticketed => Ticket(m)' # Ticket(l)'
      BY <1>0, <1>1, <1>2, <3>1
    <3> QED BY <1>1, <1>3, <3>2 DEF RingInv, Ring, Owned
  <2> QED BY <2>1, <2>2 DEF Owned
<1>5. Newest'
  <2>1. \A m \in Lanes : lane'[m] \in Filling <=> (m # l /\ lane[m] \in Filling)
    BY <1>1, <1>3
  <2>2. \A m \in Lanes : lane[m] \in Filling => TicketCell(m)' = TicketCell(m) /\ Ticket(m)' = Ticket(m)
    BY <1>1, <1>3
  <2>3. {"word2", "publish"} \subseteq Filling
    BY DEF Filling
  <2>4. \A m \in Lanes : lane[m] \in Filling => lane'[m] \in Filling
    BY <1>1, <1>3
  <2>5. ASSUME NEW c \in RingPlaces
        PROVE /\ cell[c].sequence # 0 =>
                    /\ cell[c].sequence \in put /\ CellOf(cell[c].sequence) = c
                    /\ cell[c].first = cell[c].sequence /\ cell[c].second = cell[c].sequence
              /\ (\A m \in Lanes : lane'[m] \in Filling => TicketCell(m)' # c) =>
                    \A s \in put : CellOf(s) = c => s <= cell[c].sequence
    BY <2>2, <2>4 DEF RingInv, Ring, Newest
  <2>6. ASSUME NEW m \in Lanes
        PROVE /\ lane'[m] \in Filling =>
                    /\ cell[TicketCell(m)'].sequence = 0
                    /\ \A s \in put : CellOf(s) = TicketCell(m)' => s < Ticket(m)'
              /\ lane'[m] \in {"word2", "publish"} => cell[TicketCell(m)'].first = Ticket(m)'
              /\ lane'[m] = "publish" => cell[TicketCell(m)'].second = Ticket(m)'
    <3>1. CASE m = l
      BY <2>1, <2>3, <3>1
    <3>2. CASE m # l
      BY <1>1, <3>2 DEF RingInv, Ring, Newest
    <3> QED BY <3>1, <3>2
  <2> QED BY <2>5, <2>6 DEF Newest
<1> QED BY <1>4, <1>5 DEF Ring

LEMMA ReserveOK == ASSUME RingInv, NEW l \in Lanes, Reserve(l) PROVE RingInv'
<1>1. /\ lane[l] = "reserve"
      /\ UNCHANGED <<client, reader, generation, cell, open, active, put, thread>>
  BY DEF Reserve, LaneAt
<1>2. \/ /\ until' = FALSE /\ lane' = [lane EXCEPT ![l] = "close"] /\ UNCHANGED <<count, hook>>
      \/ /\ hook[l].at < Tickets /\ count = hook[l].at /\ count' = count + 1 /\ UNCHANGED until
         /\ hook' = [hook EXCEPT ![l] = [hook[l] EXCEPT !.tries = 0]]
         /\ lane' = [lane EXCEPT ![l] = "claim"]
      \/ /\ \E next \in {"close", "reserve"} : lane' = [lane EXCEPT ![l] = next]
         /\ hook' = [hook EXCEPT ![l] = [hook[l] EXCEPT !.at = count, !.tries = hook[l].tries + 1]]
         /\ UNCHANGED <<until, count>>
  BY DEF Reserve, LaneGoes, Tries
<1>3. /\ Alone(l) /\ hook' \in [Lanes -> HookSet] /\ lane'[l] \in {"close", "claim", "reserve"}
      /\ lane' \in [Lanes -> {"idle"} \cup Before \cup Ticketless \cup Ticketed]
      /\ hook'[l].site = hook[l].site /\ hook'[l].generation = hook[l].generation
      /\ \/ lane'[l] # "claim" /\ UNCHANGED count
         \/ /\ lane'[l] = "claim" /\ hook'[l].at = hook[l].at /\ hook[l].at < Tickets
            /\ count = hook[l].at /\ count' = count + 1
  <2>1. /\ Alone(l) /\ lane'[l] \in {"close", "claim", "reserve"}
        /\ lane' \in [Lanes -> {"idle"} \cup Before \cup Ticketless \cup Ticketed]
        /\ hook' \in [Lanes -> HookSet]
        /\ hook'[l].site = hook[l].site /\ hook'[l].generation = hook[l].generation
    <3>1. \E next \in {"close", "claim", "reserve"} : lane' = [lane EXCEPT ![l] = next]
      BY <1>2
    <3>2. PICK next \in {"close", "claim", "reserve"} : lane' = [lane EXCEPT ![l] = next]
      BY <3>1
    <3>3. next \in {"idle"} \cup Before \cup Ticketless \cup Ticketed
      BY DEF Ticketless, Ticketed
    <3>4. /\ lane' \in [Lanes -> {"idle"} \cup Before \cup Ticketless \cup Ticketed] /\ lane'[l] = next
          /\ \A m \in Lanes : m # l => lane'[m] = lane[m]
      BY <3>2, <3>3, LaneMoves DEF RingInv
    <3>5. /\ hook[l] \in HookSet /\ hook[l].tries + 1 \in Nat /\ count \in 0 .. Tickets /\ 0 \in Nat
      BY DEF RingInv, RingKinds, HookSet
    <3>6. /\ hook' \in [Lanes -> HookSet] /\ \A m \in Lanes : m # l => hook'[m] = hook[m]
          /\ hook'[l].site = hook[l].site /\ hook'[l].generation = hook[l].generation
      <4>1. CASE hook' = hook
        BY <4>1 DEF RingInv, RingKinds
      <4>2. CASE hook' = [hook EXCEPT ![l] = [hook[l] EXCEPT !.tries = 0]]
        <5>1. [hook[l] EXCEPT !.tries = 0] \in HookSet
          BY <3>5, HookNumber DEF RingInv
        <5>2. /\ hook' \in [Lanes -> HookSet] /\ \A m \in Lanes : m # l => hook'[m] = hook[m]
              /\ hook'[l] = [hook[l] EXCEPT !.tries = 0]
          BY <4>2, <5>1, HookMoves DEF RingInv
        <5> QED BY <3>5, <5>2 DEF HookSet
      <4>3. CASE hook' = [hook EXCEPT ![l] = [hook[l] EXCEPT !.at = count, !.tries = hook[l].tries + 1]]
        <5>1. [hook[l] EXCEPT !.at = count, !.tries = hook[l].tries + 1] \in HookSet
          BY <3>5, HookTicket DEF RingInv
        <5>2. /\ hook' \in [Lanes -> HookSet] /\ \A m \in Lanes : m # l => hook'[m] = hook[m]
              /\ hook'[l] = [hook[l] EXCEPT !.at = count, !.tries = hook[l].tries + 1]
          BY <4>3, <5>1, HookMoves DEF RingInv
        <5> QED BY <3>5, <5>2 DEF HookSet
      <4> QED BY <1>2, <4>1, <4>2, <4>3
    <3> QED BY <3>4, <3>6 DEF Alone
  <2>2. lane[l] = "reserve" /\ lane \in [Lanes -> {"idle"} \cup Before \cup Ticketless \cup Ticketed]
        /\ hook \in [Lanes -> HookSet] /\ hook[l] \in HookSet
    BY <1>1 DEF RingInv, RingKinds
  <2>3. \/ lane'[l] # "claim" /\ UNCHANGED count
        \/ /\ lane'[l] = "claim" /\ hook'[l].at = hook[l].at /\ hook[l].at < Tickets
           /\ count = hook[l].at /\ count' = count + 1
    <3>1. CASE lane' = [lane EXCEPT ![l] = "close"] /\ UNCHANGED <<count, hook>>
      BY <2>2, <3>1
    <3>2. CASE /\ hook[l].at < Tickets /\ count = hook[l].at /\ count' = count + 1
               /\ hook' = [hook EXCEPT ![l] = [hook[l] EXCEPT !.tries = 0]]
               /\ lane' = [lane EXCEPT ![l] = "claim"]
      BY <2>2, <3>2 DEF HookSet
    <3>3. CASE (\E next \in {"close", "reserve"} : lane' = [lane EXCEPT ![l] = next]) /\ UNCHANGED count
      BY <2>2, <3>3
    <3> QED BY <1>2, <3>1, <3>2, <3>3
  <2> QED BY <2>1, <2>3
<1>4. count \in Nat /\ count' \in 0 .. Tickets /\ count <= count' /\ count' \in Nat /\ until' \in BOOLEAN
  <2>1. count \in 0 .. Tickets /\ Tickets \in Nat /\ until \in BOOLEAN
    BY RingSizes DEF RingInv, RingKinds
  <2>2. until' \in BOOLEAN
    BY <1>2, <2>1
  <2>3. count' \in 0 .. Tickets /\ count <= count'
    BY <1>3, <2>1
  <2> QED BY <2>1, <2>2, <2>3
<1>5. RingKinds'
  <2>1. put \subseteq 1 .. count'
    BY <1>4 DEF RingInv, RingKinds
  <2> QED BY <1>1, <1>3, <1>4, <2>1 DEF RingInv, RingKinds, thread
<1>6. Nested' /\ Windowed'
  <2>1. lane[l] \in Ticketless \cup Ticketed /\ lane'[l] \in Ticketless \cup Ticketed
    BY <1>1, <1>3 DEF Ticketless, Ticketed
  <2> QED BY <1>1, <1>3, <2>1, OnTicket
<1>7. Ring'
  <2>1. CASE lane'[l] # "claim" /\ UNCHANGED count
    <3>1. lane[l] \notin Filling /\ lane'[l] \notin Ticketed
      BY <1>1, <1>3, <2>1 DEF Ticketed, Locked, Filling
    <3> QED BY <1>1, <1>3, <2>1, <3>1, Aside
  <2>2. CASE /\ lane'[l] = "claim" /\ hook'[l].at = hook[l].at
             /\ count = hook[l].at /\ count' = count + 1
    BY <1>1, <1>3, <2>2, TicketTaken
  <2> QED BY <1>3, <2>1, <2>2
<1>8. Reported'
  BY <1>1, <1>4, Overtaken
<1> QED BY <1>5, <1>6, <1>7, <1>8 DEF RingInv

\* What a lane that owns a ticket leaves of the other lanes' tickets and cells.
OnItsOwn(l) ==
  /\ Alone(l) /\ lane[l] \in Ticketed /\ hook'[l].at = hook[l].at /\ count' = count
  /\ \A c \in RingPlaces : c # TicketCell(l) => cell'[c] = cell[c]
  /\ put \subseteq put' /\ put' \subseteq put \cup {Ticket(l)}

LEMMA OwnTicket ==
  ASSUME RingInv, NEW l \in Lanes, OnItsOwn(l)
  PROVE  /\ \A m \in Lanes : Ticket(m)' = Ticket(m) /\ TicketCell(m)' = TicketCell(m)
         /\ \A m \in Lanes : m # l => lane'[m] = lane[m]
         /\ \A m \in Lanes : lane[l] \in Locked /\ m # l /\ lane[m] \in Locked
                                => TicketCell(m) # TicketCell(l)
         /\ \A m \in Lanes : m # l /\ lane[m] \in Ticketed => Ticket(m) # Ticket(l)
         /\ Filling \subseteq Locked /\ Locked \subseteq Ticketed
<1>1. \A m \in Lanes : hook'[m].at = hook[m].at
  BY DEF OnItsOwn, Alone
<1>2. \A m \in Lanes : Ticket(m)' = Ticket(m) /\ TicketCell(m)' = TicketCell(m)
  BY <1>1 DEF Ticket, TicketCell
<1>3. Filling \subseteq Locked /\ Locked \subseteq Ticketed
  BY DEF Locked, Ticketed
<1>4. \A m \in Lanes : lane[l] \in Locked /\ m # l /\ lane[m] \in Locked
                          => TicketCell(m) # TicketCell(l)
  BY DEF RingInv, Ring, Owned
<1>5. \A m \in Lanes : m # l /\ lane[m] \in Ticketed => Ticket(m) # Ticket(l)
  BY DEF RingInv, Ring, Owned, OnItsOwn
<1> QED BY <1>2, <1>3, <1>4, <1>5 DEF OnItsOwn, Alone

LEMMA OwnedOn ==
  ASSUME RingInv, NEW l \in Lanes, OnItsOwn(l),
         lane'[l] \in Ticketed \ {"unlock"} => lane[l] # "unlock" /\ put' = put,
         lane'[l] \in Locked =>
            cell'[TicketCell(l)].guard = 1 /\ (lane[l] \in Locked \/ cell[TicketCell(l)].guard = 0),
         lane[l] \in Locked \/ cell[TicketCell(l)].guard = 0 \/ cell' = cell
  PROVE  Owned'
<1>1. /\ \A m \in Lanes : Ticket(m)' = Ticket(m) /\ TicketCell(m)' = TicketCell(m)
      /\ \A m \in Lanes : m # l => lane'[m] = lane[m]
      /\ \A m \in Lanes : lane[l] \in Locked /\ m # l /\ lane[m] \in Locked
                                => TicketCell(m) # TicketCell(l)
      /\ \A m \in Lanes : m # l /\ lane[m] \in Ticketed => Ticket(m) # Ticket(l)
      /\ Filling \subseteq Locked /\ Locked \subseteq Ticketed
  BY OwnTicket
<1>2. /\ lane[l] \in Ticketed /\ count' = count /\ put \subseteq put' /\ put' \subseteq put \cup {Ticket(l)}
      /\ \A c \in RingPlaces : c # TicketCell(l) => cell'[c] = cell[c]
  BY DEF OnItsOwn
<1>3. \A m \in Lanes : TicketCell(m) \in RingPlaces
  BY TicketPlace DEF RingInv
<1>4. /\ \A m \in Lanes :
            /\ lane[m] \in Ticketed => Ticket(m) <= count
            /\ lane[m] \in Ticketed \ {"unlock"} => Ticket(m) \notin put
            /\ lane[m] \in Locked => cell[TicketCell(m)].guard = 1
      /\ \A m, n \in Lanes :
            m # n => /\ lane[m] \in Ticketed /\ lane[n] \in Ticketed => Ticket(m) # Ticket(n)
                     /\ lane[m] \in Locked /\ lane[n] \in Locked => TicketCell(m) # TicketCell(n)
  BY DEF RingInv, Ring, Owned
<1>5. \A m \in Lanes : m # l /\ lane[m] \in Locked => cell'[TicketCell(m)].guard = 1
  <2> SUFFICES ASSUME NEW m \in Lanes, m # l, lane[m] \in Locked
               PROVE  cell'[TicketCell(m)].guard = 1
    OBVIOUS
  <2>1. cell[TicketCell(m)].guard = 1
    BY <1>4
  <2>2. CASE cell' = cell
    BY <2>1, <2>2
  <2>3. CASE TicketCell(m) # TicketCell(l)
    BY <1>2, <1>3, <2>1, <2>3
  <2> QED BY <1>1, <2>1, <2>2, <2>3
<1>6. \A m \in Lanes :
         /\ lane'[m] \in Ticketed => Ticket(m)' <= count'
         /\ lane'[m] \in Ticketed \ {"unlock"} => Ticket(m)' \notin put'
         /\ lane'[m] \in Locked => cell'[TicketCell(m)'].guard = 1
  <2> TAKE m \in Lanes
  <2>1. CASE m = l
    BY <1>1, <1>2, <1>4, <2>1
  <2>2. CASE m # l
    BY <1>1, <1>2, <1>4, <1>5, <2>2
  <2> QED BY <2>1, <2>2
<1>7. \A m \in Lanes : m # l /\ lane[m] \in Locked /\ lane'[l] \in Locked => TicketCell(m) # TicketCell(l)
  BY <1>1, <1>4
<1>8. \A m, n \in Lanes :
         m # n => /\ lane'[m] \in Ticketed /\ lane'[n] \in Ticketed => Ticket(m)' # Ticket(n)'
                  /\ lane'[m] \in Locked /\ lane'[n] \in Locked => TicketCell(m)' # TicketCell(n)'
  BY <1>1, <1>2, <1>4, <1>7
<1> QED BY <1>6, <1>8 DEF Owned

\* A lane that does not fill its cell leaves what the cells say.
LEMMA KeptAside ==
  ASSUME RingInv, NEW l \in Lanes, OnItsOwn(l), lane[l] \notin Filling, lane'[l] \notin Filling,
         put' = put,
         \A c \in RingPlaces : cell'[c].sequence = cell[c].sequence /\ cell'[c].first = cell[c].first
                           /\ cell'[c].second = cell[c].second
  PROVE  Newest'
<1>1. /\ \A m \in Lanes : Ticket(m)' = Ticket(m) /\ TicketCell(m)' = TicketCell(m)
      /\ \A m \in Lanes : m # l => lane'[m] = lane[m]
  BY OwnTicket
<1>2. \A m \in Lanes : (lane'[m] \in Filling <=> lane[m] \in Filling)
                       /\ (lane[m] \in Filling => lane'[m] = lane[m])
  BY <1>1
<1>3. \A m \in Lanes : TicketCell(m) \in RingPlaces
  BY TicketPlace DEF RingInv
<1>4. ASSUME NEW c \in RingPlaces
      PROVE /\ cell'[c].sequence # 0 =>
                    /\ cell'[c].sequence \in put /\ CellOf(cell'[c].sequence) = c
                    /\ cell'[c].first = cell'[c].sequence /\ cell'[c].second = cell'[c].sequence
            /\ (\A m \in Lanes : lane'[m] \in Filling => TicketCell(m)' # c) =>
                    \A s \in put : CellOf(s) = c => s <= cell'[c].sequence
  BY <1>1, <1>2 DEF RingInv, Ring, Newest
<1>5. ASSUME NEW m \in Lanes
      PROVE /\ lane'[m] \in Filling =>
                    /\ cell'[TicketCell(m)'].sequence = 0
                    /\ \A s \in put : CellOf(s) = TicketCell(m)' => s < Ticket(m)'
            /\ lane'[m] \in {"word2", "publish"} => cell'[TicketCell(m)'].first = Ticket(m)'
            /\ lane'[m] = "publish" => cell'[TicketCell(m)'].second = Ticket(m)'
  <2>1. {"word2", "publish"} \subseteq Filling
    BY DEF Filling
  <2>2. CASE lane'[m] \in Filling
    <3>1. lane'[m] = lane[m] /\ lane[m] \in Filling
      BY <1>2, <2>2
    <3> QED BY <1>1, <1>3, <3>1 DEF RingInv, Ring, Newest
  <2>3. CASE lane'[m] \notin Filling
    BY <2>1, <2>3
  <2> QED BY <2>2, <2>3
<1> QED BY <1>4, <1>5 DEF Newest

\* A lane that holds its cell's guard answers for that cell alone.
LEMMA KeptOn ==
  ASSUME RingInv, NEW l \in Lanes, OnItsOwn(l), lane[l] \in Locked, NEW d, d = cell'[TicketCell(l)],
         d.sequence # 0 => /\ d.sequence \in put' /\ CellOf(d.sequence) = TicketCell(l)
                           /\ d.first = d.sequence /\ d.second = d.sequence,
         lane'[l] \notin Filling => \A s \in put' : CellOf(s) = TicketCell(l) => s <= d.sequence,
         lane'[l] \in Filling => /\ d.sequence = 0
                                 /\ \A s \in put' : CellOf(s) = TicketCell(l) => s < Ticket(l),
         lane'[l] \in {"word2", "publish"} => d.first = Ticket(l),
         lane'[l] = "publish" => d.second = Ticket(l)
  PROVE  Newest'
<1>1. /\ \A m \in Lanes : Ticket(m)' = Ticket(m) /\ TicketCell(m)' = TicketCell(m)
      /\ \A m \in Lanes : m # l => lane'[m] = lane[m]
      /\ \A m \in Lanes : lane[l] \in Locked /\ m # l /\ lane[m] \in Locked
                                => TicketCell(m) # TicketCell(l)
      /\ Filling \subseteq Locked /\ Locked \subseteq Ticketed
  BY OwnTicket
<1>2. /\ put \subseteq put' /\ put' \subseteq put \cup {Ticket(l)}
      /\ \A c \in RingPlaces : c # TicketCell(l) => cell'[c] = cell[c]
  BY DEF OnItsOwn
<1>3. /\ \A m \in Lanes : TicketCell(m) \in RingPlaces
      /\ CellOf(Ticket(l)) = TicketCell(l)
  BY TicketPlace DEF RingInv
<1>4. /\ \A c \in RingPlaces :
            /\ cell[c].sequence # 0 =>
                  /\ cell[c].sequence \in put /\ CellOf(cell[c].sequence) = c
                  /\ cell[c].first = cell[c].sequence /\ cell[c].second = cell[c].sequence
            /\ (\A m \in Lanes : lane[m] \in Filling => TicketCell(m) # c) =>
                  \A s \in put : CellOf(s) = c => s <= cell[c].sequence
      /\ \A m \in Lanes :
            /\ lane[m] \in Filling =>
                  /\ cell[TicketCell(m)].sequence = 0
                  /\ \A s \in put : CellOf(s) = TicketCell(m) => s < Ticket(m)
            /\ lane[m] \in {"word2", "publish"} => cell[TicketCell(m)].first = Ticket(m)
            /\ lane[m] = "publish" => cell[TicketCell(m)].second = Ticket(m)
  BY DEF RingInv, Ring, Newest
<1>5. ASSUME NEW c \in RingPlaces
      PROVE /\ cell'[c].sequence # 0 =>
                    /\ cell'[c].sequence \in put' /\ CellOf(cell'[c].sequence) = c
                    /\ cell'[c].first = cell'[c].sequence /\ cell'[c].second = cell'[c].sequence
            /\ (\A m \in Lanes : lane'[m] \in Filling => TicketCell(m)' # c) =>
                    \A s \in put' : CellOf(s) = c => s <= cell'[c].sequence
  <2>1. CASE c = TicketCell(l)
    BY <1>1, <2>1
  <2>2. CASE c # TicketCell(l)
    <3>1. cell'[c] = cell[c]
      BY <1>2, <2>2
    <3>2. \A s \in put' : CellOf(s) = c => s \in put
      BY <1>2, <1>3, <2>2
    <3>3. (\A m \in Lanes : lane'[m] \in Filling => TicketCell(m)' # c)
             => (\A m \in Lanes : lane[m] \in Filling => TicketCell(m) # c)
      BY <1>1, <2>2
    <3>4. (\A m \in Lanes : lane'[m] \in Filling => TicketCell(m)' # c) =>
                    \A s \in put' : CellOf(s) = c => s <= cell'[c].sequence
      BY <1>4, <3>1, <3>2, <3>3
    <3>5. cell'[c].sequence # 0 =>
                    /\ cell'[c].sequence \in put' /\ CellOf(cell'[c].sequence) = c
                    /\ cell'[c].first = cell'[c].sequence /\ cell'[c].second = cell'[c].sequence
      BY <1>2, <1>4, <3>1
    <3> QED BY <3>4, <3>5
  <2> QED BY <2>1, <2>2
<1>6. ASSUME NEW m \in Lanes
      PROVE /\ lane'[m] \in Filling =>
                    /\ cell'[TicketCell(m)'].sequence = 0
                    /\ \A s \in put' : CellOf(s) = TicketCell(m)' => s < Ticket(m)'
            /\ lane'[m] \in {"word2", "publish"} => cell'[TicketCell(m)'].first = Ticket(m)'
            /\ lane'[m] = "publish" => cell'[TicketCell(m)'].second = Ticket(m)'
  <2>1. CASE m = l
    BY <1>1, <2>1
  <2>2. CASE m # l /\ lane[m] \in Filling
    <3>1. TicketCell(m) # TicketCell(l) /\ lane'[m] = lane[m] /\ Ticket(m)' = Ticket(m)
          /\ TicketCell(m)' = TicketCell(m)
      BY <1>1, <2>2
    <3>2. cell'[TicketCell(m)] = cell[TicketCell(m)]
      BY <1>2, <1>3, <3>1
    <3>3. \A s \in put' : CellOf(s) = TicketCell(m) => s \in put
      BY <1>2, <1>3, <3>1
    <3>4. \A s \in put' : CellOf(s) = TicketCell(m) => s < Ticket(m)
      BY <1>4, <2>2, <3>3
    <3>5. /\ cell[TicketCell(m)].sequence = 0
          /\ lane[m] \in {"word2", "publish"} => cell[TicketCell(m)].first = Ticket(m)
          /\ lane[m] = "publish" => cell[TicketCell(m)].second = Ticket(m)
      BY <1>4, <2>2
    <3> QED BY <3>1, <3>2, <3>4, <3>5
  <2>3. CASE m # l /\ lane[m] \notin Filling
    <3>1. lane'[m] = lane[m] /\ {"word2", "publish"} \subseteq Filling /\ "publish" \in Filling
      BY <1>1, <2>3 DEF Filling
    <3> QED BY <2>3, <3>1
  <2> QED BY <2>1, <2>2, <2>3
<1> QED BY <1>5, <1>6 DEF Newest

LEMMA PutOn ==
  ASSUME RingInv, NEW l \in Lanes, lane[l] \in Ticketed, NEW next \in Ticketed \cup {"close"},
         lane' = [lane EXCEPT ![l] = next], NEW d \in CellSet,
         cell' = [cell EXCEPT ![TicketCell(l)] = d],
         hook' \in [Lanes -> HookSet], \A m \in Lanes : m # l => hook'[m] = hook[m],
         hook'[l].site = hook[l].site, hook'[l].generation = hook[l].generation,
         hook'[l].at = hook[l].at, put' \in {put, put \cup {Ticket(l)}},
         UNCHANGED <<generation, until, count, open, active, thread, client, reader>>
  PROVE  /\ RingKinds' /\ Nested' /\ Windowed' /\ OnItsOwn(l)
         /\ lane'[l] = next /\ cell'[TicketCell(l)] = d
<1>1. next \in {"idle"} \cup Before \cup Ticketless \cup Ticketed
  BY DEF Ticketless
<1>2. /\ lane' \in [Lanes -> {"idle"} \cup Before \cup Ticketless \cup Ticketed] /\ lane'[l] = next
      /\ \A m \in Lanes : m # l => lane'[m] = lane[m]
  BY <1>1, LaneMoves DEF RingInv
<1>3. Ticket(l) \in Nat /\ 0 < Ticket(l) /\ TicketCell(l) \in RingPlaces
  BY TicketPlace DEF RingInv
<1>4. /\ cell' \in [RingPlaces -> CellSet] /\ cell'[TicketCell(l)] = d
      /\ \A c \in RingPlaces : c # TicketCell(l) => cell'[c] = cell[c]
  BY <1>3 DEF RingInv, RingKinds
<1>5. Ticket(l) <= count
  BY DEF RingInv, Ring, Owned
<1>6. put' \subseteq 1 .. count'
  <2>1. put \subseteq 1 .. count /\ count \in Nat
    BY RingNumbers DEF RingInv, RingKinds
  <2> QED BY <1>3, <1>5, <2>1
<1>7. RingKinds'
  BY <1>2, <1>4, <1>6 DEF RingInv, RingKinds, thread
<1>8. Alone(l)
  BY <1>2 DEF Alone
<1>9. OnItsOwn(l)
  BY <1>4, <1>8 DEF OnItsOwn
<1>10. lane'[l] \in Ticketless \cup Ticketed
  BY <1>2 DEF Ticketless
<1>11. Nested' /\ Windowed'
  BY <1>8, <1>10, OnTicket
<1> QED BY <1>2, <1>4, <1>7, <1>9, <1>11

\* The cell a ticket goes into, and its words.
LEMMA CellWords ==
  ASSUME RingInv, NEW l \in Lanes
  PROVE  /\ TicketCell(l) \in RingPlaces /\ cell[TicketCell(l)] \in CellSet /\ CellOf(Ticket(l)) = TicketCell(l)
         /\ Ticket(l) \in Nat /\ 0 < Ticket(l)
         /\ cell = [cell EXCEPT ![TicketCell(l)] = cell[TicketCell(l)]]
         /\ \A n \in Nat : /\ [cell[TicketCell(l)] EXCEPT !.sequence = n] \in CellSet
                           /\ [cell[TicketCell(l)] EXCEPT !.first = n] \in CellSet
                           /\ [cell[TicketCell(l)] EXCEPT !.second = n] \in CellSet
         /\ \A b \in {0, 1} : [cell[TicketCell(l)] EXCEPT !.guard = b] \in CellSet
<1>1. /\ TicketCell(l) \in RingPlaces /\ TicketCell(l) = CellOf(Ticket(l)) /\ Ticket(l) \in Nat /\ 0 < Ticket(l)
  BY TicketPlace DEF RingInv
<1>2. cell \in [RingPlaces -> CellSet]
  BY DEF RingInv, RingKinds
<1> DEFINE d == cell[TicketCell(l)]
<1>3. d \in CellSet
  BY <1>1, <1>2
<1>4. cell = [cell EXCEPT ![TicketCell(l)] = d]
  BY <1>2
<1> HIDE DEF d
<1>5. /\ \A n \in Nat : /\ [d EXCEPT !.sequence = n] \in CellSet /\ [d EXCEPT !.first = n] \in CellSet
                        /\ [d EXCEPT !.second = n] \in CellSet
      /\ \A b \in {0, 1} : [d EXCEPT !.guard = b] \in CellSet
  BY <1>3 DEF CellSet
<1> QED BY <1>1, <1>3, <1>4, <1>5 DEF d

\* A step on a ticket misleads no collector that reads its cell.
LEMMA PutOvertakes ==
  ASSUME RingInv, NEW l \in Lanes, OnItsOwn(l), UNCHANGED reader,
         \/ cell'[TicketCell(l)].sequence \in {0, cell[TicketCell(l)].sequence}
         \/ cell'[TicketCell(l)].sequence = Ticket(l) /\ lane[l] # "unlock"
  PROVE  Reported'
<1>1. count \in Nat
  BY RingNumbers DEF RingInv
<1>2. lane[l] # "unlock" => Ticket(l) \notin put
  BY DEF OnItsOwn, RingInv, Ring, Owned
<1>3. \A c \in RingPlaces : \/ cell'[c].sequence \in {0, cell[c].sequence} \/ cell'[c].sequence \notin put
  BY <1>2 DEF OnItsOwn
<1>4. count' = count /\ put \subseteq put'
  BY DEF OnItsOwn
<1>5. count' \in Nat /\ count <= count'
  BY <1>1, <1>4
<1> QED BY <1>3, <1>4, <1>5, Overtaken

\* A guard is taken, found taken, or not got.
LEMMA ClaimOK == ASSUME RingInv, NEW l \in Lanes, Claim(l) PROVE RingInv'
<1> DEFINE d == cell[TicketCell(l)]
<1>1. /\ lane[l] = "claim" /\ UNCHANGED <<client, reader, put>>
      /\ UNCHANGED <<generation, until, count, open, active, thread>>
  BY DEF Claim, LaneAt, Put
<1>2. \/ /\ d.guard = 0 /\ cell' = [cell EXCEPT ![TicketCell(l)] = [d EXCEPT !.guard = 1]]
         /\ lane' = [lane EXCEPT ![l] = "compare"] /\ UNCHANGED hook
      \/ /\ cell' = cell /\ \E next \in {"close", "claim"} : lane' = [lane EXCEPT ![l] = next]
         /\ hook' = hook \/ hook' = [hook EXCEPT ![l] = [hook[l] EXCEPT !.tries = hook[l].tries + 1]]
  BY DEF Claim, Put, LaneGoes, Tries
<1>3. /\ hook' \in [Lanes -> HookSet] /\ \A m \in Lanes : m # l => hook'[m] = hook[m]
      /\ hook'[l].site = hook[l].site /\ hook'[l].generation = hook[l].generation
      /\ hook'[l].at = hook[l].at
  <2>1. hook \in [Lanes -> HookSet] /\ hook[l] \in HookSet /\ hook[l].tries + 1 \in Nat
    BY DEF RingInv, RingKinds, HookSet
  <2>2. CASE hook' = hook
    BY <2>1, <2>2
  <2>3. CASE hook' = [hook EXCEPT ![l] = [hook[l] EXCEPT !.tries = hook[l].tries + 1]]
    <3>1. [hook[l] EXCEPT !.tries = hook[l].tries + 1] \in HookSet
      BY <2>1, HookNumber DEF RingInv
    <3>2. /\ hook' \in [Lanes -> HookSet] /\ \A m \in Lanes : m # l => hook'[m] = hook[m]
          /\ hook'[l] = [hook[l] EXCEPT !.tries = hook[l].tries + 1]
      BY <2>3, <3>1, HookMoves DEF RingInv
    <3> QED BY <2>1, <3>2 DEF HookSet
  <2> QED BY <1>2, <2>2, <2>3
<1>4. /\ d \in CellSet /\ cell = [cell EXCEPT ![TicketCell(l)] = d] /\ TicketCell(l) \in RingPlaces
      /\ [d EXCEPT !.guard = 1] \in CellSet
  BY CellWords
<1>5. \A c \in RingPlaces : cell[c] \in CellSet
  BY DEF RingInv, RingKinds
<1> HIDE DEF d
<1>6. lane[l] \in Ticketed /\ lane[l] \notin Filling /\ lane[l] # "unlock"
  BY <1>1 DEF Ticketed, Locked, Filling
<1>7. CASE /\ d.guard = 0 /\ cell' = [cell EXCEPT ![TicketCell(l)] = [d EXCEPT !.guard = 1]]
           /\ lane' = [lane EXCEPT ![l] = "compare"]
  <2>1. "compare" \in Ticketed /\ "compare" \notin Filling
    BY DEF Ticketed, Locked, Filling
  <2>2. /\ RingKinds' /\ Nested' /\ Windowed' /\ OnItsOwn(l)
        /\ lane'[l] = "compare" /\ cell'[TicketCell(l)] = [d EXCEPT !.guard = 1]
    BY <1>1, <1>3, <1>4, <1>6, <1>7, <2>1, PutOn
  <2>3. cell'[TicketCell(l)].guard = 1 /\ cell'[TicketCell(l)].sequence = d.sequence
        /\ cell'[TicketCell(l)].first = d.first /\ cell'[TicketCell(l)].second = d.second
    BY <1>4, <2>2 DEF CellSet
  <2>4. Owned'
    BY <1>1, <1>6, <1>7, <2>2, <2>3, OwnedOn DEF d
  <2>5. \A c \in RingPlaces : cell'[c].sequence = cell[c].sequence /\ cell'[c].first = cell[c].first
                          /\ cell'[c].second = cell[c].second
    BY <2>2, <2>3 DEF OnItsOwn, d
  <2>6. Newest'
    BY <1>1, <1>6, <2>1, <2>2, <2>5, KeptAside
  <2>7. Reported'
    BY <1>1, <2>2, <2>3, PutOvertakes DEF d
  <2> QED BY <2>2, <2>4, <2>6, <2>7 DEF RingInv, Ring
<1>8. CASE cell' = cell /\ \E next \in {"close", "claim"} : lane' = [lane EXCEPT ![l] = next]
  <2>1. PICK next \in {"close", "claim"} : lane' = [lane EXCEPT ![l] = next]
    BY <1>8
  <2>2. next \in Ticketed \cup {"close"} /\ next \notin Locked /\ next \notin Filling
    BY DEF Ticketed, Locked, Filling
  <2>3. /\ RingKinds' /\ Nested' /\ Windowed' /\ OnItsOwn(l) /\ lane'[l] = next
    <3>1. cell' = [cell EXCEPT ![TicketCell(l)] = d]
      BY <1>4, <1>8
    <3> QED BY <1>1, <1>3, <1>4, <1>6, <2>1, <2>2, <3>1, PutOn
  <2>4. Owned'
    BY <1>1, <1>6, <1>8, <2>2, <2>3, OwnedOn
  <2>5. Newest'
    BY <1>1, <1>6, <1>8, <2>2, <2>3, KeptAside
  <2>6. Reported'
    BY <1>1, <1>8, <2>3, PutOvertakes
  <2> QED BY <2>3, <2>4, <2>5, <2>6 DEF RingInv, Ring
<1> QED BY <1>2, <1>7, <1>8

\* The guard is given back, by a lane whose ticket is put or came too late.
LEMMA GivenBack ==
  ASSUME RingInv, NEW l \in Lanes, lane[l] \in {"compare", "unlock"},
         lane' = [lane EXCEPT ![l] = "close"],
         cell' = [cell EXCEPT ![TicketCell(l)] = [cell[TicketCell(l)] EXCEPT !.guard = 0]],
         UNCHANGED <<hook, put, generation, until, count, open, active, thread, client, reader>>
  PROVE  RingInv'
<1> DEFINE d == cell[TicketCell(l)]
<1>1. /\ d \in CellSet /\ [d EXCEPT !.guard = 0] \in CellSet
      /\ hook \in [Lanes -> HookSet] /\ cell \in [RingPlaces -> CellSet]
  BY CellWords DEF RingInv, RingKinds
<1> HIDE DEF d
<1>2. /\ lane[l] \in Locked /\ lane[l] \in Ticketed /\ lane[l] \notin Filling
      /\ "close" \notin Ticketed /\ "close" \notin Locked /\ "close" \notin Filling
  BY DEF Ticketed, Locked, Filling
<1>3. /\ RingKinds' /\ Nested' /\ Windowed' /\ OnItsOwn(l)
      /\ lane'[l] = "close" /\ cell'[TicketCell(l)] = [d EXCEPT !.guard = 0]
  BY <1>1, <1>2, PutOn DEF d
<1>4. cell'[TicketCell(l)].sequence = d.sequence
      /\ cell'[TicketCell(l)].first = d.first /\ cell'[TicketCell(l)].second = d.second
  BY <1>1, <1>3 DEF CellSet
<1>5. Owned'
  BY <1>2, <1>3, OwnedOn
<1>6. \A c \in RingPlaces : cell'[c].sequence = cell[c].sequence /\ cell'[c].first = cell[c].first
                        /\ cell'[c].second = cell[c].second
  BY <1>3, <1>4 DEF OnItsOwn, d
<1>7. Newest'
  BY <1>2, <1>3, <1>6, KeptAside
<1>8. Reported'
  BY <1>3, <1>4, PutOvertakes DEF d
<1> QED BY <1>3, <1>5, <1>7, <1>8 DEF RingInv, Ring

\* One more word of a cell by the lane that holds its guard.
LEMMA Filled ==
  ASSUME RingInv, NEW l \in Lanes, lane[l] \in Locked \ {"unlock"}, NEW next \in Filling,
         lane' = [lane EXCEPT ![l] = next], NEW d \in CellSet,
         cell' = [cell EXCEPT ![TicketCell(l)] = d], d.guard = cell[TicketCell(l)].guard,
         d.sequence = 0, \A s \in put : CellOf(s) = TicketCell(l) => s < Ticket(l),
         next \in {"word2", "publish"} => d.first = Ticket(l),
         next = "publish" => d.second = Ticket(l),
         UNCHANGED <<hook, put, generation, until, count, open, active, thread, client, reader>>
  PROVE  RingInv'
<1>1. hook \in [Lanes -> HookSet]
  BY DEF RingInv, RingKinds
<1>2. lane[l] \in Locked /\ lane[l] \in Ticketed /\ next \in Ticketed /\ next \in Locked
  BY DEF Ticketed, Locked
<1>3. /\ RingKinds' /\ Nested' /\ Windowed' /\ OnItsOwn(l)
      /\ lane'[l] = next /\ cell'[TicketCell(l)] = d
  BY <1>1, <1>2, PutOn
<1>4. cell[TicketCell(l)].guard = 1
  BY <1>2 DEF RingInv, Ring, Owned
<1>5. Owned'
  BY <1>2, <1>3, <1>4, OwnedOn
<1>6. Newest'
  BY <1>2, <1>3, KeptOn
<1>7. Reported'
  BY <1>3, PutOvertakes
<1> QED BY <1>3, <1>5, <1>6, <1>7 DEF RingInv, Ring

\* A ticket that is older than what its cell holds is dropped.
LEMMA CompareOK == ASSUME RingInv, NEW l \in Lanes, CompareTicket(l) PROVE RingInv'
<1> DEFINE d == cell[TicketCell(l)]
<1>1. /\ lane[l] = "compare"
      /\ UNCHANGED <<hook, put, generation, until, count, open, active, thread, client, reader>>
  BY DEF CompareTicket, LaneAt, Put
<1>2. \/ /\ cell' = [cell EXCEPT ![TicketCell(l)] = [d EXCEPT !.guard = 0]]
         /\ lane' = [lane EXCEPT ![l] = "close"]
      \/ /\ ~(d.sequence >= Ticket(l))
         /\ cell' = [cell EXCEPT ![TicketCell(l)] = [d EXCEPT !.sequence = 0]]
         /\ lane' = [lane EXCEPT ![l] = "word1"]
  BY DEF CompareTicket, Put, LaneGoes
<1>3. CASE /\ cell' = [cell EXCEPT ![TicketCell(l)] = [d EXCEPT !.guard = 0]]
           /\ lane' = [lane EXCEPT ![l] = "close"]
  BY <1>1, <1>3, GivenBack
<1>4. CASE /\ ~(d.sequence >= Ticket(l))
           /\ cell' = [cell EXCEPT ![TicketCell(l)] = [d EXCEPT !.sequence = 0]]
           /\ lane' = [lane EXCEPT ![l] = "word1"]
  <2>1. /\ TicketCell(l) \in RingPlaces /\ d \in CellSet /\ [d EXCEPT !.sequence = 0] \in CellSet
        /\ Ticket(l) \in Nat
    BY CellWords
  <2>2. lane[l] \in Locked /\ lane[l] \notin Filling /\ Filling \subseteq Locked
    BY <1>1 DEF Locked, Filling
  <2>3. \A m \in Lanes : lane[m] \in Filling => TicketCell(m) # TicketCell(l)
    BY <2>2 DEF RingInv, Ring, Owned
  <2>4. \A s \in put : CellOf(s) = TicketCell(l) => s <= d.sequence
    BY <2>1, <2>3 DEF RingInv, Ring, Newest
  <2>5. d.sequence \in Nat /\ put \subseteq Nat
    BY <2>1, RingNumbers DEF CellSet, RingInv
  <2>6. \A s \in put : CellOf(s) = TicketCell(l) => s < Ticket(l)
    BY <1>4, <2>1, <2>4, <2>5
  <2>7. [d EXCEPT !.sequence = 0].guard = d.guard /\ [d EXCEPT !.sequence = 0].sequence = 0
    BY <2>1 DEF CellSet
  <2>8. lane[l] \in Locked \ {"unlock"} /\ "word1" \in Filling /\ "word1" \notin {"word2", "publish"}
    BY <1>1, <2>2 DEF Filling
  <2> HIDE DEF d
  <2>9. cell' = [cell EXCEPT ![TicketCell(l)] = [d EXCEPT !.sequence = 0]]
        /\ lane' = [lane EXCEPT ![l] = "word1"]
    BY <1>4
  <2>10. [d EXCEPT !.sequence = 0].guard = cell[TicketCell(l)].guard
    BY <2>7 DEF d
  <2> QED BY <1>1, <2>1, <2>6, <2>7, <2>8, <2>9, <2>10, Filled
<1> QED BY <1>2, <1>3, <1>4

LEMMA FillOK == ASSUME RingInv, NEW l \in Lanes, FillCell(l) PROVE RingInv'
<1> DEFINE d == cell[TicketCell(l)]
<1>1. UNCHANGED <<hook, put, generation, until, count, open, active, thread, client, reader>>
  BY DEF FillCell, LaneAt, Put
<1>2. \/ /\ lane[l] = "word1" /\ lane' = [lane EXCEPT ![l] = "word2"]
         /\ cell' = [cell EXCEPT ![TicketCell(l)] = [d EXCEPT !.first = Ticket(l)]]
      \/ /\ lane[l] = "word2" /\ lane' = [lane EXCEPT ![l] = "publish"]
         /\ cell' = [cell EXCEPT ![TicketCell(l)] = [d EXCEPT !.second = Ticket(l)]]
  BY DEF FillCell, LaneAt, LaneGoes, Put
<1>3. lane[l] \in Filling /\ lane[l] \in Locked \ {"unlock"} /\ {"word2", "publish"} \subseteq Filling
  BY <1>2 DEF Locked, Filling
<1>4. /\ TicketCell(l) \in RingPlaces /\ d \in CellSet /\ Ticket(l) \in Nat
      /\ [d EXCEPT !.first = Ticket(l)] \in CellSet /\ [d EXCEPT !.second = Ticket(l)] \in CellSet
  BY CellWords
<1>5. /\ d.sequence = 0 /\ \A s \in put : CellOf(s) = TicketCell(l) => s < Ticket(l)
      /\ lane[l] = "word2" => d.first = Ticket(l)
  BY <1>3 DEF RingInv, Ring, Newest
<1>6. CASE /\ lane[l] = "word1" /\ lane' = [lane EXCEPT ![l] = "word2"]
           /\ cell' = [cell EXCEPT ![TicketCell(l)] = [d EXCEPT !.first = Ticket(l)]]
  <2> DEFINE e == [d EXCEPT !.first = Ticket(l)]
  <2>1. e.guard = d.guard /\ e.sequence = 0 /\ e.first = Ticket(l) /\ e \in CellSet
    BY <1>4, <1>5 DEF CellSet
  <2>2. cell' = [cell EXCEPT ![TicketCell(l)] = e] /\ e.guard = cell[TicketCell(l)].guard
    BY <1>6, <2>1
  <2> HIDE DEF e, d
  <2>3. "word2" \in Filling /\ "word2" # "publish"
    BY <1>3
  <2> QED BY <1>1, <1>3, <1>5, <1>6, <2>1, <2>2, <2>3, Filled
<1>7. CASE /\ lane[l] = "word2" /\ lane' = [lane EXCEPT ![l] = "publish"]
           /\ cell' = [cell EXCEPT ![TicketCell(l)] = [d EXCEPT !.second = Ticket(l)]]
  <2> DEFINE e == [d EXCEPT !.second = Ticket(l)]
  <2>1. /\ e.guard = d.guard /\ e.sequence = 0 /\ e.first = Ticket(l) /\ e.second = Ticket(l)
        /\ e \in CellSet
    BY <1>4, <1>5, <1>7 DEF CellSet
  <2>2. cell' = [cell EXCEPT ![TicketCell(l)] = e] /\ e.guard = cell[TicketCell(l)].guard
    BY <1>7, <2>1
  <2> HIDE DEF e, d
  <2>3. "publish" \in Filling
    BY <1>3
  <2> QED BY <1>1, <1>3, <1>5, <1>7, <2>1, <2>2, <2>3, Filled
<1> QED BY <1>2, <1>6, <1>7

\* The cell says whose words it holds, and the ticket is put.
LEMMA PublishOK == ASSUME RingInv, NEW l \in Lanes, Publish(l) PROVE RingInv'
<1> DEFINE d == cell[TicketCell(l)]
           e == [d EXCEPT !.sequence = Ticket(l)]
<1>1. /\ lane[l] = "publish" /\ lane' = [lane EXCEPT ![l] = "unlock"]
      /\ cell' = [cell EXCEPT ![TicketCell(l)] = e] /\ put' = put \cup {Ticket(l)}
      /\ UNCHANGED <<hook, generation, until, count, open, active, thread, client, reader>>
  BY DEF Publish, LaneAt, LaneGoes, Put
<1>2. /\ lane[l] \in Filling /\ lane[l] \in Locked /\ lane[l] \in Ticketed
      /\ "unlock" \in Locked /\ "unlock" \in Ticketed /\ "unlock" \notin Filling
      /\ "unlock" \notin {"word2", "publish"}
  BY <1>1 DEF Ticketed, Locked, Filling
<1>3. /\ TicketCell(l) \in RingPlaces /\ d \in CellSet /\ Ticket(l) \in Nat /\ e \in CellSet
      /\ CellOf(Ticket(l)) = TicketCell(l) /\ hook \in [Lanes -> HookSet] /\ put \subseteq Nat
  BY CellWords, RingNumbers DEF RingInv, RingKinds
<1>4. /\ d.guard = 1 /\ d.first = Ticket(l) /\ d.second = Ticket(l)
      /\ \A s \in put : CellOf(s) = TicketCell(l) => s < Ticket(l)
  BY <1>1, <1>2 DEF RingInv, Ring, Owned, Newest
<1>5. /\ e.guard = 1 /\ e.first = Ticket(l) /\ e.second = Ticket(l) /\ e.sequence = Ticket(l)
  BY <1>3, <1>4 DEF CellSet
<1> HIDE DEF d, e
<1>6. /\ RingKinds' /\ Nested' /\ Windowed' /\ OnItsOwn(l)
      /\ lane'[l] = "unlock" /\ cell'[TicketCell(l)] = e
  BY <1>1, <1>2, <1>3, PutOn
<1>7. Owned'
  BY <1>1, <1>2, <1>5, <1>6, OwnedOn
<1>8. \A s \in put' : CellOf(s) = TicketCell(l) => s <= e.sequence
  BY <1>1, <1>3, <1>4, <1>5
<1>9. Ticket(l) \in put'
  BY <1>1
<1>10. Newest'
  BY <1>2, <1>3, <1>5, <1>6, <1>8, <1>9, KeptOn
<1>11. Reported'
  BY <1>1, <1>5, <1>6, PutOvertakes
<1> QED BY <1>6, <1>7, <1>10, <1>11 DEF RingInv, Ring

LEMMA UnlockOK == ASSUME RingInv, NEW l \in Lanes, Unlock(l) PROVE RingInv'
<1>1. /\ lane[l] \in {"compare", "unlock"} /\ lane' = [lane EXCEPT ![l] = "close"]
      /\ cell' = [cell EXCEPT ![TicketCell(l)] = [cell[TicketCell(l)] EXCEPT !.guard = 0]]
      /\ UNCHANGED <<hook, put, generation, until, count, open, active, thread, client, reader>>
  BY DEF Unlock, LaneAt, LaneGoes, Put
<1> QED BY <1>1, GivenBack

-------------------------------------------------------------------------------
(* The client opens a window, the clock closes it.                               *)

LEMMA OthersKept ==
  ASSUME RingInv, OthersStay
  PROVE  Nested' /\ Ring' /\ Reported'
<1>1. UNCHANGED <<count, cell, open, active, getters, frames, beyond, lane, hook, reader, put>>
  BY DEF OthersStay, thread
<1>2. Nested'
  BY <1>1 DEF RingInv, Nested, Depth
<1>3. Ring'
  BY <1>1 DEF RingInv, Ring, Owned, Newest, Ticket, TicketCell
<1>4. Reported'
  BY <1>1 DEF RingInv, Reported, Collected, Copied, NotSeen, Seen
<1> QED BY <1>2, <1>3, <1>4

LEMMA ExpireOK == ASSUME RingInv, Expire PROVE RingInv'
<1>1. /\ until' = FALSE /\ UNCHANGED <<generation, client>> /\ OthersStay
      /\ UNCHANGED <<count, cell, open, active, getters, frames, beyond, lane, hook, reader, put>>
  BY DEF Expire, OthersStay, thread
<1>2. RingKinds'
  BY <1>1 DEF RingInv, RingKinds
<1>3. Windowed'
  BY <1>1 DEF RingInv, Windowed, Inside, Entered
<1> QED BY <1>1, <1>2, <1>3, OthersKept DEF RingInv

\* Where the client stands among the lanes that are still inside.
LEMMA Standing ==
  ASSUME RingInv
  PROVE  /\ generation \in Nat /\ generation <= 2 * Windows /\ Windows \in Nat
         /\ client.pc = "idle" <=> generation % 2 = 0
         /\ client.lane \in Lanes /\ client.lane \in Nat
         /\ client.pc \in {"idle", "open", "active", "until", "even"}
         /\ \A l \in Lanes :
               /\ l \in Nat /\ hook[l].generation \in Nat /\ hook[l].generation <= generation
               /\ hook[l].generation % 2 = 0
               /\ client.pc # "idle" => hook[l].generation <= generation - 1
               /\ client.pc = "idle" /\ Inside(l) => generation = hook[l].generation
               /\ client.pc # "idle" /\ Inside(l) =>
                     /\ generation = hook[l].generation + 1 /\ client.lane <= l
                     /\ client.pc \in {"open", "active"} /\ active[l] # 0
<1>1. /\ generation \in Nat /\ generation <= 2 * Windows /\ Windows \in Nat
      /\ Lanes = 1 .. Cardinality(Lanes) /\ Cardinality(Lanes) \in Nat
  BY RingSizes DEF RingInv, RingKinds
<1>2. /\ client.pc = "idle" <=> generation % 2 = 0
      /\ client.lane \in Lanes /\ client.pc \in {"idle", "open", "active", "until", "even"}
  BY DEF RingInv, RingKinds, Windowed
<1>3. ASSUME NEW l \in Lanes
      PROVE /\ l \in Nat /\ hook[l].generation \in Nat /\ hook[l].generation <= generation
            /\ hook[l].generation % 2 = 0
            /\ client.pc # "idle" => hook[l].generation <= generation - 1
            /\ client.pc = "idle" /\ Inside(l) => generation = hook[l].generation
            /\ client.pc # "idle" /\ Inside(l) =>
                  /\ generation = hook[l].generation + 1 /\ client.lane <= l
                  /\ client.pc \in {"open", "active"} /\ active[l] # 0
  <2>1. l \in Nat
    BY <1>1
  <2>2. hook[l].generation \in Nat
    BY DEF RingInv, RingKinds, HookSet
  <2>3. /\ hook[l].generation % 2 = 0 /\ hook[l].generation <= generation
        /\ active[l] = IF lane[l] = "again" \/ Inside(l) THEN hook[l].generation ELSE 0
        /\ Inside(l) => \/ generation = hook[l].generation
                        \/ /\ generation = hook[l].generation + 1
                           /\ client.pc \in {"open", "active"} /\ client.lane <= l
    BY DEF RingInv, Windowed
  <2>4. Inside(l) => hook[l].generation # 0
    BY DEF Inside, Entered
  <2>5. client.pc # "idle" => generation # hook[l].generation
    BY <1>2, <2>3
  <2>6. client.pc # "idle" => hook[l].generation <= generation - 1
    BY <1>1, <2>2, <2>3, <2>5
  <2> QED BY <1>2, <2>1, <2>2, <2>3, <2>4, <2>5, <2>6
<1>4. client.lane \in Nat
  BY <1>1, <1>2
<1> QED BY <1>1, <1>2, <1>3, <1>4

\* A change of the generation or of the client's place is for the hooks to agree with.
LEMMA Moved ==
  ASSUME RingInv, OthersStay, generation' \in 0 .. 2 * Windows, until' \in BOOLEAN,
         client' \in [pc : {"idle", "open", "active", "until", "even"}, lane : Lanes],
         client'.pc = "idle" <=> generation' % 2 = 0,
         \A l \in Lanes : hook[l].generation <= generation',
         \A l \in Lanes : Inside(l) =>
              \/ generation' = hook[l].generation
              \/ /\ generation' = hook[l].generation + 1
                 /\ client'.pc \in {"open", "active"} /\ client'.lane <= l
  PROVE  RingInv'
<1>1. UNCHANGED <<count, cell, open, active, getters, frames, beyond, lane, hook, reader, put>>
  BY DEF OthersStay, thread
<1>2. RingKinds'
  BY <1>1 DEF RingInv, RingKinds
<1>3. \A l \in Lanes : Inside(l)' <=> Inside(l)
  BY <1>1 DEF Inside, Entered
<1>4. Windowed'
  BY <1>1, <1>3 DEF RingInv, Windowed
<1> QED BY <1>2, <1>4, OthersKept DEF RingInv

LEMMA BeginOK == ASSUME RingInv, BeginWindow PROVE RingInv'
<1>1. /\ client.pc = "idle" /\ generation < 2 * Windows /\ generation % 2 = 0
      /\ generation' = generation + 1 /\ client' = [pc |-> "open", lane |-> 1]
      /\ UNCHANGED until /\ OthersStay
  BY DEF BeginWindow
<1>2. /\ generation \in Nat /\ Windows \in Nat
      /\ \A l \in Lanes : /\ l \in Nat /\ hook[l].generation \in Nat /\ hook[l].generation <= generation
                          /\ Inside(l) => generation = hook[l].generation
  BY <1>1, Standing
<1>3. 1 \in Lanes /\ \A l \in Lanes : 1 <= l
  BY RingSizes
<1>4. client' \in [pc : {"idle", "open", "active", "until", "even"}, lane : Lanes]
      /\ client'.pc = "open" /\ client'.lane = 1
  BY <1>1, <1>3
<1>5. generation' \in 0 .. 2 * Windows /\ generation' % 2 = 1
  BY <1>1, <1>2
<1>6. \A l \in Lanes : hook[l].generation <= generation'
  BY <1>1, <1>2
<1>7. until' \in BOOLEAN
  BY <1>1 DEF RingInv, RingKinds
<1>8. \A l \in Lanes : Inside(l) => /\ generation' = hook[l].generation + 1
                                    /\ client'.pc \in {"open", "active"} /\ client'.lane <= l
  BY <1>1, <1>2, <1>3, <1>4
<1> QED BY <1>1, <1>4, <1>5, <1>6, <1>7, <1>8, Moved

\* A lane is passed once it is in no generation.
LEMMA ScanOK == ASSUME RingInv, Scan PROVE RingInv'
<1>1. UNCHANGED until /\ OthersStay /\ until' \in BOOLEAN
  BY DEF Scan, RingInv, RingKinds
<1>2. /\ generation \in Nat /\ generation <= 2 * Windows /\ Windows \in Nat
      /\ client.lane \in Lanes /\ client.lane \in Nat
  BY Standing
<1>3. client.pc \in {"open", "active"}
  BY DEF Scan
<1>4. /\ generation % 2 # 0
      /\ \A l \in Lanes : /\ l \in Nat /\ hook[l].generation \in Nat
                          /\ hook[l].generation <= generation /\ hook[l].generation <= generation - 1
                          /\ Inside(l) => /\ generation = hook[l].generation + 1
                                          /\ client.lane <= l /\ active[l] # 0
  BY <1>3, Standing
<1>5. client \in [pc : {"idle", "open", "active", "until", "even"}, lane : Lanes]
  BY DEF RingInv, RingKinds
<1>6. CASE client' = [client EXCEPT !.pc = "active"] /\ UNCHANGED generation
  <2>1. client' \in [pc : {"idle", "open", "active", "until", "even"}, lane : Lanes]
        /\ client'.pc = "active" /\ client'.lane = client.lane
    BY <1>5, <1>6
  <2>2. generation' \in 0 .. 2 * Windows /\ generation' % 2 # 0 /\ generation' = generation
    BY <1>2, <1>4, <1>6
  <2> QED BY <1>1, <1>4, <2>1, <2>2, Moved
<1>7. CASE active[client.lane] = 0 /\ client' = Passed /\ UNCHANGED generation
  <2>0. Lanes = 1 .. Cardinality(Lanes) /\ Cardinality(Lanes) \in Nat /\ 1 \in Lanes
    BY RingSizes
  <2>1. \A l \in Lanes : Inside(l) => client.lane < l
    BY <1>2, <1>4, <1>7
  <2>2. CASE client.lane = Cardinality(Lanes)
    <3>1. client' = [pc |-> "until", lane |-> 1]
      BY <1>7, <2>2 DEF Passed
    <3>2. client' \in [pc : {"idle", "open", "active", "until", "even"}, lane : Lanes]
          /\ client'.pc # "idle"
      BY <2>0, <3>1
    <3>3. \A l \in Lanes : ~Inside(l)
      BY <2>0, <2>1, <2>2
    <3>4. generation' \in 0 .. 2 * Windows /\ generation' % 2 # 0 /\ generation' = generation
      BY <1>2, <1>4, <1>7
    <3> QED BY <1>1, <1>4, <3>2, <3>3, <3>4, Moved
  <2>3. CASE client.lane # Cardinality(Lanes)
    <3>1. client' = [pc |-> "open", lane |-> client.lane + 1]
      BY <1>7, <2>3 DEF Passed
    <3>2. client.lane + 1 \in Lanes
      BY <1>2, <2>0, <2>3
    <3>3. client' \in [pc : {"idle", "open", "active", "until", "even"}, lane : Lanes]
          /\ client'.pc = "open" /\ client'.lane = client.lane + 1
      BY <3>1, <3>2
    <3>4. generation' \in 0 .. 2 * Windows /\ generation' % 2 # 0 /\ generation' = generation
      BY <1>2, <1>4, <1>7
    <3>5. \A l \in Lanes : Inside(l) => client'.lane <= l
      BY <1>2, <1>4, <2>1, <3>3
    <3> QED BY <1>1, <1>4, <3>3, <3>4, <3>5, Moved
  <2> QED BY <2>2, <2>3
<1>8. CASE client' = [pc |-> "idle", lane |-> 1] /\ generation' = generation - 1
  <2>1. client' \in [pc : {"idle", "open", "active", "until", "even"}, lane : Lanes]
        /\ client'.pc = "idle"
    BY <1>8, RingSizes
  <2>2. generation # 0
    BY <1>4
  <2>3. generation' \in 0 .. 2 * Windows /\ generation' % 2 = 0
    BY <1>2, <1>4, <1>8, <2>2
  <2>4. \A l \in Lanes : hook[l].generation <= generation'
                         /\ (Inside(l) => generation' = hook[l].generation)
    BY <1>2, <1>4, <1>8
  <2> QED BY <1>1, <2>1, <2>3, <2>4, Moved
<1>9. \/ client' = [client EXCEPT !.pc = "active"] /\ UNCHANGED generation
      \/ active[client.lane] = 0 /\ client' = Passed /\ UNCHANGED generation
      \/ client' = [pc |-> "idle", lane |-> 1] /\ generation' = generation - 1
  BY DEF Scan
<1> QED BY <1>6, <1>7, <1>8, <1>9

\* The window opens once every lane is passed: no hook is inside an earlier one.
LEMMA OpensOK == ASSUME RingInv, Opens PROVE RingInv'
<1>1. /\ OthersStay
      /\ \/ client.pc = "until" /\ until' = TRUE /\ UNCHANGED generation
            /\ client' = [client EXCEPT !.pc = "even"]
         \/ client.pc = "even" /\ generation' = generation + 1 /\ UNCHANGED until
            /\ client' = [client EXCEPT !.pc = "idle"]
  BY DEF Opens
<1>2. /\ generation \in Nat /\ generation <= 2 * Windows /\ Windows \in Nat
  BY Standing
<1>3. /\ generation % 2 # 0 /\ \A l \in Lanes : ~Inside(l)
      /\ \A l \in Lanes : hook[l].generation \in Nat /\ hook[l].generation <= generation
  BY <1>1, Standing
<1>4. client \in [pc : {"idle", "open", "active", "until", "even"}, lane : Lanes]
  BY DEF RingInv, RingKinds
<1>5. until' \in BOOLEAN
  BY <1>1 DEF RingInv, RingKinds
<1>6. CASE UNCHANGED generation /\ client' = [client EXCEPT !.pc = "even"]
  <2>1. client' \in [pc : {"idle", "open", "active", "until", "even"}, lane : Lanes]
        /\ client'.pc = "even"
    BY <1>4, <1>6
  <2>2. generation' \in 0 .. 2 * Windows /\ generation' % 2 # 0 /\ generation' = generation
    BY <1>2, <1>3, <1>6
  <2> QED BY <1>1, <1>3, <1>5, <2>1, <2>2, Moved
<1>7. CASE generation' = generation + 1 /\ client' = [client EXCEPT !.pc = "idle"]
  <2>1. client' \in [pc : {"idle", "open", "active", "until", "even"}, lane : Lanes]
        /\ client'.pc = "idle"
    BY <1>4, <1>7
  <2>2. generation # 2 * Windows
    BY <1>2, <1>3
  <2>3. generation' \in 0 .. 2 * Windows /\ generation' % 2 = 0
    BY <1>2, <1>3, <1>7, <2>2
  <2>4. \A l \in Lanes : hook[l].generation <= generation'
    BY <1>2, <1>3, <1>7
  <2> QED BY <1>1, <1>3, <1>5, <2>1, <2>3, <2>4, Moved
<1> QED BY <1>1, <1>6, <1>7

-------------------------------------------------------------------------------
(* The collector.                                                                *)

\* What the rest of the ring keeps while the collector works.
LEMMA Collecting ==
  ASSUME RingInv, UNCHANGED <<published, thread, lane, hook, client>>
  PROVE  Nested' /\ Ring' /\ Windowed'
<1>1. UNCHANGED <<generation, until, count, cell, open, active, put, getters, frames, beyond, lane, hook, client>>
  BY DEF published, thread
<1>2. Nested'
  BY <1>1 DEF RingInv, Nested, Depth
<1>3. Ring'
  BY <1>1 DEF RingInv, Ring, Owned, Newest, Ticket, TicketCell
<1>4. Windowed'
  BY <1>1 DEF RingInv, Windowed, Inside, Entered
<1> QED BY <1>2, <1>3, <1>4

LEMMA CollectorKept ==
  ASSUME RingInv, UNCHANGED <<published, thread, lane, hook, client>>, reader' \in ReaderSet,
         Collected', Copied'
  PROVE  RingInv'
<1>1. RingKinds'
  BY DEF RingInv, RingKinds, published, thread
<1> QED BY <1>1, Collecting DEF RingInv, Reported

\* What a cell's memory says of the tickets the ring may still hold.
LEMMA Remembered ==
  ASSUME RingInv
  PROVE  /\ \A s \in reader.shown : s >= reader.floor => ~NotSeen(s)
         /\ \A s \in Nat : s >= reader.floor /\ ~NotSeen(s) => s \in reader.shown
         /\ \A s \in reader.shown : s \in Nat /\ 0 < s /\ s < reader.floor + Cells
<1>1. /\ reader.floor \in Nat /\ 0 < reader.floor /\ Cells \in Nat \ {0}
      /\ \A c \in RingPlaces : reader.seen[c] \in Nat
      /\ put \subseteq Nat /\ \A s \in put : 0 < s
  BY RingNumbers, RingSizes DEF RingInv
<1>2. /\ reader.shown \subseteq put
      /\ \A s \in reader.shown : s < reader.floor + Cells /\ s <= reader.seen[CellOf(s)]
      /\ \A c \in RingPlaces : reader.seen[c] # 0 =>
            reader.seen[c] \in reader.shown /\ CellOf(reader.seen[c]) = c
  BY DEF RingInv, Reported, Collected
<1>3. ASSUME NEW s \in reader.shown, s >= reader.floor
      PROVE  ~NotSeen(s)
  <2>1. s \in Nat /\ 0 < s
    BY <1>1, <1>2
  <2>2. CellOf(s) \in RingPlaces
    BY <2>1, CellPlace
  <2> DEFINE t == reader.seen[CellOf(s)]
  <2>3. t \in Nat /\ s <= t
    BY <1>1, <1>2, <2>2
  <2>4. t # 0
    BY <2>1, <2>3
  <2>5. t \in reader.shown /\ CellOf(t) = CellOf(s)
    BY <1>2, <2>2, <2>4
  <2>6. t < reader.floor + Cells
    BY <1>2, <2>5
  <2> HIDE DEF t
  <2>7. ASSUME s < t PROVE FALSE
    <3>1. CellOf(s) = CellOf(t)
      BY <2>5
    <3>2. s + Cells <= t
      BY <2>1, <2>3, <2>7, <3>1, CellApart
    <3> QED BY <1>1, <1>3, <2>1, <2>3, <2>6, <3>2
  <2>8. s = t
    BY <2>1, <2>3, <2>7
  <2> QED BY <2>8 DEF t, NotSeen
<1>4. ASSUME NEW s \in Nat, s >= reader.floor, ~NotSeen(s)
      PROVE  s \in reader.shown
  <2>1. 0 < s
    BY <1>1, <1>4
  <2>2. CellOf(s) \in RingPlaces /\ reader.seen[CellOf(s)] = s
    BY <1>4, <2>1, CellPlace DEF NotSeen
  <2> QED BY <1>2, <2>1, <2>2
<1>5. \A s \in reader.shown : s \in Nat /\ 0 < s /\ s < reader.floor + Cells
  BY <1>1, <1>2
<1> QED BY <1>3, <1>4, <1>5

\* A pass begins: what has left the ring unseen is missed.
LEMMA CollectOK == ASSUME RingInv, NEW final \in BOOLEAN, Collect(final) PROVE RingInv'
<1>1. /\ reader.pc = "idle" /\ UNCHANGED <<published, thread, lane, hook, client>>
      /\ reader' = [reader EXCEPT !.pc = "next", !.final = final, !.count = count, !.sequence = Low,
                                  !.floor = Low, !.missed = @ \cup Passing]
  BY DEF Collect, Reading
<1>2. /\ count \in Nat /\ reader.floor \in Nat /\ 0 < reader.floor /\ Cells \in Nat \ {0}
      /\ reader \in ReaderSet
  BY RingNumbers, RingSizes DEF RingInv, RingKinds
<1>3. reader.floor = 1 \/ reader.floor + Cells <= count + 1
  BY DEF RingInv, Reported, Collected
<1>4. /\ Low \in Nat \ {0} /\ reader.floor <= Low /\ count < Low + Cells
      /\ Low = 1 \/ Low + Cells <= count + 1
  BY <1>2, <1>3 DEF Low
<1>5. Passing \subseteq Nat /\ \A s \in Passing : s >= reader.floor /\ s < Low
                                                  /\ (s >= reader.floor + Cells \/ NotSeen(s))
  <2> SUFFICES ASSUME NEW s \in Passing
               PROVE  s \in Nat /\ s >= reader.floor /\ s < Low
                      /\ (s >= reader.floor + Cells \/ NotSeen(s))
    OBVIOUS
  <2>1. s \in reader.floor .. Low - 1 /\ (s - reader.floor >= Cells \/ NotSeen(s))
    BY DEF Passing
  <2> QED BY <1>2, <1>4, <2>1
<1>6. reader' \in ReaderSet
  <2>1. reader.missed \cup Passing \in SUBSET Nat
    BY <1>2, <1>5 DEF ReaderSet
  <2> QED BY <1>1, <1>2, <1>4, <2>1 DEF ReaderSet
<1>7. /\ reader'.pc = "next" /\ reader'.count = count /\ reader'.sequence = Low /\ reader'.floor = Low
      /\ reader'.missed = reader.missed \cup Passing /\ reader'.shown = reader.shown
      /\ reader'.seen = reader.seen /\ reader'.wrong = reader.wrong
  BY <1>1, <1>2 DEF ReaderSet
<1>8. /\ ~reader.wrong /\ reader.shown \cap reader.missed = {} /\ reader.shown \subseteq put
      /\ \A s \in reader.shown : s < reader.floor + Cells /\ s <= reader.seen[CellOf(s)]
      /\ \A c \in RingPlaces : reader.seen[c] # 0 =>
            reader.seen[c] \in reader.shown /\ CellOf(reader.seen[c]) = c
      /\ \A s \in reader.missed : s < reader.floor
      /\ 1 .. reader.floor - 1 \subseteq reader.shown \cup reader.missed
  BY <1>1 DEF RingInv, Reported, Collected
<1>9. reader.shown \cap Passing = {}
  <2> SUFFICES ASSUME NEW s \in reader.shown, s \in Passing PROVE FALSE
    OBVIOUS
  <2>1. s \in Nat /\ s < reader.floor + Cells /\ (s >= reader.floor => ~NotSeen(s))
    BY Remembered
  <2> QED BY <1>2, <1>5, <2>1
<1>10. \A s \in reader.missed \cup Passing : s < Low
  <2>1. reader.missed \subseteq Nat
    BY <1>2 DEF ReaderSet
  <2>2. \A s \in reader.missed : s < Low
    BY <1>2, <1>4, <1>8, <2>1
  <2> QED BY <1>5, <2>2
<1>11. 1 .. Low - 1 \subseteq reader.shown \cup reader.missed \cup Passing
  <2> SUFFICES ASSUME NEW s \in 1 .. Low - 1, s \notin Passing
               PROVE  s \in reader.shown \cup reader.missed
    OBVIOUS
  <2>1. s \in Nat /\ 1 <= s /\ s <= Low - 1
    BY <1>4
  <2>2. CASE s < reader.floor
    <3>1. s \in 1 .. reader.floor - 1
      BY <1>2, <2>1, <2>2
    <3> QED BY <1>8, <3>1
  <2>3. CASE s >= reader.floor
    <3>1. s \in reader.floor .. Low - 1
      BY <1>2, <1>4, <2>1, <2>3
    <3>2. ~NotSeen(s)
      BY <3>1 DEF Passing
    <3> QED BY <2>1, <2>3, <3>2, Remembered
  <2> QED BY <1>2, <2>1, <2>2, <2>3
<1>12. Collected'
  <2>1. \A s \in reader.shown : s < Low + Cells /\ s \in Nat
    BY <1>2, <1>4, Remembered
  <2>2. UNCHANGED <<count, put>>
    BY <1>1 DEF published
  <2>3. reader'.shown \cap reader'.missed = {}
    BY <1>7, <1>8, <1>9
  <2>4. reader'.floor = 1 \/ reader'.floor + Cells <= count' + 1
    BY <1>4, <1>7, <2>2
  <2>5. \A s \in reader'.shown : s < reader'.floor + Cells /\ s <= reader'.seen[CellOf(s)]
    BY <1>7, <1>8, <2>1
  <2>6. reader'.count < reader'.floor + Cells /\ reader'.floor <= reader'.sequence
    BY <1>4, <1>7
  <2>7. /\ \A s \in reader'.missed : s < reader'.floor
        /\ 1 .. reader'.floor - 1 \subseteq reader'.shown \cup reader'.missed
    BY <1>7, <1>10, <1>11
  <2>8. /\ ~reader'.wrong /\ reader'.shown \subseteq put' /\ reader'.pc \notin {"idle", "ended"}
        /\ \A c \in RingPlaces : reader'.seen[c] # 0 =>
            reader'.seen[c] \in reader'.shown /\ CellOf(reader'.seen[c]) = c
    BY <1>7, <1>8, <2>2
  <2> QED BY <2>3, <2>4, <2>5, <2>6, <2>7, <2>8 DEF Collected
<1>13. Copied'
  BY <1>7 DEF Copied
<1> QED BY <1>1, <1>6, <1>12, <1>13, CollectorKept

\* A pass ends; the last one misses what it did not see.
LEMMA FinishOK == ASSUME RingInv, Finish PROVE RingInv'
<1> DEFINE unseen == {s \in reader.floor .. reader.count : NotSeen(s)}
<1>1. /\ reader.pc = "next" /\ UNCHANGED <<published, thread, lane, hook, client>>
      /\ \/ reader' = [reader EXCEPT !.pc = "ended", !.missed = @ \cup unseen]
         \/ reader' = [reader EXCEPT !.pc = "idle", !.count = 0, !.sequence = 0]
  BY DEF Finish, Reading
<1>2. /\ reader.floor \in Nat /\ 0 < reader.floor /\ reader.count \in Nat /\ reader \in ReaderSet
  BY RingNumbers DEF RingInv, RingKinds
<1>3. /\ ~reader.wrong /\ reader.shown \cap reader.missed = {} /\ reader.shown \subseteq put
      /\ reader.floor = 1 \/ reader.floor + Cells <= count + 1
      /\ \A s \in reader.shown : s < reader.floor + Cells /\ s <= reader.seen[CellOf(s)]
      /\ \A c \in RingPlaces : reader.seen[c] # 0 =>
            reader.seen[c] \in reader.shown /\ CellOf(reader.seen[c]) = c
      /\ \A s \in reader.missed : s < reader.floor
      /\ 1 .. reader.floor - 1 \subseteq reader.shown \cup reader.missed
  BY <1>1 DEF RingInv, Reported, Collected
<1>4. UNCHANGED <<count, put>>
  BY <1>1 DEF published
<1>5. unseen \subseteq Nat /\ \A s \in unseen : s >= reader.floor /\ NotSeen(s)
  BY <1>2
<1>6. reader.shown \cap unseen = {}
  BY <1>5, Remembered
<1>7. 1 .. reader.count \subseteq reader.shown \cup reader.missed \cup unseen
  <2> SUFFICES ASSUME NEW s \in 1 .. reader.count, s \notin unseen
               PROVE  s \in reader.shown \cup reader.missed
    OBVIOUS
  <2>1. s \in Nat /\ 1 <= s /\ s <= reader.count
    BY <1>2
  <2>2. CASE s < reader.floor
    <3>1. s \in 1 .. reader.floor - 1
      BY <1>2, <2>1, <2>2
    <3> QED BY <1>3, <3>1
  <2>3. CASE s >= reader.floor
    <3>1. ~NotSeen(s)
      BY <1>2, <2>1, <2>3
    <3> QED BY <2>1, <2>3, <3>1, Remembered
  <2> QED BY <1>2, <2>1, <2>2, <2>3
<1> HIDE DEF unseen
<1>8. CASE reader' = [reader EXCEPT !.pc = "ended", !.missed = @ \cup unseen]
  <2>1. reader.missed \cup unseen \in SUBSET Nat
    BY <1>2, <1>5 DEF ReaderSet
  <2>2. /\ reader' \in ReaderSet /\ reader'.pc = "ended" /\ reader'.missed = reader.missed \cup unseen
        /\ reader'.shown = reader.shown /\ reader'.seen = reader.seen /\ reader'.wrong = reader.wrong
        /\ reader'.floor = reader.floor /\ reader'.count = reader.count
    BY <1>2, <1>8, <2>1 DEF ReaderSet
  <2>3. Collected'
    BY <1>3, <1>4, <1>6, <1>7, <2>2 DEF Collected
  <2>4. Copied'
    BY <2>2 DEF Copied
  <2> QED BY <1>1, <2>2, <2>3, <2>4, CollectorKept
<1>9. CASE reader' = [reader EXCEPT !.pc = "idle", !.count = 0, !.sequence = 0]
  <2>1. /\ reader' \in ReaderSet /\ reader'.pc = "idle" /\ reader'.missed = reader.missed
        /\ reader'.shown = reader.shown /\ reader'.seen = reader.seen /\ reader'.wrong = reader.wrong
        /\ reader'.floor = reader.floor
    BY <1>2, <1>9 DEF ReaderSet
  <2>2. Collected'
    BY <1>3, <1>4, <2>1 DEF Collected
  <2>3. Copied'
    BY <2>1 DEF Copied
  <2> QED BY <1>1, <2>1, <2>2, <2>3, CollectorKept
<1> QED BY <1>1, <1>8, <1>9

\* A ticket is passed over, or its cell is read word by word.
LEMMA Looking ==
  ASSUME RingInv, reader.pc \notin {"idle", "ended"},
         UNCHANGED <<published, thread, lane, hook, client>>, reader' \in ReaderSet,
         reader'.pc \notin {"idle", "ended"}, reader'.count = reader.count,
         reader'.sequence \in {reader.sequence, reader.sequence + 1}, reader'.floor = reader.floor,
         reader'.seen = reader.seen, reader'.shown = reader.shown, reader'.missed = reader.missed,
         reader'.wrong = reader.wrong, Copied'
  PROVE  RingInv'
<1>1. UNCHANGED <<count, put>> /\ reader.sequence \in Nat /\ reader.floor \in Nat
  BY RingNumbers DEF published, RingInv
<1>2. reader.floor <= reader.sequence
  BY DEF RingInv, Reported, Collected
<1>3. reader.floor <= reader'.sequence
  BY <1>1, <1>2
<1>4. Collected'
  BY <1>1, <1>3 DEF RingInv, Reported, Collected
<1> QED BY <1>4, CollectorKept

\* What the cell of the ticket looked at says.
LEMMA Looked ==
  ASSUME RingInv, reader.pc \notin {"idle", "ended"}
  PROVE  /\ reader.sequence \in Nat /\ reader.floor <= reader.sequence /\ 0 < reader.sequence
         /\ reader.count < reader.floor + Cells
         /\ CellOf(reader.sequence) \in RingPlaces /\ Seen \in CellSet
         /\ Seen.sequence = reader.sequence => /\ reader.sequence \in put
                                               /\ Seen.first = reader.sequence
                                               /\ Seen.second = reader.sequence
<1>1. reader.sequence \in Nat /\ reader.floor \in Nat /\ 0 < reader.floor
  BY RingNumbers DEF RingInv
<1>2. reader.floor <= reader.sequence /\ reader.count < reader.floor + Cells
  BY DEF RingInv, Reported, Collected
<1>3. 0 < reader.sequence
  BY <1>1, <1>2
<1>4. CellOf(reader.sequence) \in RingPlaces
  BY <1>1, <1>3, CellPlace
<1>5. Seen \in CellSet
  BY <1>4 DEF RingInv, RingKinds, Seen
<1>6. Seen.sequence = reader.sequence => /\ reader.sequence \in put
                                         /\ Seen.first = reader.sequence
                                         /\ Seen.second = reader.sequence
  BY <1>3, <1>4 DEF RingInv, Ring, Newest, Seen
<1> QED BY <1>1, <1>2, <1>3, <1>4, <1>5, <1>6

\* The collector that moves on, part by part.
LEMMA ReaderParts ==
  ASSUME NEW final \in BOOLEAN, NEW floor \in Nat \ {0}, NEW limit \in Nat, NEW next \in Nat,
         NEW memory \in [RingPlaces -> Nat], NEW shown \in SUBSET Nat, NEW missed \in SUBSET Nat
  PROVE  [pc |-> "next", final |-> final, floor |-> floor, count |-> limit, sequence |-> next,
          first |-> 0, second |-> 0, seen |-> memory, shown |-> shown, missed |-> missed,
          wrong |-> FALSE] \in ReaderSet
<1> QED BY DEF ReaderSet

\* A ticket whose words are whole is shown, for the first time.
LEMMA ShownOK ==
  ASSUME RingInv, reader.pc = "check", Seen.sequence = reader.sequence,
         UNCHANGED <<published, thread, lane, hook, client>>,
         reader' = [Passes EXCEPT !.seen[CellOf(reader.sequence)] = reader.sequence,
                                  !.shown = @ \cup {reader.sequence},
                                  !.wrong = @ \/ ~Whole \/ reader.sequence \in reader.shown]
  PROVE  RingInv'
<1> DEFINE n == reader.sequence
<1>1. /\ n \in Nat /\ reader.floor <= n /\ 0 < n /\ reader.count < reader.floor + Cells
      /\ CellOf(n) \in RingPlaces /\ n \in put
  BY Looked
<1>2. n <= reader.count /\ NotSeen(n) /\ reader.first = n /\ reader.second = n
  BY DEF RingInv, Reported, Copied
<1>3. Whole
  BY <1>2 DEF Whole
<1>4. n \notin reader.shown
  BY <1>1, <1>2, Remembered
<1>5. /\ reader.floor \in Nat /\ 0 < reader.floor /\ reader.count \in Nat /\ reader \in ReaderSet
      /\ Cells \in Nat \ {0} /\ reader.seen \in [RingPlaces -> Nat] /\ reader.shown \subseteq Nat
  BY RingNumbers, RingSizes DEF RingInv, RingKinds, ReaderSet
<1>6. /\ ~reader.wrong /\ reader.shown \cap reader.missed = {} /\ reader.shown \subseteq put
      /\ reader.floor = 1 \/ reader.floor + Cells <= count + 1
      /\ \A s \in reader.shown : s < reader.floor + Cells /\ s <= reader.seen[CellOf(s)]
      /\ \A c \in RingPlaces : reader.seen[c] # 0 =>
            reader.seen[c] \in reader.shown /\ CellOf(reader.seen[c]) = c
      /\ \A s \in reader.missed : s < reader.floor
      /\ 1 .. reader.floor - 1 \subseteq reader.shown \cup reader.missed
  BY DEF RingInv, Reported, Collected
<1>7. UNCHANGED <<count, put>>
  BY DEF published
<1> DEFINE memory == [reader.seen EXCEPT ![CellOf(n)] = n]
<1>8. reader' = [reader EXCEPT !.pc = "next", !.sequence = n + 1, !.first = 0, !.second = 0,
                               !.seen = memory, !.shown = reader.shown \cup {n}, !.wrong = FALSE]
  BY <1>3, <1>4, <1>5, <1>6 DEF Passes, ReaderSet
<1>9. /\ memory \in [RingPlaces -> Nat] /\ memory[CellOf(n)] = n
      /\ \A c \in RingPlaces : c # CellOf(n) => memory[c] = reader.seen[c]
  BY <1>1, <1>5
<1> HIDE DEF n, memory
<1>10. /\ reader' \in ReaderSet /\ reader'.pc = "next" /\ reader'.sequence = n + 1
       /\ reader'.seen = memory /\ reader'.shown = reader.shown \cup {n} /\ reader'.wrong = FALSE
       /\ reader'.floor = reader.floor /\ reader'.missed = reader.missed
       /\ reader'.count = reader.count
  <2> DEFINE printed == reader.shown \cup {n}
             next == n + 1
  <2>1. printed \in SUBSET Nat /\ next \in Nat
    BY <1>1, <1>5
  <2>2. reader' = [reader EXCEPT !.pc = "next", !.sequence = next, !.first = 0, !.second = 0,
                                 !.seen = memory, !.shown = printed, !.wrong = FALSE]
    BY <1>8
  <2> HIDE DEF printed, next
  <2>3. reader' \in ReaderSet
    <3>1. reader' = [pc |-> "next", final |-> reader.final, floor |-> reader.floor,
                     count |-> reader.count, sequence |-> next, first |-> 0, second |-> 0,
                     seen |-> memory, shown |-> printed, missed |-> reader.missed, wrong |-> FALSE]
      BY <1>5, <2>2 DEF ReaderSet
    <3>2. /\ reader.final \in BOOLEAN /\ reader.floor \in Nat \ {0} /\ reader.count \in Nat
          /\ reader.missed \in SUBSET Nat
      BY <1>5 DEF ReaderSet
    <3>3. memory \in [RingPlaces -> Nat] /\ printed \in SUBSET Nat /\ next \in Nat
      BY <1>9, <2>1
    <3>4. [pc |-> "next", final |-> reader.final, floor |-> reader.floor,
           count |-> reader.count, sequence |-> next, first |-> 0, second |-> 0,
           seen |-> memory, shown |-> printed, missed |-> reader.missed, wrong |-> FALSE] \in ReaderSet
      BY <3>2, <3>3, ReaderParts
    <3> QED BY <3>1, <3>4
  <2>4. /\ reader'.pc = "next" /\ reader'.sequence = next
        /\ reader'.seen = memory /\ reader'.shown = printed /\ reader'.wrong = FALSE
        /\ reader'.floor = reader.floor /\ reader'.missed = reader.missed
        /\ reader'.count = reader.count
    BY <1>5, <2>2 DEF ReaderSet
  <2> QED BY <2>3, <2>4 DEF printed, next
<1>11. n < reader.floor + Cells /\ n \notin reader.missed
  <2>1. n < reader.floor + Cells
    BY <1>1, <1>2, <1>5
  <2>2. ASSUME n \in reader.missed PROVE FALSE
    BY <1>1, <1>5, <1>6, <2>2
  <2> QED BY <2>1, <2>2
<1>12. ASSUME NEW s \in reader.shown \cup {n}
       PROVE  s < reader.floor + Cells /\ s <= memory[CellOf(s)]
  <2>1. CASE s = n
    BY <1>1, <1>9, <1>11, <2>1
  <2>2. CASE s # n
    <3>1. s \in reader.shown /\ s \in Nat /\ 0 < s /\ s < reader.floor + Cells
      BY <2>2, Remembered
    <3>2. CASE CellOf(s) = CellOf(n)
      <4>1. ASSUME n < s PROVE FALSE
        <5>1. n + Cells <= s
          BY <1>1, <3>1, <3>2, <4>1, CellApart
        <5> QED BY <1>1, <1>5, <3>1, <5>1
      <4>2. s <= n
        BY <1>1, <3>1, <4>1
      <4> QED BY <1>9, <3>1, <3>2, <4>2
    <3>3. CASE CellOf(s) # CellOf(n)
      <4>1. CellOf(s) \in RingPlaces
        BY <3>1, CellPlace
      <4> QED BY <1>6, <1>9, <3>1, <3>3, <4>1
    <3> QED BY <3>2, <3>3
  <2> QED BY <2>1, <2>2
<1>13. ASSUME NEW c \in RingPlaces, memory[c] # 0
       PROVE  memory[c] \in reader.shown \cup {n} /\ CellOf(memory[c]) = c
  <2>1. CASE c = CellOf(n)
    BY <1>9, <2>1
  <2>2. CASE c # CellOf(n)
    BY <1>6, <1>9, <1>13, <2>2
  <2> QED BY <2>1, <2>2
<1>14. Collected'
  <2>1. (reader.shown \cup {n}) \cap reader.missed = {}
    BY <1>6, <1>11
  <2>2. reader.shown \cup {n} \subseteq put /\ reader.floor <= n + 1
    BY <1>1, <1>5, <1>6 DEF n
  <2> QED BY <1>1, <1>6, <1>7, <1>10, <1>12, <1>13, <2>1, <2>2 DEF Collected
<1>15. Copied'
  BY <1>10 DEF Copied
<1> QED BY <1>10, <1>14, <1>15, CollectorKept

LEMMA ReadOK == ASSUME RingInv, ReadCell PROVE RingInv'
<1>1. UNCHANGED <<published, thread, lane, hook, client>> /\ reader.pc \notin {"idle", "ended"}
  BY DEF ReadCell, Reading
<1>2. /\ reader \in ReaderSet /\ reader.sequence \in Nat /\ reader.sequence + 1 \in Nat
  BY RingNumbers DEF RingInv, RingKinds
<1>3. /\ reader.sequence \in Nat /\ Seen \in CellSet
      /\ Seen.sequence = reader.sequence => /\ reader.sequence \in put
                                            /\ Seen.first = reader.sequence
                                            /\ Seen.second = reader.sequence
  BY <1>1, Looked
<1>4. UNCHANGED <<count, put, cell>> /\ Seen.first \in Nat /\ Seen.second \in Nat
  BY <1>1, <1>3 DEF published, CellSet
<1>5. CASE reader' = Passes
  <2>1. /\ reader' \in ReaderSet /\ reader'.pc = "next" /\ reader'.count = reader.count
        /\ reader'.sequence = reader.sequence + 1 /\ reader'.floor = reader.floor
        /\ reader'.seen = reader.seen /\ reader'.shown = reader.shown
        /\ reader'.missed = reader.missed /\ reader'.wrong = reader.wrong
    BY <1>2, <1>5 DEF Passes, ReaderSet
  <2>2. Copied'
    BY <2>1 DEF Copied
  <2> QED BY <1>1, <2>1, <2>2, Looking
<1>6. CASE /\ reader.pc = "next" /\ reader.sequence <= reader.count
           /\ NotSeen(reader.sequence) /\ Seen.sequence = reader.sequence
           /\ reader' = [reader EXCEPT !.pc = "first"]
  <2>1. /\ reader' \in ReaderSet /\ reader'.pc = "first" /\ reader'.count = reader.count
        /\ reader'.sequence = reader.sequence /\ reader'.floor = reader.floor
        /\ reader'.seen = reader.seen /\ reader'.shown = reader.shown
        /\ reader'.missed = reader.missed /\ reader'.wrong = reader.wrong
    BY <1>2, <1>6 DEF ReaderSet
  <2>2. Copied'
    BY <1>3, <1>4, <1>6, <2>1 DEF Copied, NotSeen
  <2> QED BY <1>1, <2>1, <2>2, Looking
<1>7. CASE reader.pc = "first" /\ reader' = [reader EXCEPT !.pc = "second", !.first = Seen.first]
  <2>1. /\ reader' \in ReaderSet /\ reader'.pc = "second" /\ reader'.count = reader.count
        /\ reader'.sequence = reader.sequence /\ reader'.floor = reader.floor
        /\ reader'.seen = reader.seen /\ reader'.shown = reader.shown
        /\ reader'.missed = reader.missed /\ reader'.wrong = reader.wrong
        /\ reader'.first = Seen.first
    BY <1>2, <1>4, <1>7 DEF ReaderSet
  <2>2. reader.sequence \in put /\ reader.sequence <= reader.count /\ NotSeen(reader.sequence)
    BY <1>7 DEF RingInv, Reported, Copied
  <2>3. Seen' = Seen
    BY <1>4, <2>1 DEF Seen
  <2>4. Copied'
    BY <1>3, <1>4, <2>1, <2>2, <2>3 DEF Copied, NotSeen
  <2> QED BY <1>1, <2>1, <2>4, Looking
<1>8. CASE reader.pc = "second" /\ reader' = [reader EXCEPT !.pc = "check", !.second = Seen.second]
  <2>1. /\ reader' \in ReaderSet /\ reader'.pc = "check" /\ reader'.count = reader.count
        /\ reader'.sequence = reader.sequence /\ reader'.floor = reader.floor
        /\ reader'.seen = reader.seen /\ reader'.shown = reader.shown
        /\ reader'.missed = reader.missed /\ reader'.wrong = reader.wrong
        /\ reader'.second = Seen.second /\ reader'.first = reader.first
    BY <1>2, <1>4, <1>8 DEF ReaderSet
  <2>2. /\ reader.sequence \in put /\ reader.sequence <= reader.count /\ NotSeen(reader.sequence)
        /\ Seen.sequence = reader.sequence => reader.first = reader.sequence
    BY <1>8 DEF RingInv, Reported, Copied
  <2>3. Seen' = Seen
    BY <1>4, <2>1 DEF Seen
  <2>4. Copied'
    BY <1>3, <1>4, <2>1, <2>2, <2>3 DEF Copied, NotSeen
  <2> QED BY <1>1, <2>1, <2>4, Looking
<1>9. CASE /\ reader.pc = "check" /\ Seen.sequence = reader.sequence
           /\ reader' = [Passes EXCEPT !.seen[CellOf(reader.sequence)] = reader.sequence,
                            !.shown = @ \cup {reader.sequence},
                            !.wrong = @ \/ ~Whole \/ reader.sequence \in reader.shown]
  BY <1>1, <1>9, ShownOK
<1>10. \/ reader' = Passes
       \/ /\ reader.pc = "next" /\ reader.sequence <= reader.count
          /\ NotSeen(reader.sequence) /\ Seen.sequence = reader.sequence
          /\ reader' = [reader EXCEPT !.pc = "first"]
       \/ reader.pc = "first" /\ reader' = [reader EXCEPT !.pc = "second", !.first = Seen.first]
       \/ reader.pc = "second" /\ reader' = [reader EXCEPT !.pc = "check", !.second = Seen.second]
       \/ /\ reader.pc = "check" /\ Seen.sequence = reader.sequence
          /\ reader' = [Passes EXCEPT !.seen[CellOf(reader.sequence)] = reader.sequence,
                            !.shown = @ \cup {reader.sequence},
                            !.wrong = @ \/ ~Whole \/ reader.sequence \in reader.shown]
  BY DEF ReadCell, Reading
<1> QED BY <1>5, <1>6, <1>7, <1>8, <1>9, <1>10

-------------------------------------------------------------------------------
(* The theorems.                                                                 *)

LEMMA LaneHookOK == ASSUME RingInv, NEW l \in Lanes, LaneHook(l) PROVE RingInv'
<1>1. \/ \E site \in {"set", "get", "done"} : Observe(l, site)
      \/ EnterRing(l) \/ Mark(l) \/ Recheck(l) \/ Frame(l) \/ Close(l) \/ LeaveRing(l)
      \/ LoadCount(l) \/ Reserve(l) \/ Claim(l) \/ CompareTicket(l) \/ FillCell(l)
      \/ Publish(l) \/ Unlock(l)
  BY DEF LaneHook
<1> QED BY <1>1, ObserveOK, EnterOK, MarkOK, RecheckOK, FrameOK, CloseOK, LeaveOK, LoadCountOK,
           ReserveOK, ClaimOK, CompareOK, FillOK, PublishOK, UnlockOK

LEMMA RingStepOK == RingInv /\ [RingNext]_ringVars => RingInv'
<1> SUFFICES ASSUME RingInv, [RingNext]_ringVars PROVE RingInv'
  OBVIOUS
<1>1. CASE \E l \in Lanes : LaneHook(l)
  BY <1>1, LaneHookOK
<1>2. CASE Expire \/ BeginWindow \/ Scan \/ Opens
  BY <1>2, ExpireOK, BeginOK, ScanOK, OpensOK
<1>3. CASE Collect(FALSE) \/ Collect(TRUE)
  <2>1. \E final \in BOOLEAN : Collect(final)
    BY <1>3
  <2> QED BY <2>1, CollectOK
<1>4. CASE Finish \/ ReadCell
  BY <1>4, FinishOK, ReadOK
<1>5. CASE UNCHANGED ringVars
  <2>1. UNCHANGED <<generation, client>> /\ OthersStay /\ UNCHANGED until
    BY <1>5 DEF ringVars, OthersStay, thread
  <2>2. RingKinds'
    BY <1>5 DEF RingInv, RingKinds, ringVars
  <2>3. Windowed'
    BY <1>5 DEF RingInv, Windowed, Inside, Entered, ringVars
  <2> QED BY <2>1, <2>2, <2>3, OthersKept DEF RingInv
<1> QED BY <1>1, <1>2, <1>3, <1>4, <1>5 DEF RingNext

\* The ring's invariant: tickets and guards have one owner each, a cell shows the newest
\* ticket put into it or is being filled with a newer one, the collector has shown or
\* missed every ticket below its floor, and a hook is inside the generation that stands or
\* the one the client must still ask its lane about (command-state.h,
\* processor-observation.inc).
THEOREM RingHolds == RingSpec => []RingInv
<1>1. RingInit => RingInv
  BY RingInitOK
<1>2. RingInv /\ [RingNext]_ringVars => RingInv'
  BY RingStepOK
<1> QED BY <1>1, <1>2, PTL DEF RingSpec

\* The ring's variables have their types.
THEOREM RingTypes == RingSpec => []RingTypeOK
<1>1. RingInv => RingTypeOK
  <2> SUFFICES ASSUME RingInv PROVE RingTypeOK
    OBVIOUS
  <2>1. generation \in 0 .. 2 * Windows /\ until \in BOOLEAN /\ count \in 0 .. Tickets
        /\ put \subseteq 1 .. count
    BY DEF RingInv, RingKinds
  <2>2. ASSUME NEW l \in Lanes
        PROVE /\ Len(frames[l]) <= Frames /\ Len(frames[l]) + beyond[l] <= getters[l]
              /\ active[l] \in 0 .. generation /\ hook[l].at \in 0 .. Tickets
    <3>1. Len(frames[l]) <= Frames /\ Len(frames[l]) + beyond[l] <= getters[l]
      BY DEF RingInv, Nested, Depth
    <3>2. hook[l] \in HookSet /\ generation \in Nat
      BY RingNumbers DEF RingInv, RingKinds
    <3>3. hook[l].at \in 0 .. Tickets /\ hook[l].generation \in Nat
      BY <3>2 DEF HookSet
    <3>4. active[l] \in {hook[l].generation, 0} /\ hook[l].generation <= generation
      BY DEF RingInv, Windowed
    <3> QED BY <3>1, <3>2, <3>3, <3>4
  <2> QED BY <2>1, <2>2 DEF RingTypeOK
<1> QED BY <1>1, RingHolds, PTL

\* What the collector prints is an observation, whole, and once; it reports missing what
\* it did not print and, when it ends, no less than that; a cell at rest shows the newest
\* observation put into it; and no window opens while a hook that entered an earlier one
\* still runs (processor_collect, processor_publish, processor_begin).
THEOREM ObservationsStayTrue == RingSpec => []ObservationsAreTrue
<1>1. RingInv => ObservationsAreTrue
  <2> SUFFICES ASSUME RingInv PROVE ObservationsAreTrue
    OBVIOUS
  <2>1. /\ ~reader.wrong /\ reader.shown \cap reader.missed = {}
        /\ reader.pc = "ended" => 1 .. reader.count \subseteq reader.shown \cup reader.missed
    BY DEF RingInv, Reported, Collected
  <2>2. ASSUME NEW c \in DOMAIN cell, cell[c].guard = 0, NEW s \in put, CellOf(s) = c
        PROVE  s <= cell[c].sequence
    <3>1. c \in RingPlaces /\ Filling \subseteq Locked
      BY DEF RingInv, RingKinds, Locked
    <3>2. \A l \in Lanes : lane[l] \in Filling => TicketCell(l) # c
      BY <2>2, <3>1 DEF RingInv, Ring, Owned
    <3> QED BY <2>2, <3>1, <3>2 DEF RingInv, Ring, Newest
  <2>3. \A l \in Lanes : Entered(l) /\ lane[l] \notin {"mark", "again"} =>
           generation \in {hook[l].generation, hook[l].generation + 1}
    BY DEF RingInv, Windowed, Inside
  <2> QED BY <2>1, <2>2, <2>3 DEF ObservationsAreTrue
<1> QED BY <1>1, RingHolds, PTL
=============================================================================
