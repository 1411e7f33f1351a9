------------------------- MODULE SurfaceInput_proofs -------------------------
(***************************************************************************)
(* Proofs about the strips of the surface bridge, for any scene, any number *)
(* of Tracks, strips, slots and edges and any height of the faders: the     *)
(* bridge's types, that a position reaches the Track it was meant for, that *)
(* the last request wins, that nothing is published against itself and that *)
(* a motor yields to the hand.                                              *)
(*                                                                         *)
(* The operators of the invariant take the state they are about as their   *)
(* arguments: one event of the surface copies, forgets and then asks, and   *)
(* they hold between those three as well as after them.                     *)
(***************************************************************************)
EXTENDS SurfaceInput, SequenceTheorems, WellFoundedInduction, TLAPS

\* A copy of the application, and the application itself: its Tracks are distinct,
\* and there is at least one exactly while it is ready.
CopyOK(c) ==
    /\ c.ready \in BOOLEAN /\ c.epoch \in Nat /\ c.sel \in Serial \cup {None}
    /\ c.rows \in Seq(Serial)
    /\ \A r, q \in DOMAIN c.rows : c.rows[r] = c.rows[q] => r = q
    /\ c.ready <=> c.rows # <<>>
    /\ c.volume \in [Serial -> Position] /\ c.mute \in [Serial -> {0, 1}]

LiveOK ==
    /\ CopyOK(live)
    /\ live \in [epoch : Nat, ready : BOOLEAN, intent : BOOLEAN, next : Nat,
                 rows : Seq(Serial), sel : Serial \cup {None},
                 volume : [Serial -> Position], mute : [Serial -> {0, 1}]]
    /\ \A r \in DOMAIN live.rows : live.rows[r] < live.next
    /\ ~live.ready => live.next + scene.rows - 1 <= Serials
    /\ live.next > 0

FaderSet == [id : Serial \cup {None, Empty}, bits : Position, sent : Position \cup {-1},
             physical : Position \cup {-1}, touch : {"unknown", "up", "down"},
             wait : BOOLEAN]
BankSet(S) == [ready : BOOLEAN, epoch : Nat, offset : Nat, selected : Serial \cup {None},
               count : Nat, strips : [S -> Serial \cup {None}], fader : [S -> FaderSet]]
BankOK(S, b) ==
    /\ b \in BankSet(S)
    /\ b.ready => b.offset < b.count
    /\ ~b.ready => \A s \in S : b.fader[s].id = None
    /\ \A s, t \in S : b.fader[s].id \in Serial /\ b.fader[s].id = b.fader[t].id => s = t

InputSet(S) == [hold : [S -> [id : Serial \cup {None}, held : BOOLEAN]],
                move : [S -> [id : Serial \cup {None}, to : Position]],
                pick : [S -> [id : Serial \cup {None}, far : BOOLEAN]],
                edge : Seq([id : Serial, strip : S, to : {0, 1}]),
                error : {"none", "identity", "closed", "capacity"}]
InputOK(S, i) == i \in InputSet(S) /\ Len(i.edge) <= Edges
AskedOK(S, a) ==
    a \in [meant : [S -> Serial \cup {None, Empty}],
           move : [S -> [id : Serial \cup {None}, to : Position]],
           mute : [Serial -> {0, 1, 2}], pick : Serial \cup {None}]
SlotsOK(S, q) ==
    /\ q \in [1 .. Slots -> [phase : Unsettled \cup {"free", "settled", "reclaimed"},
                             field : {"volume", "mute", "select"}, id : Serial \cup {None},
                             strip : S \cup {0}, to : Position]]
    /\ \A n \in 1 .. Slots : q[n].field = "mute" => q[n].to \in {0, 1}

MoveInv(S, b, i, a) ==
    \A s \in S :
        /\ i.move[s].id \in {None, b.fader[s].id}
        /\ a.move[s].id \in {None, b.fader[s].id}
        /\ i.move[s].id # None /\ a.move[s].id # None => i.move[s] = a.move[s]
        /\ i.move[s].id # None => i.move[s].id = a.meant[s]
        /\ i.hold[s].held => i.hold[s].id = a.meant[s]
Sent(q, n, field) == q[n].phase = "sent" /\ q[n].field = field
MoveSent(S, i, a, q, l) ==
    \A s \in S : LET m == a.move[s] IN
        m.id # None /\ i.move[s].id = None =>
            /\ \A n \in 1 .. Slots : Sent(q, n, "volume") /\ q[n].id = m.id =>
                                     q[n].to = m.to /\ q[n].strip = s
            /\ \/ \E n \in 1 .. Slots : Sent(q, n, "volume") /\ q[n].id = m.id
               \/ l.volume[m.id] = m.to
PickInv(S, i, a, l) ==
    /\ \A s, t \in S : i.pick[s].id # None /\ i.pick[t].id # None => s = t
    /\ a.pick # None => /\ Has(l, a.pick)
                        /\ \A s \in S : i.pick[s].id \in {None, a.pick}
PickSent(S, i, a, q, l) ==
    a.pick # None /\ (\A s \in S : i.pick[s].id = None) =>
        /\ \A n \in 1 .. Slots : Sent(q, n, "select") => q[n].id = a.pick
        /\ (\E n \in 1 .. Slots : Sent(q, n, "select")) \/ l.sel = a.pick
EdgeInv(i, a) ==
    \A k \in DOMAIN i.edge :
        \/ a.mute[i.edge[k].id] \in {2, i.edge[k].to}
        \/ \E j \in DOMAIN i.edge : j > k /\ i.edge[j].id = i.edge[k].id
MuteSent(i, a, q, l) ==
    \A t \in Serial :
        a.mute[t] # 2 /\ (\A k \in DOMAIN i.edge : i.edge[k].id # t) =>
            /\ \A n \in 1 .. Slots : q[n].phase # "free" /\ q[n].field = "mute" /\ q[n].id = t
                                     => q[n].to = a.mute[t]
            /\ \/ \E n \in 1 .. Slots : Sent(q, n, "mute") /\ q[n].id = t
               \/ l.mute[t] = a.mute[t]
Done(q, field, id) ==
    \E n \in 1 .. Slots : q[n].phase = "done" /\ Same(q[n], field, id)
SnapInv(S, b, a, q, l, c) ==
    /\ \A s \in S : b.fader[s].id \in Serial => Has(c, b.fader[s].id)
    /\ b.ready => \A s \in S : b.strips[s] # None => Has(c, b.strips[s])
    /\ a.pick # None => Has(c, a.pick) /\ (l.sel = c.sel \/ Done(q, "select", None))
    /\ \A s \in S : LET t == a.move[s].id IN
          t # None => l.volume[t] = c.volume[t] \/ Done(q, "volume", t)
    /\ \A t \in Serial : a.mute[t] # 2 => l.mute[t] = c.mute[t] \/ Done(q, "mute", t)
\* The kinds of the state.
KindsOK ==
    /\ scene \in Scenes
    /\ pc \in {"events", "settle", "pump", "edges", "desires", "motors", "stopped"}
    /\ at \in [Strip -> Position]
    /\ LiveOK /\ CopyOK(snap) /\ CopyOK(batch)
    /\ BankOK(Strip, bank) /\ InputOK(Strip, input) /\ AskedOK(Strip, asked)
    /\ SlotsOK(Strip, slot)

HandInv(S, b, i, a, q, l) ==
    /\ MoveInv(S, b, i, a) /\ MoveSent(S, i, a, q, l)
    /\ PickInv(S, i, a, l) /\ PickSent(S, i, a, q, l)
    /\ EdgeInv(i, a) /\ MuteSent(i, a, q, l)

Pumping == {"settle", "pump", "edges", "desires"}
IInv ==
    /\ KindsOK
    /\ input.error # "closed"
    /\ ~on => \A s \in Strip : input.move[s].id = None /\ asked.move[s].id = None
    /\ HandInv(Strip, bank, input, asked, slot, live)
    /\ pc \in Pumping => SnapInv(Strip, bank, asked, slot, live, snap)

-----------------------------------------------------------------------------
LEMMA Sizes ==
    /\ Serials \in Nat \ {0} /\ Top \in Nat \ {0} /\ Slots \in Nat \ {0} /\ Edges \in Nat \ {0}
    /\ {0, 1} \subseteq Position /\ None \notin Serial /\ Empty \notin Serial /\ Empty # None
BY SurfaceAssumption, SlotsAssumption DEF Position, Serial, None, Empty

LEMMA SceneSizes ==
    ASSUME scene \in Scenes
    PROVE  scene.bank \in Nat \ {0} /\ scene.rows \in 1 .. Serials
BY SurfaceAssumption

\* Rounding down to whole banks.
LEMMA WholeBanks ==
    ASSUME NEW n \in Nat, NEW k \in Nat \ {0}
    PROVE  (n \div k) * k \in Nat /\ (n \div k) * k <= n
BY Z3

LEMMA DroppedOK ==
    ASSUME NEW b, BankOK(Strip, b)
    PROVE  /\ BankOK(Strip, Dropped(b)) /\ Dropped(b).ready = FALSE
           /\ \A s \in Strip : Dropped(b).fader[s].id = None
           /\ Dropped(b).offset = b.offset /\ Dropped(b).epoch = b.epoch
<1> DEFINE F == [s \in Strip |-> [b.fader[s] EXCEPT !.id = None, !.bits = 0, !.sent = -1,
                                                   !.wait = TRUE]]
<1>1. b \in BankSet(Strip)
    BY DEF BankOK
<1>2. F \in [Strip -> FaderSet] /\ \A s \in Strip : F[s].id = None
    <2> SUFFICES ASSUME NEW s \in Strip
                 PROVE  /\ [b.fader[s] EXCEPT !.id = None, !.bits = 0, !.sent = -1,
                                              !.wait = TRUE] \in FaderSet
                        /\ [b.fader[s] EXCEPT !.id = None, !.bits = 0, !.sent = -1,
                                              !.wait = TRUE].id = None
        OBVIOUS
    <2>1. b.fader[s] \in FaderSet
        BY <1>1 DEF BankSet
    <2> QED  BY <2>1, Sizes DEF FaderSet
<1>3. Dropped(b) = [b EXCEPT !.ready = FALSE, !.fader = F]
    BY DEF Dropped
<1> HIDE DEF F
<1>4. Dropped(b) \in BankSet(Strip)
    BY <1>1, <1>2, <1>3 DEF BankSet
<1>5. /\ Dropped(b).ready = FALSE /\ Dropped(b).fader = F
      /\ Dropped(b).offset = b.offset /\ Dropped(b).epoch = b.epoch
    BY <1>1, <1>3 DEF BankSet
<1> QED  BY <1>2, <1>4, <1>5, Sizes DEF BankOK

LEMMA NoBankOK ==
    ASSUME NEW b, b \in BankSet(Strip)
    PROVE  /\ BankOK(Strip, Disconnected(b)) /\ Disconnected(b).ready = FALSE
           /\ \A s \in Strip : Disconnected(b).fader[s].id = None
<1>1. NoFader \in FaderSet /\ NoFader.id = None
    BY Sizes DEF NoFader, FaderSet
<1>2. /\ NoBank \in BankSet(Strip) /\ NoBank.ready = FALSE
      /\ \A s \in Strip : NoBank.fader[s].id = None
    BY <1>1 DEF NoBank, BankSet
<1>3. Disconnected(b) \in BankSet(Strip)
    BY <1>2 DEF Disconnected, BankSet
<1>4. Disconnected(b).ready = FALSE /\ Disconnected(b).fader = NoBank.fader
    BY <1>2 DEF Disconnected, BankSet
<1> QED  BY <1>2, <1>3, <1>4, Sizes DEF BankOK

\* The offset a bank moves to is inside the project.
LEMMA OffsetOK ==
    ASSUME NEW b, BankOK(Strip, b), NEW c, CopyOK(c), scene \in Scenes
    PROVE  /\ Sought(b, c) \in Nat
           /\ Clamped(Sought(b, c), Len(c.rows)) \in Nat
           /\ Len(c.rows) # 0 => Clamped(Sought(b, c), Len(c.rows)) < Len(c.rows)
<1>1. b.offset \in Nat /\ Len(c.rows) \in Nat
    BY DEF BankOK, BankSet, CopyOK
<1>2. Sought(b, c) \in Nat
    <2>1. ASSUME Has(c, c.sel)
          PROVE  Row(c, c.sel) - 1 \in Nat
        BY <2>1 DEF Has, Row, CopyOK
    <2> QED  BY <2>1, <1>1, SceneSizes, WholeBanks DEF Sought
<1>3. ASSUME NEW o \in Nat
      PROVE  /\ Clamped(o, Len(c.rows)) \in Nat
             /\ Len(c.rows) # 0 => Clamped(o, Len(c.rows)) < Len(c.rows)
    <2>1. ASSUME Len(c.rows) # 0
          PROVE  /\ ((Len(c.rows) - 1) \div scene.bank) * scene.bank \in Nat
                 /\ ((Len(c.rows) - 1) \div scene.bank) * scene.bank <= Len(c.rows) - 1
        <3>1. Len(c.rows) - 1 \in Nat
            BY <2>1, <1>1
        <3> QED  BY <3>1, SceneSizes, WholeBanks
    <2> QED  BY <2>1, <1>1 DEF Clamped
<1> QED  BY <1>2, <1>3

\* bank_apply: the bank shows distinct Tracks of the copy, in the copy's order, and
\* nothing when there is no project.
LEMMA AppliedOK ==
    ASSUME NEW old, BankOK(Strip, old), NEW c, CopyOK(c), NEW beat \in BOOLEAN,
           scene \in Scenes
    PROVE  /\ BankOK(Strip, Applied(old, c, beat))
           /\ Applied(old, c, beat).ready = c.ready
           /\ \A s \in Strip : Applied(old, c, beat).fader[s].id \in Serial =>
                               Has(c, Applied(old, c, beat).fader[s].id)
           /\ c.ready => \A s \in Strip : Applied(old, c, beat).strips[s] # None =>
                                          Has(c, Applied(old, c, beat).strips[s])
<1> DEFINE b == IF old.epoch = c.epoch THEN old
                ELSE [Dropped(old) EXCEPT !.offset = 0, !.epoch = c.epoch]
           d == IF Sought(b, c) # b.offset THEN Dropped(b) ELSE b
           o == Clamped(Sought(b, c), Len(c.rows))
           shown == [s \in Strip |-> IF o + s <= Len(c.rows) THEN c.rows[o + s] ELSE None]
           Id(s) == IF shown[s] = None THEN Empty ELSE shown[s]
           Bits(s) == IF shown[s] = None THEN 0 ELSE c.volume[shown[s]]
           Fader(s) == IF d.fader[s].id = Id(s)
                       THEN [d.fader[s] EXCEPT !.bits = Bits(s), !.wait = @ /\ ~beat]
                       ELSE [d.fader[s] EXCEPT !.id = Id(s), !.bits = Bits(s), !.sent = -1,
                                               !.wait = TRUE]
           A == Applied(old, c, beat)
<1>1. A = IF ~c.ready THEN Dropped(b)
          ELSE [d EXCEPT !.ready = TRUE, !.offset = o, !.count = Len(c.rows),
                         !.selected = IF Has(c, c.sel) THEN c.sel ELSE None,
                         !.strips = shown, !.fader = [s \in Strip |-> Fader(s)]]
    BY DEF Applied
<1>2. BankOK(Strip, b)
    <2>1. CASE old.epoch = c.epoch
        BY <2>1
    <2>2. CASE old.epoch # c.epoch
        <3>1. /\ BankOK(Strip, Dropped(old)) /\ Dropped(old).ready = FALSE
              /\ \A s \in Strip : Dropped(old).fader[s].id = None
            BY DroppedOK
        <3> DEFINE x == Dropped(old)
        <3>2. b = [x EXCEPT !.offset = 0, !.epoch = c.epoch] /\ c.epoch \in Nat
            BY <2>2 DEF CopyOK
        <3>3. x \in BankSet(Strip) /\ x.ready = FALSE /\ \A s \in Strip : x.fader[s].id = None
            BY <3>1 DEF BankOK
        <3> HIDE DEF x, b
        <3>4. b \in BankSet(Strip) /\ b.ready = FALSE /\ b.fader = x.fader
            BY <3>2, <3>3 DEF BankSet
        <3> QED  BY <3>3, <3>4, Sizes DEF BankOK
    <2> QED  BY <2>1, <2>2
<1> HIDE DEF b
<1>3. CASE ~c.ready
    <2>1. A = Dropped(b)
        BY <1>1, <1>3
    <2> HIDE DEF A
    <2>2. BankOK(Strip, A) /\ A.ready = FALSE /\ \A s \in Strip : A.fader[s].id = None
        BY <2>1, <1>2, DroppedOK
    <2> QED  BY <2>2, <1>3, Sizes DEF CopyOK, A
<1>4. CASE c.ready
    <2>1. BankOK(Strip, d)
        BY <1>2, DroppedOK
    <2>2. o \in Nat /\ o < Len(c.rows) /\ Len(c.rows) \in Nat
        <3>1. c.rows \in Seq(Serial) /\ c.rows # <<>>
            BY <1>4 DEF CopyOK
        <3>2. Len(c.rows) \in Nat /\ Len(c.rows) # 0
            BY <3>1, EmptySeq, LenProperties
        <3> QED  BY <3>2, <1>2, OffsetOK
    <2> HIDE DEF o, d
    <2>3. /\ shown \in [Strip -> Serial \cup {None}]
          /\ \A s \in Strip : shown[s] # None => /\ o + s \in DOMAIN c.rows
                                                 /\ shown[s] = c.rows[o + s]
        <3> SUFFICES ASSUME NEW s \in Strip, o + s <= Len(c.rows)
                     PROVE  o + s \in DOMAIN c.rows /\ c.rows[o + s] \in Serial
            BY DEF Strip
        <3>1. o + s \in 1 .. Len(c.rows)
            BY <2>2, SceneSizes DEF Strip
        <3> QED  BY <3>1 DEF CopyOK
    <2>4. \A s, t \in Strip : shown[s] # None /\ shown[s] = shown[t] => s = t
        <3> SUFFICES ASSUME NEW s \in Strip, NEW t \in Strip, shown[s] # None,
                            shown[s] = shown[t]
                     PROVE  s = t
            OBVIOUS
        <3> HIDE DEF shown
        <3>1. o + s = o + t
            BY <2>3 DEF CopyOK
        <3> QED  BY <3>1, <2>2, SceneSizes DEF Strip
    <2> HIDE DEF shown
    <2>5. \A s \in Strip : Id(s) \in Serial \cup {Empty} /\ Bits(s) \in Position
        BY <2>3, Sizes DEF CopyOK
    <2>6. [s \in Strip |-> Fader(s)] \in [Strip -> FaderSet]
        <3> SUFFICES ASSUME NEW s \in Strip PROVE Fader(s) \in FaderSet
            OBVIOUS
        <3>1. d.fader[s] \in FaderSet /\ Id(s) \in Serial \cup {Empty} /\ Bits(s) \in Position
            BY <2>1, <2>5 DEF BankOK, BankSet
        <3> HIDE DEF Id, Bits
        <3> QED  BY <3>1 DEF FaderSet
    <2>7. \A s \in Strip : Fader(s).id = Id(s)
        <3> SUFFICES ASSUME NEW s \in Strip PROVE Fader(s).id = Id(s)
            OBVIOUS
        <3>1. d.fader[s] \in FaderSet
            BY <2>1 DEF BankOK, BankSet
        <3> HIDE DEF Id, Bits
        <3> QED  BY <3>1 DEF FaderSet
    <2> DEFINE f == [s \in Strip |-> Fader(s)]
    <2>8. f \in [Strip -> FaderSet] /\ \A s \in Strip : f[s].id = Id(s)
        BY <2>6, <2>7
    <2> DEFINE sel == IF Has(c, c.sel) THEN c.sel ELSE None
    <2>9. A = [d EXCEPT !.ready = TRUE, !.offset = o, !.count = Len(c.rows),
                        !.selected = sel, !.strips = shown, !.fader = f]
        BY <1>1, <1>4
    <2>10. sel \in Serial \cup {None}
        BY DEF CopyOK
    <2> HIDE DEF A, f, sel
    <2>11. /\ A \in BankSet(Strip) /\ A.ready = TRUE /\ A.offset = o /\ A.count = Len(c.rows)
           /\ A.strips = shown /\ A.fader = f
        BY <2>1, <2>2, <2>3, <2>8, <2>9, <2>10 DEF BankOK, BankSet
    <2>12. \A s, t \in Strip : A.fader[s].id \in Serial /\ A.fader[s].id = A.fader[t].id => s = t
        BY <2>4, <2>8, <2>11, Sizes
    <2>13. BankOK(Strip, A)
        BY <2>2, <2>11, <2>12 DEF BankOK
    <2>14. \A s \in Strip : shown[s] # None => Has(c, shown[s])
        BY <2>3, <1>4 DEF Has
    <2>15. \A s \in Strip : A.fader[s].id \in Serial => Has(c, A.fader[s].id)
        BY <2>8, <2>11, <2>14, Sizes
    <2> QED  BY <1>4, <2>11, <2>13, <2>14, <2>15 DEF A
<1> QED  BY <1>3, <1>4

-----------------------------------------------------------------------------
\* What forgetting may do: i becomes j as the bank becomes b.
Forgets(S, b, i, j) ==
    /\ j.error = i.error /\ j.edge \in {i.edge, <<>>}
    /\ \A s \in S :
        /\ j.hold[s] = i.hold[s] \/ j.hold[s].held = FALSE
        /\ \/ j.move[s] = i.move[s] /\ i.move[s].id \in {None, b.fader[s].id}
           \/ j.move[s].id = None /\ (i.move[s].id = None \/ b.fader[s].id # i.move[s].id)
        /\ j.pick[s] = i.pick[s] \/ j.pick[s].id = None

LEMMA NothingsOK ==
    /\ NoHold \in [id : Serial \cup {None}, held : BOOLEAN] /\ NoHold.held = FALSE
    /\ NoMove \in [id : Serial \cup {None}, to : Position] /\ NoMove.id = None
    /\ NoPick \in [id : Serial \cup {None}, far : BOOLEAN] /\ NoPick.id = None
BY Sizes DEF NoHold, NoMove, NoPick

\* input_sync.
LEMMA SyncedOK ==
    ASSUME NEW i, InputOK(Strip, i), NEW b, BankOK(Strip, b)
    PROVE  InputOK(Strip, Synced(i, b)) /\ Forgets(Strip, b, i, Synced(i, b))
<1> DEFINE hold == [s \in Strip |-> IF b.ready /\ b.fader[s].id = i.hold[s].id
                                    THEN i.hold[s] ELSE NoHold]
           move == [s \in Strip |-> IF b.ready /\ b.fader[s].id = i.move[s].id
                                    THEN i.move[s] ELSE NoMove]
           pick == [s \in Strip |-> IF b.ready /\ i.pick[s].id >= b.epoch
                                         /\ (i.pick[s].far \/ b.strips[s] = i.pick[s].id)
                                    THEN i.pick[s] ELSE NoPick]
           j == Synced(i, b)
<1>1. j = [i EXCEPT !.hold = hold, !.move = move, !.pick = pick]
    BY DEF Synced
<1>2. i \in InputSet(Strip) /\ Len(i.edge) <= Edges
    BY DEF InputOK
<1>3. /\ hold \in [Strip -> [id : Serial \cup {None}, held : BOOLEAN]]
      /\ move \in [Strip -> [id : Serial \cup {None}, to : Position]]
      /\ pick \in [Strip -> [id : Serial \cup {None}, far : BOOLEAN]]
    BY <1>2, NothingsOK DEF InputSet
<1>4. \A s \in Strip :
        /\ hold[s] = i.hold[s] \/ hold[s].held = FALSE
        /\ \/ move[s] = i.move[s] /\ i.move[s].id \in {None, b.fader[s].id}
           \/ move[s].id = None /\ (i.move[s].id = None \/ b.fader[s].id # i.move[s].id)
        /\ pick[s] = i.pick[s] \/ pick[s].id = None
    BY NothingsOK DEF BankOK
<1> HIDE DEF hold, move, pick, j
<1>5. j \in InputSet(Strip) /\ j.hold = hold /\ j.move = move /\ j.pick = pick
      /\ j.edge = i.edge /\ j.error = i.error
    BY <1>1, <1>2, <1>3 DEF InputSet
<1>6. InputOK(Strip, j) /\ Forgets(Strip, b, i, j)
    BY <1>2, <1>4, <1>5 DEF InputOK, Forgets
<1> QED  BY <1>6 DEF j

\* input_discard and input_bank_discard.
LEMMA DiscardedOK ==
    ASSUME NEW i, InputOK(Strip, i)
    PROVE  /\ InputOK(Strip, Discarded(i)) /\ Discarded(i).error = i.error
           /\ Discarded(i).edge = <<>>
           /\ \A s \in Strip : /\ Discarded(i).move[s].id = None
                               /\ Discarded(i).hold[s].held = FALSE
                               /\ Discarded(i).pick[s].id = None
<1>1. i \in InputSet(Strip)
    BY DEF InputOK
<1>2. /\ NoInput \in InputSet(Strip) /\ NoInput.edge = <<>>
      /\ \A s \in Strip : /\ NoInput.move[s].id = None /\ NoInput.hold[s].held = FALSE
                          /\ NoInput.pick[s].id = None
    BY NothingsOK DEF NoInput, InputSet
<1>3. /\ Discarded(i) \in InputSet(Strip) /\ Discarded(i).error = i.error
      /\ Discarded(i).edge = NoInput.edge /\ Discarded(i).move = NoInput.move
      /\ Discarded(i).hold = NoInput.hold /\ Discarded(i).pick = NoInput.pick
    BY <1>1, <1>2 DEF Discarded, InputSet
<1>4. Len(Discarded(i).edge) <= Edges
    BY <1>2, <1>3, Sizes, EmptySeq
<1> QED  BY <1>2, <1>3, <1>4 DEF InputOK

LEMMA BankDiscardedOK ==
    ASSUME NEW i, InputOK(Strip, i), NEW b, \A s \in Strip : b.fader[s].id = None
    PROVE  InputOK(Strip, BankDiscarded(i)) /\ Forgets(Strip, b, i, BankDiscarded(i))
<1> DEFINE pick == [s \in Strip |-> IF i.pick[s].far THEN i.pick[s] ELSE NoPick]
           k == Discarded(i)
           j == BankDiscarded(i)
<1>1. i \in InputSet(Strip)
    BY DEF InputOK
<1>2. /\ pick \in [Strip -> [id : Serial \cup {None}, far : BOOLEAN]]
      /\ \A s \in Strip : pick[s] = i.pick[s] \/ pick[s].id = None
    BY <1>1, NothingsOK DEF InputSet
<1>3. InputOK(Strip, k) /\ k.error = i.error /\ k.edge = <<>>
      /\ \A s \in Strip : k.move[s].id = None /\ k.hold[s].held = FALSE
    BY DiscardedOK
<1>4. j = [k EXCEPT !.pick = pick]
    BY DEF BankDiscarded
<1> HIDE DEF pick, j, k
<1>5. j \in InputSet(Strip) /\ j.hold = k.hold /\ j.move = k.move /\ j.pick = pick
      /\ j.edge = k.edge /\ j.error = k.error
    BY <1>2, <1>3, <1>4 DEF InputOK, InputSet
<1>6. InputOK(Strip, j)
    BY <1>3, <1>5 DEF InputOK
<1>7. Forgets(Strip, b, i, j)
    BY <1>2, <1>3, <1>5 DEF Forgets
<1> QED  BY <1>6, <1>7 DEF j

-----------------------------------------------------------------------------
\* What is asked when something may have been forgotten: as before, or nothing.
LEMMA StillAskedOK ==
    ASSUME AskedOK(Strip, asked), NEW b, NEW i
    PROVE  /\ AskedOK(Strip, StillAsked(b, i))
           /\ StillAsked(b, i).meant = asked.meant
           /\ \A s \in Strip :
                 StillAsked(b, i).move[s] = IF b.fader[s].id = asked.move[s].id
                                            THEN asked.move[s] ELSE NoMove
           /\ StillAsked(b, i).pick =
                 IF \A s \in Strip : input.pick[s].id # None => i.pick[s].id # None
                 THEN asked.pick ELSE None
           /\ \A t \in Serial :
                 StillAsked(b, i).mute[t] =
                    IF \E k \in DOMAIN input.edge : input.edge[k].id = t /\ i.edge = <<>>
                    THEN 2 ELSE asked.mute[t]
<1> DEFINE move == [s \in Strip |-> IF b.fader[s].id = asked.move[s].id THEN asked.move[s]
                                    ELSE NoMove]
           pick == IF \A s \in Strip : input.pick[s].id # None => i.pick[s].id # None
                   THEN asked.pick ELSE None
           mute == [t \in Serial |->
                      IF \E k \in DOMAIN input.edge : input.edge[k].id = t /\ i.edge = <<>>
                      THEN 2 ELSE asked.mute[t]]
           a == StillAsked(b, i)
<1>1. a = [asked EXCEPT !.move = move, !.pick = pick, !.mute = mute]
    BY DEF StillAsked
<1>2. /\ move \in [Strip -> [id : Serial \cup {None}, to : Position]]
      /\ mute \in [Serial -> {0, 1, 2}] /\ pick \in Serial \cup {None}
    BY NothingsOK DEF AskedOK
<1> HIDE DEF move, pick, mute, a
<1>3. /\ AskedOK(Strip, a) /\ a.meant = asked.meant /\ a.move = move /\ a.pick = pick
      /\ a.mute = mute
    BY <1>1, <1>2 DEF AskedOK
<1> QED  BY <1>3 DEF move, pick, mute, a

\* Less is asked of the same: a forgetful step changes nothing else.
Lessens(S, a, c) ==
    /\ c.meant = a.meant
    /\ \A s \in S : c.move[s] = a.move[s] \/ c.move[s].id = None
    /\ c.pick = a.pick \/ c.pick = None
    /\ \A t \in Serial : c.mute[t] = a.mute[t] \/ c.mute[t] = 2

LEMMA EdgesOK ==
    ASSUME NEW i, InputOK(Strip, i)
    PROVE  /\ i.edge \in Seq([id : Serial, strip : Strip, to : {0, 1}])
           /\ DOMAIN i.edge = 1 .. Len(i.edge) /\ Len(i.edge) \in Nat
           /\ \A k \in DOMAIN i.edge : /\ i.edge[k].id \in Serial
                                      /\ i.edge[k].strip \in Strip
                                      /\ i.edge[k].to \in {0, 1}
<1>1. i.edge \in Seq([id : Serial, strip : Strip, to : {0, 1}])
    BY DEF InputOK, InputSet
<1> DEFINE E == [id : Serial, strip : Strip, to : {0, 1}]
<1>2. i.edge \in Seq(E) /\ \A e \in E : e.id \in Serial /\ e.strip \in Strip /\ e.to \in {0, 1}
    BY <1>1
<1> HIDE DEF E
<1>3. DOMAIN i.edge = 1 .. Len(i.edge) /\ Len(i.edge) \in Nat
    BY <1>2, LenProperties
<1>4. \A k \in DOMAIN i.edge : i.edge[k] \in E
    BY <1>2, ElementOfSeq, <1>3
<1> QED  BY <1>1, <1>2, <1>3, <1>4

LEMMA ForgettingIsSafe ==
    ASSUME AskedOK(Strip, asked), InputOK(Strip, input),
           HandInv(Strip, bank, input, asked, slot, live),
           NEW b, NEW i, InputOK(Strip, i), Forgets(Strip, b, input, i)
    PROVE  /\ AskedOK(Strip, StillAsked(b, i))
           /\ HandInv(Strip, b, i, StillAsked(b, i), slot, live)
           /\ Lessens(Strip, asked, StillAsked(b, i))
<1> DEFINE a == StillAsked(b, i)
<1>1. /\ AskedOK(Strip, a) /\ a.meant = asked.meant
      /\ \A s \in Strip : a.move[s] = IF b.fader[s].id = asked.move[s].id
                                      THEN asked.move[s] ELSE NoMove
      /\ a.pick = IF \A s \in Strip : input.pick[s].id # None => i.pick[s].id # None
                  THEN asked.pick ELSE None
      /\ \A t \in Serial :
            a.mute[t] = IF \E k \in DOMAIN input.edge : input.edge[k].id = t /\ i.edge = <<>>
                        THEN 2 ELSE asked.mute[t]
    BY StillAskedOK
<1> HIDE DEF a
<1>2. Lessens(Strip, asked, a)
    BY <1>1, NothingsOK DEF Lessens
<1>3. MoveInv(Strip, b, i, a)
    BY <1>1, NothingsOK DEF HandInv, MoveInv, Forgets
<1>4. MoveSent(Strip, i, a, slot, live)
    <2> SUFFICES ASSUME NEW s \in Strip, a.move[s].id # None, i.move[s].id = None
                 PROVE  /\ a.move[s] = asked.move[s]
                        /\ asked.move[s].id # None /\ input.move[s].id = None
        BY DEF HandInv, MoveSent
    <2>1. a.move[s] = asked.move[s] /\ b.fader[s].id = asked.move[s].id
        BY <1>1, NothingsOK
    <2>2. asked.move[s].id = bank.fader[s].id
          /\ (input.move[s].id # None => input.move[s].id = bank.fader[s].id)
        BY <2>1 DEF HandInv, MoveInv
    <2> QED  BY <2>1, <2>2 DEF Forgets
<1>5. PickInv(Strip, i, a, live) /\ PickSent(Strip, i, a, slot, live)
    BY <1>1 DEF HandInv, PickInv, PickSent, Forgets
<1>6. i.edge = input.edge \/ (i.edge = <<>> /\ input.edge # <<>>)
    BY DEF Forgets
<1>7. EdgeInv(i, a) /\ MuteSent(i, a, slot, live)
    <2>1. CASE i.edge = input.edge
        <3>1. \A t \in Serial : a.mute[t] = asked.mute[t]
            <4>1. \A k \in DOMAIN input.edge : i.edge # <<>>
                BY <2>1, \A k \in DOMAIN <<>> : FALSE
            <4> QED  BY <4>1, <1>1
        <3>2. \A k \in DOMAIN input.edge : input.edge[k].id \in Serial
            BY EdgesOK
        <3> QED  BY <2>1, <3>1, <3>2 DEF HandInv, EdgeInv, MuteSent
    <2>2. CASE i.edge = <<>>
        <3>1. \A k \in DOMAIN i.edge : FALSE
            BY <2>2
        <3>2. \A t \in Serial : a.mute[t] # 2 =>
                 a.mute[t] = asked.mute[t] /\ \A k \in DOMAIN input.edge : input.edge[k].id # t
            BY <1>1, <2>2
        <3> QED  BY <3>1, <3>2 DEF HandInv, EdgeInv, MuteSent
    <2> QED  BY <1>6, <2>1, <2>2
<1>8. HandInv(Strip, b, i, a, slot, live)
    BY <1>3, <1>4, <1>5, <1>7 DEF HandInv
<1> QED  BY <1>1, <1>2, <1>8 DEF a

\* Nothing pending and nothing asked: there is nothing to keep.
LEMMA NothingAsked ==
    ASSUME NEW a, AskedOK(Strip, a), NEW b, NEW i, NEW q, NEW l,
           a.pick = None, \A s \in Strip : a.move[s].id = None,
           \A t \in Serial : a.mute[t] = 2,
           i.edge = <<>>,
           \A s \in Strip : /\ i.move[s].id = None /\ i.pick[s].id = None
                            /\ i.hold[s].held = FALSE
    PROVE  HandInv(Strip, b, i, a, q, l)
<1>1. MoveInv(Strip, b, i, a) /\ MoveSent(Strip, i, a, q, l)
    BY DEF MoveInv, MoveSent
<1>2. PickInv(Strip, i, a, l) /\ PickSent(Strip, i, a, q, l)
    BY DEF PickInv, PickSent
<1>3. EdgeInv(i, a) /\ MuteSent(i, a, q, l)
    BY DEF EdgeInv, MuteSent
<1> QED  BY <1>1, <1>2, <1>3 DEF HandInv

LEMMA UnaskedOK ==
    /\ AskedOK(Strip, Unasked) /\ Unasked.pick = None
    /\ \A s \in Strip : Unasked.move[s].id = None
    /\ \A t \in Serial : Unasked.mute[t] = 2
    /\ AskedOK(Strip, asked) =>
          LET a == [Unasked EXCEPT !.meant = asked.meant]
          IN  /\ AskedOK(Strip, a) /\ a.pick = None
              /\ \A s \in Strip : a.move[s].id = None
              /\ \A t \in Serial : a.mute[t] = 2
BY NothingsOK DEF AskedOK, Unasked

-----------------------------------------------------------------------------
\* The copy an event works on has the application's Tracks and selection.
LEMMA CopiedOK ==
    ASSUME LiveOK
    PROVE  /\ CopyOK(Copied) /\ Copied.ready = live.ready /\ Copied.rows = live.rows
           /\ Copied.sel = live.sel /\ Copied.volume = live.volume
           /\ Copied.mute = live.mute
<1>1. /\ Copied.ready = live.ready /\ Copied.rows = live.rows /\ Copied.sel = live.sel
      /\ Copied.volume = live.volume /\ Copied.mute = live.mute /\ Copied.epoch = live.epoch
    BY DEF Copied
<1> QED  BY <1>1 DEF LiveOK, CopyOK

LEMMA NoCopyOK == CopyOK(NoCopy)
<1>1. /\ NoCopy.ready = FALSE /\ NoCopy.rows = <<>> /\ NoCopy.sel = None /\ NoCopy.epoch = 0
      /\ NoCopy.volume = [t \in Serial |-> 0] /\ NoCopy.mute = [t \in Serial |-> 0]
    BY DEF NoCopy, Copied
<1>2. NoCopy.rows \in Seq(Serial) /\ \A r \in DOMAIN NoCopy.rows : FALSE
    BY <1>1, EmptySeq, \A r \in DOMAIN <<>> : FALSE
<1>3. NoCopy.volume \in [Serial -> Position] /\ NoCopy.mute \in [Serial -> {0, 1}]
    BY <1>1, Sizes
<1>4. NoCopy.ready \in BOOLEAN /\ (NoCopy.ready <=> NoCopy.rows # <<>>)
    BY <1>1
<1>5. NoCopy.epoch \in Nat /\ NoCopy.sel \in Serial \cup {None}
    BY <1>1
<1> HIDE DEF NoCopy
<1> QED  BY <1>2, <1>3, <1>4, <1>5 DEF CopyOK

LEMMA SeenOK ==
    ASSUME KindsOK
    PROVE  /\ CopyOK(Seen) /\ Seen.ready = live.ready /\ Seen.rows = live.rows
           /\ Seen.sel = live.sel
<1>1. LiveOK /\ CopyOK(batch)
    BY DEF KindsOK
<1> QED  BY <1>1, CopiedOK DEF Seen, Current

\* What an event starts from: the bank and the input of the new copy.
LEMMA HearStart ==
    ASSUME IInv
    PROVE  /\ BankOK(Strip, Bank0) /\ Bank0.ready = live.ready
           /\ InputOK(Strip, Input0) /\ Input0.error = input.error
           /\ AskedOK(Strip, StillAsked(Bank0, Input0))
           /\ HandInv(Strip, Bank0, Input0, StillAsked(Bank0, Input0), slot, live)
           /\ live.ready => \A s \in Strip : Bank0.strips[s] # None =>
                                             Has(live, Bank0.strips[s])
<1>1. /\ BankOK(Strip, bank) /\ InputOK(Strip, input) /\ AskedOK(Strip, asked)
      /\ scene \in Scenes
    BY DEF IInv, KindsOK
<1>2. /\ CopyOK(Seen) /\ Seen.ready = live.ready /\ Seen.rows = live.rows
    BY SeenOK DEF IInv
<1>3. /\ BankOK(Strip, Bank0) /\ Bank0.ready = Seen.ready
      /\ Seen.ready => \A s \in Strip : Bank0.strips[s] # None => Has(Seen, Bank0.strips[s])
    BY <1>1, <1>2, AppliedOK DEF Bank0
<1>4. InputOK(Strip, Input0) /\ Forgets(Strip, Bank0, input, Input0)
    BY <1>1, <1>3, SyncedOK DEF Input0
<1>5. HandInv(Strip, bank, input, asked, slot, live)
    BY DEF IInv
<1>6. /\ AskedOK(Strip, StillAsked(Bank0, Input0))
      /\ HandInv(Strip, Bank0, Input0, StillAsked(Bank0, Input0), slot, live)
    BY <1>1, <1>4, <1>5, ForgettingIsSafe
<1>7. \A id : Has(Seen, id) => Has(live, id)
    BY <1>2 DEF Has
<1>8. Input0.error = input.error
    BY <1>4 DEF Forgets
<1> QED  BY <1>2, <1>3, <1>4, <1>6, <1>7, <1>8

\* What an event has to leave behind.
LEMMA HearDone ==
    ASSUME IInv, NEW kind, NEW s, NEW arg, Hear(kind, s, arg),
           BankOK(Strip, bank'), InputOK(Strip, input'), AskedOK(Strip, asked'),
           input'.error # "closed", at' \in [Strip -> Position],
           HandInv(Strip, bank', input', asked', slot, live)
    PROVE  IInv'
<1>1. /\ on /\ pc \notin Pumping /\ batch' = Seen
      /\ UNCHANGED <<scene, live, slot, pc, on, snap, follow>>
    BY DEF Hear, Draining, Pumping
<1>2. Strip' = Strip
    BY <1>1 DEF Strip
<1>3. LiveOK' /\ CopyOK(snap') /\ CopyOK(batch')
    BY <1>1, SeenOK DEF IInv, KindsOK, LiveOK
<1>4. KindsOK'
    BY <1>1, <1>2, <1>3 DEF IInv, KindsOK
<1> QED  BY <1>1, <1>2, <1>4 DEF IInv

\* Which arguments an event has.
LEMMA HearTypes ==
    ASSUME IInv, NEW kind, NEW s, NEW arg, Hear(kind, s, arg)
    PROVE  /\ kind \in {"touch", "pitch", "mute", "select"} => s \in Strip
           /\ kind = "pitch" => arg \in Position
<1>1. [kind |-> kind, strip |-> s, arg |-> arg] \in scene.events /\ scene \in Scenes
    BY DEF Hear, IInv, KindsOK
<1> DEFINE e == [kind |-> kind, strip |-> s, arg |-> arg]
<1>2. \/ e.kind \in {"touch", "mute", "select"} /\ e.strip \in 1 .. scene.bank
      \/ e.kind = "pitch" /\ e.strip \in 1 .. scene.bank /\ e.arg \in 0 .. Top
      \/ e.kind \in {"bank", "channel"}
    BY <1>1, SurfaceAssumption
<1> QED  BY <1>2 DEF Strip, Position

-----------------------------------------------------------------------------
\* One fader changes in what is not its Track.
LEMMA FaderOK ==
    ASSUME NEW b, BankOK(Strip, b), NEW s \in Strip, NEW g \in FaderSet,
           g.id = b.fader[s].id, NEW c, c = [b EXCEPT !.fader = [@ EXCEPT ![s] = g]]
    PROVE  /\ BankOK(Strip, c) /\ c.ready = b.ready
           /\ \A t \in Strip : c.fader[t].id = b.fader[t].id
<1>1. b \in BankSet(Strip)
    BY DEF BankOK
<1> DEFINE f == [b.fader EXCEPT ![s] = g]
<1>2. f \in [Strip -> FaderSet] /\ \A t \in Strip : f[t].id = b.fader[t].id
    BY <1>1 DEF BankSet
<1>3. c = [b EXCEPT !.fader = f]
    OBVIOUS
<1> HIDE DEF f
<1>4. c \in BankSet(Strip) /\ c.fader = f /\ c.ready = b.ready /\ c.offset = b.offset
      /\ c.count = b.count
    BY <1>1, <1>2, <1>3 DEF BankSet
<1> QED  BY <1>2, <1>4 DEF BankOK

LEMMA TouchedOK ==
    ASSUME NEW b, BankOK(Strip, b), NEW s \in Strip, NEW down \in BOOLEAN
    PROVE  /\ BankOK(Strip, Touched(b, s, down)) /\ Touched(b, s, down).ready = b.ready
           /\ \A t \in Strip : Touched(b, s, down).fader[t].id = b.fader[t].id
<1>1. b \in BankSet(Strip) /\ b.fader[s] \in FaderSet
    BY DEF BankOK, BankSet
<1> DEFINE g == [b.fader[s] EXCEPT !.touch = IF down THEN "down" ELSE "up", !.wait = TRUE]
<1>2. g \in FaderSet /\ g.id = b.fader[s].id
    BY <1>1 DEF FaderSet
<1>3. Touched(b, s, down) = [b EXCEPT !.fader = [@ EXCEPT ![s] = g]]
    BY <1>1 DEF Touched, BankSet
<1> HIDE DEF g
<1> QED  BY <1>2, <1>3, FaderOK

\* The hand's side of a step that leaves desires, edges and what was asked alone.
LEMMA OnlyHolds ==
    ASSUME NEW b, NEW c, NEW i, NEW j, NEW a, NEW d, NEW q, NEW l,
           HandInv(Strip, b, i, a, q, l),
           j.move = i.move, j.pick = i.pick, j.edge = i.edge,
           d.move = a.move, d.pick = a.pick, d.mute = a.mute,
           MoveInv(Strip, c, j, d)
    PROVE  HandInv(Strip, c, j, d, q, l)
<1>1. MoveSent(Strip, j, d, q, l)
    BY DEF HandInv, MoveSent
<1>2. PickInv(Strip, j, d, l) /\ PickSent(Strip, j, d, q, l)
    BY DEF HandInv, PickInv, PickSent
<1>3. EdgeInv(j, d) /\ MuteSent(j, d, q, l)
    BY DEF HandInv, EdgeInv, MuteSent
<1> QED  BY <1>1, <1>2, <1>3 DEF HandInv

LEMMA TouchStep ==
    ASSUME IInv, NEW s, NEW down \in BOOLEAN, Touch(s, down)
    PROVE  IInv'
<1> DEFINE f == Bank0.fader[s]
           again == down /\ f.touch = "down"
           taken == IF f.id \in Serial /\ ~Failed THEN [id |-> f.id, held |-> TRUE] ELSE NoHold
           was == StillAsked(Bank0, Input0)
           arg == IF down THEN 1 ELSE 0
<1>1. /\ Hear("touch", s, arg) /\ at' = at
      /\ bank' = IF again THEN Bank0 ELSE Touched(Bank0, s, down)
      /\ input' = IF again THEN Input0
                  ELSE IF down THEN [Input0 EXCEPT !.hold[s] = taken]
                  ELSE [Input0 EXCEPT !.hold[s].held = FALSE]
      /\ asked' = IF down /\ ~again THEN [was EXCEPT !.meant[s] = f.id] ELSE was
    BY DEF Touch
<1>2. s \in Strip
    BY <1>1, HearTypes
<1> DEFINE B == Bank0
           I == Input0
<1>3. /\ BankOK(Strip, B) /\ InputOK(Strip, I) /\ I.error = input.error
      /\ AskedOK(Strip, was) /\ HandInv(Strip, B, I, was, slot, live)
    BY HearStart
<1>4. at' \in [Strip -> Position] /\ input.error # "closed"
    BY <1>1 DEF IInv, KindsOK
<1>5. CASE again
    <2>1. bank' = B /\ input' = I /\ asked' = was
        BY <1>1, <1>5
    <2> HIDE DEF B, I, was, arg
    <2> QED  BY <2>1, <1>1, <1>3, <1>4, HearDone
<1>6. CASE ~again
    <2>1. f.id \in Serial \cup {None, Empty} /\ I \in InputSet(Strip) /\ Len(I.edge) <= Edges
        BY <1>2, <1>3 DEF BankOK, BankSet, FaderSet, InputOK
    <2>2. /\ bank' = Touched(B, s, down)
          /\ BankOK(Strip, bank')
          /\ \A t \in Strip : bank'.fader[t].id = B.fader[t].id
        BY <1>1, <1>2, <1>3, <1>6, TouchedOK
    <2>3. f.id = B.fader[s].id
        OBVIOUS
    <2> HIDE DEF again, B, I, was, arg
    <2> DEFINE h == IF down THEN taken ELSE [I.hold[s] EXCEPT !.held = FALSE]
    <2>4. /\ h \in [id : Serial \cup {None}, held : BOOLEAN]
          /\ h.held => down /\ h.id = f.id
        BY <2>1, <1>2, NothingsOK DEF InputSet
    <2>5. input' = [I EXCEPT !.hold = [@ EXCEPT ![s] = h]]
        BY <1>1, <1>6, <2>1, <1>2 DEF InputSet, I
    <2>6. \/ down /\ asked' = [was EXCEPT !.meant[s] = f.id]
          \/ ~down /\ asked' = was
        BY <1>1, <1>6
    <2> HIDE DEF h, f
    <2>7. /\ InputOK(Strip, input') /\ input'.move = I.move /\ input'.pick = I.pick
          /\ input'.edge = I.edge /\ input'.error = I.error
          /\ input'.hold = [I.hold EXCEPT ![s] = h]
        BY <2>1, <2>4, <2>5 DEF InputOK, InputSet
    <2>8. /\ AskedOK(Strip, asked') /\ asked'.move = was.move /\ asked'.pick = was.pick
          /\ asked'.mute = was.mute
          /\ \/ down /\ asked'.meant = [was.meant EXCEPT ![s] = f.id]
             \/ ~down /\ asked'.meant = was.meant
        BY <2>1, <2>6, <1>3 DEF AskedOK
    <2>9. MoveInv(Strip, bank', input', asked')
        <3> SUFFICES ASSUME NEW t \in Strip
                     PROVE  /\ input'.move[t].id \in {None, bank'.fader[t].id}
                            /\ asked'.move[t].id \in {None, bank'.fader[t].id}
                            /\ input'.move[t].id # None /\ asked'.move[t].id # None =>
                                  input'.move[t] = asked'.move[t]
                            /\ input'.move[t].id # None => input'.move[t].id = asked'.meant[t]
                            /\ input'.hold[t].held => input'.hold[t].id = asked'.meant[t]
            BY DEF MoveInv
        <3>1. /\ I.move[t].id \in {None, B.fader[t].id}
              /\ was.move[t].id \in {None, B.fader[t].id}
              /\ I.move[t].id # None /\ was.move[t].id # None => I.move[t] = was.move[t]
              /\ I.move[t].id # None => I.move[t].id = was.meant[t]
              /\ I.hold[t].held => I.hold[t].id = was.meant[t]
            BY <1>3 DEF HandInv, MoveInv
        <3>2. I.hold \in [Strip -> [id : Serial \cup {None}, held : BOOLEAN]]
              /\ was.meant \in [Strip -> Serial \cup {None, Empty}]
            BY <2>1, <1>3 DEF InputSet, AskedOK
        <3>3. CASE t = s
            <4>1. input'.hold[t] = h
                BY <2>7, <3>2, <3>3
            <4>2. asked'.meant[t] = f.id \/ (~down /\ asked'.meant[t] = was.meant[t])
                BY <2>8, <3>2, <3>3
            <4> QED  BY <2>2, <2>3, <2>4, <2>7, <2>8, <3>1, <3>3, <4>1, <4>2
        <3>4. CASE t # s
            <4>1. input'.hold[t] = I.hold[t] /\ asked'.meant[t] = was.meant[t]
                BY <2>7, <2>8, <3>2, <3>4
            <4> QED  BY <2>2, <2>7, <2>8, <3>1, <4>1
        <3> QED  BY <3>3, <3>4
    <2>10. HandInv(Strip, bank', input', asked', slot, live)
        BY <1>3, <2>7, <2>8, <2>9, OnlyHolds
    <2> QED  BY <1>1, <1>3, <1>4, <2>2, <2>7, <2>8, <2>10, HearDone
<1> QED  BY <1>5, <1>6

\* input_pitch: the gesture is the one under way, or a new one of the Track shown.
LEMMA GestureOK ==
    ASSUME NEW b, NEW i, InputOK(Strip, i), NEW s \in Strip, NEW g, g = Gesture(b, i, s)
    PROVE  /\ g \in [id : Serial \cup {None}, held : BOOLEAN]
           /\ g.id # None => g.id = b.fader[s].id /\ b.fader[s].id \in Serial
           /\ g.held /\ g.id # None => g = i.hold[s]
           /\ g.id # None /\ b.fader[s].touch = "down" => g = i.hold[s] /\ g.held
<1>1. i.hold[s] \in [id : Serial \cup {None}, held : BOOLEAN]
    BY DEF InputOK, InputSet
<1> DEFINE f == b.fader[s]
           h == i.hold[s]
<1>2. \/ g = NoHold
      \/ f.id \in Serial /\ h.id = f.id /\ (f.touch = "down" => h.held) /\ g = h
      \/ f.id \in Serial /\ f.touch # "down" /\ g = [id |-> f.id, held |-> FALSE]
    BY DEF Gesture
<1> HIDE DEF f, h
<1>3. CASE g = NoHold
    BY <1>3, NothingsOK DEF NoHold
<1>4. CASE f.id \in Serial /\ h.id = f.id /\ (f.touch = "down" => h.held) /\ g = h
    BY <1>1, <1>4 DEF f, h
<1>5. CASE f.id \in Serial /\ f.touch # "down" /\ g = [id |-> f.id, held |-> FALSE]
    BY <1>5 DEF f
<1> QED  BY <1>2, <1>3, <1>4, <1>5

LEMMA PitchStep ==
    ASSUME IInv, NEW s, NEW p, Pitch(s, p)
    PROVE  IInv'
<1> DEFINE B == Bank0
           I == Input0
           f == Bank0.fader[s]
           g == Gesture(Bank0, Input0, s)
           taken == g.id # None
           moved == taken /\ p # f.physical
           was == StillAsked(Bank0, Input0)
           h == IF taken THEN g ELSE I.hold[s]
           m == IF moved THEN [id |-> g.id, to |-> p] ELSE I.move[s]
           n == IF moved THEN [id |-> f.id, to |-> p] ELSE was.move[s]
           e == IF f.touch # "down" THEN f.id ELSE was.meant[s]
           k == [f EXCEPT !.physical = p, !.sent = IF scene.servo THEN p ELSE @]
<1>1. Hear("pitch", s, p) /\ at' = [at EXCEPT ![s] = p]
    BY DEF Pitch
<1>2. s \in Strip /\ p \in Position
    BY <1>1, HearTypes
<1>3. /\ BankOK(Strip, B) /\ InputOK(Strip, I) /\ I.error = input.error
      /\ AskedOK(Strip, was) /\ HandInv(Strip, B, I, was, slot, live)
    BY HearStart
<1>4. at' \in [Strip -> Position] /\ input.error # "closed"
    BY <1>1, <1>2 DEF IInv, KindsOK
<1>5. /\ B \in BankSet(Strip) /\ f \in FaderSet /\ I \in InputSet(Strip)
      /\ was.move \in [Strip -> [id : Serial \cup {None}, to : Position]]
      /\ was.meant \in [Strip -> Serial \cup {None, Empty}]
      /\ I.move \in [Strip -> [id : Serial \cup {None}, to : Position]]
      /\ I.hold \in [Strip -> [id : Serial \cup {None}, held : BOOLEAN]]
    BY <1>2, <1>3 DEF BankOK, BankSet, InputOK, InputSet, AskedOK
<1>6. /\ bank' = [B EXCEPT !.fader = [@ EXCEPT ![s] = k]]
      /\ input' = [I EXCEPT !.hold = [@ EXCEPT ![s] = h], !.move = [@ EXCEPT ![s] = m]]
      /\ asked' = [was EXCEPT !.meant = [@ EXCEPT ![s] = e], !.move = [@ EXCEPT ![s] = n]]
    <2>1. bank' = [Bank0 EXCEPT !.fader[s].physical = p,
                                !.fader[s].sent = IF scene.servo THEN p ELSE @]
        BY DEF Pitch
    <2>2. bank' = [B EXCEPT !.fader = [@ EXCEPT ![s] = k]]
        BY <2>1, <1>2, <1>5 DEF BankSet
    <2>3. input' = [I EXCEPT !.hold[s] = IF taken THEN g ELSE @,
                             !.move[s] = IF moved THEN [id |-> g.id, to |-> p] ELSE @]
        BY DEF Pitch
    <2>4. asked' = [was EXCEPT !.meant[s] = IF f.touch # "down" THEN f.id ELSE @,
                               !.move[s] = IF moved THEN [id |-> f.id, to |-> p] ELSE @]
        BY DEF Pitch
    <2>5. input' = [I EXCEPT !.hold = [@ EXCEPT ![s] = h], !.move = [@ EXCEPT ![s] = m]]
        BY <2>3, <1>2, <1>5 DEF InputSet
    <2>6. asked' = [was EXCEPT !.meant = [@ EXCEPT ![s] = e], !.move = [@ EXCEPT ![s] = n]]
        BY <2>4, <1>2, <1>3 DEF AskedOK
    <2> QED  BY <2>2, <2>5, <2>6
<1>7. /\ g \in [id : Serial \cup {None}, held : BOOLEAN]
      /\ g.id # None => g.id = f.id /\ f.id \in Serial
      /\ g.held /\ g.id # None => g = I.hold[s]
      /\ g.id # None /\ f.touch = "down" => g = I.hold[s] /\ g.held
    BY <1>2, <1>3, GestureOK
<1>8. I.hold[s].held => I.hold[s].id = f.id
    <2>1. input \in InputSet(Strip)
        BY DEF IInv, KindsOK, InputOK
    <2>2. I.hold = [t \in Strip |-> IF Bank0.ready /\ Bank0.fader[t].id = input.hold[t].id
                                    THEN input.hold[t] ELSE NoHold]
        BY <2>1 DEF Input0, Synced, InputSet
    <2> QED  BY <1>2, <2>2, NothingsOK DEF NoHold
<1> HIDE DEF g, f, B, I, was
<1>9. k \in FaderSet /\ k.id = f.id
    BY <1>2, <1>5 DEF FaderSet
<1>10. BankOK(Strip, bank') /\ \A t \in Strip : bank'.fader[t].id = B.fader[t].id
    <2> HIDE DEF k
    <2>1. k.id = B.fader[s].id
        BY <1>9 DEF f, B
    <2> QED  BY <1>2, <1>3, <1>6, <1>9, <2>1, FaderOK
<1>11. /\ h \in [id : Serial \cup {None}, held : BOOLEAN]
       /\ m \in [id : Serial \cup {None}, to : Position]
       /\ n \in [id : Serial \cup {None}, to : Position]
       /\ e \in Serial \cup {None, Empty}
    BY <1>2, <1>5, <1>7 DEF FaderSet
<1>12. /\ I.move[s].id \in {None, f.id} /\ was.move[s].id \in {None, f.id}
       /\ I.move[s].id # None /\ was.move[s].id # None => I.move[s] = was.move[s]
       /\ I.move[s].id # None => I.move[s].id = was.meant[s]
       /\ I.hold[s].held => I.hold[s].id = was.meant[s]
    BY <1>2, <1>3 DEF HandInv, MoveInv, f, B
<1>13. /\ m.id \in {None, f.id} /\ n.id \in {None, f.id}
       /\ m.id # None /\ n.id # None => m = n
       /\ m.id # None => m.id = e
    BY <1>7, <1>12
<1>14. h.held => h.id = e
    BY <1>7, <1>8, <1>12
<1>15. m.id # None \/ (m = I.move[s] /\ n = was.move[s])
    BY <1>7
<1> HIDE DEF h, m, n, e, k
<1>16. /\ InputOK(Strip, input') /\ input'.hold = [I.hold EXCEPT ![s] = h]
       /\ input'.move = [I.move EXCEPT ![s] = m] /\ input'.pick = I.pick
       /\ input'.edge = I.edge /\ input'.error = I.error
    BY <1>3, <1>6, <1>11 DEF InputOK, InputSet
<1>17. /\ AskedOK(Strip, asked') /\ asked'.meant = [was.meant EXCEPT ![s] = e]
       /\ asked'.move = [was.move EXCEPT ![s] = n] /\ asked'.pick = was.pick
       /\ asked'.mute = was.mute
    BY <1>3, <1>6, <1>11 DEF AskedOK
<1>18. /\ input'.hold[s] = h /\ input'.move[s] = m /\ asked'.meant[s] = e /\ asked'.move[s] = n
       /\ \A t \in Strip \ {s} : /\ input'.hold[t] = I.hold[t] /\ input'.move[t] = I.move[t]
                                 /\ asked'.meant[t] = was.meant[t]
                                 /\ asked'.move[t] = was.move[t]
    BY <1>2, <1>5, <1>16, <1>17
<1>19. MoveInv(Strip, bank', input', asked')
    <2> SUFFICES ASSUME NEW t \in Strip
                 PROVE  /\ input'.move[t].id \in {None, bank'.fader[t].id}
                        /\ asked'.move[t].id \in {None, bank'.fader[t].id}
                        /\ input'.move[t].id # None /\ asked'.move[t].id # None =>
                              input'.move[t] = asked'.move[t]
                        /\ input'.move[t].id # None => input'.move[t].id = asked'.meant[t]
                        /\ input'.hold[t].held => input'.hold[t].id = asked'.meant[t]
        BY DEF MoveInv
    <2>1. CASE t = s
        <3>1. bank'.fader[t].id = f.id
            BY <2>1, <1>10 DEF f, B
        <3> QED  BY <2>1, <3>1, <1>13, <1>14, <1>18
    <2>2. CASE t # s
        BY <2>2, <1>3, <1>10, <1>18 DEF HandInv, MoveInv
    <2> QED  BY <2>1, <2>2
<1>20. MoveSent(Strip, input', asked', slot, live)
    <2> SUFFICES ASSUME NEW t \in Strip, asked'.move[t].id # None, input'.move[t].id = None
                 PROVE  asked'.move[t] = was.move[t] /\ I.move[t].id = None
        BY <1>3 DEF HandInv, MoveSent
    <2> QED  BY <1>15, <1>18
<1>21. PickInv(Strip, input', asked', live) /\ PickSent(Strip, input', asked', slot, live)
    BY <1>3, <1>16, <1>17 DEF HandInv, PickInv, PickSent
<1>22. EdgeInv(input', asked') /\ MuteSent(input', asked', slot, live)
    BY <1>3, <1>16, <1>17 DEF HandInv, EdgeInv, MuteSent
<1>23. HandInv(Strip, bank', input', asked', slot, live)
    BY <1>19, <1>20, <1>21, <1>22 DEF HandInv
<1> QED  BY <1>1, <1>3, <1>4, <1>10, <1>16, <1>17, <1>23, HearDone

-----------------------------------------------------------------------------
\* The least and the greatest of numbers that are there: what CHOOSE finds.
LEMMA LeastExists ==
    ASSUME NEW T \in SUBSET Nat, T # {}
    PROVE  \E x \in T : \A y \in T : x <= y
<1> DEFINE R == {p \in Nat \X Nat : p[1] < p[2]}
<1>1. IsWellFoundedOn(R, Nat)
    BY NatLessThanWellFounded DEF OpToRel
<1>2. PICK x \in T : \A y \in T : <<y, x>> \notin R
    <2> HIDE DEF R
    <2> QED  BY <1>1, WFMin
<1>3. \A y \in T : x <= y
    <2> SUFFICES ASSUME NEW y \in T, y < x PROVE FALSE
        OBVIOUS
    <2>1. <<y, x>> \in Nat \X Nat /\ <<y, x>>[1] < <<y, x>>[2]
        OBVIOUS
    <2>2. <<y, x>> \in R
        BY <2>1
    <2> QED  BY <2>2, <1>2
<1> QED  BY <1>3

LEMMA GreatestExists ==
    ASSUME NEW n \in Nat, NEW T \in SUBSET (1 .. n), T # {}
    PROVE  \E x \in T : \A y \in T : y <= x
<1> DEFINE U == {n - x : x \in T}
<1>1. \A x \in T : x \in Int /\ n - x \in Nat
    OBVIOUS
<1>2. U \in SUBSET Nat
    BY <1>1
<1>3. U # {}
    <2>1. PICK x \in T : TRUE
        OBVIOUS
    <2> QED  BY <2>1
<1>4. PICK u \in U : \A v \in U : u <= v
    <2> HIDE DEF U
    <2> QED  BY <1>2, <1>3, LeastExists
<1>5. PICK x \in T : u = n - x
    OBVIOUS
<1>6. \A y \in T : u <= n - y
    BY <1>4
<1> QED  BY <1>1, <1>5, <1>6

\* The latest edge of a Track is what its presses have come to.
Edging(i, id) == {k \in DOMAIN i.edge : i.edge[k].id = id}
Latest(i, id) == CHOOSE k \in Edging(i, id) : \A j \in Edging(i, id) : j <= k

LEMMA LatestEdge ==
    ASSUME NEW i, InputOK(Strip, i), NEW a, EdgeInv(i, a), NEW id \in Serial,
           Edging(i, id) # {}
    PROVE  /\ i.edge[Latest(i, id)].to \in {0, 1}
           /\ a.mute[id] # 2 => i.edge[Latest(i, id)].to = a.mute[id]
<1> DEFINE mine == Edging(i, id)
           k == Latest(i, id)
<1>1. /\ DOMAIN i.edge = 1 .. Len(i.edge) /\ Len(i.edge) \in Nat
      /\ \A n \in DOMAIN i.edge : i.edge[n].to \in {0, 1}
    BY EdgesOK
<1>2. \E x \in mine : \A y \in mine : y <= x
    BY <1>1, GreatestExists DEF Edging
<1>3. k \in mine /\ \A j \in mine : j <= k
    BY <1>2 DEF Latest
<1>4. i.edge[k].to \in {0, 1} /\ i.edge[k].id = id /\ k \in DOMAIN i.edge
    BY <1>1, <1>3 DEF Edging
<1>5. ASSUME NEW j \in DOMAIN i.edge, j > k, i.edge[j].id = id
      PROVE  FALSE
    BY <1>1, <1>3, <1>4, <1>5 DEF Edging
<1>6. a.mute[id] \in {2, i.edge[k].to}
    BY <1>4, <1>5 DEF EdgeInv
<1> QED  BY <1>4, <1>6

\* input_control_bound, a toggle: the edge that a press adds is what was asked.
LEMMA PriorOK ==
    ASSUME IInv, NEW id \in Serial, live.ready
    PROVE  /\ Prior(id) \in {0, 1} /\ Pressed(id) \in {0, 1, 2}
           /\ Pressed(id) # 2 => Pressed(id) = 1 - Prior(id)
<1> DEFINE mine == Edging(Input0, id)
           k == Latest(Input0, id)
           flights == Existing("mute", id)
           n == CHOOSE n \in flights : TRUE
           was == StillAsked(Bank0, Input0)
<1>1. /\ InputOK(Strip, Input0) /\ HandInv(Strip, Bank0, Input0, was, slot, live)
      /\ AskedOK(Strip, was) /\ CopyOK(Seen)
    BY HearStart, SeenOK DEF IInv
<1>2. Input0.edge = input.edge
    <2>1. input \in InputSet(Strip)
        BY DEF IInv, KindsOK, InputOK
    <2> QED  BY <2>1 DEF Input0, Synced, InputSet
<1>3. was.mute[id] = asked.mute[id] /\ was.mute[id] \in {0, 1, 2}
    <2>1. AskedOK(Strip, asked)
        BY DEF IInv, KindsOK
    <2>2. was.mute[id] = IF \E j \in DOMAIN input.edge : input.edge[j].id = id /\ Input0.edge = <<>>
                         THEN 2 ELSE asked.mute[id]
        BY <2>1, StillAskedOK
    <2>3. \A j \in DOMAIN input.edge : Input0.edge # <<>>
        BY <1>2, \A j \in DOMAIN <<>> : FALSE
    <2> QED  BY <2>1, <2>2, <2>3 DEF AskedOK
<1>4. Seen.mute[id] \in {0, 1}
    BY <1>1 DEF CopyOK
<1>5. Prior(id) = IF mine # {} THEN Input0.edge[k].to
                  ELSE IF flights # {} THEN slot[n].to ELSE Seen.mute[id]
    BY DEF Prior, Edging, Latest
<1>6. Pressed(id) = IF flights = {} /\ mine = {} THEN 1 - Seen.mute[id]
                    ELSE IF asked.mute[id] = 2 THEN 2 ELSE 1 - asked.mute[id]
    BY DEF Pressed, Edging
<1>7. CASE mine # {}
    <2>1. Input0.edge[k].to \in {0, 1} /\ (was.mute[id] # 2 => Input0.edge[k].to = was.mute[id])
        BY <1>1, <1>7, LatestEdge DEF HandInv
    <2> HIDE DEF mine, k, flights, n, was
    <2> QED  BY <2>1, <1>3, <1>5, <1>6, <1>7
<1>8. CASE mine = {} /\ flights # {}
    <2>1. /\ n \in 1 .. Slots /\ slot[n].phase # "free" /\ slot[n].field = "mute"
          /\ slot[n].id = id
        BY <1>8 DEF Existing, Same
    <2>2. slot[n].to \in {0, 1}
        BY <2>1 DEF IInv, KindsOK, SlotsOK
    <2>3. \A j \in DOMAIN Input0.edge : Input0.edge[j].id # id
        BY <1>8 DEF Edging
    <2> HIDE DEF mine, k, flights, n
    <2>4. was.mute[id] # 2 => slot[n].to = was.mute[id]
        BY <1>1, <2>1, <2>3 DEF HandInv, MuteSent
    <2> HIDE DEF was
    <2> QED  BY <2>2, <2>4, <1>3, <1>5, <1>6, <1>8
<1>9. CASE mine = {} /\ flights = {}
    <2> HIDE DEF mine, k, flights, n, was
    <2> QED  BY <1>4, <1>5, <1>6, <1>9
<1> QED  BY <1>7, <1>8, <1>9

-----------------------------------------------------------------------------
LEMMA AppendEdgeOK ==
    ASSUME NEW i, InputOK(Strip, i), Len(i.edge) # Edges,
           NEW x \in [id : Serial, strip : Strip, to : {0, 1}],
           NEW j, j = [i EXCEPT !.edge = Append(@, x)]
    PROVE  /\ InputOK(Strip, j) /\ j.hold = i.hold /\ j.move = i.move /\ j.pick = i.pick
           /\ j.error = i.error
           /\ DOMAIN j.edge = 1 .. Len(i.edge) + 1 /\ j.edge[Len(i.edge) + 1] = x
           /\ \A k \in DOMAIN i.edge : k \in DOMAIN j.edge /\ j.edge[k] = i.edge[k]
           /\ DOMAIN i.edge = 1 .. Len(i.edge) /\ Len(i.edge) \in Nat
<1> DEFINE E == [id : Serial, strip : Strip, to : {0, 1}]
           e == Append(i.edge, x)
<1>1. /\ i.edge \in Seq(E) /\ DOMAIN i.edge = 1 .. Len(i.edge) /\ Len(i.edge) \in Nat
      /\ i \in InputSet(Strip) /\ Len(i.edge) <= Edges
    <2>1. i.edge \in Seq(E) /\ DOMAIN i.edge = 1 .. Len(i.edge) /\ Len(i.edge) \in Nat
        BY EdgesOK
    <2>2. i \in InputSet(Strip) /\ Len(i.edge) <= Edges
        BY DEF InputOK
    <2> QED  BY <2>1, <2>2
<1>2. x \in E
    OBVIOUS
<1> HIDE DEF E
<1>4. /\ e \in Seq(E) /\ Len(e) = Len(i.edge) + 1
      /\ \A k \in 1 .. Len(i.edge) : e[k] = i.edge[k]
      /\ e[Len(i.edge) + 1] = x
    BY <1>1, <1>2, AppendProperties
<1>5. DOMAIN e = 1 .. Len(i.edge) + 1
    BY <1>4, LenProperties
<1>6. j = [i EXCEPT !.edge = e]
    OBVIOUS
<1> HIDE DEF e
<1>7. /\ j \in InputSet(Strip) /\ j.hold = i.hold /\ j.move = i.move /\ j.pick = i.pick
      /\ j.error = i.error /\ j.edge = e
    <2>1. e \in Seq([id : Serial, strip : Strip, to : {0, 1}])
        BY <1>4 DEF E
    <2> QED  BY <1>1, <1>6, <2>1 DEF InputSet
<1>8. Len(j.edge) <= Edges
    BY <1>1, <1>4, <1>7, Sizes
<1> QED  BY <1>1, <1>4, <1>5, <1>7, <1>8 DEF InputOK

LEMMA ErrorOK ==
    ASSUME NEW i, InputOK(Strip, i), NEW e \in {"none", "identity", "closed", "capacity"},
           NEW j, j = [i EXCEPT !.error = e]
    PROVE  /\ InputOK(Strip, j) /\ j.hold = i.hold /\ j.move = i.move /\ j.pick = i.pick
           /\ j.edge = i.edge /\ j.error = e
BY DEF InputOK, InputSet

LEMMA MuteStep ==
    ASSUME IInv, NEW s, Mute(s)
    PROVE  IInv'
<1> DEFINE B == Bank0
           I == Input0
           id == Bank0.strips[s]
           was == StillAsked(Bank0, Input0)
           x == [id |-> id, strip |-> s, to |-> 1 - Prior(id)]
<1>1. /\ Hear("mute", s, 0) /\ ~Deaf /\ at' = at /\ bank' = B
      /\ input' = IF id = None \/ Failed THEN I
                  ELSE IF Full THEN [I EXCEPT !.error = "capacity"]
                  ELSE [I EXCEPT !.edge = Append(@, x)]
      /\ asked' = IF id = None \/ Failed \/ Full THEN was
                  ELSE [was EXCEPT !.mute[id] = Pressed(id)]
    BY DEF Mute
<1>2. s \in Strip
    BY <1>1, HearTypes
<1>3. /\ BankOK(Strip, B) /\ InputOK(Strip, I) /\ I.error = input.error
      /\ AskedOK(Strip, was) /\ HandInv(Strip, B, I, was, slot, live)
    BY HearStart
<1>4. at' \in [Strip -> Position] /\ input.error # "closed"
    BY <1>1 DEF IInv, KindsOK
<1>5. live.ready
    BY <1>1, SeenOK DEF Deaf, IInv
<1>6. id \in Serial \cup {None}
    BY <1>2, <1>3 DEF BankOK, BankSet
<1>7. CASE id = None \/ Failed
    <2>1. input' = I /\ asked' = was
        BY <1>1, <1>7
    <2> HIDE DEF B, I, was, id
    <2> QED  BY <2>1, <1>1, <1>3, <1>4, HearDone
<1>8. CASE ~(id = None \/ Failed) /\ Full
    <2>1. input' = [I EXCEPT !.error = "capacity"] /\ asked' = was
        BY <1>1, <1>8
    <2> HIDE DEF B, I, was, id
    <2>2. /\ InputOK(Strip, input') /\ input'.hold = I.hold /\ input'.move = I.move
          /\ input'.pick = I.pick /\ input'.edge = I.edge /\ input'.error = "capacity"
        BY <1>3, <2>1, ErrorOK
    <2>3. MoveInv(Strip, B, input', was)
        BY <1>3, <2>2 DEF HandInv, MoveInv
    <2>4. HandInv(Strip, bank', input', asked', slot, live)
        BY <1>1, <1>3, <2>1, <2>2, <2>3, OnlyHolds
    <2> QED  BY <2>1, <2>2, <2>4, <1>1, <1>3, <1>4, HearDone
<1>9. CASE ~(id = None \/ Failed) /\ ~Full
    <2>1. /\ input' = [I EXCEPT !.edge = Append(@, x)]
          /\ asked' = [was EXCEPT !.mute[id] = Pressed(id)]
          /\ id \in Serial /\ Len(I.edge) # Edges
        BY <1>1, <1>6, <1>9 DEF Full
    <2>2. /\ Prior(id) \in {0, 1} /\ Pressed(id) \in {0, 1, 2}
          /\ Pressed(id) # 2 => Pressed(id) = 1 - Prior(id)
        BY <1>5, <2>1, PriorOK
    <2> DEFINE p == Pressed(id)
    <2>3. x \in [id : Serial, strip : Strip, to : {0, 1}] /\ x.id = id /\ p \in {2, x.to}
          /\ p \in {0, 1, 2}
        BY <1>2, <2>1, <2>2
    <2> HIDE DEF B, I, was, id, x, p
    <2>4. /\ InputOK(Strip, input') /\ input'.hold = I.hold /\ input'.move = I.move
          /\ input'.pick = I.pick /\ input'.error = I.error
          /\ DOMAIN input'.edge = 1 .. Len(I.edge) + 1 /\ input'.edge[Len(I.edge) + 1] = x
          /\ \A k \in DOMAIN I.edge : k \in DOMAIN input'.edge /\ input'.edge[k] = I.edge[k]
          /\ DOMAIN I.edge = 1 .. Len(I.edge) /\ Len(I.edge) \in Nat
        BY <1>3, <2>1, <2>3, AppendEdgeOK
    <2>5. /\ AskedOK(Strip, asked') /\ asked'.meant = was.meant /\ asked'.move = was.move
          /\ asked'.pick = was.pick /\ asked'.mute = [was.mute EXCEPT ![id] = p]
          /\ was.mute \in [Serial -> {0, 1, 2}]
        BY <1>3, <2>1, <2>3 DEF AskedOK, p
    <2>6. asked'.mute[id] = p /\ \A t \in Serial \ {id} : asked'.mute[t] = was.mute[t]
        BY <2>1, <2>5
    <2>7. MoveInv(Strip, bank', input', asked') /\ MoveSent(Strip, input', asked', slot, live)
        BY <1>1, <1>3, <2>4, <2>5 DEF HandInv, MoveInv, MoveSent
    <2>8. PickInv(Strip, input', asked', live) /\ PickSent(Strip, input', asked', slot, live)
        BY <1>3, <2>4, <2>5 DEF HandInv, PickInv, PickSent
    <2>9. \A k \in DOMAIN I.edge : I.edge[k].id \in Serial
        BY <1>3, EdgesOK
    <2>10. Len(I.edge) + 1 \in DOMAIN input'.edge /\ \A k \in DOMAIN I.edge : Len(I.edge) + 1 > k
        BY <2>4
    <2>11. EdgeInv(input', asked')
        <3> SUFFICES ASSUME NEW k \in DOMAIN input'.edge
                     PROVE  \/ asked'.mute[input'.edge[k].id] \in {2, input'.edge[k].to}
                            \/ \E j \in DOMAIN input'.edge :
                                  j > k /\ input'.edge[j].id = input'.edge[k].id
            BY DEF EdgeInv
        <3>1. CASE k = Len(I.edge) + 1
            BY <3>1, <2>3, <2>4, <2>6
        <3>2. CASE k # Len(I.edge) + 1
            <4>1. k \in DOMAIN I.edge /\ input'.edge[k] = I.edge[k]
                BY <2>4, <3>2
            <4>2. CASE I.edge[k].id = id
                BY <4>1, <4>2, <2>3, <2>4, <2>10
            <4>3. CASE I.edge[k].id # id
                <5>1. \/ was.mute[I.edge[k].id] \in {2, I.edge[k].to}
                      \/ \E j \in DOMAIN I.edge : j > k /\ I.edge[j].id = I.edge[k].id
                    BY <4>1, <1>3 DEF HandInv, EdgeInv
                <5> QED  BY <5>1, <4>1, <4>3, <2>4, <2>6, <2>9
            <4> QED  BY <4>2, <4>3
        <3> QED  BY <3>1, <3>2
    <2>12. MuteSent(input', asked', slot, live)
        <3> SUFFICES ASSUME NEW t \in Serial, asked'.mute[t] # 2,
                            \A k \in DOMAIN input'.edge : input'.edge[k].id # t
                     PROVE  /\ asked'.mute[t] = was.mute[t]
                            /\ \A k \in DOMAIN I.edge : I.edge[k].id # t
            BY <1>3 DEF HandInv, MuteSent
        <3>1. t # id
            BY <2>3, <2>4, <2>10
        <3> QED  BY <3>1, <2>4, <2>6
    <2>13. HandInv(Strip, bank', input', asked', slot, live)
        BY <2>7, <2>8, <2>11, <2>12 DEF HandInv
    <2> QED  BY <2>4, <2>5, <2>13, <1>1, <1>3, <1>4, HearDone
<1> QED  BY <1>7, <1>8, <1>9

-----------------------------------------------------------------------------
\* input_control_bound, a selection: the one that is pending is the one asked.
LEMMA PickedOK ==
    ASSUME NEW b, NEW i, InputOK(Strip, i), NEW a, AskedOK(Strip, a),
           HandInv(Strip, b, i, a, slot, live),
           NEW s \in Strip, NEW id \in Serial, Has(live, id), NEW far \in BOOLEAN
    PROVE  /\ InputOK(Strip, Picked(i, s, id, far))
           /\ Picked(i, s, id, far).error = i.error
           /\ AskedOK(Strip, [a EXCEPT !.pick = id])
           /\ HandInv(Strip, b, Picked(i, s, id, far), [a EXCEPT !.pick = id], slot, live)
<1> DEFINE pick == [[t \in Strip |-> NoPick] EXCEPT ![s] = [id |-> id, far |-> far]]
           j == Picked(i, s, id, far)
           d == [a EXCEPT !.pick = id]
<1>1. j = [i EXCEPT !.pick = pick]
    BY DEF Picked
<1>2. /\ pick \in [Strip -> [id : Serial \cup {None}, far : BOOLEAN]]
      /\ pick[s].id = id /\ \A t \in Strip : t # s => pick[t].id = None
    BY NothingsOK
<1> HIDE DEF pick, j
<1>3. /\ InputOK(Strip, j) /\ j.hold = i.hold /\ j.move = i.move /\ j.pick = pick
      /\ j.edge = i.edge /\ j.error = i.error
    BY <1>1, <1>2 DEF InputOK, InputSet
<1>4. /\ AskedOK(Strip, d) /\ d.meant = a.meant /\ d.move = a.move /\ d.pick = id
      /\ d.mute = a.mute
    BY DEF AskedOK
<1> HIDE DEF d
<1>5. MoveInv(Strip, b, j, d) /\ MoveSent(Strip, j, d, slot, live)
    BY <1>3, <1>4 DEF HandInv, MoveInv, MoveSent
<1>6. PickInv(Strip, j, d, live)
    BY <1>2, <1>3, <1>4, Sizes DEF PickInv
<1>7. PickSent(Strip, j, d, slot, live)
    BY <1>2, <1>3, <1>4, Sizes DEF PickSent
<1>8. EdgeInv(j, d) /\ MuteSent(j, d, slot, live)
    BY <1>3, <1>4 DEF HandInv, EdgeInv, MuteSent
<1>9. HandInv(Strip, b, j, d, slot, live)
    BY <1>5, <1>6, <1>7, <1>8 DEF HandInv
<1> QED  BY <1>3, <1>4, <1>9 DEF j, d

LEMMA SelectStep ==
    ASSUME IInv, NEW s, Select(s)
    PROVE  IInv'
<1> DEFINE B == Bank0
           I == Input0
           id == Bank0.strips[s]
           was == StillAsked(Bank0, Input0)
<1>1. /\ Hear("select", s, 0) /\ ~Deaf /\ at' = at /\ bank' = B
      /\ input' = IF id = None \/ Failed THEN I ELSE Picked(I, s, id, FALSE)
      /\ asked' = IF id = None \/ Failed THEN was ELSE [was EXCEPT !.pick = id]
    BY DEF Select
<1>2. s \in Strip
    BY <1>1, HearTypes
<1>3. /\ BankOK(Strip, B) /\ InputOK(Strip, I) /\ I.error = input.error
      /\ AskedOK(Strip, was) /\ HandInv(Strip, B, I, was, slot, live)
      /\ live.ready => \A t \in Strip : B.strips[t] # None => Has(live, B.strips[t])
    BY HearStart
<1>4. at' \in [Strip -> Position] /\ input.error # "closed"
    BY <1>1 DEF IInv, KindsOK
<1>5. live.ready
    BY <1>1, SeenOK DEF Deaf, IInv
<1>6. id \in Serial \cup {None} /\ (id # None => Has(live, id))
    BY <1>2, <1>3, <1>5 DEF BankOK, BankSet
<1> HIDE DEF B, I, was, id
<1>7. CASE id = None \/ Failed
    BY <1>7, <1>1, <1>3, <1>4, HearDone
<1>8. CASE ~(id = None \/ Failed)
    <2> DEFINE far == FALSE
    <2>1. /\ input' = Picked(I, s, id, far) /\ asked' = [was EXCEPT !.pick = id]
          /\ far \in BOOLEAN /\ id \in Serial /\ Has(live, id)
        BY <1>1, <1>6, <1>8
    <2> HIDE DEF far
    <2>2. /\ InputOK(Strip, input') /\ input'.error = I.error /\ AskedOK(Strip, asked')
          /\ HandInv(Strip, B, input', asked', slot, live)
        BY <1>2, <1>3, <2>1, PickedOK
    <2> QED  BY <2>2, <1>1, <1>3, <1>4, HearDone
<1> QED  BY <1>7, <1>8

LEMMA ChannelStep ==
    ASSUME IInv, NEW n, Channel(n)
    PROVE  IInv'
<1> DEFINE B == Bank0
           I == Input0
           was == StillAsked(Bank0, Input0)
           r == IF Has(Seen, From) /\ ~Failed THEN Row(Seen, From) + n ELSE 0
           id == Seen.rows[r]
<1>1. /\ Hear("channel", 0, n) /\ ~Deaf /\ at' = at /\ bank' = B
      /\ input' = IF r \notin DOMAIN Seen.rows THEN I ELSE Picked(I, 1, id, TRUE)
      /\ asked' = IF r \notin DOMAIN Seen.rows THEN was ELSE [was EXCEPT !.pick = id]
    BY DEF Channel
<1>2. 1 \in Strip
    BY SceneSizes DEF Strip, IInv, KindsOK
<1>3. /\ BankOK(Strip, B) /\ InputOK(Strip, I) /\ I.error = input.error
      /\ AskedOK(Strip, was) /\ HandInv(Strip, B, I, was, slot, live)
    BY HearStart
<1>4. at' \in [Strip -> Position] /\ input.error # "closed"
    BY <1>1 DEF IInv, KindsOK
<1>5. live.ready /\ Seen.rows = live.rows /\ CopyOK(Seen)
    BY <1>1, SeenOK DEF Deaf, IInv
<1> HIDE DEF B, I, was, r
<1>6. CASE r \notin DOMAIN Seen.rows
    BY <1>6, <1>1, <1>3, <1>4, HearDone
<1>7. CASE r \in DOMAIN Seen.rows
    <2>1. id \in Serial /\ Has(live, id)
        BY <1>5, <1>7 DEF CopyOK, Has
    <2> HIDE DEF id
    <2> DEFINE far == TRUE
           s == 1
    <2>2. /\ input' = Picked(I, s, id, far) /\ asked' = [was EXCEPT !.pick = id]
          /\ far \in BOOLEAN /\ s \in Strip
        BY <1>1, <1>2, <1>7
    <2> HIDE DEF far, s
    <2>3. /\ InputOK(Strip, input') /\ input'.error = I.error /\ AskedOK(Strip, asked')
          /\ HandInv(Strip, B, input', asked', slot, live)
        BY <1>3, <2>1, <2>2, PickedOK
    <2> QED  BY <2>3, <1>1, <1>3, <1>4, HearDone
<1> QED  BY <1>6, <1>7

-----------------------------------------------------------------------------
LEMMA BankStep ==
    ASSUME IInv, NEW n, Bank(n)
    PROVE  IInv'
<1> DEFINE B == Bank0
           I == Input0
           was == StillAsked(Bank0, Input0)
           o == IF n < 0 THEN IF B.offset >= scene.bank THEN B.offset - scene.bank ELSE 0
                ELSE IF B.offset + scene.bank < B.count THEN B.offset + scene.bank
                ELSE B.offset
           c == IF o = B.offset THEN B ELSE [Dropped(B) EXCEPT !.offset = o]
           i == IF o = B.offset THEN I ELSE BankDiscarded(I)
<1>1. /\ Hear("bank", 0, n) /\ at' = at /\ bank' = c /\ input' = i
      /\ asked' = StillAsked(c, i)
    BY DEF Bank
<1>2. scene.bank \in Nat \ {0}
    BY SceneSizes DEF IInv, KindsOK
<1>3. /\ BankOK(Strip, B) /\ InputOK(Strip, I) /\ I.error = input.error
      /\ AskedOK(Strip, was) /\ HandInv(Strip, B, I, was, slot, live)
    BY HearStart
<1>4. /\ at' \in [Strip -> Position] /\ input.error # "closed" /\ InputOK(Strip, input)
      /\ AskedOK(Strip, asked) /\ HandInv(Strip, bank, input, asked, slot, live)
      /\ BankOK(Strip, bank)
    BY <1>1 DEF IInv, KindsOK
<1>5. CASE o = B.offset
    <2>1. bank' = B /\ input' = I /\ asked' = was
        BY <1>1, <1>5
    <2> HIDE DEF B, I, was, o
    <2> QED  BY <2>1, <1>1, <1>3, <1>4, HearDone
<1>6. CASE o # B.offset
    <2> DEFINE x == Dropped(B)
    <2>1. /\ BankOK(Strip, x) /\ x.ready = FALSE /\ \A s \in Strip : x.fader[s].id = None
        BY <1>3, DroppedOK
    <2>2. B.offset \in Nat /\ B.count \in Nat
        BY <1>3 DEF BankOK, BankSet
    <2>3. c = [x EXCEPT !.offset = o] /\ i = BankDiscarded(I)
        BY <1>6
    <2> HIDE DEF B, I
    <2>4. o \in Nat
        BY <1>2, <2>2
    <2> HIDE DEF was, o, x, c, i
    <2>5. /\ BankOK(Strip, c) /\ \A s \in Strip : c.fader[s].id = None
        <3>1. x \in BankSet(Strip)
            BY <2>1 DEF BankOK
        <3>2. c \in BankSet(Strip) /\ c.fader = x.fader /\ c.ready = FALSE
            BY <2>1, <2>3, <2>4, <3>1 DEF BankSet
        <3> QED  BY <2>1, <3>2, Sizes DEF BankOK
    <2>6. InputOK(Strip, i) /\ Forgets(Strip, c, I, i)
        BY <1>3, <2>3, <2>5, BankDiscardedOK
    <2>7. Forgets(Strip, B, input, I)
        <3>1. BankOK(Strip, Bank0)
            BY <1>3 DEF B
        <3> QED  BY <1>4, <3>1, SyncedOK DEF Input0, B, I
    <2>8. Forgets(Strip, c, input, i)
        BY <2>5, <2>6, <2>7 DEF Forgets
    <2>9. /\ AskedOK(Strip, StillAsked(c, i))
          /\ HandInv(Strip, c, i, StillAsked(c, i), slot, live)
        BY <1>4, <2>6, <2>8, ForgettingIsSafe
    <2>10. i.error = I.error
        BY <2>6 DEF Forgets
    <2> QED  BY <1>1, <1>3, <1>4, <2>5, <2>6, <2>9, <2>10, HearDone
<1> QED  BY <1>5, <1>6

LEMMA UnheardStep ==
    ASSUME IInv, NEW kind, NEW s, NEW arg, Unheard(kind, s, arg)
    PROVE  IInv'
<1> DEFINE B == Bank0
           j == Discarded(input)
           a == [Unasked EXCEPT !.meant = asked.meant]
           d == arg = 1
<1>1. /\ Hear(kind, s, arg) /\ input' = j /\ asked' = a
      /\ bank' = CASE kind = "touch" -> Touched(B, s, d)
                   [] kind = "pitch" -> [B EXCEPT !.fader[s].physical = arg]
                   [] OTHER -> B
      /\ at' = IF kind = "pitch" THEN [at EXCEPT ![s] = arg] ELSE at
    BY DEF Unheard
<1>2. /\ kind \in {"touch", "pitch"} => s \in Strip
      /\ kind = "pitch" => arg \in Position
    BY <1>1, HearTypes
<1>3. /\ BankOK(Strip, B) /\ InputOK(Strip, input) /\ AskedOK(Strip, asked)
      /\ input.error # "closed" /\ at \in [Strip -> Position]
    BY HearStart DEF IInv, KindsOK
<1>4. at' \in [Strip -> Position]
    BY <1>1, <1>2, <1>3
<1>5. /\ InputOK(Strip, j) /\ j.error = input.error /\ AskedOK(Strip, a)
      /\ HandInv(Strip, bank', j, a, slot, live)
    <2>1. /\ InputOK(Strip, j) /\ j.error = input.error /\ j.edge = <<>>
          /\ \A t \in Strip : /\ j.move[t].id = None /\ j.hold[t].held = FALSE
                              /\ j.pick[t].id = None
        BY <1>3, DiscardedOK
    <2>2. /\ AskedOK(Strip, a) /\ a.pick = None /\ \A t \in Strip : a.move[t].id = None
          /\ \A t \in Serial : a.mute[t] = 2
        BY <1>3, UnaskedOK
    <2> HIDE DEF j, a
    <2> QED  BY <2>1, <2>2, NothingAsked
<1>6. BankOK(Strip, bank')
    <2> HIDE DEF B, d, j, a
    <2>1. CASE kind = "touch"
        <3>1. bank' = Touched(B, s, d) /\ s \in Strip
            BY <1>1, <1>2, <2>1
        <3>2. d \in BOOLEAN
            BY DEF d
        <3> QED  BY <1>3, <3>1, <3>2, TouchedOK
    <2>2. CASE kind = "pitch"
        <3> DEFINE k == [B.fader[s] EXCEPT !.physical = arg]
        <3>1. s \in Strip /\ arg \in Position /\ B \in BankSet(Strip) /\ B.fader[s] \in FaderSet
            BY <1>2, <1>3, <2>2 DEF BankOK, BankSet
        <3>2. k \in FaderSet /\ k.id = B.fader[s].id
            BY <3>1 DEF FaderSet
        <3>3. bank' = [B EXCEPT !.fader[s].physical = arg]
            BY <1>1, <2>2
        <3>4. bank' = [B EXCEPT !.fader = [@ EXCEPT ![s] = k]]
            BY <3>1, <3>3 DEF BankSet
        <3> HIDE DEF k
        <3> QED  BY <1>3, <3>1, <3>2, <3>4, FaderOK
    <2>3. CASE kind \notin {"touch", "pitch"}
        BY <1>1, <1>3, <2>3
    <2> QED  BY <2>1, <2>2, <2>3
<1> HIDE DEF B, j, a
<1> QED  BY <1>1, <1>3, <1>4, <1>5, <1>6, HearDone

LEMMA HearStep ==
    ASSUME IInv, HearAny
    PROVE  IInv'
<1>1. PICK e \in scene.events :
         \/ e.kind = "touch" /\ Touch(e.strip, e.arg = 1)
         \/ e.kind = "pitch" /\ Pitch(e.strip, e.arg)
         \/ e.kind = "mute" /\ Mute(e.strip)
         \/ e.kind = "select" /\ Select(e.strip)
         \/ e.kind = "channel" /\ Channel(e.arg)
         \/ e.kind = "bank" /\ Bank(e.arg)
         \/ Unheard(e.kind, e.strip, e.arg)
    BY DEF HearAny
<1>2. ASSUME Touch(e.strip, e.arg = 1) PROVE IInv'
    <2> DEFINE down == e.arg = 1
    <2>1. down \in BOOLEAN /\ Touch(e.strip, down)
        BY <1>2
    <2> HIDE DEF down
    <2> QED  BY <2>1, TouchStep
<1>3. ASSUME Pitch(e.strip, e.arg) PROVE IInv'
    BY <1>3, PitchStep
<1>4. ASSUME Mute(e.strip) PROVE IInv'
    BY <1>4, MuteStep
<1>5. ASSUME Select(e.strip) PROVE IInv'
    BY <1>5, SelectStep
<1>6. ASSUME Channel(e.arg) PROVE IInv'
    BY <1>6, ChannelStep
<1>7. ASSUME Bank(e.arg) PROVE IInv'
    BY <1>7, BankStep
<1>8. ASSUME Unheard(e.kind, e.strip, e.arg) PROVE IInv'
    BY <1>8, UnheardStep
<1> QED  BY <1>1, <1>2, <1>3, <1>4, <1>5, <1>6, <1>7, <1>8

-----------------------------------------------------------------------------
\* What a step of the bridge has to leave behind.
LEMMA BridgeDone ==
    ASSUME IInv, scene' = scene, live' = live,
           pc' \in {"events", "settle", "pump", "edges", "desires", "motors", "stopped"},
           at' \in [Strip -> Position], CopyOK(snap'), CopyOK(batch'),
           BankOK(Strip, bank'), InputOK(Strip, input'), AskedOK(Strip, asked'),
           SlotsOK(Strip, slot'), input'.error # "closed",
           ~on' => \A s \in Strip : input'.move[s].id = None /\ asked'.move[s].id = None,
           HandInv(Strip, bank', input', asked', slot', live),
           pc' \in Pumping => SnapInv(Strip, bank', asked', slot', live, snap')
    PROVE  IInv'
<1>1. Strip' = Strip
    BY DEF Strip
<1>2. LiveOK'
    BY DEF IInv, KindsOK, LiveOK
<1>3. KindsOK'
    BY <1>1, <1>2 DEF IInv, KindsOK
<1> QED  BY <1>1, <1>3 DEF IInv

\* Slots move on: what is under way stays so, and nothing else is filled.
MovesOn(q, p) ==
    \A n \in 1 .. Slots :
        /\ p[n].phase = "sent" <=> q[n].phase = "sent"
        /\ p[n].phase # "free" => /\ q[n].phase # "free" /\ p[n].field = q[n].field
                                  /\ p[n].id = q[n].id /\ p[n].to = q[n].to
                                  /\ p[n].strip = q[n].strip

LEMMA MovingOnIsSafe ==
    ASSUME NEW b, NEW i, NEW a, NEW q, NEW l, HandInv(Strip, b, i, a, q, l),
           NEW p, MovesOn(q, p)
    PROVE  HandInv(Strip, b, i, a, p, l)
<1>1. \A n \in 1 .. Slots, field \in {"volume", "select", "mute"} :
          Sent(p, n, field) <=> Sent(q, n, field)
    BY DEF MovesOn, Sent
<1>2. \A n \in 1 .. Slots, field \in {"volume", "select", "mute"} :
          Sent(p, n, field) => p[n].id = q[n].id /\ p[n].to = q[n].to
                               /\ p[n].strip = q[n].strip
    BY DEF MovesOn, Sent
<1>3. MoveSent(Strip, i, a, p, l)
    BY <1>1, <1>2 DEF HandInv, MoveSent
<1>4. PickSent(Strip, i, a, p, l)
    BY <1>1, <1>2 DEF HandInv, PickSent
<1>5. MuteSent(i, a, p, l)
    BY <1>1, <1>2 DEF HandInv, MuteSent, MovesOn
<1> QED  BY <1>3, <1>4, <1>5 DEF HandInv

LEMMA CopyStep ==
    ASSUME IInv, NEW beat \in BOOLEAN, Copy(beat)
    PROVE  IInv'
<1>1. /\ pc' = "settle" /\ snap' = Copied /\ batch' = NoCopy
      /\ bank' = Applied(bank, Copied, beat) /\ input' = Synced(input, bank')
      /\ asked' = StillAsked(bank', input')
      /\ slot' = [n \in 1 .. Slots |-> IF slot[n].phase = "done" /\ beat
                                       THEN [slot[n] EXCEPT !.phase = "shown"] ELSE slot[n]]
      /\ UNCHANGED <<scene, live, on, follow, at, left>>
    BY DEF Copy
<1>2. /\ LiveOK /\ BankOK(Strip, bank) /\ InputOK(Strip, input) /\ AskedOK(Strip, asked)
      /\ SlotsOK(Strip, slot) /\ scene \in Scenes /\ at \in [Strip -> Position]
      /\ input.error # "closed" /\ HandInv(Strip, bank, input, asked, slot, live)
      /\ ~on => \A s \in Strip : input.move[s].id = None /\ asked.move[s].id = None
    BY DEF IInv, KindsOK
<1>3. /\ CopyOK(snap') /\ CopyOK(batch') /\ snap'.ready = live.ready /\ snap'.rows = live.rows
      /\ snap'.sel = live.sel /\ snap'.volume = live.volume /\ snap'.mute = live.mute
    BY <1>1, <1>2, CopiedOK, NoCopyOK
<1>4. /\ BankOK(Strip, bank') /\ bank'.ready = snap'.ready
      /\ \A s \in Strip : bank'.fader[s].id \in Serial => Has(snap', bank'.fader[s].id)
      /\ snap'.ready => \A s \in Strip : bank'.strips[s] # None => Has(snap', bank'.strips[s])
    BY <1>1, <1>2, <1>3, AppliedOK
<1>5. InputOK(Strip, input') /\ Forgets(Strip, bank', input, input')
    BY <1>1, <1>2, <1>4, SyncedOK
<1>6. /\ AskedOK(Strip, asked') /\ Lessens(Strip, asked, asked')
      /\ HandInv(Strip, bank', input', asked', slot, live)
    BY <1>1, <1>2, <1>5, ForgettingIsSafe
<1>7. SlotsOK(Strip, slot') /\ MovesOn(slot, slot')
    <2>1. SlotsOK(Strip, slot')
        BY <1>1, <1>2 DEF SlotsOK, Unsettled
    <2>2. MovesOn(slot, slot')
        BY <1>1, <1>2 DEF SlotsOK, MovesOn
    <2> QED  BY <2>1, <2>2
<1>8. HandInv(Strip, bank', input', asked', slot', live)
    BY <1>6, <1>7, MovingOnIsSafe
<1>9. ~on' => \A s \in Strip : input'.move[s].id = None /\ asked'.move[s].id = None
    BY <1>1, <1>2, <1>5, <1>6 DEF Forgets, Lessens
<1>10. SnapInv(Strip, bank', asked', slot', live, snap')
    <2>1. asked'.pick # None => Has(snap', asked'.pick)
        BY <1>3, <1>8 DEF HandInv, PickInv, Has
    <2> QED  BY <1>3, <1>4, <2>1 DEF SnapInv
<1>11. input'.error # "closed"
    BY <1>2, <1>5 DEF Forgets
<1> QED  BY <1>1, <1>2, <1>3, <1>4, <1>5, <1>6, <1>7, <1>8, <1>9, <1>10, <1>11, BridgeDone

\* Whatever drops the bank and what is pending asks for nothing.
LEMMA NothingLeft ==
    ASSUME InputOK(Strip, input), AskedOK(Strip, asked), NEW j, j = Discarded(input),
           NEW a, a \in {Unasked, [Unasked EXCEPT !.meant = asked.meant]}
    PROVE  /\ InputOK(Strip, j) /\ j.error = input.error /\ AskedOK(Strip, a)
           /\ \A s \in Strip : j.move[s].id = None /\ a.move[s].id = None
           /\ a.pick = None /\ \A t \in Serial : a.mute[t] = 2
           /\ \A b, q, l : HandInv(Strip, b, j, a, q, l)
<1>1. /\ InputOK(Strip, j) /\ j.error = input.error /\ j.edge = <<>>
      /\ \A t \in Strip : /\ j.move[t].id = None /\ j.hold[t].held = FALSE
                          /\ j.pick[t].id = None
    BY DiscardedOK
<1>2. /\ AskedOK(Strip, a) /\ a.pick = None /\ \A t \in Strip : a.move[t].id = None
      /\ \A t \in Serial : a.mute[t] = 2
    BY UnaskedOK
<1>3. ASSUME NEW b, NEW q, NEW l PROVE HandInv(Strip, b, j, a, q, l)
    BY <1>1, <1>2, NothingAsked
<1> QED  BY <1>1, <1>2, <1>3

LEMMA CopyFailsStep ==
    ASSUME IInv, CopyFails
    PROVE  IInv'
<1>1. /\ pc = "events" /\ batch' = NoCopy /\ bank' = Dropped(bank)
      /\ input' = Discarded(input) /\ asked' = [Unasked EXCEPT !.meant = asked.meant]
      /\ UNCHANGED <<scene, live, slot, pc, on, snap, follow, at, left>>
    BY DEF CopyFails
<1>2. /\ BankOK(Strip, bank) /\ InputOK(Strip, input) /\ AskedOK(Strip, asked)
      /\ SlotsOK(Strip, slot) /\ CopyOK(snap) /\ at \in [Strip -> Position]
      /\ input.error # "closed"
    BY DEF IInv, KindsOK
<1>3. BankOK(Strip, bank')
    BY <1>1, <1>2, DroppedOK
<1>4. /\ InputOK(Strip, input') /\ input'.error = input.error /\ AskedOK(Strip, asked')
      /\ \A s \in Strip : input'.move[s].id = None /\ asked'.move[s].id = None
      /\ HandInv(Strip, bank', input', asked', slot', live)
    BY <1>1, <1>2, NothingLeft
<1>5. CopyOK(batch') /\ pc' \notin Pumping
    BY <1>1, NoCopyOK DEF Pumping
<1> QED  BY <1>1, <1>2, <1>3, <1>4, <1>5, BridgeDone

LEMMA DisconnectStep ==
    ASSUME IInv, Disconnect
    PROVE  IInv'
<1>1. /\ on' = FALSE /\ pc' = "events" /\ batch' = NoCopy /\ snap' = NoCopy
      /\ bank' = Disconnected(bank) /\ input' = Discarded(input) /\ asked' = Unasked
      /\ UNCHANGED <<scene, live, slot, at>>
    BY DEF Disconnect
<1>2. /\ bank \in BankSet(Strip) /\ InputOK(Strip, input) /\ AskedOK(Strip, asked)
      /\ SlotsOK(Strip, slot) /\ at \in [Strip -> Position] /\ input.error # "closed"
    BY DEF IInv, KindsOK, BankOK
<1>3. BankOK(Strip, bank')
    BY <1>1, <1>2, NoBankOK
<1>4. /\ InputOK(Strip, input') /\ input'.error = input.error /\ AskedOK(Strip, asked')
      /\ \A s \in Strip : input'.move[s].id = None /\ asked'.move[s].id = None
      /\ HandInv(Strip, bank', input', asked', slot', live)
    BY <1>1, <1>2, NothingLeft
<1>5. CopyOK(batch') /\ CopyOK(snap') /\ pc' \notin Pumping
    BY <1>1, NoCopyOK DEF Pumping
<1> QED  BY <1>1, <1>2, <1>3, <1>4, <1>5, BridgeDone

LEMMA ReconnectStep ==
    ASSUME IInv, Reconnect
    PROVE  IInv'
<1>1. /\ ~on /\ pc = "events" /\ on' = TRUE /\ bank' = Disconnected(bank)
      /\ UNCHANGED <<scene, live, slot, pc, snap, batch, input, follow, at, left, asked>>
    BY DEF Reconnect
<1>2. /\ bank \in BankSet(Strip) /\ InputOK(Strip, input) /\ AskedOK(Strip, asked)
      /\ SlotsOK(Strip, slot) /\ at \in [Strip -> Position] /\ input.error # "closed"
      /\ CopyOK(snap) /\ CopyOK(batch) /\ HandInv(Strip, bank, input, asked, slot, live)
      /\ \A s \in Strip : input.move[s].id = None /\ asked.move[s].id = None
    BY <1>1 DEF IInv, KindsOK, BankOK
<1>3. BankOK(Strip, bank')
    BY <1>1, <1>2, NoBankOK
<1>4. MoveInv(Strip, bank', input, asked)
    BY <1>2 DEF HandInv, MoveInv
<1>5. HandInv(Strip, bank', input', asked', slot', live)
    BY <1>1, <1>2, <1>4 DEF HandInv
<1>6. pc' \notin Pumping
    BY <1>1 DEF Pumping
<1> QED  BY <1>1, <1>2, <1>3, <1>5, <1>6, BridgeDone

-----------------------------------------------------------------------------
\* input_pump_mode's first half: answers are taken in, and nothing that a request
\* still waits for is lost.
LEMMA FlightsOK ==
    ASSUME IInv, Flights, ~Dead
    PROVE  /\ SlotsOK(Strip, slot') /\ MovesOn(slot, slot') /\ BankOK(Strip, bank')
           /\ bank'.ready = bank.ready /\ bank'.strips = bank.strips
           /\ \A s \in Strip : bank'.fader[s].id = bank.fader[s].id
           /\ \A n \in 1 .. Slots : slot[n].phase = "done" => slot'[n] = slot[n]
<1>1. /\ BankOK(Strip, bank) /\ SlotsOK(Strip, slot)
    BY DEF IInv, KindsOK
<1>2. /\ slot' = [n \in 1 .. Slots |-> AfterFlights(n)]
      /\ bank' = [bank EXCEPT !.fader = [s \in Strip |->
                     [bank.fader[s] EXCEPT !.wait = @ \/ Landed(s)]]]
    BY DEF Flights
<1>3. \A n \in 1 .. Slots :
         \/ slot'[n] = Free /\ slot[n].phase \in {"reclaimed", "returned"}
         \/ slot'[n] = [slot[n] EXCEPT !.phase = "settled"] /\ slot[n].phase = "shown"
         \/ slot'[n] = slot[n] /\ slot[n].phase \notin {"reclaimed", "returned", "shown"}
    BY <1>2 DEF AfterFlights
<1>4. SlotsOK(Strip, slot')
    <2> DEFINE Q == [phase : Unsettled \cup {"free", "settled", "reclaimed"},
                     field : {"volume", "mute", "select"}, id : Serial \cup {None},
                     strip : Strip \cup {0}, to : Position]
    <2>1. Free \in Q /\ Free.field = "volume"
        BY Sizes DEF Free
    <2>2. \A n \in 1 .. Slots : slot[n] \in Q /\ (slot[n].field = "mute" => slot[n].to \in {0, 1})
        BY <1>1 DEF SlotsOK
    <2>3. \A n \in 1 .. Slots : slot'[n] \in Q /\ (slot'[n].field = "mute" => slot'[n].to \in {0, 1})
        <3> SUFFICES ASSUME NEW n \in 1 .. Slots
                     PROVE  slot'[n] \in Q /\ (slot'[n].field = "mute" => slot'[n].to \in {0, 1})
            OBVIOUS
        <3>1. CASE slot'[n] = Free
            BY <2>1, <3>1
        <3>2. CASE slot'[n] = [slot[n] EXCEPT !.phase = "settled"]
            BY <2>2, <3>2
        <3>3. CASE slot'[n] = slot[n]
            BY <2>2, <3>3
        <3> QED  BY <1>3, <3>1, <3>2, <3>3
    <2> HIDE DEF Q
    <2>4. slot' \in [1 .. Slots -> Q]
        BY <1>2, <2>3
    <2> QED  BY <2>3, <2>4 DEF SlotsOK, Q
<1>5. /\ MovesOn(slot, slot')
      /\ \A n \in 1 .. Slots : slot[n].phase = "done" => slot'[n] = slot[n]
    <2> SUFFICES ASSUME NEW n \in 1 .. Slots
                 PROVE  /\ slot'[n].phase = "sent" <=> slot[n].phase = "sent"
                        /\ slot'[n].phase # "free" =>
                              /\ slot[n].phase # "free" /\ slot'[n].field = slot[n].field
                              /\ slot'[n].id = slot[n].id /\ slot'[n].to = slot[n].to
                              /\ slot'[n].strip = slot[n].strip
                        /\ slot[n].phase = "done" => slot'[n] = slot[n]
        BY DEF MovesOn
    <2>1. CASE slot'[n] = Free /\ slot[n].phase \in {"reclaimed", "returned"}
        BY <2>1 DEF Free
    <2>2. CASE slot'[n] = [slot[n] EXCEPT !.phase = "settled"] /\ slot[n].phase = "shown"
        BY <1>1, <2>2 DEF SlotsOK
    <2>3. CASE slot'[n] = slot[n]
        BY <2>3
    <2> QED  BY <1>3, <2>1, <2>2, <2>3
<1> DEFINE f == [s \in Strip |-> [bank.fader[s] EXCEPT !.wait = @ \/ Landed(s)]]
<1>6. f \in [Strip -> FaderSet] /\ \A s \in Strip : f[s].id = bank.fader[s].id
    <2> SUFFICES ASSUME NEW s \in Strip
                 PROVE  f[s] \in FaderSet /\ f[s].id = bank.fader[s].id
        OBVIOUS
    <2> DEFINE w == bank.fader[s].wait \/ Landed(s)
    <2>1. bank.fader[s] \in FaderSet /\ w \in BOOLEAN
        BY <1>1 DEF BankOK, BankSet
    <2>2. f[s] = [bank.fader[s] EXCEPT !.wait = w]
        OBVIOUS
    <2> HIDE DEF w, f
    <2> QED  BY <2>1, <2>2 DEF FaderSet
<1>7. bank \in BankSet(Strip) /\ bank' = [bank EXCEPT !.fader = f]
    BY <1>1, <1>2 DEF BankOK
<1> HIDE DEF f
<1>8. /\ bank' \in BankSet(Strip) /\ bank'.ready = bank.ready /\ bank'.strips = bank.strips
      /\ bank'.offset = bank.offset /\ bank'.count = bank.count /\ bank'.fader = f
    BY <1>6, <1>7 DEF BankSet
<1>9. BankOK(Strip, bank')
    BY <1>1, <1>6, <1>8 DEF BankOK
<1> QED  BY <1>4, <1>5, <1>6, <1>8, <1>9

\* The hand's side, once the answers are taken in.
LEMMA AfterFlightsOK ==
    ASSUME IInv, Flights, ~Dead, live' = live, snap' = snap, pc \in Pumping
    PROVE  /\ HandInv(Strip, bank', input, asked, slot', live)
           /\ SnapInv(Strip, bank', asked, slot', live, snap)
<1>1. /\ MovesOn(slot, slot') /\ bank'.ready = bank.ready /\ bank'.strips = bank.strips
      /\ \A s \in Strip : bank'.fader[s].id = bank.fader[s].id
      /\ \A n \in 1 .. Slots : slot[n].phase = "done" => slot'[n] = slot[n]
    BY FlightsOK
<1>2. HandInv(Strip, bank, input, asked, slot', live)
    BY <1>1, MovingOnIsSafe DEF IInv
<1>3. MoveInv(Strip, bank', input, asked)
    BY <1>1, <1>2 DEF HandInv, MoveInv
<1>4. HandInv(Strip, bank', input, asked, slot', live)
    BY <1>2, <1>3 DEF HandInv
<1>5. SnapInv(Strip, bank, asked, slot, live, snap)
    BY DEF IInv
<1>6. \A field, id : Done(slot, field, id) => Done(slot', field, id)
    BY <1>1 DEF Done
<1>7. SnapInv(Strip, bank', asked, slot', live, snap)
    BY <1>1, <1>5, <1>6 DEF SnapInv
<1> QED  BY <1>4, <1>7

\* A bridge that fails stops with what it had.
LEMMA DeadStep ==
    ASSUME IInv, Flights, Dead, scene' = scene, live' = live, snap' = snap, batch' = batch,
           at' = at, on' = on, asked' = asked
    PROVE  IInv'
<1>1. /\ pc' = "stopped" /\ slot' = slot /\ bank' = bank
      /\ input' = [input EXCEPT !.error = IF Failed THEN @ ELSE "identity"]
    BY DEF Flights
<1>2. /\ BankOK(Strip, bank) /\ InputOK(Strip, input) /\ AskedOK(Strip, asked)
      /\ SlotsOK(Strip, slot) /\ CopyOK(snap) /\ CopyOK(batch) /\ at \in [Strip -> Position]
      /\ input.error # "closed" /\ HandInv(Strip, bank, input, asked, slot, live)
      /\ ~on => \A s \in Strip : input.move[s].id = None /\ asked.move[s].id = None
    BY DEF IInv, KindsOK
<1> DEFINE e == IF Failed THEN input.error ELSE "identity"
<1>3. e \in {"none", "identity", "closed", "capacity"} /\ e # "closed"
    BY <1>2 DEF InputOK, InputSet
<1>4. input' = [input EXCEPT !.error = e]
    BY <1>1, <1>2 DEF InputOK, InputSet
<1> HIDE DEF e
<1>5. /\ InputOK(Strip, input') /\ input'.hold = input.hold /\ input'.move = input.move
      /\ input'.pick = input.pick /\ input'.edge = input.edge /\ input'.error = e
    BY <1>2, <1>3, <1>4, ErrorOK
<1>6. MoveInv(Strip, bank, input', asked)
    BY <1>2, <1>5 DEF HandInv, MoveInv
<1>7. HandInv(Strip, bank, input', asked, slot, live)
    BY <1>2, <1>5, <1>6, OnlyHolds
<1>8. pc' \notin Pumping
    BY <1>1 DEF Pumping
<1> QED  BY <1>1, <1>2, <1>3, <1>5, <1>7, <1>8, BridgeDone

LEMMA DrainStep ==
    ASSUME IInv, Drain
    PROVE  IInv'
<1>1. /\ pc = "settle" /\ Flights
      /\ ~Dead => pc' = (IF on THEN "pump" ELSE "events") /\ input' = input
      /\ UNCHANGED <<scene, live, on, snap, batch, follow, at, left, asked>>
    BY DEF Drain
<1>2. CASE Dead
    BY <1>1, <1>2, DeadStep
<1>3. CASE ~Dead
    <2>1. /\ InputOK(Strip, input) /\ AskedOK(Strip, asked) /\ CopyOK(snap) /\ CopyOK(batch)
          /\ at \in [Strip -> Position] /\ input.error # "closed"
          /\ ~on => \A s \in Strip : input.move[s].id = None /\ asked.move[s].id = None
        BY DEF IInv, KindsOK
    <2>2. SlotsOK(Strip, slot') /\ BankOK(Strip, bank')
        BY <1>1, <1>3, FlightsOK
    <2>3. /\ HandInv(Strip, bank', input, asked, slot', live)
          /\ SnapInv(Strip, bank', asked, slot', live, snap)
        BY <1>1, <1>3, AfterFlightsOK DEF Pumping
    <2>4. pc' \in {"events", "pump"} /\ input' = input
        BY <1>1, <1>3
    <2> QED  BY <1>1, <2>1, <2>2, <2>3, <2>4, BridgeDone
<1> QED  BY <1>2, <1>3

LEMMA PumpStep ==
    ASSUME IInv, Pump
    PROVE  IInv'
<1>1. /\ pc = "pump" /\ Flights
      /\ ~Dead => \/ /\ pc' = "motors" /\ input' = Discarded(input)
                     /\ asked' = [Unasked EXCEPT !.meant = asked.meant]
                  \/ /\ pc' = "edges" /\ input' = Synced(input, bank)
                     /\ asked' = StillAsked(bank, input')
      /\ Dead => UNCHANGED <<follow, asked>>
      /\ UNCHANGED <<scene, live, on, snap, batch, at, left>>
    BY DEF Pump, ToMotors
<1>2. CASE Dead
    BY <1>1, <1>2, DeadStep
<1>3. CASE ~Dead
    <2>1. /\ BankOK(Strip, bank) /\ InputOK(Strip, input) /\ AskedOK(Strip, asked)
          /\ CopyOK(snap) /\ CopyOK(batch) /\ at \in [Strip -> Position]
          /\ input.error # "closed" /\ HandInv(Strip, bank, input, asked, slot, live)
          /\ SnapInv(Strip, bank, asked, slot, live, snap)
          /\ ~on => \A s \in Strip : input.move[s].id = None /\ asked.move[s].id = None
        BY <1>1 DEF IInv, KindsOK, Pumping
    <2>2. /\ SlotsOK(Strip, slot') /\ BankOK(Strip, bank') /\ MovesOn(slot, slot')
          /\ bank'.ready = bank.ready /\ bank'.strips = bank.strips
          /\ \A s \in Strip : bank'.fader[s].id = bank.fader[s].id
          /\ \A n \in 1 .. Slots : slot[n].phase = "done" => slot'[n] = slot[n]
        BY <1>1, <1>3, FlightsOK
    <2>3. CASE /\ pc' = "motors" /\ input' = Discarded(input)
               /\ asked' = [Unasked EXCEPT !.meant = asked.meant]
        <3>1. /\ InputOK(Strip, input') /\ input'.error = input.error /\ AskedOK(Strip, asked')
              /\ \A s \in Strip : input'.move[s].id = None /\ asked'.move[s].id = None
              /\ HandInv(Strip, bank', input', asked', slot', live)
            BY <2>1, <2>3, NothingLeft
        <3>2. pc' \notin Pumping
            BY <2>3 DEF Pumping
        <3> QED  BY <1>1, <2>1, <2>2, <2>3, <3>1, <3>2, BridgeDone
    <2>4. CASE /\ pc' = "edges" /\ input' = Synced(input, bank)
               /\ asked' = StillAsked(bank, input')
        <3>1. InputOK(Strip, input') /\ Forgets(Strip, bank, input, input')
            BY <2>1, <2>4, SyncedOK
        <3>2. /\ AskedOK(Strip, asked') /\ Lessens(Strip, asked, asked')
              /\ HandInv(Strip, bank, input', asked', slot, live)
            BY <2>1, <2>4, <3>1, ForgettingIsSafe
        <3>3. HandInv(Strip, bank, input', asked', slot', live)
            BY <2>2, <3>2, MovingOnIsSafe
        <3>4. MoveInv(Strip, bank', input', asked')
            BY <2>2, <3>3 DEF HandInv, MoveInv
        <3>5. HandInv(Strip, bank', input', asked', slot', live)
            BY <3>3, <3>4 DEF HandInv
        <3>6. SnapInv(Strip, bank', asked, slot', live, snap)
            BY <1>1, <1>3, AfterFlightsOK DEF Pumping
        <3>7. SnapInv(Strip, bank', asked', slot', live, snap)
            BY <3>2, <3>6 DEF SnapInv, Lessens
        <3>8. input'.error = input.error
              /\ (~on => \A s \in Strip : input'.move[s].id = None /\ asked'.move[s].id = None)
            BY <2>1, <3>1, <3>2 DEF Forgets, Lessens
        <3> QED  BY <1>1, <2>1, <2>2, <2>4, <3>1, <3>2, <3>5, <3>7, <3>8, BridgeDone
    <2> QED  BY <1>1, <1>3, <2>3, <2>4
<1> QED  BY <1>2, <1>3

-----------------------------------------------------------------------------
\* A request that found no flight of its control: what becomes of it.
Request(field, id, s, to) ==
    [phase |-> "sent", field |-> field, id |-> id, strip |-> s, to |-> to]
Filled(n, field, id, s, to) ==
    /\ n \in 1 .. Slots /\ slot[n].phase \in {"free", "reclaimed", "returned"}
    /\ slot' = [slot EXCEPT ![n] = Request(field, id, s, to)]
\* A request that can be made.
Askable(field, id, s, to) ==
    /\ field \in {"volume", "mute", "select"} /\ id \in Serial /\ s \in Strip
    /\ to \in Position /\ (field = "mute" => to \in {0, 1})

LEMMA OfferOutcomes ==
    ASSUME NEW field, NEW id, NEW x, field = "select" \/ x = id, Existing(field, x) = {},
           NEW s, NEW to, NEW spent, Offer(field, id, s, to, spent)
    PROVE  \/ /\ ~Has(snap, id) \/ Value(field, id) = to
              /\ input' = spent /\ slot' = slot /\ pc' = pc
           \/ pc' = "motors" /\ slot' = slot /\ input' = input
           \/ /\ input' = spent /\ pc' = pc
              /\ \E n \in 1 .. Slots : Filled(n, field, id, s, to)
<1>1. ~Conflict(field, id)
    BY DEF Conflict, FreeSlots, Existing, Same
<1>2. CASE ~Has(snap, id) \/ Value(field, id) = to
    BY <1>2 DEF Offer
<1>3. CASE ~(~Has(snap, id) \/ Value(field, id) = to) /\ FreeSlots = {}
    BY <1>3 DEF Offer, ToMotors
<1>4. CASE ~(~Has(snap, id) \/ Value(field, id) = to) /\ FreeSlots # {}
    <2>1. Publish(field, id, s, to, spent)
        BY <1>4 DEF Offer
    <2>2. CASE live.intent
        BY <2>1, <2>2 DEF Publish, ToMotors
    <2>3. CASE ~live.intent
        <3>1. PICK n \in FreeSlots :
                 /\ slot' = [slot EXCEPT ![n] = Request(field, id, s, to)]
                 /\ input' = spent /\ UNCHANGED <<pc, follow>>
            BY <1>1, <2>1, <2>3 DEF Publish, Request
        <3> QED  BY <3>1 DEF FreeSlots, Filled
    <2> QED  BY <2>2, <2>3
<1> QED  BY <1>2, <1>3, <1>4

\* A free slot filled: what else is under way is not disturbed.
LEMMA FilledOK ==
    ASSUME SlotsOK(Strip, slot), NEW n, NEW field, NEW id, NEW s, NEW to,
           Askable(field, id, s, to), Filled(n, field, id, s, to)
    PROVE  /\ n \in 1 .. Slots /\ SlotsOK(Strip, slot')
           /\ slot'[n] = Request(field, id, s, to) /\ Sent(slot', n, field)
           /\ \A m \in 1 .. Slots : m # n => slot'[m] = slot[m]
           /\ \A f : \A m \in 1 .. Slots : Sent(slot, m, f) => m # n /\ slot'[m] = slot[m]
           /\ \A f : \A m \in 1 .. Slots : Sent(slot', m, f) => m = n \/ Sent(slot, m, f)
           /\ \A f, t : Done(slot, f, t) => Done(slot', f, t)
<1> DEFINE r == Request(field, id, s, to)
<1>1. /\ (field = "mute" => to \in {0, 1}) /\ r.phase = "sent" /\ r.field = field /\ r.id = id /\ r.strip = s /\ r.to = to
      /\ r \in [phase : Unsettled \cup {"free", "settled", "reclaimed"},
                field : {"volume", "mute", "select"}, id : Serial \cup {None},
                strip : Strip \cup {0}, to : Position]
    BY DEF Askable, Request, Unsettled
<1>2. slot' = [slot EXCEPT ![n] = r] /\ n \in 1 .. Slots
      /\ slot[n].phase \in {"free", "reclaimed", "returned"}
    BY DEF Filled
<1> HIDE DEF r
<1>3. slot'[n] = r /\ \A m \in 1 .. Slots : m # n => slot'[m] = slot[m]
    BY <1>2 DEF SlotsOK
<1>4. SlotsOK(Strip, slot')
    BY <1>1, <1>2, <1>3 DEF SlotsOK
<1>5. /\ Sent(slot', n, field)
      /\ \A f : \A m \in 1 .. Slots : Sent(slot, m, f) => m # n /\ slot'[m] = slot[m]
      /\ \A f : \A m \in 1 .. Slots : Sent(slot', m, f) => m = n \/ Sent(slot, m, f)
    BY <1>1, <1>2, <1>3 DEF Sent
<1>6. \A f, t : Done(slot, f, t) => Done(slot', f, t)
    BY <1>2, <1>3 DEF Done
<1> QED  BY <1>2, <1>3, <1>4, <1>5, <1>6 DEF r

\* What a step of the request lane starts from.
LEMMA LaneStart ==
    ASSUME IInv, pc \in Pumping
    PROVE  /\ BankOK(Strip, bank) /\ InputOK(Strip, input) /\ AskedOK(Strip, asked)
           /\ CopyOK(snap) /\ CopyOK(batch) /\ SlotsOK(Strip, slot) /\ LiveOK
           /\ at \in [Strip -> Position]
           /\ input.error # "closed" /\ HandInv(Strip, bank, input, asked, slot, live)
           /\ SnapInv(Strip, bank, asked, slot, live, snap)
           /\ ~on => \A s \in Strip : input.move[s].id = None /\ asked.move[s].id = None
BY DEF IInv, KindsOK

\* A step that gives up on its request, or has none.
LEMMA IdleStep ==
    ASSUME IInv, UNCHANGED <<scene, live, slot, on, snap, batch, bank, input, at, asked>>,
           pc' \in {"events", "desires", "motors"}, pc' \in Pumping => pc \in Pumping
    PROVE  IInv'
<1>1. /\ BankOK(Strip, bank) /\ InputOK(Strip, input) /\ AskedOK(Strip, asked)
      /\ CopyOK(snap) /\ CopyOK(batch) /\ SlotsOK(Strip, slot) /\ at \in [Strip -> Position]
      /\ input.error # "closed" /\ HandInv(Strip, bank, input, asked, slot, live)
      /\ pc \in Pumping => SnapInv(Strip, bank, asked, slot, live, snap)
      /\ ~on => \A s \in Strip : input.move[s].id = None /\ asked.move[s].id = None
    BY DEF IInv, KindsOK
<1> QED  BY <1>1, BridgeDone

\* What an outcome of a request says of the requests under way, for the lanes it
\* is not in.
LEMMA OtherLanes ==
    ASSUME SlotsOK(Strip, slot), NEW n, NEW field, NEW id, NEW s, NEW to,
           Askable(field, id, s, to), Filled(n, field, id, s, to), NEW i, NEW j,
           HandInv(Strip, bank, i, asked, slot, live)
    PROVE  /\ field # "volume" /\ j.move = i.move => MoveSent(Strip, j, asked, slot', live)
           /\ field # "select" /\ j.pick = i.pick => PickSent(Strip, j, asked, slot', live)
           /\ field # "mute" /\ j.edge = i.edge => MuteSent(j, asked, slot', live)
<1>1. /\ n \in 1 .. Slots /\ SlotsOK(Strip, slot')
      /\ slot'[n] = Request(field, id, s, to) /\ Sent(slot', n, field)
      /\ \A m \in 1 .. Slots : m # n => slot'[m] = slot[m]
      /\ \A f : \A m \in 1 .. Slots : Sent(slot, m, f) => m # n /\ slot'[m] = slot[m]
      /\ \A f : \A m \in 1 .. Slots : Sent(slot', m, f) => m = n \/ Sent(slot, m, f)
    BY FilledOK
<1>2. slot'[n].field = field
    BY <1>1 DEF Request
<1>3. \A f : \A m \in 1 .. Slots : f # field /\ Sent(slot', m, f) => Sent(slot, m, f)
                                                                /\ slot'[m] = slot[m]
    <2> SUFFICES ASSUME NEW m \in 1 .. Slots, NEW f, f # field, Sent(slot', m, f)
                 PROVE  Sent(slot, m, f) /\ slot'[m] = slot[m]
        OBVIOUS
    <2>1. m # n
        BY <1>2 DEF Sent
    <2> QED  BY <2>1, <1>1
<1>4. \A f : \A m \in 1 .. Slots : Sent(slot, m, f) => Sent(slot', m, f) /\ slot'[m] = slot[m]
    BY <1>1 DEF Sent
<1>5. ASSUME field # "volume", j.move = i.move PROVE MoveSent(Strip, j, asked, slot', live)
    <2> SUFFICES ASSUME NEW t \in Strip, asked.move[t].id # None, i.move[t].id = None
                 PROVE  /\ \A m \in 1 .. Slots :
                             Sent(slot', m, "volume") /\ slot'[m].id = asked.move[t].id =>
                             slot'[m].to = asked.move[t].to /\ slot'[m].strip = t
                        /\ \/ \E m \in 1 .. Slots : Sent(slot', m, "volume")
                                                     /\ slot'[m].id = asked.move[t].id
                           \/ live.volume[asked.move[t].id] = asked.move[t].to
        BY <1>5 DEF MoveSent
    <2>1. /\ \A m \in 1 .. Slots :
                Sent(slot, m, "volume") /\ slot[m].id = asked.move[t].id =>
                slot[m].to = asked.move[t].to /\ slot[m].strip = t
          /\ \/ \E m \in 1 .. Slots : Sent(slot, m, "volume") /\ slot[m].id = asked.move[t].id
             \/ live.volume[asked.move[t].id] = asked.move[t].to
        BY DEF HandInv, MoveSent
    <2> QED  BY <2>1, <1>3, <1>4, <1>5
<1>6. ASSUME field # "select", j.pick = i.pick PROVE PickSent(Strip, j, asked, slot', live)
    BY <1>3, <1>4, <1>6 DEF HandInv, PickSent
<1>7. ASSUME field # "mute", j.edge = i.edge PROVE MuteSent(j, asked, slot', live)
    <2> SUFFICES ASSUME NEW t \in Serial, asked.mute[t] # 2,
                        \A k \in DOMAIN i.edge : i.edge[k].id # t
                 PROVE  /\ \A m \in 1 .. Slots :
                             slot'[m].phase # "free" /\ slot'[m].field = "mute"
                             /\ slot'[m].id = t => slot'[m].to = asked.mute[t]
                        /\ \/ \E m \in 1 .. Slots : Sent(slot', m, "mute") /\ slot'[m].id = t
                           \/ live.mute[t] = asked.mute[t]
        BY <1>7 DEF MuteSent
    <2>1. /\ \A m \in 1 .. Slots :
                slot[m].phase # "free" /\ slot[m].field = "mute"
                /\ slot[m].id = t => slot[m].to = asked.mute[t]
          /\ \/ \E m \in 1 .. Slots : Sent(slot, m, "mute") /\ slot[m].id = t
             \/ live.mute[t] = asked.mute[t]
        BY DEF HandInv, MuteSent
    <2> QED  BY <2>1, <1>1, <1>2, <1>4, <1>7
<1> QED  BY <1>5, <1>6, <1>7

LEMMA MoveStep ==
    ASSUME IInv, NEW s \in Strip, Move(s)
    PROVE  IInv'
<1> DEFINE id == input.move[s].id
           to == input.move[s].to
           spent == [input EXCEPT !.move[s] = NoMove]
<1>1. /\ pc = "desires" /\ id # None /\ Existing("volume", id) = {}
      /\ Offer("volume", id, s, to, spent)
      /\ UNCHANGED <<scene, live, on, snap, batch, bank, at, left, asked>>
    BY DEF Move
<1>2. /\ BankOK(Strip, bank) /\ InputOK(Strip, input) /\ AskedOK(Strip, asked)
      /\ CopyOK(snap) /\ CopyOK(batch) /\ SlotsOK(Strip, slot) /\ LiveOK
      /\ at \in [Strip -> Position]
      /\ input.error # "closed" /\ HandInv(Strip, bank, input, asked, slot, live)
      /\ SnapInv(Strip, bank, asked, slot, live, snap)
      /\ ~on => \A t \in Strip : input.move[t].id = None /\ asked.move[t].id = None
    BY <1>1, LaneStart DEF Pumping
<1>3. /\ id \in Serial /\ to \in Position /\ bank.fader[s].id = id
      /\ input.move[s] = [id |-> id, to |-> to]
      /\ asked.move[s].id # None => asked.move[s] = input.move[s]
    <2>1. input.move[s] \in [id : Serial \cup {None}, to : Position]
        BY <1>2 DEF InputOK, InputSet
    <2>2. id \in {None, bank.fader[s].id}
        BY <1>2 DEF HandInv, MoveInv
    <2>3. asked.move[s].id # None => asked.move[s] = input.move[s]
        BY <1>1, <1>2 DEF HandInv, MoveInv
    <2> QED  BY <1>1, <2>1, <2>2, <2>3
<1>4. /\ InputOK(Strip, spent) /\ spent.pick = input.pick /\ spent.edge = input.edge
      /\ spent.hold = input.hold /\ spent.error = input.error
      /\ spent.move[s].id = None /\ \A t \in Strip : t # s => spent.move[t] = input.move[t]
    <2> DEFINE m == [input.move EXCEPT ![s] = NoMove]
    <2>1. spent = [input EXCEPT !.move = m]
        BY <1>2 DEF InputOK, InputSet
    <2>2. m \in [Strip -> [id : Serial \cup {None}, to : Position]] /\ m[s].id = None
          /\ \A t \in Strip : t # s => m[t] = input.move[t]
        BY <1>2, Sizes DEF InputOK, InputSet, NoMove
    <2> HIDE DEF m, spent
    <2>3. spent \in InputSet(Strip) /\ spent.edge = input.edge /\ spent.move = m
          /\ spent.pick = input.pick /\ spent.hold = input.hold /\ spent.error = input.error
        BY <1>2, <2>1, <2>2 DEF InputOK, InputSet
    <2> QED  BY <1>2, <2>2, <2>3 DEF InputOK
<1>5. \A n \in 1 .. Slots : ~(slot[n].phase # "free" /\ slot[n].field = "volume"
                              /\ slot[n].id = id)
    BY <1>1 DEF Existing, Same
<1> DEFINE v == Value("volume", id)
<1>6. v = snap.volume[id]
    BY DEF Value
<1>7. Has(snap, id)
    BY <1>2, <1>3 DEF SnapInv
<1>8. \/ /\ ~Has(snap, id) \/ v = to
         /\ input' = spent /\ slot' = slot /\ pc' = pc
      \/ pc' = "motors" /\ slot' = slot /\ input' = input
      \/ /\ input' = spent /\ pc' = pc
         /\ \E n \in 1 .. Slots : Filled(n, "volume", id, s, to)
    <2> HIDE DEF id, to, spent
    <2> QED  BY <1>1, OfferOutcomes
<1> HIDE DEF id, to, spent, v
<1>9. MoveInv(Strip, bank, spent, asked)
    BY <1>2, <1>4 DEF HandInv, MoveInv
<1>10. PickInv(Strip, spent, asked, live) /\ EdgeInv(spent, asked)
    BY <1>2, <1>4 DEF HandInv, PickInv, EdgeInv
<1>11. CASE v = to /\ input' = spent /\ slot' = slot /\ pc' = pc
    <2>1. asked.move[s].id # None => live.volume[id] = to
        <3>1. SUFFICES ASSUME asked.move[s].id # None PROVE live.volume[id] = to
            OBVIOUS
        <3>2. asked.move[s].id = id
            BY <1>3, <3>1
        <3>3. live.volume[id] = snap.volume[id] \/ Done(slot, "volume", id)
            BY <1>2, <3>1, <3>2 DEF SnapInv
        <3>4. ~Done(slot, "volume", id)
            BY <1>5 DEF Done, Same
        <3> QED  BY <1>6, <1>11, <3>3, <3>4
    <2>2. MoveSent(Strip, spent, asked, slot, live)
        <3> SUFFICES ASSUME NEW t \in Strip, asked.move[t].id # None, spent.move[t].id = None
                     PROVE  /\ \A n \in 1 .. Slots :
                                 Sent(slot, n, "volume") /\ slot[n].id = asked.move[t].id =>
                                 slot[n].to = asked.move[t].to /\ slot[n].strip = t
                            /\ \/ \E n \in 1 .. Slots : Sent(slot, n, "volume")
                                                         /\ slot[n].id = asked.move[t].id
                               \/ live.volume[asked.move[t].id] = asked.move[t].to
            BY DEF MoveSent
        <3>1. CASE t = s
            BY <1>3, <1>5, <2>1, <3>1 DEF Sent
        <3>2. CASE t # s
            BY <1>2, <1>4, <3>2 DEF HandInv, MoveSent
        <3> QED  BY <3>1, <3>2
    <2>3. PickSent(Strip, spent, asked, slot, live) /\ MuteSent(spent, asked, slot, live)
        BY <1>2, <1>4 DEF HandInv, PickSent, MuteSent
    <2>4. HandInv(Strip, bank, spent, asked, slot, live)
        BY <1>9, <1>10, <2>2, <2>3 DEF HandInv
    <2>5. ~on' => \A t \in Strip : input'.move[t].id = None /\ asked'.move[t].id = None
        BY <1>1, <1>2, <1>4, <1>11
    <2> QED  BY <1>1, <1>2, <1>4, <1>11, <2>4, <2>5, BridgeDone
<1>12. CASE pc' = "motors" /\ slot' = slot /\ input' = input
    BY <1>1, <1>12, IdleStep DEF Pumping
<1>13. ASSUME input' = spent, pc' = pc, NEW n \in 1 .. Slots,
              Filled(n, "volume", id, s, to)
       PROVE  IInv'
    <2> DEFINE field == "volume"
    <2>1. Filled(n, field, id, s, to) /\ field = "volume" /\ Askable(field, id, s, to)
        BY <1>3, <1>13 DEF Askable
    <2> HIDE DEF field
    <2>2. /\ SlotsOK(Strip, slot')
          /\ slot'[n] = Request(field, id, s, to) /\ Sent(slot', n, field)
          /\ \A f : \A m \in 1 .. Slots : Sent(slot, m, f) => m # n /\ slot'[m] = slot[m]
          /\ \A f : \A m \in 1 .. Slots : Sent(slot', m, f) => m = n \/ Sent(slot, m, f)
          /\ \A f, t : Done(slot, f, t) => Done(slot', f, t)
        BY <1>2, <2>1, FilledOK
    <2>3. slot'[n].id = id /\ slot'[n].to = to /\ slot'[n].strip = s
        BY <2>2 DEF Request
    <2>4. MoveSent(Strip, spent, asked, slot', live)
        <3> SUFFICES ASSUME NEW t \in Strip, asked.move[t].id # None, spent.move[t].id = None
                     PROVE  /\ \A m \in 1 .. Slots :
                                 Sent(slot', m, "volume") /\ slot'[m].id = asked.move[t].id =>
                                 slot'[m].to = asked.move[t].to /\ slot'[m].strip = t
                            /\ \/ \E m \in 1 .. Slots : Sent(slot', m, "volume")
                                                         /\ slot'[m].id = asked.move[t].id
                               \/ live.volume[asked.move[t].id] = asked.move[t].to
            BY DEF MoveSent
        <3>1. CASE t = s
            <4>1. asked.move[t].id = id /\ asked.move[t].to = to
                BY <1>3, <3>1
            <4>2. \A m \in 1 .. Slots : Sent(slot', m, "volume") /\ slot'[m].id = id => m = n
                BY <1>5, <2>2 DEF Sent
            <4> QED  BY <2>1, <2>2, <2>3, <3>1, <4>1, <4>2
        <3>2. CASE t # s
            <4>1. asked.move[t].id # id
                <5>1. asked.move[t].id = bank.fader[t].id
                    BY <1>2 DEF HandInv, MoveInv
                <5> QED  BY <1>2, <1>3, <3>2, <5>1 DEF BankOK
            <4>2. /\ \A m \in 1 .. Slots :
                        Sent(slot, m, "volume") /\ slot[m].id = asked.move[t].id =>
                        slot[m].to = asked.move[t].to /\ slot[m].strip = t
                  /\ \/ \E m \in 1 .. Slots : Sent(slot, m, "volume")
                                                /\ slot[m].id = asked.move[t].id
                     \/ live.volume[asked.move[t].id] = asked.move[t].to
                BY <1>2, <1>4, <3>2 DEF HandInv, MoveSent
            <4>3. \A m \in 1 .. Slots : Sent(slot', m, "volume") /\ slot'[m].id = asked.move[t].id
                                        => Sent(slot, m, "volume") /\ slot'[m] = slot[m]
                BY <2>2, <2>3, <4>1
            <4>4. \A m \in 1 .. Slots : Sent(slot, m, "volume") => Sent(slot', m, "volume")
                                                                 /\ slot'[m] = slot[m]
                BY <2>2 DEF Sent
            <4> QED  BY <4>2, <4>3, <4>4
        <3> QED  BY <3>1, <3>2
    <2>5. PickSent(Strip, spent, asked, slot', live) /\ MuteSent(spent, asked, slot', live)
        BY <1>2, <1>4, <2>1, OtherLanes
    <2>6. HandInv(Strip, bank, spent, asked, slot', live)
        BY <1>9, <1>10, <2>4, <2>5 DEF HandInv
    <2>7. SnapInv(Strip, bank, asked, slot', live, snap)
        BY <1>2, <2>2 DEF SnapInv
    <2>8. ~on' => \A t \in Strip : input'.move[t].id = None /\ asked'.move[t].id = None
        BY <1>1, <1>2, <1>4, <1>13
    <2> QED  BY <1>1, <1>2, <1>4, <1>13, <2>2, <2>6, <2>7, <2>8, BridgeDone
<1> QED  BY <1>7, <1>8, <1>11, <1>12, <1>13

LEMMA PickStep ==
    ASSUME IInv, NEW s \in Strip, Pick(s)
    PROVE  IInv'
<1> DEFINE id == input.pick[s].id
           spent == [input EXCEPT !.pick[s] = NoPick]
<1>1. /\ pc = "desires" /\ id # None /\ Existing("select", None) = {}
      /\ Offer("select", id, s, 1, spent)
      /\ UNCHANGED <<scene, live, on, snap, batch, bank, at, left, asked>>
    BY DEF Pick
<1>2. /\ BankOK(Strip, bank) /\ InputOK(Strip, input) /\ AskedOK(Strip, asked)
      /\ CopyOK(snap) /\ CopyOK(batch) /\ SlotsOK(Strip, slot) /\ LiveOK
      /\ at \in [Strip -> Position]
      /\ input.error # "closed" /\ HandInv(Strip, bank, input, asked, slot, live)
      /\ SnapInv(Strip, bank, asked, slot, live, snap)
      /\ ~on => \A t \in Strip : input.move[t].id = None /\ asked.move[t].id = None
    BY <1>1, LaneStart DEF Pumping
<1>3. id \in Serial /\ (asked.pick # None => id = asked.pick)
    BY <1>1, <1>2 DEF InputOK, InputSet, HandInv, PickInv
<1>4. /\ InputOK(Strip, spent) /\ spent.move = input.move /\ spent.edge = input.edge
      /\ spent.hold = input.hold /\ spent.error = input.error
      /\ \A t \in Strip : spent.pick[t].id = None
    <2> DEFINE m == [input.pick EXCEPT ![s] = NoPick]
    <2>1. spent = [input EXCEPT !.pick = m]
        BY <1>2 DEF InputOK, InputSet
    <2>2. \A t \in Strip : t # s => input.pick[t].id = None
        BY <1>1, <1>2 DEF HandInv, PickInv
    <2>3. m \in [Strip -> [id : Serial \cup {None}, far : BOOLEAN]]
          /\ \A t \in Strip : m[t].id = None
        BY <1>2, <2>2, Sizes DEF InputOK, InputSet, NoPick
    <2> HIDE DEF m, spent
    <2>4. spent \in InputSet(Strip) /\ spent.edge = input.edge /\ spent.move = input.move
          /\ spent.pick = m /\ spent.hold = input.hold /\ spent.error = input.error
        BY <1>2, <2>1, <2>3 DEF InputOK, InputSet
    <2> QED  BY <1>2, <2>3, <2>4 DEF InputOK
<1>5. \A n \in 1 .. Slots : ~(slot[n].phase # "free" /\ slot[n].field = "select")
    BY <1>1 DEF Existing, Same
<1> DEFINE v == Value("select", id)
           to == 1
<1>6. v = (IF snap.sel = id THEN 1 ELSE 0)
    BY DEF Value
<1>7. to = 1 /\ to \in Position /\ Offer("select", id, s, to, spent)
    BY <1>1, Sizes
<1>8. \/ /\ ~Has(snap, id) \/ v = to
         /\ input' = spent /\ slot' = slot /\ pc' = pc
      \/ pc' = "motors" /\ slot' = slot /\ input' = input
      \/ /\ input' = spent /\ pc' = pc
         /\ \E n \in 1 .. Slots : Filled(n, "select", id, s, to)
    <2> HIDE DEF id, to, spent
    <2> QED  BY <1>1, <1>7, OfferOutcomes
<1> HIDE DEF id, to, spent, v
<1>9. MoveInv(Strip, bank, spent, asked) /\ EdgeInv(spent, asked)
    BY <1>2, <1>4 DEF HandInv, MoveInv, EdgeInv
<1>10. PickInv(Strip, spent, asked, live)
    BY <1>2, <1>4 DEF HandInv, PickInv
<1>11. CASE (~Has(snap, id) \/ v = to) /\ input' = spent /\ slot' = slot /\ pc' = pc
    <2>1. asked.pick # None => live.sel = asked.pick
        <3>1. SUFFICES ASSUME asked.pick # None PROVE live.sel = asked.pick
            OBVIOUS
        <3>2. Has(snap, id) /\ (live.sel = snap.sel \/ Done(slot, "select", None))
            BY <1>2, <1>3, <3>1 DEF SnapInv
        <3>3. ~Done(slot, "select", None)
            BY <1>5 DEF Done, Same
        <3>4. snap.sel = id
            BY <1>6, <1>7, <1>11, <3>2
        <3> QED  BY <1>3, <3>1, <3>2, <3>3, <3>4
    <2>2. PickSent(Strip, spent, asked, slot, live)
        BY <1>5, <2>1 DEF PickSent, Sent
    <2>3. MoveSent(Strip, spent, asked, slot, live) /\ MuteSent(spent, asked, slot, live)
        BY <1>2, <1>4 DEF HandInv, MoveSent, MuteSent
    <2>4. HandInv(Strip, bank, spent, asked, slot, live)
        BY <1>9, <1>10, <2>2, <2>3 DEF HandInv
    <2>5. ~on' => \A t \in Strip : input'.move[t].id = None /\ asked'.move[t].id = None
        BY <1>1, <1>2, <1>4, <1>11
    <2> QED  BY <1>1, <1>2, <1>4, <1>11, <2>4, <2>5, BridgeDone
<1>12. CASE pc' = "motors" /\ slot' = slot /\ input' = input
    BY <1>1, <1>12, IdleStep DEF Pumping
<1>13. ASSUME input' = spent, pc' = pc, NEW n \in 1 .. Slots,
              Filled(n, "select", id, s, to)
       PROVE  IInv'
    <2> DEFINE field == "select"
    <2>1. Filled(n, field, id, s, to) /\ field = "select" /\ Askable(field, id, s, to)
        BY <1>3, <1>7, <1>13 DEF Askable
    <2> HIDE DEF field
    <2>2. /\ SlotsOK(Strip, slot')
          /\ slot'[n] = Request(field, id, s, to) /\ Sent(slot', n, field)
          /\ \A f : \A m \in 1 .. Slots : Sent(slot', m, f) => m = n \/ Sent(slot, m, f)
          /\ \A f, t : Done(slot, f, t) => Done(slot', f, t)
        BY <1>2, <2>1, FilledOK
    <2>3. slot'[n].id = id
        BY <2>2 DEF Request
    <2>4. PickSent(Strip, spent, asked, slot', live)
        <3>1. \A m \in 1 .. Slots : Sent(slot', m, "select") => m = n
            BY <1>5, <2>2 DEF Sent
        <3> QED  BY <1>3, <2>1, <2>2, <2>3, <3>1 DEF PickSent
    <2>5. MoveSent(Strip, spent, asked, slot', live) /\ MuteSent(spent, asked, slot', live)
        BY <1>2, <1>4, <2>1, OtherLanes
    <2>6. HandInv(Strip, bank, spent, asked, slot', live)
        BY <1>9, <1>10, <2>4, <2>5 DEF HandInv
    <2>7. SnapInv(Strip, bank, asked, slot', live, snap)
        BY <1>2, <2>2 DEF SnapInv
    <2>8. ~on' => \A t \in Strip : input'.move[t].id = None /\ asked'.move[t].id = None
        BY <1>1, <1>2, <1>4, <1>13
    <2> QED  BY <1>1, <1>2, <1>4, <1>13, <2>2, <2>6, <2>7, <2>8, BridgeDone
<1> QED  BY <1>8, <1>11, <1>12, <1>13

-----------------------------------------------------------------------------
\* A sequence without its k-th element: where element m of it was, and where element
\* p of the longer one is now.
Was(k, m) == IF m < k THEN m ELSE m + 1
Now(k, p) == IF p < k THEN p ELSE p - 1

LEMMA RemovedAt ==
    ASSUME NEW E, NEW e \in Seq(E), NEW k \in 1 .. Len(e), NEW f, f = RemoveAt(e, k)
    PROVE  /\ f \in Seq(E) /\ Len(f) = Len(e) - 1
           /\ \A m \in DOMAIN f : Was(k, m) \in DOMAIN e /\ Was(k, m) # k
                                  /\ f[m] = e[Was(k, m)]
           /\ \A p \in DOMAIN e : p # k => Now(k, p) \in DOMAIN f /\ f[Now(k, p)] = e[p]
<1> DEFINE n == Len(e)
           h == SubSeq(e, 1, k - 1)
           t == SubSeq(e, k + 1, n)
<1>1. n \in Nat /\ DOMAIN e = 1 .. n /\ k \in 1 .. n /\ \A p \in 1 .. n : e[p] \in E
    BY LenProperties, ElementOfSeq
<1>2. f = h \o t
    BY DEF RemoveAt
<1> HIDE DEF n
<1>3. /\ h \in Seq(E) /\ Len(h) = k - 1 /\ \A p \in 1 .. k - 1 : h[p] = e[p]
    <2> DEFINE a == 1
               b == k - 1
    <2>1. a \in Int /\ b \in Int /\ a = 1 /\ b = k - 1 /\ \A p \in a .. b : e[p] \in E
        BY <1>1
    <2> HIDE DEF a, b
    <2>2. /\ SubSeq(e, a, b) \in Seq(E)
          /\ Len(SubSeq(e, a, b)) = IF a <= b THEN b - a + 1 ELSE 0
          /\ \A p \in 1 .. b - a + 1 : SubSeq(e, a, b)[p] = e[a + p - 1]
        BY <2>1, SubSeqProperties
    <2>3. h = SubSeq(e, a, b)
        BY <2>1
    <2> HIDE DEF h
    <2>4. Len(h) = k - 1
        BY <1>1, <2>1, <2>2, <2>3
    <2>5. \A p \in 1 .. k - 1 : h[p] = e[p]
        BY <1>1, <2>1, <2>2, <2>3
    <2> QED  BY <2>2, <2>3, <2>4, <2>5
<1>4. /\ t \in Seq(E) /\ Len(t) = n - k /\ \A p \in 1 .. n - k : t[p] = e[k + p]
    <2> DEFINE a == k + 1
    <2>1. a \in Int /\ n \in Int /\ a = k + 1 /\ \A p \in a .. n : e[p] \in E
        BY <1>1
    <2> HIDE DEF a
    <2>2. /\ SubSeq(e, a, n) \in Seq(E)
          /\ Len(SubSeq(e, a, n)) = IF a <= n THEN n - a + 1 ELSE 0
          /\ \A p \in 1 .. n - a + 1 : SubSeq(e, a, n)[p] = e[a + p - 1]
        BY <2>1, SubSeqProperties
    <2>3. t = SubSeq(e, a, n)
        BY <2>1
    <2> HIDE DEF t
    <2>4. Len(t) = n - k
        BY <1>1, <2>1, <2>2, <2>3
    <2>5. \A p \in 1 .. n - k : t[p] = e[k + p]
        <3> SUFFICES ASSUME NEW p \in 1 .. n - k PROVE t[p] = e[k + p]
            OBVIOUS
        <3>1. p \in 1 .. n - a + 1 /\ a + p - 1 = k + p
            BY <1>1, <2>1
        <3> QED  BY <2>2, <2>3, <3>1
    <2> QED  BY <2>2, <2>3, <2>4, <2>5
<1> HIDE DEF h, t
<1>5. /\ f \in Seq(E) /\ Len(f) = Len(h) + Len(t)
      /\ \A p \in 1 .. Len(h) + Len(t) : f[p] = IF p <= Len(h) THEN h[p] ELSE t[p - Len(h)]
    BY <1>2, <1>3, <1>4, ConcatProperties
<1>6. Len(f) = n - 1 /\ DOMAIN f = 1 .. n - 1
    BY <1>1, <1>3, <1>4, <1>5, LenProperties
<1>7. \A m \in 1 .. n - 1 : f[m] = e[Was(k, m)]
    <2> SUFFICES ASSUME NEW m \in 1 .. n - 1 PROVE f[m] = e[Was(k, m)]
        OBVIOUS
    <2>1. CASE m < k
        <3>1. m \in 1 .. k - 1 /\ m \in 1 .. Len(h) + Len(t) /\ m <= Len(h)
            BY <1>1, <1>3, <1>4, <2>1
        <3> QED  BY <1>3, <1>5, <2>1, <3>1 DEF Was
    <2>2. CASE ~(m < k)
        <3>1. /\ m \in 1 .. Len(h) + Len(t) /\ ~(m <= Len(h))
              /\ m - Len(h) \in 1 .. n - k /\ k + (m - Len(h)) = m + 1
            BY <1>1, <1>3, <1>4, <2>2
        <3>2. f[m] = t[m - Len(h)] /\ t[m - Len(h)] = e[k + (m - Len(h))]
            BY <1>4, <1>5, <3>1
        <3> QED  BY <2>2, <3>1, <3>2 DEF Was
    <2> QED  BY <2>1, <2>2
<1>8. \A m \in 1 .. n - 1 : Was(k, m) \in 1 .. n /\ Was(k, m) # k
    BY <1>1 DEF Was
<1>9. \A p \in 1 .. n : p # k => Now(k, p) \in 1 .. n - 1 /\ Was(k, Now(k, p)) = p
    BY <1>1 DEF Was, Now
<1>10. /\ \A m \in DOMAIN f : Was(k, m) \in DOMAIN e /\ Was(k, m) # k /\ f[m] = e[Was(k, m)]
       /\ \A p \in DOMAIN e : p # k => Now(k, p) \in DOMAIN f /\ f[Now(k, p)] = e[p]
    BY <1>1, <1>6, <1>7, <1>8, <1>9
<1> QED  BY <1>5, <1>6, <1>10 DEF n

EdgeSpent(k) == [input EXCEPT !.edge = RemoveAt(@, k)]
LEMMA RemoveEdgeOK ==
    ASSUME InputOK(Strip, input), NEW k \in DOMAIN input.edge,
           NEW j, j = EdgeSpent(k)
    PROVE  /\ InputOK(Strip, j) /\ j.hold = input.hold /\ j.move = input.move
           /\ j.pick = input.pick /\ j.error = input.error
           /\ \A m \in DOMAIN j.edge : /\ Was(k, m) \in DOMAIN input.edge /\ Was(k, m) # k
                                       /\ j.edge[m] = input.edge[Was(k, m)]
           /\ \A p \in DOMAIN input.edge :
                  p # k => Now(k, p) \in DOMAIN j.edge /\ j.edge[Now(k, p)] = input.edge[p]
           /\ \A m \in DOMAIN j.edge, p \in DOMAIN input.edge :
                  p # k /\ p > Was(k, m) => Now(k, p) > m
<1> DEFINE E == [id : Serial, strip : Strip, to : {0, 1}]
           e == input.edge
           f == RemoveAt(e, k)
<1>1. e \in Seq(E) /\ DOMAIN e = 1 .. Len(e) /\ Len(e) \in Nat
    BY EdgesOK
<1>2. input \in InputSet(Strip) /\ Len(e) <= Edges /\ k \in 1 .. Len(e)
    BY <1>1 DEF InputOK
<1>3. j = [input EXCEPT !.edge = f]
    BY DEF EdgeSpent
<1> HIDE DEF E
<1>4. /\ f \in Seq(E) /\ Len(f) = Len(e) - 1
      /\ \A m \in DOMAIN f : Was(k, m) \in DOMAIN e /\ Was(k, m) # k /\ f[m] = e[Was(k, m)]
      /\ \A p \in DOMAIN e : p # k => Now(k, p) \in DOMAIN f /\ f[Now(k, p)] = e[p]
    <2>1. f = RemoveAt(e, k)
        OBVIOUS
    <2> HIDE DEF e, f
    <2>2. e \in Seq(E) /\ k \in 1 .. Len(e) /\ f = RemoveAt(e, k)
        BY <1>1, <1>2, <2>1
    <2> QED  BY <2>2, RemovedAt
<1> HIDE DEF f
<1>5. /\ j \in InputSet(Strip) /\ j.hold = input.hold /\ j.move = input.move
      /\ j.pick = input.pick /\ j.error = input.error /\ j.edge = f
    <2>1. f \in Seq([id : Serial, strip : Strip, to : {0, 1}])
        BY <1>4 DEF E
    <2> QED  BY <1>2, <1>3, <2>1 DEF InputSet
<1>6. Len(f) <= Edges
    BY <1>1, <1>2, <1>4, Sizes
<1>7. \A m \in 1 .. Len(e) - 1, p \in 1 .. Len(e) : p # k /\ p > Was(k, m) => Now(k, p) > m
    BY <1>1, <1>2 DEF Was, Now
<1>8. DOMAIN f = 1 .. Len(e) - 1
    BY <1>4, LenProperties
<1>9. \A m \in DOMAIN f, p \in DOMAIN e : p # k /\ p > Was(k, m) => Now(k, p) > m
    BY <1>1, <1>7, <1>8
<1> QED  BY <1>4, <1>5, <1>6, <1>9 DEF InputOK

\* The edge that goes next is the oldest that can.
LEMMA OldestEdge ==
    ASSUME InputOK(Strip, input), Pending # {},
           NEW k, k = CHOOSE x \in Pending : \A y \in Pending : x <= y
    PROVE  k \in Pending /\ k \in DOMAIN input.edge /\ \A y \in Pending : k <= y
<1>1. DOMAIN input.edge \subseteq Nat
    BY EdgesOK
<1>2. Pending \subseteq DOMAIN input.edge
    BY DEF Pending
<1> HIDE DEF Pending
<1>3. \E x \in Pending : \A y \in Pending : x <= y
    BY <1>1, <1>2, LeastExists
<1> QED  BY <1>2, <1>3

LEMMA EdgeStep ==
    ASSUME IInv, Edge
    PROVE  IInv'
<1> DEFINE k == CHOOSE k \in Pending : \A j \in Pending : k <= j
           e == input.edge[k]
           spent == [input EXCEPT !.edge = RemoveAt(@, k)]
<1>1. /\ pc = "edges" /\ Pending # {}
      /\ IF Stale(e) THEN /\ input' = spent /\ asked' = [asked EXCEPT !.mute[e.id] = 2]
                          /\ UNCHANGED <<slot, pc, follow>>
         ELSE Offer("mute", e.id, e.strip, e.to, spent) /\ UNCHANGED asked
      /\ UNCHANGED <<scene, live, on, snap, batch, bank, at, left>>
    BY DEF Edge
<1>2. /\ BankOK(Strip, bank) /\ InputOK(Strip, input) /\ AskedOK(Strip, asked)
      /\ CopyOK(snap) /\ CopyOK(batch) /\ SlotsOK(Strip, slot) /\ LiveOK
      /\ at \in [Strip -> Position]
      /\ input.error # "closed" /\ HandInv(Strip, bank, input, asked, slot, live)
      /\ SnapInv(Strip, bank, asked, slot, live, snap)
      /\ ~on => \A t \in Strip : input.move[t].id = None /\ asked.move[t].id = None
    BY <1>1, LaneStart DEF Pumping
<1>3. k \in Pending /\ k \in DOMAIN input.edge /\ \A y \in Pending : k <= y
    BY <1>1, <1>2, OldestEdge
<1>4. spent = [input EXCEPT !.edge = RemoveAt(@, k)] /\ e = input.edge[k]
    OBVIOUS
<1> HIDE DEF k, spent, e
<1>5. /\ InputOK(Strip, spent) /\ spent.hold = input.hold /\ spent.move = input.move
      /\ spent.pick = input.pick /\ spent.error = input.error
      /\ \A m \in DOMAIN spent.edge : /\ Was(k, m) \in DOMAIN input.edge /\ Was(k, m) # k
                                      /\ spent.edge[m] = input.edge[Was(k, m)]
      /\ \A p \in DOMAIN input.edge :
            p # k => Now(k, p) \in DOMAIN spent.edge /\ spent.edge[Now(k, p)] = input.edge[p]
      /\ \A m \in DOMAIN spent.edge, p \in DOMAIN input.edge :
            p # k /\ p > Was(k, m) => Now(k, p) > m
    <2>1. InputOK(Strip, input) /\ k \in DOMAIN input.edge
        BY <1>2, <1>3
    <2>2. spent = EdgeSpent(k)
        BY <1>4 DEF EdgeSpent
    <2> QED  BY <2>1, <2>2, RemoveEdgeOK
<1>6. e.id \in Serial /\ e.strip \in Strip /\ e.to \in {0, 1}
    BY <1>2, <1>3, <1>4, EdgesOK
<1>7. \A t \in Serial : t # e.id /\ (\A m \in DOMAIN spent.edge : spent.edge[m].id # t)
                        => \A p \in DOMAIN input.edge : input.edge[p].id # t
    BY <1>4, <1>5
<1>8. MoveInv(Strip, bank, spent, asked) /\ PickInv(Strip, spent, asked, live)
    BY <1>2, <1>5 DEF HandInv, MoveInv, PickInv
<1>9. CASE Stale(e)
    <2>1. /\ input' = spent /\ slot' = slot /\ pc' = pc
          /\ asked' = [asked EXCEPT !.mute[e.id] = 2]
        BY <1>1, <1>9
    <2>2. /\ AskedOK(Strip, asked') /\ asked'.move = asked.move /\ asked'.pick = asked.pick
          /\ asked'.meant = asked.meant /\ asked'.mute[e.id] = 2
          /\ \A t \in Serial : t # e.id => asked'.mute[t] = asked.mute[t]
        BY <1>2, <1>6, <2>1 DEF AskedOK
    <2>3. EdgeInv(spent, asked')
        <3> SUFFICES ASSUME NEW m \in DOMAIN spent.edge, spent.edge[m].id # e.id
                     PROVE  \/ asked'.mute[spent.edge[m].id] \in {2, spent.edge[m].to}
                            \/ \E j \in DOMAIN spent.edge : j > m /\ spent.edge[j].id
                                                                    = spent.edge[m].id
            BY <2>2 DEF EdgeInv
        <3> DEFINE p == Was(k, m)
        <3>1. p \in DOMAIN input.edge /\ spent.edge[m] = input.edge[p] /\ p # k
            BY <1>5
        <3>2. input.edge[p].id \in Serial
            BY <1>2, <3>1, EdgesOK
        <3>3. \/ asked.mute[input.edge[p].id] \in {2, input.edge[p].to}
              \/ \E j \in DOMAIN input.edge : j > p /\ input.edge[j].id = input.edge[p].id
            BY <1>2, <3>1 DEF HandInv, EdgeInv
        <3>4. ASSUME NEW j \in DOMAIN input.edge, j > p, input.edge[j].id = input.edge[p].id
              PROVE  \E i \in DOMAIN spent.edge : i > m /\ spent.edge[i].id = spent.edge[m].id
            <4>1. j # k
                BY <1>4, <3>1, <3>4
            <4>2. Now(k, j) \in DOMAIN spent.edge /\ spent.edge[Now(k, j)] = input.edge[j]
                BY <1>5, <4>1
            <4>3. Now(k, j) > m
                BY <1>5, <3>4, <4>1
            <4> QED  BY <3>1, <3>4, <4>2, <4>3
        <3> HIDE DEF p
        <3> QED  BY <2>2, <3>1, <3>2, <3>3, <3>4
    <2>4. MuteSent(spent, asked', slot, live)
        BY <1>2, <1>7, <2>2 DEF HandInv, MuteSent
    <2>5. /\ MoveInv(Strip, bank, spent, asked') /\ MoveSent(Strip, spent, asked', slot, live)
          /\ PickInv(Strip, spent, asked', live) /\ PickSent(Strip, spent, asked', slot, live)
        BY <1>2, <1>5, <1>8, <2>2
           DEF HandInv, MoveInv, MoveSent, PickInv, PickSent
    <2>6. HandInv(Strip, bank, spent, asked', slot, live)
        BY <2>3, <2>4, <2>5 DEF HandInv
    <2>7. SnapInv(Strip, bank, asked', slot, live, snap)
        BY <1>2, <2>2 DEF SnapInv
    <2> QED  BY <1>1, <1>2, <1>5, <2>1, <2>2, <2>6, <2>7, BridgeDone
<1>10. CASE ~Stale(e)
    <2> DEFINE id == e.id
               to == e.to
               s == e.strip
               v == Value("mute", id)
    <2>1. Existing("mute", id) = {} /\ asked' = asked
        BY <1>1, <1>3, <1>4, <1>10 DEF Pending
    <2>2. Has(snap, id)
        BY <1>2, <1>6, <1>10, Sizes DEF SnapInv, Stale
    <2>3. v = snap.mute[id]
        BY DEF Value
    <2>4. \A n \in 1 .. Slots : ~(slot[n].phase # "free" /\ slot[n].field = "mute"
                                  /\ slot[n].id = id)
        BY <2>1 DEF Existing, Same
    <2>5. id \in Serial /\ s \in Strip /\ to \in {0, 1} /\ to \in Position
          /\ Offer("mute", id, s, to, spent)
        BY <1>1, <1>6, <1>10, Sizes
    <2>6. EdgeInv(spent, asked)
        <3> SUFFICES ASSUME NEW m \in DOMAIN spent.edge
                     PROVE  \/ asked.mute[spent.edge[m].id] \in {2, spent.edge[m].to}
                            \/ \E j \in DOMAIN spent.edge : j > m /\ spent.edge[j].id
                                                                    = spent.edge[m].id
            BY DEF EdgeInv
        <3> DEFINE p == Was(k, m)
        <3>1. p \in DOMAIN input.edge /\ spent.edge[m] = input.edge[p] /\ p # k
            BY <1>5
        <3>2. \/ asked.mute[input.edge[p].id] \in {2, input.edge[p].to}
              \/ \E j \in DOMAIN input.edge : j > p /\ input.edge[j].id = input.edge[p].id
            BY <1>2, <3>1 DEF HandInv, EdgeInv
        <3>3. ASSUME NEW j \in DOMAIN input.edge, j > p, input.edge[j].id = input.edge[p].id
              PROVE  \E i \in DOMAIN spent.edge : i > m /\ spent.edge[i].id = spent.edge[m].id
            <4>1. j # k
                <5>1. SUFFICES ASSUME j = k PROVE FALSE
                    OBVIOUS
                <5>2. p \in Pending
                    BY <1>4, <2>1, <3>1, <3>3, <5>1 DEF Pending
                <5>3. k <= p /\ p < k
                    BY <1>3, <3>3, <5>1, <5>2
                <5>4. k \in Nat /\ p \in Nat
                    BY <1>2, <1>3, <3>1, EdgesOK
                <5> HIDE DEF p
                <5> QED  BY <5>3, <5>4
            <4>2. Now(k, j) \in DOMAIN spent.edge /\ spent.edge[Now(k, j)] = input.edge[j]
                BY <1>5, <4>1
            <4>3. Now(k, j) > m
                BY <1>5, <3>3, <4>1
            <4> QED  BY <3>1, <3>3, <4>2, <4>3
        <3> HIDE DEF p
        <3> QED  BY <3>1, <3>2, <3>3
    \* With no edge of the Track left, this one was its last.
    <2>7. asked.mute[id] # 2 /\ (\A m \in DOMAIN spent.edge : spent.edge[m].id # id)
          => asked.mute[id] = to
        <3> SUFFICES ASSUME asked.mute[id] # 2,
                            \A m \in DOMAIN spent.edge : spent.edge[m].id # id
                     PROVE  asked.mute[id] = to
            OBVIOUS
        <3>1. \A j \in DOMAIN input.edge : j > k => input.edge[j].id # id
            <4> SUFFICES ASSUME NEW j \in DOMAIN input.edge, j > k PROVE input.edge[j].id # id
                OBVIOUS
            <4>1. j # k
                BY <1>2, <1>3, EdgesOK
            <4> QED  BY <1>5, <4>1
        <3> QED  BY <1>2, <1>3, <1>4, <3>1 DEF HandInv, EdgeInv
    <2>8. \/ /\ ~Has(snap, id) \/ v = to
             /\ input' = spent /\ slot' = slot /\ pc' = pc
          \/ pc' = "motors" /\ slot' = slot /\ input' = input
          \/ /\ input' = spent /\ pc' = pc
             /\ \E n \in 1 .. Slots : Filled(n, "mute", id, s, to)
        <3> HIDE DEF id, to, s
        <3> QED  BY <2>1, <2>5, OfferOutcomes
    <2>9. \A t \in Serial : t # id /\ (\A m \in DOMAIN spent.edge : spent.edge[m].id # t)
                            => \A p \in DOMAIN input.edge : input.edge[p].id # t
        BY <1>7
    <2> HIDE DEF id, to, s, v
    <2>10. CASE v = to /\ input' = spent /\ slot' = slot /\ pc' = pc
        <3>1. asked.mute[id] # 2 => live.mute[id] = to
            <4>1. ~Done(slot, "mute", id)
                BY <2>4 DEF Done, Same
            <4> QED  BY <1>2, <2>3, <2>5, <2>10, <4>1 DEF SnapInv
        <3>2. MuteSent(spent, asked, slot, live)
            <4> SUFFICES ASSUME NEW t \in Serial, asked.mute[t] # 2,
                                \A m \in DOMAIN spent.edge : spent.edge[m].id # t
                         PROVE  /\ \A n \in 1 .. Slots :
                                     slot[n].phase # "free" /\ slot[n].field = "mute"
                                     /\ slot[n].id = t => slot[n].to = asked.mute[t]
                                /\ \/ \E n \in 1 .. Slots : Sent(slot, n, "mute")
                                                             /\ slot[n].id = t
                                   \/ live.mute[t] = asked.mute[t]
                BY DEF MuteSent
            <4>1. CASE t = id
                BY <2>4, <2>7, <3>1, <4>1
            <4>2. CASE t # id
                BY <1>2, <2>9, <4>2 DEF HandInv, MuteSent
            <4> QED  BY <4>1, <4>2
        <3>3. /\ MoveSent(Strip, spent, asked, slot, live)
              /\ PickSent(Strip, spent, asked, slot, live)
            BY <1>2, <1>5 DEF HandInv, MoveSent, PickSent
        <3>4. HandInv(Strip, bank, spent, asked, slot, live)
            BY <1>8, <2>6, <3>2, <3>3 DEF HandInv
        <3> QED  BY <1>1, <1>2, <1>5, <2>1, <2>10, <3>4, BridgeDone
    <2>11. CASE pc' = "motors" /\ slot' = slot /\ input' = input
        BY <1>1, <2>1, <2>11, IdleStep DEF Pumping
    <2>12. ASSUME input' = spent, pc' = pc, NEW n \in 1 .. Slots, Filled(n, "mute", id, s, to)
           PROVE  IInv'
        <3> DEFINE field == "mute"
        <3>1. Filled(n, field, id, s, to) /\ field = "mute" /\ Askable(field, id, s, to)
            BY <2>5, <2>12 DEF Askable
        <3> HIDE DEF field
        <3>2. /\ SlotsOK(Strip, slot')
              /\ slot'[n] = Request(field, id, s, to) /\ Sent(slot', n, field)
              /\ \A m \in 1 .. Slots : m # n => slot'[m] = slot[m]
              /\ \A f : \A m \in 1 .. Slots : Sent(slot, m, f) => m # n /\ slot'[m] = slot[m]
              /\ \A f, t : Done(slot, f, t) => Done(slot', f, t)
            BY <1>2, <3>1, FilledOK
        <3>3. slot'[n].id = id /\ slot'[n].to = to
            BY <3>2 DEF Request
        <3>4. MuteSent(spent, asked, slot', live)
            <4> SUFFICES ASSUME NEW t \in Serial, asked.mute[t] # 2,
                                \A m \in DOMAIN spent.edge : spent.edge[m].id # t
                         PROVE  /\ \A m \in 1 .. Slots :
                                     slot'[m].phase # "free" /\ slot'[m].field = "mute"
                                     /\ slot'[m].id = t => slot'[m].to = asked.mute[t]
                                /\ \/ \E m \in 1 .. Slots : Sent(slot', m, "mute")
                                                             /\ slot'[m].id = t
                                   \/ live.mute[t] = asked.mute[t]
                BY DEF MuteSent
            <4>1. CASE t = id
                BY <2>4, <2>7, <3>1, <3>2, <3>3, <4>1
            <4>2. CASE t # id
                <5>1. /\ \A m \in 1 .. Slots :
                            slot[m].phase # "free" /\ slot[m].field = "mute"
                            /\ slot[m].id = t => slot[m].to = asked.mute[t]
                      /\ \/ \E m \in 1 .. Slots : Sent(slot, m, "mute") /\ slot[m].id = t
                         \/ live.mute[t] = asked.mute[t]
                    BY <1>2, <2>9, <4>2 DEF HandInv, MuteSent
                <5>2. \A m \in 1 .. Slots : Sent(slot, m, "mute") => Sent(slot', m, "mute")
                                                                   /\ slot'[m] = slot[m]
                    BY <3>2 DEF Sent
                <5> QED  BY <3>2, <3>3, <4>2, <5>1, <5>2
            <4> QED  BY <4>1, <4>2
        <3>5. MoveSent(Strip, spent, asked, slot', live) /\ PickSent(Strip, spent, asked, slot', live)
            BY <1>2, <1>5, <3>1, OtherLanes
        <3>6. HandInv(Strip, bank, spent, asked, slot', live)
            BY <1>8, <2>6, <3>4, <3>5 DEF HandInv
        <3>7. SnapInv(Strip, bank, asked, slot', live, snap)
            BY <1>2, <3>2 DEF SnapInv
        <3> QED  BY <1>1, <1>2, <1>5, <2>1, <2>12, <3>2, <3>6, <3>7, BridgeDone
    <2> QED  BY <2>2, <2>8, <2>10, <2>11, <2>12
<1> QED  BY <1>9, <1>10

LEMMA EdgesDoneStep ==
    ASSUME IInv, EdgesDone
    PROVE  IInv'
BY IdleStep DEF EdgesDone, Pumping

LEMMA DesiresDoneStep ==
    ASSUME IInv, DesiresDone
    PROVE  IInv'
BY IdleStep DEF DesiresDone, ToMotors, Pumping

-----------------------------------------------------------------------------
\* The motors.
LEMMA MotorsDoneStep ==
    ASSUME IInv, MotorsDone
    PROVE  IInv'
<1>1. /\ pc' = "events" /\ batch' = NoCopy /\ snap' = NoCopy
      /\ UNCHANGED <<scene, live, slot, on, bank, input, follow, at, left, asked>>
    BY DEF MotorsDone
<1>2. /\ BankOK(Strip, bank) /\ InputOK(Strip, input) /\ AskedOK(Strip, asked)
      /\ SlotsOK(Strip, slot) /\ at \in [Strip -> Position]
      /\ input.error # "closed" /\ HandInv(Strip, bank, input, asked, slot, live)
      /\ ~on => \A s \in Strip : input.move[s].id = None /\ asked.move[s].id = None
    BY DEF IInv, KindsOK
<1>3. CopyOK(snap') /\ CopyOK(batch') /\ pc' \notin Pumping
    BY <1>1, NoCopyOK DEF Pumping
<1> QED  BY <1>1, <1>2, <1>3, BridgeDone

\* The target of a motor is a position.
LEMMA TargetOK ==
    ASSUME BankOK(Strip, bank), NEW s \in Strip
    PROVE  Target(bank, s) \in Position
<1>1. bank.fader[s] \in FaderSet
    BY DEF BankOK, BankSet
<1> QED  BY <1>1, Sizes DEF Target, FaderSet

LEMMA MotorSendStep ==
    ASSUME IInv, NEW s \in Strip, MotorSend(s)
    PROVE  IInv'
<1> DEFINE T == Target(bank, s)
           g == [bank.fader[s] EXCEPT !.sent = T, !.physical = -1]
<1>1. /\ pc = "motors" /\ at' = [at EXCEPT ![s] = T]
      /\ bank' = [bank EXCEPT !.fader[s].sent = T, !.fader[s].physical = -1]
      /\ UNCHANGED <<scene, live, slot, pc, on, snap, batch, input, left, asked>>
    BY DEF MotorSend
<1>2. /\ BankOK(Strip, bank) /\ InputOK(Strip, input) /\ AskedOK(Strip, asked)
      /\ SlotsOK(Strip, slot) /\ at \in [Strip -> Position] /\ CopyOK(snap) /\ CopyOK(batch)
      /\ input.error # "closed" /\ HandInv(Strip, bank, input, asked, slot, live)
      /\ ~on => \A t \in Strip : input.move[t].id = None /\ asked.move[t].id = None
    BY DEF IInv, KindsOK
<1>3. T \in Position
    BY <1>2, TargetOK
<1> HIDE DEF T
<1>4. g \in FaderSet /\ g.id = bank.fader[s].id
    <2>1. bank.fader[s] \in FaderSet
        BY <1>2 DEF BankOK, BankSet
    <2> QED  BY <1>3, <2>1 DEF FaderSet
<1>5. bank' = [bank EXCEPT !.fader = [@ EXCEPT ![s] = g]]
    <2>1. bank \in BankSet(Strip) /\ bank.fader[s] \in FaderSet
        BY <1>2 DEF BankOK, BankSet
    <2> QED  BY <1>1, <2>1 DEF BankSet, FaderSet
<1> HIDE DEF g
<1>6. BankOK(Strip, bank') /\ \A t \in Strip : bank'.fader[t].id = bank.fader[t].id
    BY <1>2, <1>4, <1>5, FaderOK
<1>7. MoveInv(Strip, bank', input, asked)
    BY <1>2, <1>6 DEF HandInv, MoveInv
<1>8. HandInv(Strip, bank', input', asked', slot', live)
    BY <1>1, <1>2, <1>7 DEF HandInv
<1>9. at' \in [Strip -> Position] /\ pc' \notin Pumping
    BY <1>1, <1>2, <1>3 DEF Pumping
<1> QED  BY <1>1, <1>2, <1>6, <1>8, <1>9, BridgeDone

LEMMA BridgeStep ==
    ASSUME IInv, Bridge
    PROVE  IInv'
<1>1. ASSUME NEW beat \in BOOLEAN, Copy(beat) PROVE IInv'
    BY <1>1, CopyStep
<1>2. ASSUME NEW s \in Strip, Move(s) \/ Pick(s) \/ MotorSend(s) PROVE IInv'
    BY <1>2, MoveStep, PickStep, MotorSendStep
<1>3. ASSUME \/ CopyFails \/ Drain \/ Pump \/ Edge \/ EdgesDone \/ DesiresDone
             \/ MotorsDone \/ Disconnect \/ Reconnect
      PROVE  IInv'
    BY <1>3, CopyFailsStep, DrainStep, PumpStep, EdgeStep, EdgesDoneStep, DesiresDoneStep,
       MotorsDoneStep, DisconnectStep, ReconnectStep
<1> QED  BY <1>1, <1>2, <1>3 DEF Bridge

-----------------------------------------------------------------------------
\* The application.  What one of its steps has to leave behind.
LEMMA ApplicationDone ==
    ASSUME IInv, UNCHANGED <<scene, pc, on, snap, batch, bank, input, at>>,
           LiveOK', SlotsOK(Strip, slot'), AskedOK(Strip, asked'), Lessens(Strip, asked, asked'),
           HandInv(Strip, bank, input, asked', slot', live'),
           pc \in Pumping => SnapInv(Strip, bank, asked', slot', live', snap)
    PROVE  IInv'
<1>1. Strip' = Strip
    BY DEF Strip
<1>2. /\ BankOK(Strip, bank) /\ InputOK(Strip, input) /\ AskedOK(Strip, asked)
      /\ scene \in Scenes /\ at \in [Strip -> Position] /\ CopyOK(snap) /\ CopyOK(batch)
      /\ pc \in {"events", "settle", "pump", "edges", "desires", "motors", "stopped"}
      /\ input.error # "closed"
      /\ ~on => \A s \in Strip : input.move[s].id = None /\ asked.move[s].id = None
    BY DEF IInv, KindsOK
<1>3. CopyOK(snap)' /\ CopyOK(batch)'
    BY <1>2 DEF CopyOK, Position, Serial
<1>4. KindsOK'
    BY <1>1, <1>2, <1>3 DEF KindsOK, Position
<1>5. ~on' => \A s \in Strip' : input'.move[s].id = None /\ asked'.move[s].id = None
    BY <1>1, <1>2 DEF Lessens
<1> QED  BY <1>1, <1>2, <1>4, <1>5 DEF IInv

\* What the application does of itself overrules the hand where it changes anything.
OverrulesOK(S, a, c, l, k) ==
    /\ Lessens(S, a, c)
    /\ \A s \in S : c.move[s].id # None => k.volume[c.move[s].id] = l.volume[c.move[s].id]
    /\ c.pick # None => k.sel = l.sel /\ (Has(l, c.pick) => Has(k, c.pick))
    /\ \A t \in Serial : c.mute[t] # 2 => k.mute[t] = l.mute[t]

LEMMA OverruledOK ==
    ASSUME NEW b, NEW i, NEW a, NEW c, NEW q, NEW l, NEW k, NEW v,
           InputOK(Strip, i), OverrulesOK(Strip, a, c, l, k), HandInv(Strip, b, i, a, q, l)
    PROVE  /\ HandInv(Strip, b, i, c, q, k)
           /\ SnapInv(Strip, b, a, q, l, v) => SnapInv(Strip, b, c, q, k, v)
<1>1. MoveInv(Strip, b, i, c)
    BY DEF HandInv, MoveInv, OverrulesOK, Lessens
<1>2. MoveSent(Strip, i, c, q, k)
    <2> SUFFICES ASSUME NEW s \in Strip, c.move[s].id # None, i.move[s].id = None
                 PROVE  /\ \A n \in 1 .. Slots : Sent(q, n, "volume") /\ q[n].id = c.move[s].id
                                                 => q[n].to = c.move[s].to /\ q[n].strip = s
                        /\ \/ \E n \in 1 .. Slots : Sent(q, n, "volume")
                                                     /\ q[n].id = c.move[s].id
                           \/ k.volume[c.move[s].id] = c.move[s].to
        BY DEF MoveSent
    <2>1. c.move[s] = a.move[s] /\ k.volume[c.move[s].id] = l.volume[c.move[s].id]
        BY DEF OverrulesOK, Lessens
    <2> QED  BY <2>1 DEF HandInv, MoveSent
<1>3. PickInv(Strip, i, c, k)
    BY DEF HandInv, PickInv, OverrulesOK, Lessens
<1>4. PickSent(Strip, i, c, q, k)
    BY DEF HandInv, PickSent, OverrulesOK, Lessens
<1>5. EdgeInv(i, c)
    <2>1. \A e \in DOMAIN i.edge : i.edge[e].id \in Serial
        BY EdgesOK
    <2> QED  BY <2>1 DEF HandInv, EdgeInv, OverrulesOK, Lessens
<1>6. MuteSent(i, c, q, k)
    <2> SUFFICES ASSUME NEW t \in Serial, c.mute[t] # 2,
                        \A e \in DOMAIN i.edge : i.edge[e].id # t
                 PROVE  /\ \A n \in 1 .. Slots :
                             q[n].phase # "free" /\ q[n].field = "mute" /\ q[n].id = t
                             => q[n].to = c.mute[t]
                        /\ \/ \E n \in 1 .. Slots : Sent(q, n, "mute") /\ q[n].id = t
                           \/ k.mute[t] = c.mute[t]
        BY DEF MuteSent
    <2>1. c.mute[t] = a.mute[t] /\ k.mute[t] = l.mute[t]
        BY DEF OverrulesOK, Lessens
    <2> QED  BY <2>1 DEF HandInv, MuteSent
<1>7. SnapInv(Strip, b, a, q, l, v) => SnapInv(Strip, b, c, q, k, v)
    <2> SUFFICES ASSUME SnapInv(Strip, b, a, q, l, v) PROVE SnapInv(Strip, b, c, q, k, v)
        OBVIOUS
    <2>1. c.pick # None => Has(v, c.pick) /\ (k.sel = v.sel \/ Done(q, "select", None))
        BY DEF SnapInv, OverrulesOK, Lessens
    <2>2. \A s \in Strip : c.move[s].id # None =>
              \/ k.volume[c.move[s].id] = v.volume[c.move[s].id]
              \/ Done(q, "volume", c.move[s].id)
        <3> SUFFICES ASSUME NEW s \in Strip, c.move[s].id # None
                     PROVE  \/ k.volume[c.move[s].id] = v.volume[c.move[s].id]
                            \/ Done(q, "volume", c.move[s].id)
            OBVIOUS
        <3>1. c.move[s] = a.move[s] /\ k.volume[c.move[s].id] = l.volume[c.move[s].id]
            BY DEF OverrulesOK, Lessens
        <3> QED  BY <3>1 DEF SnapInv
    <2>3. \A t \in Serial : c.mute[t] # 2 => k.mute[t] = v.mute[t] \/ Done(q, "mute", t)
        BY DEF SnapInv, OverrulesOK, Lessens
    <2> QED  BY <2>1, <2>2, <2>3 DEF SnapInv
<1> QED  BY <1>1, <1>2, <1>3, <1>4, <1>5, <1>6, <1>7 DEF HandInv

LEMMA OverruleStep ==
    ASSUME IInv, UNCHANGED <<scene, slot, pc, on, snap, batch, bank, input, at>>,
           LiveOK', AskedOK(Strip, asked'), OverrulesOK(Strip, asked, asked', live, live')
    PROVE  IInv'
<1>1. /\ InputOK(Strip, input) /\ SlotsOK(Strip, slot)
      /\ HandInv(Strip, bank, input, asked, slot, live)
      /\ pc \in Pumping => SnapInv(Strip, bank, asked, slot, live, snap)
    BY DEF IInv, KindsOK
<1>2. /\ HandInv(Strip, bank, input, asked', slot, live')
      /\ pc \in Pumping => SnapInv(Strip, bank, asked', slot, live', snap)
    BY <1>1, OverruledOK
<1>3. Lessens(Strip, asked, asked')
    BY DEF OverrulesOK
<1> QED  BY <1>1, <1>2, <1>3, ApplicationDone

LiveSet == [epoch : Nat, ready : BOOLEAN, intent : BOOLEAN, next : Nat, rows : Seq(Serial),
            sel : Serial \cup {None}, volume : [Serial -> Position], mute : [Serial -> {0, 1}]]

LEMMA LiveParts ==
    ASSUME LiveOK
    PROVE  /\ live \in LiveSet
           /\ \A r, q \in DOMAIN live.rows : live.rows[r] = live.rows[q] => r = q
           /\ \A r \in DOMAIN live.rows : live.rows[r] < live.next /\ live.rows[r] \in Serial
           /\ live.ready <=> live.rows # <<>>
           /\ ~live.ready => live.next + scene.rows - 1 <= Serials
           /\ live.next \in Nat /\ live.next > 0
           /\ live.rows \in Seq(Serial) /\ DOMAIN live.rows = 1 .. Len(live.rows)
           /\ live.ready \in BOOLEAN /\ live.volume \in [Serial -> Position]
           /\ live.mute \in [Serial -> {0, 1}] /\ live.sel \in Serial \cup {None}
<1>1. live \in LiveSet /\ live.rows \in Seq(Serial)
    BY DEF LiveOK, LiveSet
<1>2. /\ DOMAIN live.rows = 1 .. Len(live.rows)
      /\ \A r \in DOMAIN live.rows : live.rows[r] \in Serial
    BY <1>1, LenProperties, ElementOfSeq
<1> QED  BY <1>1, <1>2 DEF LiveOK, LiveSet, CopyOK

LEMMA LiveBack ==
    ASSUME scene' = scene, live' \in LiveSet,
           \A r, q \in DOMAIN live'.rows : live'.rows[r] = live'.rows[q] => r = q,
           \A r \in DOMAIN live'.rows : live'.rows[r] < live'.next,
           live'.ready <=> live'.rows # <<>>,
           ~live'.ready => live'.next + scene.rows - 1 <= Serials,
           live'.next > 0
    PROVE  LiveOK'
BY DEF LiveOK, LiveSet, CopyOK, Serial, Position

\* What every step of the application's own leaves alone.
LEMMA OwnMoves ==
    ASSUME NEW move, Own(move)
    PROVE  UNCHANGED <<scene, slot, pc, on, snap, batch, bank, input, at>>
BY DEF Own

LEMMA LoudStart ==
    ASSUME IInv
    PROVE  /\ LiveOK /\ AskedOK(Strip, asked) /\ scene \in Scenes /\ SlotsOK(Strip, slot)
           /\ PickInv(Strip, input, asked, live)
BY DEF IInv, KindsOK, HandInv

LEMMA SetVolumeStep ==
    ASSUME IInv, NEW t \in Serial, NEW p \in Position, SetVolume(t, p)
    PROVE  IInv'
<1>1. /\ live' = [live EXCEPT !.volume[t] = p]
      /\ asked' = [asked EXCEPT !.move = [s \in Strip |-> IF asked.move[s].id = t THEN NoMove
                                                          ELSE asked.move[s]]]
      /\ UNCHANGED <<scene, slot, pc, on, snap, batch, bank, input, at>>
    BY OwnMoves DEF SetVolume
<1>2. /\ LiveOK /\ AskedOK(Strip, asked)
    BY LoudStart
<1> DEFINE v == [live.volume EXCEPT ![t] = p]
<1>3. /\ v \in [Serial -> Position] /\ \A u \in Serial : u # t => v[u] = live.volume[u]
    BY <1>2, LiveParts
<1>4. live' = [live EXCEPT !.volume = v] /\ live \in LiveSet
    BY <1>1, <1>2, LiveParts
<1> HIDE DEF v
<1>5. /\ live' \in LiveSet /\ live'.volume = v /\ live'.rows = live.rows
      /\ live'.next = live.next /\ live'.ready = live.ready /\ live'.sel = live.sel
      /\ live'.mute = live.mute
    BY <1>3, <1>4 DEF LiveSet
<1>6. LiveOK'
    BY <1>1, <1>2, <1>5, LiveParts, LiveBack
<1> DEFINE m == [s \in Strip |-> IF asked.move[s].id = t THEN NoMove ELSE asked.move[s]]
<1>7. /\ m \in [Strip -> [id : Serial \cup {None}, to : Position]]
      /\ \A s \in Strip : m[s].id # None => m[s] = asked.move[s] /\ m[s].id # t
      /\ \A s \in Strip : m[s] = asked.move[s] \/ m[s].id = None
    BY <1>2, NothingsOK DEF AskedOK
<1>8. asked' = [asked EXCEPT !.move = m]
    BY <1>1
<1> HIDE DEF m
<1>9. /\ AskedOK(Strip, asked') /\ asked'.move = m /\ asked'.pick = asked.pick
      /\ asked'.mute = asked.mute /\ asked'.meant = asked.meant
    BY <1>2, <1>7, <1>8 DEF AskedOK
<1>10. \A s \in Strip : m[s].id # None => v[m[s].id] = live.volume[m[s].id]
    BY <1>3, <1>7
<1>11. OverrulesOK(Strip, asked, asked', live, live')
    BY <1>5, <1>7, <1>9, <1>10 DEF OverrulesOK, Lessens, Has
<1> QED  BY <1>1, <1>6, <1>9, <1>11, OverruleStep

LEMMA SetMuteStep ==
    ASSUME IInv, NEW t \in Serial, SetMute(t)
    PROVE  IInv'
<1>1. /\ live' = [live EXCEPT !.mute[t] = 1 - @] /\ asked' = [asked EXCEPT !.mute[t] = 2]
      /\ UNCHANGED <<scene, slot, pc, on, snap, batch, bank, input, at>>
    BY OwnMoves DEF SetMute
<1>2. /\ LiveOK /\ AskedOK(Strip, asked)
    BY LoudStart
<1> DEFINE v == [live.mute EXCEPT ![t] = 1 - @]
           m == [asked.mute EXCEPT ![t] = 2]
<1>3. v \in [Serial -> {0, 1}] /\ \A u \in Serial : u # t => v[u] = live.mute[u]
    BY <1>2, LiveParts
<1>4. live' = [live EXCEPT !.mute = v] /\ live \in LiveSet
    BY <1>1, <1>2, LiveParts
<1>5. m \in [Serial -> {0, 1, 2}] /\ m[t] = 2 /\ \A u \in Serial : u # t => m[u] = asked.mute[u]
    BY <1>2 DEF AskedOK
<1>6. asked' = [asked EXCEPT !.mute = m]
    BY <1>1
<1> HIDE DEF v, m
<1>7. /\ live' \in LiveSet /\ live'.mute = v /\ live'.rows = live.rows
      /\ live'.next = live.next /\ live'.ready = live.ready /\ live'.sel = live.sel
      /\ live'.volume = live.volume
    BY <1>3, <1>4 DEF LiveSet
<1>8. LiveOK'
    BY <1>1, <1>2, <1>7, LiveParts, LiveBack
<1>9. /\ AskedOK(Strip, asked') /\ asked'.move = asked.move /\ asked'.pick = asked.pick
      /\ asked'.mute = m /\ asked'.meant = asked.meant
    BY <1>2, <1>5, <1>6 DEF AskedOK
<1>10. OverrulesOK(Strip, asked, asked', live, live')
    BY <1>3, <1>5, <1>7, <1>9 DEF OverrulesOK, Lessens, Has
<1> QED  BY <1>1, <1>8, <1>9, <1>10, OverruleStep

\* The hand's selection is overruled, and neither a volume nor a Mute has changed.
LEMMA UnpickedStep ==
    ASSUME IInv, UNCHANGED <<scene, slot, pc, on, snap, batch, bank, input, at>>,
           LiveOK', live'.volume = live.volume, live'.mute = live.mute,
           asked' = [asked EXCEPT !.pick = None]
    PROVE  IInv'
<1>1. AskedOK(Strip, asked)
    BY LoudStart
<1>2. /\ AskedOK(Strip, asked') /\ asked'.move = asked.move /\ asked'.pick = None
      /\ asked'.mute = asked.mute /\ asked'.meant = asked.meant
    BY <1>1 DEF AskedOK
<1>3. OverrulesOK(Strip, asked, asked', live, live')
    BY <1>2 DEF OverrulesOK, Lessens
<1> QED  BY <1>2, <1>3, OverruleStep

LEMMA SetSelectionStep ==
    ASSUME IInv, NEW t \in Serial, SetSelection(t)
    PROVE  IInv'
<1>1. /\ live' = [live EXCEPT !.sel = t] /\ asked' = [asked EXCEPT !.pick = None]
      /\ UNCHANGED <<scene, slot, pc, on, snap, batch, bank, input, at>>
    BY OwnMoves DEF SetSelection
<1>2. /\ LiveOK /\ live \in LiveSet
    BY LoudStart, LiveParts
<1>3. /\ live' \in LiveSet /\ live'.mute = live.mute /\ live'.rows = live.rows
      /\ live'.next = live.next /\ live'.ready = live.ready /\ live'.volume = live.volume
    BY <1>1, <1>2 DEF LiveSet
<1>4. LiveOK'
    BY <1>1, <1>2, <1>3, LiveParts, LiveBack
<1> QED  BY <1>1, <1>3, <1>4, UnpickedStep

LEMMA ReplaceStep ==
    ASSUME IInv, NEW r, Replace(r)
    PROVE  IInv'
<1>1. /\ r \in DOMAIN live.rows /\ live.next <= Serials
      /\ live' = [live EXCEPT !.rows[r] = live.next, !.next = @ + 1,
                              !.sel = IF @ = live.rows[r] THEN live.next ELSE @]
      /\ asked' = [asked EXCEPT !.pick = None]
      /\ UNCHANGED <<scene, slot, pc, on, snap, batch, bank, input, at>>
    BY OwnMoves DEF Replace
<1>2. LiveOK
    BY LoudStart
<1>3. /\ live \in LiveSet /\ live.rows \in Seq(Serial) /\ DOMAIN live.rows = 1 .. Len(live.rows)
      /\ live.next \in Nat /\ live.next > 0 /\ live.sel \in Serial \cup {None}
      /\ \A q \in DOMAIN live.rows : live.rows[q] < live.next /\ live.rows[q] \in Nat
      /\ \A p, q \in DOMAIN live.rows : live.rows[p] = live.rows[q] => p = q
      /\ live.ready <=> live.rows # <<>>
    BY <1>2, LiveParts DEF Serial
<1> DEFINE x == live.next
           rows == [live.rows EXCEPT ![r] = x]
           sel == IF live.sel = live.rows[r] THEN x ELSE live.sel
<1>4. x \in Serial
    BY <1>1, <1>3, Sizes DEF Serial
<1>5. /\ rows \in Seq(Serial) /\ DOMAIN rows = DOMAIN live.rows /\ rows[r] = x
      /\ \A q \in DOMAIN live.rows : q # r => rows[q] = live.rows[q]
    BY <1>1, <1>3, <1>4, ExceptSeq
<1>6. sel \in Serial \cup {None}
    BY <1>3, <1>4
<1>7. live' = [live EXCEPT !.rows = rows, !.next = x + 1, !.sel = sel] /\ x + 1 \in Nat
    BY <1>1, <1>3
<1> HIDE DEF rows, sel
<1>8. /\ live' \in LiveSet /\ live'.rows = rows /\ live'.next = x + 1
      /\ live'.ready = live.ready /\ live'.volume = live.volume /\ live'.mute = live.mute
    BY <1>3, <1>5, <1>6, <1>7 DEF LiveSet
<1>9. /\ \A p, q \in DOMAIN rows : rows[p] = rows[q] => p = q
      /\ \A q \in DOMAIN rows : rows[q] < x + 1
    <2>1. \A q \in DOMAIN rows : q # r => rows[q] < x /\ rows[q] \in Nat
        BY <1>3, <1>5
    <2> QED  BY <2>1, <1>3, <1>5
<1>10. live.ready /\ rows # <<>>
    <2>1. live.rows # <<>> /\ rows # <<>>
        BY <1>1, <1>5, \A q \in DOMAIN <<>> : FALSE
    <2> QED  BY <2>1, <1>3
<1>11. LiveOK'
    BY <1>1, <1>3, <1>8, <1>9, <1>10, LiveBack
<1> QED  BY <1>1, <1>8, <1>11, UnpickedStep

LEMMA LoadStep ==
    ASSUME IInv, Load
    PROVE  IInv'
<1>1. /\ live.next + scene.rows - 1 <= Serials
      /\ live' = [live EXCEPT !.ready = FALSE, !.intent = FALSE, !.epoch = live.next,
                              !.rows = <<>>, !.sel = None]
      /\ asked' = [asked EXCEPT !.pick = None]
      /\ UNCHANGED <<scene, slot, pc, on, snap, batch, bank, input, at>>
    BY OwnMoves DEF Load
<1>2. LiveOK /\ live \in LiveSet /\ live.next \in Nat /\ live.next > 0
    BY LoudStart, LiveParts
<1>3. <<>> \in Seq(Serial) /\ \A r \in DOMAIN <<>> : FALSE
    BY EmptySeq
<1>4. /\ live' \in LiveSet /\ live'.rows = <<>> /\ live'.next = live.next
      /\ live'.ready = FALSE /\ live'.volume = live.volume /\ live'.mute = live.mute
    BY <1>1, <1>2, <1>3 DEF LiveSet
<1>5. LiveOK'
    BY <1>1, <1>2, <1>3, <1>4, LiveBack
<1> QED  BY <1>1, <1>4, <1>5, UnpickedStep

LEMMA LoadedStep ==
    ASSUME IInv, Loaded
    PROVE  IInv'
<1> DEFINE x == live.next
           n == scene.rows
           rows == [r \in 1 .. n |-> x + r - 1]
<1>1. /\ ~live.ready
      /\ live' = [live EXCEPT !.ready = TRUE, !.next = x + n, !.sel = x, !.rows = rows]
      /\ UNCHANGED <<scene, slot, pc, on, snap, batch, bank, input, at, asked>>
    BY DEF Loaded
<1>2. LiveOK /\ live \in LiveSet /\ x \in Nat /\ x > 0
    BY LoudStart, LiveParts
<1>3. n \in 1 .. Serials /\ x + n - 1 <= Serials
    BY <1>1, <1>2, LoudStart, SceneSizes, LiveParts
<1>4. n \in Nat /\ n > 0 /\ x \in Serial /\ \A r \in 1 .. n : x + r - 1 \in Serial
    BY <1>2, <1>3, Sizes DEF Serial
<1> HIDE DEF x, n
<1>5. rows \in [1 .. n -> Serial]
    BY <1>4
<1>6. /\ rows \in Seq(Serial) /\ Len(rows) = n /\ DOMAIN rows = 1 .. n
      /\ \A r \in 1 .. n : rows[r] = x + r - 1
    BY <1>4, <1>5, LenProperties, SeqDef
<1>7. /\ \A r, q \in DOMAIN rows : rows[r] = rows[q] => r = q
      /\ \A r \in DOMAIN rows : rows[r] < x + n
    BY <1>2, <1>4, <1>6
<1>8. rows # <<>> /\ x + n \in Nat /\ x + n > 0
    BY <1>2, <1>4, <1>6, EmptySeq
<1> HIDE DEF rows
<1>9. /\ live' \in LiveSet /\ live'.rows = rows /\ live'.next = x + n
      /\ live'.ready = TRUE /\ live'.volume = live.volume /\ live'.mute = live.mute
    BY <1>1, <1>2, <1>4, <1>6, <1>8 DEF LiveSet
<1>10. LiveOK'
    BY <1>1, <1>7, <1>8, <1>9, LiveBack
<1>11. asked.pick = None /\ AskedOK(Strip, asked)
    BY <1>1, LoudStart DEF PickInv, Has
<1>12. OverrulesOK(Strip, asked, asked', live, live')
    BY <1>1, <1>9, <1>11 DEF OverrulesOK, Lessens
<1> QED  BY <1>1, <1>10, <1>11, <1>12, OverruleStep

LEMMA IntentStep ==
    ASSUME IInv, Intend \/ GiveUp
    PROVE  IInv'
<1>1. PICK x \in BOOLEAN : live' = [live EXCEPT !.intent = x]
    BY DEF Intend, GiveUp
<1>2. UNCHANGED <<scene, slot, pc, on, snap, batch, bank, input, at, asked>>
    BY OwnMoves DEF Intend, GiveUp
<1>3. LiveOK /\ live \in LiveSet /\ AskedOK(Strip, asked)
    BY LoudStart, LiveParts
<1>4. /\ live' \in LiveSet /\ live'.rows = live.rows /\ live'.next = live.next
      /\ live'.ready = live.ready /\ live'.sel = live.sel
      /\ live'.volume = live.volume /\ live'.mute = live.mute
    BY <1>1, <1>3 DEF LiveSet
<1>5. LiveOK'
    BY <1>2, <1>3, <1>4, LiveParts, LiveBack
<1>6. OverrulesOK(Strip, asked, asked', live, live')
    BY <1>2, <1>4 DEF OverrulesOK, Lessens, Has
<1> QED  BY <1>2, <1>3, <1>5, <1>6, OverruleStep

\* One slot changes its phase.
LEMMA PhaseOK ==
    ASSUME SlotsOK(Strip, slot), NEW n \in 1 .. Slots, slot[n].phase \in {"sent", "refused", "settled"},
           NEW x \in {"done", "refused", "returned", "reclaimed"},
           slot' = [slot EXCEPT ![n].phase = x]
    PROVE  /\ SlotsOK(Strip, slot')
           /\ \A m \in 1 .. Slots : m # n => slot'[m] = slot[m]
           /\ slot'[n].phase = x /\ slot'[n].field = slot[n].field /\ slot'[n].id = slot[n].id
           /\ slot'[n].to = slot[n].to /\ slot'[n].strip = slot[n].strip
           /\ \A f, t : Done(slot, f, t) => Done(slot', f, t)
<1> DEFINE q == slot[n]
           p == [q EXCEPT !.phase = x]
           R == [phase : Unsettled \cup {"free", "settled", "reclaimed"},
                 field : {"volume", "mute", "select"}, id : Serial \cup {None},
                 strip : Strip \cup {0}, to : Position]
<1>1. slot \in [1 .. Slots -> R] /\ slot' = [slot EXCEPT ![n] = p]
    BY DEF SlotsOK
<1>2. q \in R
    BY <1>1
<1> HIDE DEF q
<1>3. /\ p \in R /\ p.phase = x /\ p.field = q.field /\ p.id = q.id /\ p.to = q.to
      /\ p.strip = q.strip
    BY <1>2 DEF Unsettled
<1> HIDE DEF p, R
<1>4. slot'[n] = p /\ \A m \in 1 .. Slots : m # n => slot'[m] = slot[m]
    BY <1>1
<1>5. slot' \in [1 .. Slots -> R]
    BY <1>1, <1>3
<1>6. \A m \in 1 .. Slots : slot'[m].field = "mute" => slot'[m].to \in {0, 1}
    BY <1>3, <1>4 DEF SlotsOK, q
<1>7. SlotsOK(Strip, slot')
    BY <1>5, <1>6 DEF SlotsOK, R
<1>8. \A f, t : Done(slot, f, t) => Done(slot', f, t)
    <2> SUFFICES ASSUME NEW f, NEW t, NEW m \in 1 .. Slots, slot[m].phase = "done",
                        Same(slot[m], f, t)
                 PROVE  slot'[m].phase = "done" /\ Same(slot'[m], f, t)
        BY DEF Done
    <2>1. m # n
        OBVIOUS
    <2> QED  BY <2>1, <1>4
<1> QED  BY <1>3, <1>4, <1>7, <1>8 DEF q

LEMMA ReclaimStep ==
    ASSUME IInv, NEW n \in 1 .. Slots, Reclaim(n)
    PROVE  IInv'
<1> DEFINE x == IF slot[n].phase = "refused" THEN "returned" ELSE "reclaimed"
<1>1. /\ slot[n].phase \in {"refused", "settled"}
      /\ slot' = [slot EXCEPT ![n].phase = x]
      /\ UNCHANGED <<scene, live, pc, on, snap, batch, bank, input, follow, at, left, asked>>
    BY DEF Reclaim
<1>2. /\ SlotsOK(Strip, slot) /\ LiveOK /\ AskedOK(Strip, asked)
      /\ HandInv(Strip, bank, input, asked, slot, live)
      /\ pc \in Pumping => SnapInv(Strip, bank, asked, slot, live, snap)
    BY DEF IInv, KindsOK
<1>3. x \in {"done", "refused", "returned", "reclaimed"} /\ x \in {"returned", "reclaimed"}
    OBVIOUS
<1> HIDE DEF x
<1>4. /\ SlotsOK(Strip, slot') /\ \A m \in 1 .. Slots : m # n => slot'[m] = slot[m]
      /\ slot'[n].phase = x /\ slot'[n].field = slot[n].field /\ slot'[n].id = slot[n].id
      /\ slot'[n].to = slot[n].to /\ slot'[n].strip = slot[n].strip
      /\ \A f, t : Done(slot, f, t) => Done(slot', f, t)
    BY <1>1, <1>2, <1>3, PhaseOK
<1>5. MovesOn(slot, slot')
    BY <1>1, <1>3, <1>4 DEF MovesOn
<1>6. HandInv(Strip, bank, input, asked, slot', live)
    BY <1>2, <1>5, MovingOnIsSafe
<1>7. pc \in Pumping => SnapInv(Strip, bank, asked, slot', live, snap)
    BY <1>2, <1>4 DEF SnapInv
<1>8. LiveOK' /\ Lessens(Strip, asked, asked')
    BY <1>1, <1>2 DEF LiveOK, Lessens
<1> QED  BY <1>1, <1>2, <1>4, <1>6, <1>7, <1>8, ApplicationDone

LEMMA RefuseStep ==
    ASSUME IInv, NEW n \in 1 .. Slots, Refuse(n)
    PROVE  IInv'
<1> DEFINE q == slot[n]
           mv == [s \in Strip |-> IF q.field = "volume" /\ asked.move[s].id = q.id
                                     /\ input.move[s].id = None
                                  THEN NoMove ELSE asked.move[s]]
           mu == IF q.field = "mute" THEN [asked.mute EXCEPT ![q.id] = 2] ELSE asked.mute
           pk == IF q.field = "select" /\ \A s \in Strip : input.pick[s].id = None
                 THEN None ELSE asked.pick
           x == "refused"
<1>1. /\ q.phase = "sent" /\ slot' = [slot EXCEPT ![n].phase = x]
      /\ asked' = [asked EXCEPT !.move = mv, !.mute = mu, !.pick = pk]
      /\ UNCHANGED <<scene, live, pc, on, snap, batch, bank, input, at>>
    BY DEF Refuse
<1>2. /\ SlotsOK(Strip, slot) /\ LiveOK /\ AskedOK(Strip, asked)
      /\ HandInv(Strip, bank, input, asked, slot, live) /\ InputOK(Strip, input)
      /\ pc \in Pumping => SnapInv(Strip, bank, asked, slot, live, snap)
    BY DEF IInv, KindsOK
<1>3. x \in {"done", "refused", "returned", "reclaimed"} /\ x = "refused"
    OBVIOUS
<1>4. slot[n].phase = "sent" /\ q = slot[n]
    BY <1>1
<1>5. /\ mv \in [Strip -> [id : Serial \cup {None}, to : Position]]
      /\ \A s \in Strip : mv[s] = asked.move[s] \/ mv[s].id = None
      /\ \A s \in Strip : mv[s].id # None /\ input.move[s].id = None
                          => ~(q.field = "volume" /\ asked.move[s].id = q.id)
    BY <1>2, NothingsOK DEF AskedOK
<1>6. /\ mu \in [Serial -> {0, 1, 2}]
      /\ \A t \in Serial : mu[t] = asked.mute[t] \/ mu[t] = 2
      /\ \A t \in Serial : mu[t] # 2 => ~(q.field = "mute" /\ q.id = t)
    BY <1>2 DEF AskedOK
<1>7. /\ pk \in Serial \cup {None} /\ (pk = asked.pick \/ pk = None)
      /\ pk # None /\ (\A s \in Strip : input.pick[s].id = None) => q.field # "select"
    BY <1>2 DEF AskedOK
<1> HIDE DEF q, mv, mu, pk, x
<1>8. /\ SlotsOK(Strip, slot') /\ \A m \in 1 .. Slots : m # n => slot'[m] = slot[m]
      /\ slot'[n].phase = x /\ slot'[n].field = slot[n].field /\ slot'[n].id = slot[n].id
      /\ slot'[n].to = slot[n].to /\ slot'[n].strip = slot[n].strip
      /\ \A f, t : Done(slot, f, t) => Done(slot', f, t)
    BY <1>1, <1>2, <1>3, <1>4, PhaseOK
<1>9. /\ AskedOK(Strip, asked') /\ asked'.move = mv /\ asked'.mute = mu /\ asked'.pick = pk
      /\ asked'.meant = asked.meant
    BY <1>1, <1>2, <1>5, <1>6, <1>7 DEF AskedOK
<1>10. Lessens(Strip, asked, asked')
    BY <1>5, <1>6, <1>7, <1>9 DEF Lessens
<1>11. \A f : \A m \in 1 .. Slots : Sent(slot', m, f) <=> m # n /\ Sent(slot, m, f)
    BY <1>3, <1>8 DEF Sent
<1>12. OverrulesOK(Strip, asked, asked', live, live)
    BY <1>10 DEF OverrulesOK
<1>13. /\ HandInv(Strip, bank, input, asked', slot, live)
       /\ pc \in Pumping => SnapInv(Strip, bank, asked', slot, live, snap)
    BY <1>2, <1>12, OverruledOK
<1>14. MoveSent(Strip, input, asked', slot', live)
    <2> SUFFICES ASSUME NEW s \in Strip, asked'.move[s].id # None, input.move[s].id = None
                 PROVE  /\ \A m \in 1 .. Slots :
                             Sent(slot', m, "volume") /\ slot'[m].id = asked'.move[s].id =>
                             slot'[m].to = asked'.move[s].to /\ slot'[m].strip = s
                        /\ \/ \E m \in 1 .. Slots : Sent(slot', m, "volume")
                                                     /\ slot'[m].id = asked'.move[s].id
                           \/ live.volume[asked'.move[s].id] = asked'.move[s].to
        BY DEF MoveSent
    <2>1. ~(q.field = "volume" /\ q.id = asked'.move[s].id)
        BY <1>5, <1>9
    <2>2. /\ \A m \in 1 .. Slots :
                Sent(slot, m, "volume") /\ slot[m].id = asked'.move[s].id =>
                slot[m].to = asked'.move[s].to /\ slot[m].strip = s
          /\ \/ \E m \in 1 .. Slots : Sent(slot, m, "volume") /\ slot[m].id = asked'.move[s].id
             \/ live.volume[asked'.move[s].id] = asked'.move[s].to
        BY <1>13 DEF HandInv, MoveSent
    <2>3. \A m \in 1 .. Slots : Sent(slot, m, "volume") /\ slot[m].id = asked'.move[s].id
                                => m # n
        BY <1>4, <2>1 DEF Sent
    <2> QED  BY <1>8, <1>11, <2>2, <2>3
<1>15. PickSent(Strip, input, asked', slot', live)
    <2> SUFFICES ASSUME asked'.pick # None, \A s \in Strip : input.pick[s].id = None
                 PROVE  /\ \A m \in 1 .. Slots : Sent(slot', m, "select")
                                                 => slot'[m].id = asked'.pick
                        /\ \/ \E m \in 1 .. Slots : Sent(slot', m, "select")
                           \/ live.sel = asked'.pick
        BY DEF PickSent
    <2>1. q.field # "select"
        BY <1>7, <1>9
    <2>2. \A m \in 1 .. Slots : Sent(slot, m, "select") => m # n
        BY <1>4, <2>1 DEF Sent
    <2> QED  BY <1>8, <1>11, <1>13, <2>2 DEF HandInv, PickSent
<1>16. MuteSent(input, asked', slot', live)
    <2> SUFFICES ASSUME NEW t \in Serial, asked'.mute[t] # 2,
                        \A k \in DOMAIN input.edge : input.edge[k].id # t
                 PROVE  /\ \A m \in 1 .. Slots :
                             slot'[m].phase # "free" /\ slot'[m].field = "mute"
                             /\ slot'[m].id = t => slot'[m].to = asked'.mute[t]
                        /\ \/ \E m \in 1 .. Slots : Sent(slot', m, "mute") /\ slot'[m].id = t
                           \/ live.mute[t] = asked'.mute[t]
        BY DEF MuteSent
    <2>1. ~(q.field = "mute" /\ q.id = t)
        BY <1>6, <1>9
    <2>2. /\ \A m \in 1 .. Slots :
                slot[m].phase # "free" /\ slot[m].field = "mute"
                /\ slot[m].id = t => slot[m].to = asked'.mute[t]
          /\ \/ \E m \in 1 .. Slots : Sent(slot, m, "mute") /\ slot[m].id = t
             \/ live.mute[t] = asked'.mute[t]
        BY <1>13 DEF HandInv, MuteSent
    <2>3. \A m \in 1 .. Slots : Sent(slot, m, "mute") /\ slot[m].id = t => m # n
        BY <1>4, <2>1 DEF Sent
    <2>4. ~(slot'[n].field = "mute" /\ slot'[n].id = t)
        BY <1>4, <1>8, <2>1
    <2> QED  BY <1>8, <1>11, <2>2, <2>3, <2>4
<1>17. HandInv(Strip, bank, input, asked', slot', live)
    BY <1>13, <1>14, <1>15, <1>16 DEF HandInv
<1>18. pc \in Pumping => SnapInv(Strip, bank, asked', slot', live, snap)
    BY <1>8, <1>13 DEF SnapInv
<1>19. LiveOK'
    BY <1>1, <1>2 DEF LiveOK
<1> QED  BY <1>1, <1>8, <1>9, <1>10, <1>17, <1>18, <1>19, ApplicationDone

\* What the setter of a request does to the application.
Set(l, q, k) ==
    /\ Has(l, q.id) /\ k.rows = l.rows /\ k.ready = l.ready /\ k.next = l.next
    /\ IF q.field = "volume"
       THEN k.volume[q.id] = q.to /\ \A t \in Serial : t # q.id => k.volume[t] = l.volume[t]
       ELSE k.volume = l.volume
    /\ IF q.field = "mute"
       THEN k.mute[q.id] = q.to /\ \A t \in Serial : t # q.id => k.mute[t] = l.mute[t]
       ELSE k.mute = l.mute
    /\ k.sel = IF q.field = "select" THEN q.id ELSE l.sel

LEMMA SetterOK ==
    ASSUME IInv, NEW n \in 1 .. Slots, Execute(n)
    PROVE  LiveOK' /\ Set(live, slot[n], live') /\ slot[n].id \in Serial
<1> DEFINE q == slot[n]
           id == q.id
           to == q.to
<1>1. /\ live.ready /\ \E r \in DOMAIN live.rows : live.rows[r] = id
      /\ live' = CASE q.field = "volume" -> [live EXCEPT !.volume[id] = to]
                   [] q.field = "mute" -> [live EXCEPT !.mute[id] = to]
                   [] q.field = "select" -> [live EXCEPT !.sel = id]
      /\ scene' = scene
    BY DEF Execute
<1>2. LiveOK /\ SlotsOK(Strip, slot)
    BY LoudStart
<1>3. /\ live \in LiveSet /\ id \in Serial /\ Has(live, id)
    BY <1>1, <1>2, LiveParts DEF Has
<1>4. /\ q.field \in {"volume", "mute", "select"} /\ to \in Position
      /\ q.field = "mute" => to \in {0, 1}
    BY <1>2 DEF SlotsOK
<1> HIDE DEF q, id, to
<1>5. /\ live' \in LiveSet /\ live'.rows = live.rows /\ live'.ready = live.ready
      /\ live'.next = live.next
      /\ IF q.field = "volume" THEN live'.volume = [live.volume EXCEPT ![id] = to]
         ELSE live'.volume = live.volume
      /\ IF q.field = "mute" THEN live'.mute = [live.mute EXCEPT ![id] = to]
         ELSE live'.mute = live.mute
      /\ live'.sel = IF q.field = "select" THEN id ELSE live.sel
    <2>1. CASE q.field = "volume"
        <3> DEFINE v == [live.volume EXCEPT ![id] = to]
        <3>1. v \in [Serial -> Position]
            BY <1>3, <1>4 DEF LiveSet
        <3>2. live' = [live EXCEPT !.volume = v]
            BY <1>1, <1>3, <2>1 DEF LiveSet
        <3> HIDE DEF v
        <3>3. live' \in LiveSet /\ live'.volume = v /\ live'.rows = live.rows
              /\ live'.ready = live.ready /\ live'.next = live.next
              /\ live'.mute = live.mute /\ live'.sel = live.sel
            BY <1>3, <3>1, <3>2 DEF LiveSet
        <3> QED  BY <2>1, <3>3 DEF v
    <2>2. CASE q.field = "mute"
        <3> DEFINE v == [live.mute EXCEPT ![id] = to]
        <3>1. v \in [Serial -> {0, 1}]
            BY <1>3, <1>4, <2>2 DEF LiveSet
        <3>2. live' = [live EXCEPT !.mute = v]
            BY <1>1, <1>3, <2>2 DEF LiveSet
        <3> HIDE DEF v
        <3>3. live' \in LiveSet /\ live'.mute = v /\ live'.rows = live.rows
              /\ live'.ready = live.ready /\ live'.next = live.next
              /\ live'.volume = live.volume /\ live'.sel = live.sel
            BY <1>3, <3>1, <3>2 DEF LiveSet
        <3> QED  BY <2>2, <3>3 DEF v
    <2>3. CASE q.field = "select"
        BY <1>1, <1>3, <2>3 DEF LiveSet
    <2> QED  BY <1>4, <2>1, <2>2, <2>3
<1>6. LiveOK'
    <2>1. /\ scene' = scene /\ live' \in LiveSet /\ live'.rows = live.rows
          /\ live'.ready = live.ready /\ live'.next = live.next
        BY <1>1, <1>5
    <2> QED  BY <1>2, <2>1, LiveParts, LiveBack
<1>7. Set(live, q, live')
    <2>1. /\ live.volume \in [Serial -> Position] /\ live.mute \in [Serial -> {0, 1}]
          /\ id \in Serial /\ id = q.id /\ to = q.to
        BY <1>2, <1>3, LiveParts DEF id, to
    <2> QED  BY <1>3, <1>5, <2>1 DEF Set
<1> QED  BY <1>3, <1>6, <1>7 DEF q, id

LEMMA ExecuteStep ==
    ASSUME IInv, NEW n \in 1 .. Slots, Execute(n)
    PROVE  IInv'
<1> DEFINE q == slot[n]
           x == "done"
           l == live'
<1>1. /\ q.phase = "sent" /\ slot' = [slot EXCEPT ![n].phase = x]
      /\ UNCHANGED <<scene, pc, on, snap, batch, bank, input, follow, at, left, asked>>
    BY DEF Execute
<1>2. /\ SlotsOK(Strip, slot) /\ LiveOK /\ AskedOK(Strip, asked)
      /\ HandInv(Strip, bank, input, asked, slot, live) /\ InputOK(Strip, input)
      /\ pc \in Pumping => SnapInv(Strip, bank, asked, slot, live, snap)
    BY DEF IInv, KindsOK
<1>3. x \in {"done", "refused", "returned", "reclaimed"} /\ x = "done"
      /\ slot[n].phase = "sent" /\ q = slot[n]
    BY <1>1
<1>4. LiveOK' /\ Set(live, q, l) /\ q.id \in Serial
    BY SetterOK
<1> HIDE DEF q, x, l
<1>5. /\ SlotsOK(Strip, slot') /\ \A m \in 1 .. Slots : m # n => slot'[m] = slot[m]
      /\ slot'[n].phase = x /\ slot'[n].field = slot[n].field /\ slot'[n].id = slot[n].id
      /\ slot'[n].to = slot[n].to /\ slot'[n].strip = slot[n].strip
      /\ \A f, t : Done(slot, f, t) => Done(slot', f, t)
    BY <1>1, <1>2, <1>3, PhaseOK
<1>6. \A f : \A m \in 1 .. Slots : Sent(slot', m, f) <=> m # n /\ Sent(slot, m, f)
    BY <1>3, <1>5 DEF Sent
<1>7. Sent(slot, n, q.field) /\ Done(slot', q.field, q.id)
      /\ (q.field = "select" => Done(slot', "select", None))
    BY <1>3, <1>5 DEF Sent, Done, Same
<1>8. /\ MoveInv(Strip, bank, input, asked) /\ EdgeInv(input, asked)
      /\ PickInv(Strip, input, asked, l)
    BY <1>2, <1>4 DEF HandInv, PickInv, Set, Has
<1>9. MoveSent(Strip, input, asked, slot', l)
    <2> SUFFICES ASSUME NEW s \in Strip, asked.move[s].id # None, input.move[s].id = None
                 PROVE  /\ \A m \in 1 .. Slots :
                             Sent(slot', m, "volume") /\ slot'[m].id = asked.move[s].id =>
                             slot'[m].to = asked.move[s].to /\ slot'[m].strip = s
                        /\ \/ \E m \in 1 .. Slots : Sent(slot', m, "volume")
                                                     /\ slot'[m].id = asked.move[s].id
                           \/ l.volume[asked.move[s].id] = asked.move[s].to
        BY DEF MoveSent
    <2> DEFINE id == asked.move[s].id
    <2>1. /\ \A m \in 1 .. Slots : Sent(slot, m, "volume") /\ slot[m].id = id =>
                                   slot[m].to = asked.move[s].to /\ slot[m].strip = s
          /\ \/ \E m \in 1 .. Slots : Sent(slot, m, "volume") /\ slot[m].id = id
             \/ live.volume[id] = asked.move[s].to
        BY <1>2 DEF HandInv, MoveSent
    <2>2. id \in Serial
        BY <1>2 DEF AskedOK
    <2> HIDE DEF id
    <2>3. CASE q.field = "volume" /\ q.id = id
        <3>1. l.volume[id] = asked.move[s].to
            BY <1>3, <1>4, <1>7, <2>1, <2>3 DEF Set
        <3> QED  BY <1>5, <1>6, <2>1, <3>1 DEF id
    <2>4. CASE ~(q.field = "volume" /\ q.id = id)
        <3>1. l.volume[id] = live.volume[id]
            BY <1>4, <2>2, <2>4 DEF Set
        <3>2. \A m \in 1 .. Slots : Sent(slot, m, "volume") /\ slot[m].id = id => m # n
            BY <1>3, <2>4 DEF Sent
        <3> QED  BY <1>5, <1>6, <2>1, <3>1, <3>2 DEF id
    <2> QED  BY <2>3, <2>4
<1>10. PickSent(Strip, input, asked, slot', l)
    <2> SUFFICES ASSUME asked.pick # None, \A s \in Strip : input.pick[s].id = None
                 PROVE  /\ \A m \in 1 .. Slots : Sent(slot', m, "select")
                                                 => slot'[m].id = asked.pick
                        /\ \/ \E m \in 1 .. Slots : Sent(slot', m, "select")
                           \/ l.sel = asked.pick
        BY DEF PickSent
    <2>1. /\ \A m \in 1 .. Slots : Sent(slot, m, "select") => slot[m].id = asked.pick
          /\ (\E m \in 1 .. Slots : Sent(slot, m, "select")) \/ live.sel = asked.pick
        BY <1>2 DEF HandInv, PickSent
    <2>2. CASE q.field = "select"
        BY <1>3, <1>4, <1>5, <1>6, <1>7, <2>1, <2>2 DEF Set
    <2>3. CASE q.field # "select"
        <3>1. \A m \in 1 .. Slots : Sent(slot, m, "select") => m # n
            BY <1>3, <2>3 DEF Sent
        <3> QED  BY <1>4, <1>5, <1>6, <2>1, <2>3, <3>1 DEF Set
    <2> QED  BY <2>2, <2>3
<1>11. MuteSent(input, asked, slot', l)
    <2> SUFFICES ASSUME NEW t \in Serial, asked.mute[t] # 2,
                        \A k \in DOMAIN input.edge : input.edge[k].id # t
                 PROVE  /\ \A m \in 1 .. Slots :
                             slot'[m].phase # "free" /\ slot'[m].field = "mute"
                             /\ slot'[m].id = t => slot'[m].to = asked.mute[t]
                        /\ \/ \E m \in 1 .. Slots : Sent(slot', m, "mute") /\ slot'[m].id = t
                           \/ l.mute[t] = asked.mute[t]
        BY DEF MuteSent
    <2>1. /\ \A m \in 1 .. Slots :
                slot[m].phase # "free" /\ slot[m].field = "mute"
                /\ slot[m].id = t => slot[m].to = asked.mute[t]
          /\ \/ \E m \in 1 .. Slots : Sent(slot, m, "mute") /\ slot[m].id = t
             \/ live.mute[t] = asked.mute[t]
        BY <1>2 DEF HandInv, MuteSent
    <2>2. \A m \in 1 .. Slots :
              slot'[m].phase # "free" /\ slot'[m].field = "mute" /\ slot'[m].id = t
              => slot'[m].to = asked.mute[t]
        BY <1>3, <1>5, <2>1
    <2>3. CASE q.field = "mute" /\ q.id = t
        <3>1. l.mute[t] = asked.mute[t]
            BY <1>3, <1>4, <2>1, <2>3 DEF Set
        <3> QED  BY <2>2, <3>1
    <2>4. CASE ~(q.field = "mute" /\ q.id = t)
        <3>1. l.mute[t] = live.mute[t]
            BY <1>4, <2>4 DEF Set
        <3>2. \A m \in 1 .. Slots : Sent(slot, m, "mute") /\ slot[m].id = t => m # n
            BY <1>3, <2>4 DEF Sent
        <3> QED  BY <1>5, <1>6, <2>1, <2>2, <3>1, <3>2
    <2> QED  BY <2>3, <2>4
<1>12. HandInv(Strip, bank, input, asked, slot', l)
    BY <1>8, <1>9, <1>10, <1>11 DEF HandInv
<1>13. ASSUME pc \in Pumping PROVE SnapInv(Strip, bank, asked, slot', l, snap)
    <2>1. SnapInv(Strip, bank, asked, slot, live, snap)
        BY <1>2, <1>13
    <2>2. asked.pick # None => l.sel = snap.sel \/ Done(slot', "select", None)
        BY <1>4, <1>5, <1>7, <2>1 DEF SnapInv, Set
    <2>3. \A s \in Strip : asked.move[s].id # None =>
              \/ l.volume[asked.move[s].id] = snap.volume[asked.move[s].id]
              \/ Done(slot', "volume", asked.move[s].id)
        <3> SUFFICES ASSUME NEW s \in Strip, asked.move[s].id # None
                     PROVE  \/ l.volume[asked.move[s].id] = snap.volume[asked.move[s].id]
                            \/ Done(slot', "volume", asked.move[s].id)
            OBVIOUS
        <3> DEFINE id == asked.move[s].id
        <3>1. id \in Serial /\ (live.volume[id] = snap.volume[id] \/ Done(slot, "volume", id))
            BY <1>2, <2>1 DEF AskedOK, SnapInv
        <3> HIDE DEF id
        <3>2. l.volume[id] = live.volume[id] \/ Done(slot', "volume", id)
            BY <1>4, <1>7, <3>1 DEF Set
        <3> QED  BY <1>5, <3>1, <3>2 DEF id
    <2>4. \A t \in Serial : asked.mute[t] # 2 => l.mute[t] = snap.mute[t]
                                                 \/ Done(slot', "mute", t)
        <3> SUFFICES ASSUME NEW t \in Serial, asked.mute[t] # 2
                     PROVE  l.mute[t] = snap.mute[t] \/ Done(slot', "mute", t)
            OBVIOUS
        <3>1. live.mute[t] = snap.mute[t] \/ Done(slot, "mute", t)
            BY <2>1 DEF SnapInv
        <3>2. l.mute[t] = live.mute[t] \/ Done(slot', "mute", t)
            BY <1>4, <1>7 DEF Set
        <3> QED  BY <1>5, <3>1, <3>2
    <2> QED  BY <2>1, <2>2, <2>3, <2>4 DEF SnapInv
<1>14. Lessens(Strip, asked, asked') /\ asked' = asked
    BY <1>1 DEF Lessens
<1> QED  BY <1>1, <1>2, <1>4, <1>5, <1>12, <1>13, <1>14, ApplicationDone DEF l

LEMMA ApplicationStep ==
    ASSUME IInv, Application
    PROVE  IInv'
<1>1. ASSUME NEW n \in 1 .. Slots, Execute(n) \/ Refuse(n) \/ Reclaim(n) PROVE IInv'
    BY <1>1, ExecuteStep, RefuseStep, ReclaimStep
<1>2. ASSUME NEW t \in Serial, SetMute(t) \/ SetSelection(t) PROVE IInv'
    BY <1>2, SetMuteStep, SetSelectionStep
<1>3. ASSUME NEW t \in Serial, NEW p \in Position, SetVolume(t, p) PROVE IInv'
    BY <1>3, SetVolumeStep
<1>4. ASSUME NEW r \in 1 .. scene.rows, Replace(r) PROVE IInv'
    BY <1>4, ReplaceStep
<1>5. ASSUME Load \/ Loaded \/ Intend \/ GiveUp PROVE IInv'
    BY <1>5, LoadStep, LoadedStep, IntentStep
<1> QED  BY <1>1, <1>2, <1>3, <1>4, <1>5 DEF Application

-----------------------------------------------------------------------------
\* The start, and what follows from it.
LEMMA InitOK ==
    ASSUME Init
    PROVE  IInv
<1>1. /\ scene \in Scenes /\ pc = "events" /\ on = TRUE /\ snap = NoCopy /\ batch = NoCopy
      /\ bank = NoBank /\ input = NoInput /\ asked = Unasked /\ at = [s \in Strip |-> 0]
      /\ slot = [n \in 1 .. Slots |-> Free]
    BY DEF Init
<1>2. scene.bank \in Nat \ {0} /\ scene.rows \in 1 .. Serials
    BY <1>1, SceneSizes
<1>3. LiveOK
    <2> DEFINE n == scene.rows
               rows == [r \in 1 .. n |-> r]
    <2>1. live = [epoch |-> 1, ready |-> TRUE, intent |-> FALSE, next |-> n + 1,
                  rows |-> rows, sel |-> 1,
                  volume |-> [t \in Serial |-> 0], mute |-> [t \in Serial |-> 0]]
        BY DEF Init
    <2>2. n \in Nat /\ n > 0 /\ n <= Serials
        BY <1>2, Sizes
    <2> HIDE DEF n
    <2>3. rows \in [1 .. n -> Serial] /\ 1 \in Serial
        BY <2>2, Sizes DEF Serial
    <2>4. rows \in Seq(Serial) /\ DOMAIN rows = 1 .. n /\ \A r \in 1 .. n : rows[r] = r
        BY <2>2, <2>3, SeqDef
    <2>5. rows # <<>> /\ \A r \in DOMAIN rows : rows[r] < n + 1
        <3>1. 1 \in DOMAIN rows
            BY <2>2, <2>4
        <3> QED  BY <2>2, <2>4, <3>1, \A r \in DOMAIN <<>> : FALSE
    <2> HIDE DEF rows
    <2>6. [t \in Serial |-> 0] \in [Serial -> Position]
          /\ [t \in Serial |-> 0] \in [Serial -> {0, 1}]
        BY Sizes
    <2>7. live.rows = rows /\ live.next = n + 1 /\ live.ready = TRUE
        BY <2>1
    <2>8. live \in LiveSet
        BY <2>1, <2>2, <2>3, <2>4, <2>6 DEF LiveSet
    <2>9. CopyOK(live)
        BY <2>4, <2>5, <2>7, <2>8 DEF LiveSet, CopyOK
    <2>10. live.next > 0 /\ \A r \in DOMAIN live.rows : live.rows[r] < live.next
        BY <2>2, <2>5, <2>7
    <2> QED  BY <2>7, <2>8, <2>9, <2>10 DEF LiveSet, LiveOK
<1>4. BankOK(Strip, bank)
    <2>1. NoFader \in FaderSet /\ NoFader.id = None
        BY Sizes DEF NoFader, FaderSet
    <2>2. /\ NoBank \in BankSet(Strip) /\ NoBank.ready = FALSE
          /\ \A s \in Strip : NoBank.fader[s].id = None
        BY <2>1 DEF NoBank, BankSet
    <2> QED  BY <1>1, <2>2, Sizes DEF BankOK
<1>5. /\ InputOK(Strip, input) /\ input.edge = <<>> /\ input.error = "none"
      /\ \A s \in Strip : /\ input.move[s].id = None /\ input.hold[s].held = FALSE
                          /\ input.pick[s].id = None
    <2>1. /\ NoInput \in InputSet(Strip) /\ NoInput.edge = <<>> /\ NoInput.error = "none"
          /\ \A s \in Strip : /\ NoInput.move[s].id = None /\ NoInput.hold[s].held = FALSE
                              /\ NoInput.pick[s].id = None
        BY NothingsOK DEF NoInput, InputSet
    <2>2. Len(NoInput.edge) <= Edges
        BY <2>1, Sizes, EmptySeq
    <2> QED  BY <1>1, <2>1, <2>2 DEF InputOK
<1>6. SlotsOK(Strip, slot)
    <2>1. Free \in [phase : Unsettled \cup {"free", "settled", "reclaimed"},
                    field : {"volume", "mute", "select"}, id : Serial \cup {None},
                    strip : Strip \cup {0}, to : Position] /\ Free.field = "volume"
        BY Sizes DEF Free, Unsettled
    <2> QED  BY <1>1, <2>1 DEF SlotsOK
<1>7. at \in [Strip -> Position] /\ CopyOK(snap) /\ CopyOK(batch)
    BY <1>1, Sizes, NoCopyOK
<1>8. /\ AskedOK(Strip, asked) /\ asked.pick = None /\ \A s \in Strip : asked.move[s].id = None
      /\ \A t \in Serial : asked.mute[t] = 2
    BY <1>1, UnaskedOK
<1>9. HandInv(Strip, bank, input, asked, slot, live)
    BY <1>5, <1>8, NothingAsked
<1>10. KindsOK /\ pc \notin Pumping
    BY <1>1, <1>3, <1>4, <1>5, <1>6, <1>7, <1>8 DEF KindsOK, Pumping
<1> QED  BY <1>1, <1>5, <1>9, <1>10 DEF IInv

LEMMA IdleIsSafe ==
    ASSUME IInv, UNCHANGED vars
    PROVE  IInv'
<1>1. UNCHANGED <<scene, live, slot, pc, on, snap, batch, bank, input, at, asked>>
    BY DEF vars
<1>2. /\ BankOK(Strip, bank) /\ InputOK(Strip, input) /\ AskedOK(Strip, asked)
      /\ CopyOK(snap) /\ CopyOK(batch) /\ SlotsOK(Strip, slot) /\ at \in [Strip -> Position]
      /\ pc \in {"events", "settle", "pump", "edges", "desires", "motors", "stopped"}
      /\ input.error # "closed" /\ HandInv(Strip, bank, input, asked, slot, live)
      /\ pc \in Pumping => SnapInv(Strip, bank, asked, slot, live, snap)
      /\ ~on => \A s \in Strip : input.move[s].id = None /\ asked.move[s].id = None
    BY DEF IInv, KindsOK
<1> QED  BY <1>1, <1>2, BridgeDone

\* The bridge keeps what it is built on: whatever the hand, the application and the
\* bridge do, the strips show distinct Tracks of the copy, what is pending fits the
\* bank, and a request the hand still means is either pending, under way, answered
\* but not yet in the copy, or done.
THEOREM SurfaceHolds == Spec => []IInv
<1>1. Init => IInv
    BY InitOK
<1>2. IInv /\ [Next]_vars => IInv'
    BY HearStep, BridgeStep, ApplicationStep, IdleIsSafe DEF Next
<1> QED  BY <1>1, <1>2, PTL DEF Spec

\* The kinds of the bridge's state, for any scene: the bank stays inside the project,
\* the edges inside their queue and the faders inside their travel.
THEOREM SurfaceTypes == Spec => []TypeOK
<1>1. ASSUME IInv PROVE TypeOK
    <2>1. /\ scene \in Scenes /\ at \in [Strip -> Position] /\ SlotsOK(Strip, slot)
          /\ pc \in {"events", "settle", "pump", "edges", "desires", "motors", "stopped"}
          /\ BankOK(Strip, bank) /\ InputOK(Strip, input)
        BY <1>1 DEF IInv, KindsOK
    <2>2. Strip \cup {0} = 0 .. scene.bank
        BY <2>1, SceneSizes DEF Strip
    <2>3. Position \cup {0, 1} = Position
        BY Sizes
    <2>4. slot \in [1 .. Slots -> [phase : Unsettled \cup {"free", "settled", "reclaimed"},
                                   field : {"volume", "mute", "select"},
                                   id : Serial \cup {None}, strip : 0 .. scene.bank,
                                   to : Position \cup {0, 1}]]
        BY <2>1, <2>2, <2>3 DEF SlotsOK
    <2>5. /\ bank.offset \in Nat /\ bank.ready => bank.offset < bank.count
          /\ \A s \in Strip : bank.fader[s].id \in Serial \cup {None, Empty}
        BY <2>1 DEF BankOK, BankSet, FaderSet
    <2>6. Len(input.edge) <= Edges /\ input.error \in {"none", "identity", "closed", "capacity"}
        BY <2>1 DEF InputOK, InputSet
    <2> QED  BY <2>1, <2>4, <2>5, <2>6 DEF TypeOK
<1> QED  BY <1>1, SurfaceHolds, PTL

\* A position is only asked of the Track the fader showed when the hand took it,
\* however many Tracks, strips and banks there are (input_touch, input_pitch,
\* input_sync).
THEOREM MovesAreForTheirTrack == Spec => []MovesReachTheirTrack
<1>1. IInv => MovesReachTheirTrack
    BY DEF IInv, HandInv, MoveInv, MovesReachTheirTrack, Asking
<1> QED  BY <1>1, SurfaceHolds, PTL

\* What the hand asked last is what the application ends up with: the last position
\* of a fader, the last selection and the parity of the Mute presses, through any
\* number of requests under way (input_existing, input_control_bound).
THEOREM TheHandWins == Spec => []LastRequestWins
<1>1. ASSUME IInv PROVE LastRequestWins
    <2>1. /\ MoveSent(Strip, input, asked, slot, live) /\ PickSent(Strip, input, asked, slot, live)
          /\ MuteSent(input, asked, slot, live)
        BY <1>1 DEF IInv, HandInv
    <2>2. LastMoveWins
        BY <2>1 DEF LastMoveWins, MoveSent, Sent, Asking, Going, Same
    <2>3. LastPickWins
        BY <2>1 DEF LastPickWins, PickSent, Sent, Going, Same
    <2>4. PressesCount
        BY <2>1 DEF PressesCount, MuteSent, Sent, Going, Same
    <2> QED  BY <2>2, <2>3, <2>4 DEF LastRequestWins
<1> QED  BY <1>1, SurfaceHolds, PTL

\* The bridge never publishes a request against one of its own, which the mailbox
\* would answer with C_CLOSED (input_existing, command_publish_request_at).
THEOREM NeverAgainstItself == Spec => []NoSelfConflict
<1>1. IInv => NoSelfConflict
    BY DEF IInv, NoSelfConflict
<1> QED  BY <1>1, SurfaceHolds, PTL

-----------------------------------------------------------------------------
\* What the hand and the application may still do only gets less; a step of the hand
\* can be told from one of the bridge by it.
LeftOK == left \in [hand : Int, app : Int]

LEMMA HandsCount ==
    ASSUME LeftOK, HearAny
    PROVE  LeftOK' /\ left' # left
<1>1. ASSUME NEW kind, NEW s, NEW arg, Hear(kind, s, arg) PROVE LeftOK' /\ left' # left
    <2>1. left' = [left EXCEPT !.hand = @ - 1]
        BY <1>1 DEF Hear
    <2>2. left'.hand = left.hand - 1 /\ left.hand \in Int /\ LeftOK'
        BY <2>1 DEF LeftOK
    <2> QED  BY <2>2
<1>2. PICK e \in scene.events :
         \/ e.kind = "touch" /\ Touch(e.strip, e.arg = 1)
         \/ e.kind = "pitch" /\ Pitch(e.strip, e.arg)
         \/ e.kind = "mute" /\ Mute(e.strip)
         \/ e.kind = "select" /\ Select(e.strip)
         \/ e.kind = "channel" /\ Channel(e.arg)
         \/ e.kind = "bank" /\ Bank(e.arg)
         \/ Unheard(e.kind, e.strip, e.arg)
    BY DEF HearAny
<1>3. \E kind, s, arg : Hear(kind, s, arg)
    BY <1>2 DEF Touch, Pitch, Mute, Select, Channel, Bank, Unheard
<1> QED  BY <1>1, <1>3

LEMMA BridgeLeaves ==
    ASSUME LeftOK, Bridge
    PROVE  LeftOK' /\ (at' # at => \E s \in Strip : MotorSend(s))
<1>1. ASSUME NEW beat \in BOOLEAN, Copy(beat) PROVE left' = left /\ at' = at
    BY <1>1 DEF Copy
<1>2. ASSUME NEW s \in Strip, Move(s) \/ Pick(s) PROVE left' = left /\ at' = at
    BY <1>2 DEF Move, Pick
<1>3. ASSUME NEW s \in Strip, MotorSend(s) PROVE left' = left
    BY <1>3 DEF MotorSend
<1>4. ASSUME CopyFails \/ Drain \/ Pump \/ Edge \/ EdgesDone \/ DesiresDone \/ MotorsDone
             \/ Reconnect
      PROVE  left' = left /\ at' = at
    BY <1>4 DEF CopyFails, Drain, Pump, Edge, EdgesDone, DesiresDone, MotorsDone, Reconnect
<1>5. ASSUME Disconnect PROVE LeftOK' /\ at' = at
    BY <1>5 DEF Disconnect, LeftOK
<1>6. left' = left => LeftOK'
    BY DEF LeftOK
<1> QED  BY <1>1, <1>2, <1>3, <1>4, <1>5, <1>6 DEF Bridge

LEMMA ApplicationLeaves ==
    ASSUME LeftOK, Application
    PROVE  LeftOK' /\ at' = at
<1>1. ASSUME NEW n \in 1 .. Slots, Execute(n) \/ Refuse(n) \/ Reclaim(n)
      PROVE  left' = left /\ at' = at
    BY <1>1 DEF Execute, Refuse, Reclaim
<1>2. ASSUME NEW move, Own(move) PROVE LeftOK' /\ at' = at
    BY <1>2 DEF Own, LeftOK
<1>3. ASSUME Loaded \/ GiveUp PROVE left' = left /\ at' = at
    BY <1>3 DEF Loaded, GiveUp
<1>4. left' = left => LeftOK'
    BY DEF LeftOK
<1> QED  BY <1>1, <1>2, <1>3, <1>4
         DEF Application, SetMute, SetSelection, SetVolume, Replace, Load, Intend

LEMMA LeftHolds == Spec => []LeftOK
<1>1. Init => LeftOK
    <2> SUFFICES ASSUME Init PROVE LeftOK
        OBVIOUS
    <2>1. scene \in Scenes /\ left = [hand |-> scene.hand, app |-> scene.app]
        BY DEF Init
    <2>2. scene.hand \in Nat /\ scene.app \in Nat
        BY <2>1, SurfaceAssumption
    <2> QED  BY <2>1, <2>2 DEF LeftOK
<1>2. LeftOK /\ [Next]_vars => LeftOK'
    <2>1. UNCHANGED vars /\ LeftOK => LeftOK'
        BY DEF vars, LeftOK
    <2> QED  BY <2>1, HandsCount, BridgeLeaves, ApplicationLeaves DEF Next
<1> QED  BY <1>1, <1>2, PTL DEF Spec

\* A motor that may be driven stands where the hand put it, or goes there.
LEMMA MotorYields ==
    ASSUME IInv, NEW m \in Strip, MotorSend(m), NEW s \in Strip, asked.move[s].id # None,
           at'[s] # at[s]
    PROVE  at'[s] = asked.move[s].to
<1>1. /\ MotorReady(m) /\ MotorCurrent(m) /\ at' = [at EXCEPT ![m] = Target(bank, m)]
      /\ BankOK(Strip, bank) /\ SlotsOK(Strip, slot) /\ AskedOK(Strip, asked)
      /\ at \in [Strip -> Position] /\ MoveInv(Strip, bank, input, asked)
      /\ MoveSent(Strip, input, asked, slot, live)
    BY DEF MotorSend, IInv, KindsOK, HandInv
<1>2. s = m /\ at'[s] = Target(bank, s)
    BY <1>1
<1> DEFINE id == asked.move[s].id
<1>3. id \in Serial /\ bank.fader[s].id = id
    BY <1>1 DEF AskedOK, MoveInv
<1>4. /\ input.move[s].id = None
      /\ ~\E n \in 1 .. Slots : /\ slot[n].phase \in Unsettled /\ slot[n].strip = s
                                /\ slot[n].field = "volume"
    BY <1>1, <1>2 DEF MotorReady, Blocked
<1>5. ~\E n \in 1 .. Slots : Sent(slot, n, "volume") /\ slot[n].id = id
    BY <1>1, <1>4 DEF MoveSent, Sent, Unsettled
<1>6. live.volume[id] = asked.move[s].to
    BY <1>1, <1>4, <1>5 DEF MoveSent
<1>7. live.volume[id] = bank.fader[s].bits
    BY <1>1, <1>2, <1>3, Sizes DEF MotorCurrent
<1>8. Target(bank, s) = bank.fader[s].bits
    BY <1>3, Sizes DEF Target
<1> QED  BY <1>2, <1>6, <1>7, <1>8

\* While what the hand asked of a fader stands, no motor takes the fader elsewhere: for
\* any scene, whatever is pending, under way or answered, and however old the copy
\* is that the target comes from (input_blocked_field, mirror_motor_current).
THEOREM TheMotorsYield == Spec => MotorsYield
<1>1. IInv /\ LeftOK /\ [Next]_vars =>
         [\A s \in Strip : asked.move[s].id # None /\ at'[s] # at[s] /\ left' = left
                           => at'[s] = asked.move[s].to]_vars
    <2> SUFFICES ASSUME IInv, LeftOK, [Next]_vars, NEW s \in Strip, asked.move[s].id # None,
                        at'[s] # at[s], left' = left
                 PROVE  at'[s] = asked.move[s].to
        OBVIOUS
    <2>1. at' # at
        OBVIOUS
    <2>2. \E m \in Strip : MotorSend(m)
        BY <2>1, HandsCount, BridgeLeaves, ApplicationLeaves DEF Next, vars
    <2> QED  BY <2>2, MotorYields
<1> QED  BY <1>1, SurfaceHolds, LeftHolds, PTL DEF Spec, MotorsYield
=============================================================================
