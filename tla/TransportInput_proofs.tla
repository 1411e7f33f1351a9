------------------------ MODULE TransportInput_proofs ------------------------
(***************************************************************************)
(* Proofs about the transport lane of the bridge, for any scene and any    *)
(* bounds: its types, that the bridge never publishes against itself, that *)
(* nothing which was taken back is sent, and that the turns of the wheel   *)
(* arrive in their order and whole; and, last, of both lanes together.     *)
(*                                                                         *)
(* A handler forgets what belongs to another project before it works; the  *)
(* operators of the invariant take the lane and the history as arguments,  *)
(* so that they can be stated of what is left in between.                  *)
(***************************************************************************)
EXTENDS MCInput, SurfaceInput_proofs, SequenceTheorems, WellFoundedInduction, TLAPS

Ops == Jog \cup Global \cup Focus
JogSet == [op : Jog, by : 0 .. 3, d : Int, epoch : Nat]
GlobalSet == [op : Global, epoch : Nat, press : Nat]
LaneSet == [epoch : Nat, jogs : Seq(JogSet), globals : Seq(GlobalSet), shift : BOOLEAN,
            forward : BOOLEAN, rewind : BOOLEAN, stopDown : BOOLEAN, playDown : BOOLEAN,
            played : BOOLEAN, home : BOOLEAN, stepped : BOOLEAN, wait : BOOLEAN,
            wheel : Int, unit : {"data", "note"}, push : BOOLEAN,
            error : {"none", "capacity", "identity", "expired", "closed"}]
CopySet == [epoch : Nat, ready : BOOLEAN, known : BOOLEAN, playing : BOOLEAN, bar : Nat,
            newer : BOOLEAN]
ProjectSet == [epoch : Nat, ready : BOOLEAN, intent : BOOLEAN, known : BOOLEAN,
               playing : BOOLEAN, bar : Nat, advanced : BOOLEAN]
UnitSet == [op : Jog, sign : {-1, 1}]
ToldSet == [press : Nat, home : Nat, play : Nat, last : Nat, owed : Seq(UnitSet),
            keys : SUBSET Held, wheel : Nat, push : Nat]
Phases == {"free", "sent", "active", "done", "lost", "refused", "settled", "returned"}
SlotSet == [phase : Phases, op : Ops, amount : Int, epoch : Nat, by : 0 .. 3, press : Nat,
            playing : BOOLEAN, undone : BOOLEAN]
LanePumping == {"globals", "steps", "jog", "wheel", "push"}

\* The queues are within their rings and a packet within its limit.
JogsFit(jogs) ==
    /\ jogs \in Seq(JogSet) /\ Len(jogs) <= Ring
    /\ \A k \in DOMAIN jogs : jogs[k].d # 0 /\ Size(jogs[k].d) <= Limit
LaneValueOK(i) ==
    /\ i \in LaneSet /\ JogsFit(i.jogs) /\ Len(i.globals) <= Ring /\ Size(i.wheel) <= Banked
    /\ i.error # "closed"
RequestsOK(q) == q \in [1 .. Slots -> SlotSet]
LineOK(l, q) ==
    /\ l \in Seq(1 .. Slots)
    /\ \A j, k \in DOMAIN l : l[j] = l[k] => j = k
    /\ \A k \in DOMAIN l : q[l[k]].phase \notin {"free", "returned"}
LaneKindsOK ==
    /\ table \in TransportScenes
    /\ stage \in {"drain", "settle", "stopped"} \cup LanePumping
    /\ project \in ProjectSet /\ copy \in CopySet
    /\ RequestsOK(request) /\ LineOK(line, request)
    /\ surface \in [on : BOOLEAN, scrub : BOOLEAN]
    /\ budget \in [hand : Nat, app : Nat]

\* What waits was asked for in the project of the lane and has not been taken back.
Fresh(i, t) ==
    /\ i.forward => "forward" \in t.keys
    /\ i.rewind => "rewind" \in t.keys
    /\ i.home => t.home > t.play
    /\ i.wheel # 0 => t.wheel = i.epoch
    /\ i.push => t.push = i.epoch
    /\ t.play <= t.press
    /\ \A k \in DOMAIN i.jogs :
        /\ i.jogs[k].epoch = i.epoch
        /\ i.jogs[k].by = Forward => "forward" \in t.keys
        /\ i.jogs[k].by = Rewind => "rewind" \in t.keys
        /\ i.jogs[k].by = Home => t.home > t.play
Owes(i, t) == i.error = "none" => Unpacked(i.jogs) = t.owed
LaneOK(i, t) == LaneValueOK(i) /\ t \in ToldSet /\ Fresh(i, t) /\ Owes(i, t)
\* A pump works for the project of its copy.
Pumped == stage \in LanePumping => lane.epoch = copy.epoch
LaneInv == LaneKindsOK /\ LaneOK(lane, told) /\ Pumped

-----------------------------------------------------------------------------
LEMMA LaneSizes ==
    /\ Epochs \in Nat \ {0} /\ Limit \in Nat \ {0} /\ Banked \in Nat \ {0}
    /\ Steps \in Nat \ {0} /\ Ring \in Nat \ {0} /\ Slots \in Nat \ {0}
BY LimitsAssumption, SlotsAssumption

LEMMA OpsApart == Jog \cap Global = {} /\ Jog \cap Focus = {} /\ Global \cap Focus = {}
BY DEF Jog, Global, Transport, Focus

LEMMA Clipped ==
    ASSUME NEW n \in Int, NEW m \in Nat \ {0}
    PROVE  /\ Clip(n, m) \in Int /\ Size(Clip(n, m)) <= m
           /\ Size(n) \in Nat /\ Size(n - Clip(n, m)) <= Size(n)
BY DEF Clip, Size, SignOf

\* The least number of a set.
LEMMA LeastRequest ==
    ASSUME NEW T \in SUBSET Nat, T # {}
    PROVE  \E x \in T : \A y \in T : x <= y
<1> DEFINE R == {p \in Nat \X Nat : p[1] < p[2]}
<1>1. IsWellFoundedOn(R, Nat)
    BY NatLessThanWellFounded DEF OpToRel
<1>2. PICK x \in T : \A y \in T : <<y, x>> \notin R
    <2> HIDE DEF R
    <2> QED  BY <1>1, WFMin
<1>3. \A y \in T : x <= y
    <2> SUFFICES ASSUME NEW y \in T, y < x PROVE FALSE
        OBVIOUS
    <2>1. <<y, x>> \in Nat \X Nat /\ <<y, x>>[1] < <<y, x>>[2]
        OBVIOUS
    <2>2. <<y, x>> \in R
        BY <2>1
    <2> QED  BY <2>2, <1>2
<1> QED  BY <1>3

LEMMA Least ==
    ASSUME NEW T, T \subseteq 1 .. Slots, T # {}
    PROVE  (CHOOSE n \in T : \A m \in T : n <= m) \in T
<1>1. T \in SUBSET Nat
  BY LaneSizes
<1>2. \E n \in T : \A m \in T : n <= m
  BY <1>1, LeastRequest
<1> QED
  BY <1>2

\* Counting up to a number.
LEMMA UpTo ==
    ASSUME NEW n \in Nat, NEW S, 0 \in S, \A k \in 1 .. n : k - 1 \in S => k \in S
    PROVE  \A k \in 0 .. n : k \in S
<1> DEFINE T == (0 .. n) \ S
<1>1. CASE T = {}
  BY <1>1
<1>2. CASE T # {}
  <2>1. T \in SUBSET Nat
    OBVIOUS
  <2>2. PICK k \in T : \A m \in T : k <= m
    BY <1>2, <2>1, LeastRequest
  <2>3. k \in 1 .. n /\ k - 1 \notin T
    BY <2>2
  <2> QED
    BY <2>3
<1> QED
  BY <1>1, <1>2

\* A function that is given by its first value and by its steps exists.
Follows(f, n, x, g) == f[0] = x /\ \A j \in 1 .. n : f[j] = g[j][f[j - 1]]
LEMMA Stepwise ==
    ASSUME NEW X, NEW n \in Nat, NEW x \in X, NEW g \in [1 .. n -> [X -> X]]
    PROVE  \E f \in [0 .. n -> X] : Follows(f, n, x, g)
<1> DEFINE Good(k) == \E f \in [0 .. k -> X] :
                        f[0] = x /\ \A j \in 1 .. k : f[j] = g[j][f[j - 1]]
           S == {k \in 0 .. n : Good(k)}
<1>1. Good(0)
  <2> DEFINE f == [k \in 0 .. 0 |-> x]
  <2>1. f \in [0 .. 0 -> X] /\ f[0] = x /\ \A j \in 1 .. 0 : f[j] = g[j][f[j - 1]]
    OBVIOUS
  <2> QED
    BY <2>1
<1>2. ASSUME NEW k \in 1 .. n, Good(k - 1) PROVE Good(k)
  <2>1. PICK f \in [0 .. k - 1 -> X] :
            f[0] = x /\ \A j \in 1 .. k - 1 : f[j] = g[j][f[j - 1]]
    BY <1>2
  <2> DEFINE y == g[k][f[k - 1]]
             h == [j \in 0 .. k |-> IF j = k THEN y ELSE f[j]]
  <2>2. y \in X
    OBVIOUS
  <2> HIDE DEF y
  <2>3. h \in [0 .. k -> X] /\ h[0] = x
    BY <2>1, <2>2
  <2>4. \A j \in 1 .. k - 1 : h[j] = g[j][h[j - 1]]
    BY <2>1
  <2>5. h[k] = g[k][h[k - 1]]
    BY DEF y
  <2> HIDE DEF h
  <2>6. \A j \in 1 .. k : j \in 1 .. k - 1 \/ j = k
    OBVIOUS
  <2>7. \A j \in 1 .. k : h[j] = g[j][h[j - 1]]
    BY <2>4, <2>5, <2>6
  <2> QED
    BY <2>3, <2>7
<1> HIDE DEF Good
<1>3. 0 \in S
  BY <1>1
<1>4. \A k \in 1 .. n : k - 1 \in S => k \in S
  BY <1>2
<1> HIDE DEF S
<1>5. \A k \in 0 .. n : k \in S
  BY <1>3, <1>4, UpTo
<1>6. n \in S
  BY <1>5
<1> QED
  BY <1>6 DEF S, Good, Follows

-----------------------------------------------------------------------------
\* Sequences.
LaneWas(k, m) == IF m < k THEN m ELSE m + 1
LaneNow(k, p) == IF p < k THEN p ELSE p - 1

LEMMA LaneRemovedAt ==
    ASSUME NEW E, NEW e \in Seq(E), NEW k \in 1 .. Len(e), NEW f, f = RemoveAt(e, k)
    PROVE  /\ f \in Seq(E) /\ Len(f) = Len(e) - 1
           /\ \A m \in DOMAIN f : LaneWas(k, m) \in DOMAIN e /\ LaneWas(k, m) # k
                                  /\ f[m] = e[LaneWas(k, m)]
           /\ \A p \in DOMAIN e : p # k => LaneNow(k, p) \in DOMAIN f /\ f[LaneNow(k, p)] = e[p]
<1> DEFINE n == Len(e)
           h == SubSeq(e, 1, k - 1)
           t == SubSeq(e, k + 1, n)
<1>1. n \in Nat /\ DOMAIN e = 1 .. n /\ k \in 1 .. n /\ \A p \in 1 .. n : e[p] \in E
    BY LenProperties, ElementOfSeq
<1>2. f = h \o t
    BY DEF RemoveAt
<1> HIDE DEF n
<1>3. /\ h \in Seq(E) /\ Len(h) = k - 1 /\ \A p \in 1 .. k - 1 : h[p] = e[p]
    <2> DEFINE a == 1
               b == k - 1
    <2>1. a \in Int /\ b \in Int /\ a = 1 /\ b = k - 1 /\ \A p \in a .. b : e[p] \in E
        BY <1>1
    <2> HIDE DEF a, b
    <2>2. /\ SubSeq(e, a, b) \in Seq(E)
          /\ Len(SubSeq(e, a, b)) = IF a <= b THEN b - a + 1 ELSE 0
          /\ \A p \in 1 .. b - a + 1 : SubSeq(e, a, b)[p] = e[a + p - 1]
        BY <2>1, SubSeqProperties
    <2>3. h = SubSeq(e, a, b)
        BY <2>1
    <2> HIDE DEF h
    <2>4. Len(h) = k - 1
        BY <1>1, <2>1, <2>2, <2>3
    <2>5. \A p \in 1 .. k - 1 : h[p] = e[p]
        BY <1>1, <2>1, <2>2, <2>3
    <2> QED  BY <2>2, <2>3, <2>4, <2>5
<1>4. /\ t \in Seq(E) /\ Len(t) = n - k /\ \A p \in 1 .. n - k : t[p] = e[k + p]
    <2> DEFINE a == k + 1
    <2>1. a \in Int /\ n \in Int /\ a = k + 1 /\ \A p \in a .. n : e[p] \in E
        BY <1>1
    <2> HIDE DEF a
    <2>2. /\ SubSeq(e, a, n) \in Seq(E)
          /\ Len(SubSeq(e, a, n)) = IF a <= n THEN n - a + 1 ELSE 0
          /\ \A p \in 1 .. n - a + 1 : SubSeq(e, a, n)[p] = e[a + p - 1]
        BY <2>1, SubSeqProperties
    <2>3. t = SubSeq(e, a, n)
        BY <2>1
    <2> HIDE DEF t
    <2>4. Len(t) = n - k
        BY <1>1, <2>1, <2>2, <2>3
    <2>5. \A p \in 1 .. n - k : t[p] = e[k + p]
        <3> SUFFICES ASSUME NEW p \in 1 .. n - k PROVE t[p] = e[k + p]
            OBVIOUS
        <3>1. p \in 1 .. n - a + 1 /\ a + p - 1 = k + p
            BY <1>1, <2>1
        <3> QED  BY <2>2, <2>3, <3>1
    <2> QED  BY <2>2, <2>3, <2>4, <2>5
<1> HIDE DEF h, t
<1>5. /\ f \in Seq(E) /\ Len(f) = Len(h) + Len(t)
      /\ \A p \in 1 .. Len(h) + Len(t) : f[p] = IF p <= Len(h) THEN h[p] ELSE t[p - Len(h)]
    BY <1>2, <1>3, <1>4, ConcatProperties
<1>6. Len(f) = n - 1 /\ DOMAIN f = 1 .. n - 1
    BY <1>1, <1>3, <1>4, <1>5, LenProperties
<1>7. \A m \in 1 .. n - 1 : f[m] = e[LaneWas(k, m)]
    <2> SUFFICES ASSUME NEW m \in 1 .. n - 1 PROVE f[m] = e[LaneWas(k, m)]
        OBVIOUS
    <2>1. CASE m < k
        <3>1. m \in 1 .. k - 1 /\ m \in 1 .. Len(h) + Len(t) /\ m <= Len(h)
            BY <1>1, <1>3, <1>4, <2>1
        <3> QED  BY <1>3, <1>5, <2>1, <3>1 DEF LaneWas
    <2>2. CASE ~(m < k)
        <3>1. /\ m \in 1 .. Len(h) + Len(t) /\ ~(m <= Len(h))
              /\ m - Len(h) \in 1 .. n - k /\ k + (m - Len(h)) = m + 1
            BY <1>1, <1>3, <1>4, <2>2
        <3>2. f[m] = t[m - Len(h)] /\ t[m - Len(h)] = e[k + (m - Len(h))]
            BY <1>4, <1>5, <3>1
        <3> QED  BY <2>2, <3>1, <3>2 DEF LaneWas
    <2> QED  BY <2>1, <2>2
<1>8. \A m \in 1 .. n - 1 : LaneWas(k, m) \in 1 .. n /\ LaneWas(k, m) # k
    BY <1>1 DEF LaneWas
<1>9. \A p \in 1 .. n : p # k => LaneNow(k, p) \in 1 .. n - 1 /\ LaneWas(k, LaneNow(k, p)) = p
    BY <1>1 DEF LaneWas, LaneNow
<1>10. /\ \A m \in DOMAIN f : LaneWas(k, m) \in DOMAIN e /\ LaneWas(k, m) # k /\ f[m] = e[LaneWas(k, m)]
       /\ \A p \in DOMAIN e : p # k => LaneNow(k, p) \in DOMAIN f /\ f[LaneNow(k, p)] = e[p]
    BY <1>1, <1>6, <1>7, <1>8, <1>9
<1> QED  BY <1>5, <1>6, <1>10 DEF n

-----------------------------------------------------------------------------
\* The turns that wait.
LEMMA TurnsOK == ASSUME NEW j \in JogSet PROVE Turns(j) \in Seq(UnitSet)
<1>1. Size(j.d) \in Nat /\ [op |-> j.op, sign |-> SignOf(j.d)] \in UnitSet
  BY DEF UnitSet, JogSet, Size, SignOf
<1>2. Ones(j.op, j.d) \in [1 .. Size(j.d) -> UnitSet]
  BY <1>1 DEF Ones
<1>3. Ones(j.op, j.d) \in Seq(UnitSet)
  BY <1>1, <1>2
<1> QED
  BY <1>3 DEF Turns

LEMMA UnpackedBy ==
    ASSUME NEW s \in Seq(JogSet)
    PROVE  \E f \in [0 .. Len(s) -> Seq(UnitSet)] :
              /\ f[0] = <<>> /\ \A k \in 1 .. Len(s) : f[k] = f[k - 1] \o Turns(s[k])
              /\ Unpacked(s) = f[Len(s)]
<1> DEFINE n == Len(s)
           X == Seq(UnitSet)
           g == [k \in 1 .. n |-> [x \in X |-> x \o Turns(s[k])]]
           Rec(h) == [k \in 0 .. n |-> IF k = 0 THEN <<>> ELSE h[k - 1] \o Turns(s[k])]
           c == CHOOSE h : h = Rec(h)
<1>1. n \in Nat /\ \A k \in 1 .. n : s[k] \in JogSet /\ Turns(s[k]) \in X
  BY TurnsOK
<1>2. \A x \in X, k \in 1 .. n : x \o Turns(s[k]) \in X
  BY <1>1, ConcatProperties
<1>3. g \in [1 .. n -> [X -> X]] /\ <<>> \in X /\ n \in Nat
  BY <1>1, <1>2
<1>4. \A k \in 1 .. n : \A x \in X : g[k][x] = x \o Turns(s[k])
  OBVIOUS
<1> HIDE DEF n, X, g
<1>5. PICK h \in [0 .. n -> X] : h[0] = <<>> /\ \A k \in 1 .. n : h[k] = g[k][h[k - 1]]
  <2>1. \E f \in [0 .. n -> X] : Follows(f, n, <<>>, g)
    BY <1>3, Stepwise
  <2> QED
    BY <2>1 DEF Follows
<1>51. \A k \in 1 .. n : k - 1 \in 0 .. n
  BY <1>3
<1>6. \A k \in 1 .. n : h[k] = h[k - 1] \o Turns(s[k])
  <2> SUFFICES ASSUME NEW k \in 1 .. n PROVE h[k] = h[k - 1] \o Turns(s[k])
    OBVIOUS
  <2>1. h[k - 1] \in X
    BY <1>51
  <2> QED
    BY <1>4, <1>5, <2>1, Zenon
<1>61. \A k \in 0 .. n : h[k] = IF k = 0 THEN <<>> ELSE h[k - 1] \o Turns(s[k])
  <2>1. \A k \in 0 .. n : k = 0 \/ k \in 1 .. n
    BY <1>3
  <2> QED
    BY <1>5, <1>6, <2>1
<1>62. h = Rec(h)
  BY <1>61
<1>7. c = Rec(c)
  <2> HIDE DEF Rec
  <2> QED
    BY <1>62
<1> HIDE DEF c
<1>8. c = [k \in 0 .. n |-> IF k = 0 THEN <<>> ELSE c[k - 1] \o Turns(s[k])]
  BY <1>7
<1>81. DOMAIN c = 0 .. n /\ c[0] = <<>> /\ \A k \in 1 .. n : c[k] = c[k - 1] \o Turns(s[k])
  BY <1>3, <1>8
<1> DEFINE S == {k \in 0 .. n : c[k] \in X}
<1>9. 0 \in S
  BY <1>3, <1>81
<1>91. \A k \in 1 .. n : k - 1 \in S => k \in S
  BY <1>2, <1>3, <1>81
<1>10. \A k \in 0 .. n : k \in S
  <2> HIDE DEF S
  <2> QED
    BY <1>3, <1>9, <1>91, UpTo
<1>11. c \in [0 .. n -> X]
  BY <1>8, <1>10
<1>12. Unpacked(s) = c[n]
  BY DEF Unpacked, c, n
<1> QED
  BY <1>81, <1>11, <1>12 DEF n, X

LEMMA UnpackedOK ==
    ASSUME NEW s \in Seq(JogSet)
    PROVE  Unpacked(s) \in Seq(UnitSet) /\ (s = <<>> => Unpacked(s) = <<>>)
<1>1. PICK f \in [0 .. Len(s) -> Seq(UnitSet)] : f[0] = <<>> /\ Unpacked(s) = f[Len(s)]
  BY UnpackedBy
<1> QED
  BY <1>1

LEMMA Associative ==
    ASSUME NEW S, NEW a \in Seq(S), NEW b \in Seq(S), NEW c \in Seq(S)
    PROVE  (a \o b) \o c = a \o (b \o c)
BY ConcatAssociative

LEMMA UnpackedAppend ==
    ASSUME NEW s \in Seq(JogSet), NEW j \in JogSet
    PROVE  Unpacked(Append(s, j)) = Unpacked(s) \o Turns(j)
<1> DEFINE r == Append(s, j)
           n == Len(s)
<1>1. r \in Seq(JogSet) /\ Len(r) = n + 1 /\ n \in Nat /\ r[n + 1] = j
      /\ \A k \in 1 .. n : r[k] = s[k]
  OBVIOUS
<1> HIDE DEF r
<1>2. PICK f \in [0 .. n -> Seq(UnitSet)] :
          /\ f[0] = <<>> /\ \A k \in 1 .. n : f[k] = f[k - 1] \o Turns(s[k])
          /\ Unpacked(s) = f[n]
  BY UnpackedBy
<1>3. PICK h \in [0 .. n + 1 -> Seq(UnitSet)] :
          /\ h[0] = <<>> /\ \A k \in 1 .. n + 1 : h[k] = h[k - 1] \o Turns(r[k])
          /\ Unpacked(r) = h[n + 1]
  BY <1>1, UnpackedBy
<1> HIDE DEF n
<1> DEFINE S == {k \in 0 .. n : h[k] = f[k]}
<1>4. 0 \in S
  BY <1>1, <1>2, <1>3
<1>5. ASSUME NEW k \in 1 .. n, k - 1 \in S PROVE k \in S
  <2>1. k \in 1 .. n + 1 /\ k \in 0 .. n /\ r[k] = s[k] /\ h[k - 1] = f[k - 1]
    BY <1>1, <1>5
  <2>2. h[k] = h[k - 1] \o Turns(r[k]) /\ f[k] = f[k - 1] \o Turns(s[k])
    BY <1>2, <1>3, <2>1
  <2> QED
    BY <2>1, <2>2
<1>6. \A k \in 0 .. n : k \in S
  <2> HIDE DEF S
  <2> QED
    BY <1>1, <1>4, <1>5, UpTo
<1>7. n \in 0 .. n /\ n + 1 \in 1 .. n + 1
  BY <1>1
<1>71. h[n] = f[n]
  BY <1>6, <1>7
<1>72. \E m \in 1 .. n + 1 : m = n + 1 /\ m - 1 = n
  BY <1>1, <1>7
<1>8. PICK m \in 1 .. n + 1 : m = n + 1 /\ m - 1 = n
  BY <1>72
<1>81. h[m] = h[m - 1] \o Turns(r[m])
  BY <1>3
<1>9. Unpacked(r) = Unpacked(s) \o Turns(j)
  BY <1>1, <1>2, <1>3, <1>71, <1>8, <1>81
<1> QED
  BY <1>9 DEF r

\* A sequence that is not empty has a last element and what comes before it.
LEMMA FrontAndLast ==
    ASSUME NEW E, NEW s \in Seq(E), s # <<>>
    PROVE  \E t \in Seq(E) : \E e \in E :
              s = Append(t, e) /\ Len(s) = Len(t) + 1 /\ e = Last(s) /\ e = s[Len(s)]
<1> DEFINE n == Len(s)
           t == [k \in 1 .. n - 1 |-> s[k]]
<1>1. n \in Nat \ {0} /\ \A k \in 1 .. n : s[k] \in E
  OBVIOUS
<1>2. t \in Seq(E) /\ Len(t) = n - 1
  BY <1>1
<1>3. s = Append(t, s[n])
  BY <1>1, <1>2
<1>4. s[n] = Last(s)
  BY DEF Last
<1>5. Len(s) = Len(t) + 1 /\ s[n] \in E
  BY <1>1, <1>2
<1> HIDE DEF t
<1> QED
  BY <1>2, <1>3, <1>4, <1>5

LEMMA UnpackedTail ==
    ASSUME NEW s0 \in Seq(JogSet), s0 # <<>>
    PROVE  Unpacked(s0) = Turns(Head(s0)) \o Unpacked(Tail(s0))
<1> DEFINE Good(s) == Unpacked(s) = Turns(Head(s)) \o Unpacked(Tail(s))
           S == {k \in 0 .. Len(s0) : \A s \in Seq(JogSet) : Len(s) = k /\ s # <<>> => Good(s)}
<1>1. 0 \in S
  OBVIOUS
<1>2. ASSUME NEW k \in 1 .. Len(s0), k - 1 \in S, NEW s \in Seq(JogSet), Len(s) = k, s # <<>>
      PROVE  Good(s)
  <2>1. PICK t \in Seq(JogSet), e \in JogSet : s = Append(t, e) /\ Len(s) = Len(t) + 1
    BY <1>2, FrontAndLast, SMTT(30)
  <2>2. Unpacked(s) = Unpacked(t) \o Turns(e) /\ Unpacked(t) \in Seq(UnitSet)
        /\ Turns(e) \in Seq(UnitSet)
    BY <2>1, UnpackedAppend, UnpackedOK, TurnsOK
  <2>3. CASE t = <<>>
    <3>1. Head(s) = e /\ Tail(s) = <<>>
      BY <2>1, <2>3
    <3>2. Unpacked(t) = <<>> /\ Unpacked(Tail(s)) = <<>>
      BY <2>3, <3>1, UnpackedOK
    <3> QED
      BY <2>2, <3>1, <3>2
  <2>4. CASE t # <<>>
    <3>1. Good(t)
      BY <1>2, <2>1, <2>4
    <3>2. Head(s) = Head(t) /\ Tail(s) = Append(Tail(t), e) /\ Tail(t) \in Seq(JogSet)
          /\ Head(t) \in JogSet
      BY <2>1, <2>4
    <3>3. Unpacked(Tail(s)) = Unpacked(Tail(t)) \o Turns(e) /\ Turns(Head(t)) \in Seq(UnitSet)
          /\ Unpacked(Tail(t)) \in Seq(UnitSet)
      BY <3>2, UnpackedAppend, UnpackedOK, TurnsOK
    <3>4. Unpacked(s) = (Turns(Head(t)) \o Unpacked(Tail(t))) \o Turns(e)
      BY <2>2, <3>1
    <3> DEFINE a == Turns(Head(t))
               b == Unpacked(Tail(t))
               c == Turns(e)
    <3>40. a \in Seq(UnitSet) /\ b \in Seq(UnitSet) /\ c \in Seq(UnitSet)
      BY <2>2, <3>3
    <3>41. \A x, y, z \in Seq(UnitSet) : (x \o y) \o z = x \o (y \o z)
      BY Associative, SMTT(30)
    <3>42. (a \o b) \o c = a \o (b \o c)
      <4> HIDE DEF a, b, c
      <4> QED
        BY <3>40, <3>41, Zenon
    <3>5. Unpacked(s) = Turns(Head(t)) \o (Unpacked(Tail(t)) \o Turns(e))
      BY <3>4, <3>42
    <3> QED
      BY <3>2, <3>3, <3>5
  <2> QED
    BY <2>3, <2>4
<1>3. ASSUME NEW k \in 1 .. Len(s0), k - 1 \in S PROVE k \in S
  <2>1. \A s \in Seq(JogSet) : Len(s) = k /\ s # <<>> => Good(s)
    <3> HIDE DEF S, Good
    <3> QED
      BY <1>2, <1>3
  <2> HIDE DEF Good
  <2> QED
    BY <2>1
<1> HIDE DEF Good
<1>4. Len(s0) \in Nat /\ 0 \in S /\ Len(s0) \in 0 .. Len(s0)
  BY <1>1
<1>5. \A k \in 0 .. Len(s0) : k \in S
  <2> HIDE DEF S
  <2> QED
    BY <1>3, <1>4, UpTo
<1> QED
  BY <1>4, <1>5 DEF Good

LEMMA OnesJoined ==
    ASSUME NEW op, NEW a \in Int, NEW b \in Int, a # 0, b # 0, SignOf(a) = SignOf(b)
    PROVE  Ones(op, a + b) = Ones(op, a) \o Ones(op, b)
<1>1. SignOf(a + b) = SignOf(a) /\ Size(a + b) = Size(a) + Size(b)
      /\ Size(a) \in Nat /\ Size(b) \in Nat
  BY DEF SignOf, Size
<1> DEFINE u == [op |-> op, sign |-> SignOf(a)]
           m == Size(a)
           n == Size(b)
<1>2. Ones(op, a + b) = [k \in 1 .. m + n |-> u] /\ Ones(op, a) = [k \in 1 .. m |-> u]
      /\ Ones(op, b) = [k \in 1 .. n |-> u]
  BY <1>1 DEF Ones
<1>3. m \in Nat /\ n \in Nat
  BY <1>1
<1> HIDE DEF u, m, n
<1>4. [k \in 1 .. m + n |-> u] = [k \in 1 .. m |-> u] \o [k \in 1 .. n |-> u]
  <2> DEFINE p == [k \in 1 .. m |-> u]
             q == [k \in 1 .. n |-> u]
             r == [k \in 1 .. m + n |-> u]
  <2>1. p \in Seq({u}) /\ q \in Seq({u}) /\ r \in Seq({u})
        /\ Len(p) = m /\ Len(q) = n /\ Len(r) = m + n
    BY <1>3
  <2>2. /\ \A k \in 1 .. m : p[k] = u
        /\ \A k \in 1 .. n : q[k] = u
        /\ \A k \in 1 .. m + n : r[k] = u
    BY <1>3
  <2> HIDE DEF p, q, r
  <2>3. p \o q \in Seq({u}) /\ Len(p \o q) = m + n
    BY <1>3, <2>1, ConcatProperties
  <2>4. \A k \in 1 .. m + n : (p \o q)[k] = u
    BY <1>3, <2>1, <2>2, <2>3
  <2>5. p \o q = r
    BY <2>1, <2>2, <2>3, <2>4, SeqEqual
  <2> QED
    BY <2>5 DEF p, q, r
<1> QED
  BY <1>2, <1>4

Joint(s, d) == [s EXCEPT ![Len(s)].d = @ + d]
LEMMA JointIs ==
    ASSUME NEW s \in Seq(JogSet), s # <<>>, NEW d \in Int
    PROVE  \E t \in Seq(JogSet), e \in JogSet :
              /\ s = Append(t, e) /\ e = Last(s)
              /\ Joint(s, d) = Append(t, [e EXCEPT !.d = e.d + d])
              /\ [e EXCEPT !.d = e.d + d] \in JogSet
<1>1. PICK t \in Seq(JogSet), e \in JogSet :
          s = Append(t, e) /\ Len(s) = Len(t) + 1 /\ e = Last(s) /\ e = s[Len(s)]
  BY FrontAndLast
<1> DEFINE g == [e EXCEPT !.d = e.d + d]
           n == Len(t)
<1>2. g \in JogSet
  <2> DEFINE x == e.d + d
  <2>1. x \in Int
    BY DEF JogSet
  <2> HIDE DEF x
  <2>2. [e EXCEPT !.d = x] \in JogSet
    BY <2>1 DEF JogSet
  <2> QED
    BY <2>2 DEF x
<1>3. n \in Nat /\ Len(s) = n + 1 /\ s = [k \in 1 .. n + 1 |-> IF k = n + 1 THEN e ELSE t[k]]
  BY <1>1
<1>4. Joint(s, d) = [s EXCEPT ![n + 1] = g]
  BY <1>1, <1>3 DEF Joint
<1>5. Append(t, g) = [k \in 1 .. n + 1 |-> IF k = n + 1 THEN g ELSE t[k]]
  BY <1>2
<1> HIDE DEF g, n
<1>6. [s EXCEPT ![n + 1] = g] = [k \in 1 .. n + 1 |-> IF k = n + 1 THEN g ELSE t[k]]
  BY <1>3
<1>7. Joint(s, d) = Append(t, g)
  BY <1>4, <1>5, <1>6
<1> QED
  BY <1>1, <1>2, <1>7 DEF g

LEMMA UnpackedJoint ==
    ASSUME NEW s \in Seq(JogSet), s # <<>>, NEW d \in Int, d # 0, Last(s).d # 0,
           SignOf(Last(s).d) = SignOf(d)
    PROVE  Unpacked(Joint(s, d)) = Unpacked(s) \o Turns([Last(s) EXCEPT !.d = d])
<1>1. PICK t \in Seq(JogSet), e \in JogSet :
          /\ s = Append(t, e) /\ e = Last(s)
          /\ Joint(s, d) = Append(t, [e EXCEPT !.d = e.d + d])
          /\ [e EXCEPT !.d = e.d + d] \in JogSet
  BY JointIs
<1> DEFINE g == [e EXCEPT !.d = e.d + d]
           f == [e EXCEPT !.d = d]
<1>2. g \in JogSet /\ f \in JogSet /\ e.d \in Int /\ e.d # 0 /\ SignOf(e.d) = SignOf(d)
      /\ g.op = e.op /\ g.by = e.by /\ g.d = e.d + d /\ f.op = e.op /\ f.by = e.by /\ f.d = d
  BY <1>1 DEF JogSet
<1> HIDE DEF g, f
<1>3. Turns(g) = Turns(e) \o Turns(f)
  <2>1. CASE e.by = Hand
    <3>1. Ones(e.op, e.d + d) = Ones(e.op, e.d) \o Ones(e.op, d)
      BY <1>2, OnesJoined
    <3>2. Turns(g) = Ones(e.op, e.d + d) /\ Turns(e) = Ones(e.op, e.d) /\ Turns(f) = Ones(e.op, d)
      BY <1>2, <2>1 DEF Turns
    <3> QED
      BY <3>1, <3>2
  <2>2. CASE e.by # Hand
    BY <1>2, <2>2 DEF Turns
  <2> QED
    BY <2>1, <2>2
<1>4. Unpacked(s) = Unpacked(t) \o Turns(e)
  BY <1>1, UnpackedAppend
<1>5. Unpacked(Append(t, g)) = Unpacked(t) \o Turns(g)
  BY <1>2, UnpackedAppend
<1>6. Unpacked(t) \in Seq(UnitSet) /\ Turns(e) \in Seq(UnitSet) /\ Turns(f) \in Seq(UnitSet)
  BY <1>2, UnpackedOK, TurnsOK
<1>7. (Unpacked(t) \o Turns(e)) \o Turns(f) = Unpacked(t) \o (Turns(e) \o Turns(f))
  BY <1>6, Associative
<1> QED
  BY <1>1, <1>3, <1>4, <1>5, <1>7 DEF g, f

\* What is left of a queue when the work of one origin is forgotten.
Kept(s, j, by) == IF j.by = by THEN s ELSE Append(s, j)
LEMMA WithoutBy ==
    ASSUME NEW s \in Seq(JogSet), NEW by
    PROVE  \E f \in [0 .. Len(s) -> Seq(JogSet)] :
              /\ f[0] = <<>> /\ \A k \in 1 .. Len(s) : f[k] = Kept(f[k - 1], s[k], by)
              /\ Without(s, by) = f[Len(s)]
<1> DEFINE n == Len(s)
           X == Seq(JogSet)
           g == [k \in 1 .. n |-> [x \in X |-> Kept(x, s[k], by)]]
           Rec(h) == [k \in 0 .. n |-> IF k = 0 THEN <<>> ELSE Kept(h[k - 1], s[k], by)]
           c == CHOOSE h : h = Rec(h)
<1>1. n \in Nat /\ \A k \in 1 .. n : s[k] \in JogSet
  OBVIOUS
<1>2. \A x \in X, k \in 1 .. n : Kept(x, s[k], by) \in X
  BY <1>1 DEF Kept
<1>3. g \in [1 .. n -> [X -> X]] /\ <<>> \in X /\ n \in Nat
  BY <1>1, <1>2
<1>4. \A k \in 1 .. n : \A x \in X : g[k][x] = Kept(x, s[k], by)
  OBVIOUS
<1> HIDE DEF n, X, g
<1>5. PICK h \in [0 .. n -> X] : h[0] = <<>> /\ \A k \in 1 .. n : h[k] = g[k][h[k - 1]]
  <2>1. \E f \in [0 .. n -> X] : Follows(f, n, <<>>, g)
    BY <1>3, Stepwise
  <2> QED
    BY <2>1 DEF Follows
<1>51. \A k \in 1 .. n : k - 1 \in 0 .. n
  BY <1>3
<1>6. \A k \in 1 .. n : h[k] = Kept(h[k - 1], s[k], by)
  <2> SUFFICES ASSUME NEW k \in 1 .. n PROVE h[k] = Kept(h[k - 1], s[k], by)
    OBVIOUS
  <2>1. h[k - 1] \in X
    BY <1>51
  <2> QED
    BY <1>4, <1>5, <2>1, Zenon
<1>61. \A k \in 0 .. n : h[k] = IF k = 0 THEN <<>> ELSE Kept(h[k - 1], s[k], by)
  <2>1. \A k \in 0 .. n : k = 0 \/ k \in 1 .. n
    BY <1>3
  <2> QED
    BY <1>5, <1>6, <2>1
<1>62. h = Rec(h)
  BY <1>61
<1>7. c = Rec(c)
  <2> HIDE DEF Rec
  <2> QED
    BY <1>62
<1> HIDE DEF c
<1>8. c = [k \in 0 .. n |-> IF k = 0 THEN <<>> ELSE Kept(c[k - 1], s[k], by)]
  BY <1>7
<1>81. DOMAIN c = 0 .. n /\ c[0] = <<>> /\ \A k \in 1 .. n : c[k] = Kept(c[k - 1], s[k], by)
  BY <1>3, <1>8
<1> DEFINE S == {k \in 0 .. n : c[k] \in X}
<1>9. 0 \in S
  BY <1>3, <1>81
<1>91. \A k \in 1 .. n : k - 1 \in S => k \in S
  BY <1>2, <1>3, <1>81
<1>10. \A k \in 0 .. n : k \in S
  <2> HIDE DEF S
  <2> QED
    BY <1>3, <1>9, <1>91, UpTo
<1>11. c \in [0 .. n -> X]
  BY <1>8, <1>10
<1>12. Without(s, by) = c[n]
  BY DEF Without, Kept, c, n
<1> QED
  BY <1>81, <1>11, <1>12 DEF n, X

LEMMA WithoutAppend ==
    ASSUME NEW s \in Seq(JogSet), NEW j \in JogSet, NEW by
    PROVE  Without(Append(s, j), by) = Kept(Without(s, by), j, by)
<1> DEFINE r == Append(s, j)
           n == Len(s)
<1>1. r \in Seq(JogSet) /\ Len(r) = n + 1 /\ n \in Nat /\ r[n + 1] = j
      /\ \A k \in 1 .. n : r[k] = s[k]
  OBVIOUS
<1> HIDE DEF r
<1>2. PICK f \in [0 .. n -> Seq(JogSet)] :
          /\ f[0] = <<>> /\ \A k \in 1 .. n : f[k] = Kept(f[k - 1], s[k], by)
          /\ Without(s, by) = f[n]
  BY WithoutBy
<1>3. PICK h \in [0 .. n + 1 -> Seq(JogSet)] :
          /\ h[0] = <<>> /\ \A k \in 1 .. n + 1 : h[k] = Kept(h[k - 1], r[k], by)
          /\ Without(r, by) = h[n + 1]
  BY <1>1, WithoutBy
<1> HIDE DEF n
<1> DEFINE S == {k \in 0 .. n : h[k] = f[k]}
<1>4. 0 \in S
  BY <1>1, <1>2, <1>3
<1>5. ASSUME NEW k \in 1 .. n, k - 1 \in S PROVE k \in S
  <2>1. k \in 1 .. n + 1 /\ k \in 0 .. n /\ r[k] = s[k] /\ h[k - 1] = f[k - 1]
    BY <1>1, <1>5
  <2>2. h[k] = Kept(h[k - 1], r[k], by) /\ f[k] = Kept(f[k - 1], s[k], by)
    BY <1>2, <1>3, <2>1
  <2> QED
    BY <2>1, <2>2
<1>6. \A k \in 0 .. n : k \in S
  <2> HIDE DEF S
  <2> QED
    BY <1>1, <1>4, <1>5, UpTo
<1>7. n \in 0 .. n /\ n + 1 \in 1 .. n + 1
  BY <1>1
<1>71. h[n] = f[n]
  BY <1>6, <1>7
<1>72. \E m \in 1 .. n + 1 : m = n + 1 /\ m - 1 = n
  BY <1>1, <1>7
<1>8. PICK m \in 1 .. n + 1 : m = n + 1 /\ m - 1 = n
  BY <1>72
<1>81. h[m] = Kept(h[m - 1], r[m], by)
  BY <1>3
<1>9. Without(r, by) = Kept(Without(s, by), j, by)
  BY <1>1, <1>2, <1>3, <1>71, <1>8, <1>81
<1> QED
  BY <1>9 DEF r

LEMMA WithoutNone ==
    ASSUME NEW s \in Seq(JogSet), NEW by
    PROVE  Without(s, by) \in Seq(JogSet) /\ (s = <<>> => Without(s, by) = <<>>)
<1>1. PICK f \in [0 .. Len(s) -> Seq(JogSet)] : f[0] = <<>> /\ Without(s, by) = f[Len(s)]
  BY WithoutBy
<1> QED
  BY <1>1

Sifts(s, r, by) ==
    /\ Len(r) <= Len(s)
    /\ \A k \in DOMAIN r : r[k].by # by /\ \E m \in DOMAIN s : r[k] = s[m]
    /\ by # Hand => Unpacked(r) = Unpacked(s)
LEMMA WithoutOK ==
    ASSUME NEW s0 \in Seq(JogSet), NEW by
    PROVE  Without(s0, by) \in Seq(JogSet) /\ Sifts(s0, Without(s0, by), by)
<1> DEFINE Good(s) == Sifts(s, Without(s, by), by)
           S == {k \in 0 .. Len(s0) : \A s \in Seq(JogSet) : Len(s) = k => Good(s)}
<1>1. ASSUME NEW s \in Seq(JogSet), Len(s) = 0 PROVE Good(s)
  <2>1. s = <<>>
    BY <1>1
  <2>2. Without(s, by) = <<>>
    BY <2>1, WithoutNone
  <2> QED
    BY <2>1, <2>2 DEF Sifts
<1>2. ASSUME NEW k \in 1 .. Len(s0), k - 1 \in S, NEW s \in Seq(JogSet), Len(s) = k
      PROVE  Good(s)
  <2>1. PICK t \in Seq(JogSet), e \in JogSet : s = Append(t, e) /\ Len(s) = Len(t) + 1
    <3>1. s # <<>>
      BY <1>2
    <3>2. \E t \in Seq(JogSet) : \E e \in JogSet :
              s = Append(t, e) /\ Len(s) = Len(t) + 1 /\ e = Last(s) /\ e = s[Len(s)]
      BY <3>1, FrontAndLast
    <3> QED
      BY <3>2
  <2> DEFINE r == Without(t, by)
             q == Without(s, by)
  <2>2. Good(t)
    BY <1>2, <2>1
  <2>3. q = Kept(r, e, by) /\ r \in Seq(JogSet) /\ Unpacked(s) = Unpacked(t) \o Turns(e)
    BY <2>1, WithoutAppend, WithoutNone, UnpackedAppend
  <2>4. /\ Len(r) <= Len(t)
        /\ \A i \in DOMAIN r : r[i].by # by /\ \E m \in DOMAIN t : r[i] = t[m]
        /\ by # Hand => Unpacked(r) = Unpacked(t)
    BY <2>2 DEF Sifts
  <2>5. /\ s[Len(s)] = e /\ Len(s) \in DOMAIN s
        /\ \A m \in DOMAIN t : m \in DOMAIN s /\ s[m] = t[m]
    BY <2>1
  <2> HIDE DEF r, q, Good
  <2>6. CASE e.by = by
    <3>1. q = r
      BY <2>3, <2>6 DEF Kept
    <3>2. by # Hand => Unpacked(s) = Unpacked(t)
      <4>1. by # Hand => Turns(e) = <<>>
        BY <2>6 DEF Turns
      <4>2. Unpacked(t) \in Seq(UnitSet)
        BY UnpackedOK
      <4> QED
        BY <2>3, <4>1, <4>2
    <3>3. Sifts(s, q, by)
      BY <2>1, <2>3, <2>4, <2>5, <3>1, <3>2 DEF Sifts
    <3> QED
      BY <3>3 DEF Good, q
  <2>7. CASE e.by # by
    <3>1. q = Append(r, e) /\ Len(q) = Len(r) + 1
      BY <2>3, <2>7 DEF Kept
    <3>2. Unpacked(q) = Unpacked(r) \o Turns(e)
      BY <2>3, <3>1, UnpackedAppend
    <3>3. \A i \in DOMAIN q : q[i].by # by /\ \E m \in DOMAIN s : q[i] = s[m]
      <4>1. \A i \in DOMAIN q : (i \in DOMAIN r /\ q[i] = r[i]) \/ q[i] = e
        BY <2>3, <3>1
      <4> QED
        BY <2>4, <2>5, <2>7, <4>1
    <3>4. Len(q) <= Len(s)
      BY <2>1, <2>3, <2>4, <3>1
    <3>41. by # Hand => Unpacked(q) = Unpacked(s)
      BY <2>3, <2>4, <3>2
    <3>5. Sifts(s, q, by)
      BY <3>3, <3>4, <3>41 DEF Sifts
    <3> QED
      BY <3>5 DEF Good, q
  <2> QED
    BY <2>6, <2>7
<1> HIDE DEF Good
<1>3. ASSUME NEW k \in 1 .. Len(s0), k - 1 \in S PROVE k \in S
  <2>1. \A s \in Seq(JogSet) : Len(s) = k => Good(s)
    <3> HIDE DEF S
    <3> QED
      BY <1>2, <1>3
  <2> QED
    BY <2>1
<1>4. Len(s0) \in Nat /\ 0 \in S /\ Len(s0) \in 0 .. Len(s0)
  BY <1>1
<1>5. \A k \in 0 .. Len(s0) : k \in S
  <2> HIDE DEF S
  <2> QED
    BY <1>3, <1>4, UpTo
<1>6. Good(s0)
  BY <1>4, <1>5
<1> QED
  BY <1>6, WithoutNone DEF Good

-----------------------------------------------------------------------------
\* The lane and its history.
LEMMA NoJogs == JogsFit(<<>>) /\ Unpacked(<<>>) = <<>> /\ NoLane \in LaneSet
<1>1. <<>> \in Seq(JogSet) /\ <<>> \in Seq(GlobalSet)
  OBVIOUS
<1>2. Unpacked(<<>>) = <<>>
  BY <1>1, UnpackedOK
<1>3. JogsFit(<<>>)
  BY <1>1, LaneSizes DEF JogsFit
<1>4. NoLane \in LaneSet
  BY <1>1 DEF NoLane, LaneSet
<1> QED
  BY <1>2, <1>3, <1>4

LEMMA JogDiscardedOK ==
    ASSUME LaneOK(lane, told)
    PROVE  LaneOK(JogDiscarded(lane), Forgiven) /\ JogDiscarded(lane).epoch = lane.epoch
<1>1. lane \in LaneSet /\ lane.error # "closed" /\ told \in ToldSet /\ told.play <= told.press
  BY DEF LaneOK, LaneValueOK, Fresh
<1> DEFINE i == JogDiscarded(lane)
           t == Forgiven
<1>2. /\ i.epoch = lane.epoch /\ i.error = lane.error /\ i.jogs = <<>> /\ i.globals = <<>>
      /\ i.forward = FALSE /\ i.rewind = FALSE /\ i.home = FALSE /\ i.wheel = 0 /\ i.push = FALSE
  BY DEF JogDiscarded, NoLane
<1>3. i \in LaneSet
  <2>1. lane.epoch \in Nat /\ lane.error \in {"none", "capacity", "identity", "expired"}
    BY <1>1 DEF LaneSet
  <2>2. NoLane \in LaneSet
    BY NoJogs
  <2> QED
    BY <2>1, <2>2 DEF JogDiscarded, LaneSet
<1>4. t \in ToldSet /\ t.owed = <<>> /\ t.play <= t.press
  <2>1. <<>> \in Seq(UnitSet)
    OBVIOUS
  <2> QED
    BY <1>1, <2>1 DEF Forgiven, ToldSet
<1> HIDE DEF i, t
<1>5. LaneValueOK(i)
  BY <1>1, <1>2, <1>3, NoJogs, LaneSizes DEF LaneValueOK, Size
<1>6. Fresh(i, t)
  BY <1>2, <1>4 DEF Fresh
<1>7. Owes(i, t)
  BY <1>2, <1>4, NoJogs DEF Owes
<1> QED
  BY <1>2, <1>4, <1>5, <1>6, <1>7 DEF LaneOK, i, t

\* Setting what the lane's obligations do not speak of.
Kin(i, j) ==
    /\ j \in LaneSet /\ j.epoch = i.epoch /\ j.jogs = i.jogs /\ Len(j.globals) <= Ring
    /\ j.wheel = i.wheel /\ j.push = i.push /\ j.error = i.error
    /\ j.forward => i.forward
    /\ j.rewind => i.rewind
    /\ j.home => i.home
LEMMA KinOK ==
    ASSUME NEW i, NEW t, NEW j, LaneOK(i, t), Kin(i, j)
    PROVE  LaneOK(j, t)
BY DEF LaneOK, Kin, LaneValueOK, Fresh, Owes

LEMMA ResyncedOK ==
    ASSUME LaneOK(lane, told), NEW v \in CopySet
    PROVE  LaneOK(Resynced(lane, v), Recalled(v)) /\ Resynced(lane, v).epoch = v.epoch
<1>1. CASE lane.epoch = v.epoch
  BY <1>1 DEF Resynced, Recalled
<1>2. CASE lane.epoch # v.epoch
  <2> DEFINE d == JogDiscarded(lane)
             t == Forgiven
             r == [d EXCEPT !.shift = lane.shift, !.epoch = v.epoch]
  <2>1. LaneOK(d, t) /\ lane \in LaneSet
    BY JogDiscardedOK DEF LaneOK, LaneValueOK
  <2>2. Resynced(lane, v) = r /\ Recalled(v) = t
    BY <1>2 DEF Resynced, Recalled
  <2>3. /\ d.jogs = <<>> /\ d.forward = FALSE /\ d.rewind = FALSE /\ d.home = FALSE
        /\ d.wheel = 0 /\ d.push = FALSE
    BY DEF JogDiscarded, NoLane
  <2>4. d \in LaneSet
    BY <2>1 DEF LaneOK, LaneValueOK
  <2>5. /\ r \in LaneSet /\ r.epoch = v.epoch /\ r.jogs = d.jogs /\ r.globals = d.globals
        /\ r.forward = d.forward /\ r.rewind = d.rewind /\ r.home = d.home
        /\ r.wheel = d.wheel /\ r.push = d.push /\ r.error = d.error
    BY <2>1, <2>4 DEF LaneSet, CopySet
  <2> HIDE DEF d, r, t
  <2>6. LaneOK(r, t)
    BY <2>1, <2>3, <2>5 DEF LaneOK, LaneValueOK, Fresh, Owes
  <2> QED
    BY <2>2, <2>5, <2>6
<1> QED
  BY <1>1, <1>2

LEMMA ResyncedTwice ==
    ASSUME NEW i, NEW v, i.epoch = v.epoch
    PROVE  Resynced(i, v) = i
BY DEF Resynced

\* A packet, alone or joined to the last, is within the lane's limits.
Origin(by, t) ==
    /\ by = Forward => "forward" \in t.keys
    /\ by = Rewind => "rewind" \in t.keys
    /\ by = Home => t.home > t.play
\* i with more work in it.
Adds(i, j, t, turns) ==
    /\ LaneValueOK(j) /\ Fresh(j, t) /\ j.epoch = i.epoch
    /\ j.home = i.home /\ j.forward = i.forward /\ j.rewind = i.rewind
    /\ j.wheel = i.wheel /\ j.push = i.push
    /\ j.error = "none" => i.error = "none" /\ Unpacked(j.jogs) = Unpacked(i.jogs) \o turns
LEMMA AddJogOK ==
    ASSUME NEW i, NEW t, LaneValueOK(i), Fresh(i, t), NEW v, i.epoch = v.epoch, NEW op \in Jog,
           NEW by \in 0 .. 3, NEW d \in Int, d # 0, Size(d) <= Limit, Origin(by, t)
    PROVE  Adds(i, AddJog(i, v, op, by, d), t,
                Turns([op |-> op, by |-> by, d |-> d, epoch |-> v.epoch]))
<1> DEFINE n == [op |-> op, by |-> by, d |-> d, epoch |-> v.epoch]
           a == AddJog(i, v, op, by, d)
<1>1. Resynced(i, v) = i
  BY ResyncedTwice
<1>2. i \in LaneSet /\ JogsFit(i.jogs) /\ i.jogs \in Seq(JogSet) /\ Len(i.jogs) <= Ring
      /\ i.epoch \in Nat
  BY DEF LaneValueOK, JogsFit, LaneSet
<1>3. n \in JogSet /\ n.d = d /\ n.by = by /\ n.epoch = i.epoch
  BY <1>2 DEF JogSet
<1>4. CASE i.error # "none"
  <2>1. a = i
    BY <1>1, <1>4 DEF AddJog
  <2> QED
    BY <1>4, <2>1 DEF Adds
<1>5. CASE i.error = "none" /\ i.jogs # <<>> /\ Joins(Last(i.jogs), op, by, d)
  <2> DEFINE q == Joint(i.jogs, d)
             e == Last(i.jogs)
  <2>1. a = [i EXCEPT !.jogs = q]
    <3>1. a = [i EXCEPT !.jogs[Len(i.jogs)].d = @ + d]
      BY <1>1, <1>5 DEF AddJog
    <3> QED
      BY <1>2, <3>1 DEF Joint, LaneSet
  <2>2. PICK s \in Seq(JogSet), f \in JogSet :
            /\ i.jogs = Append(s, f) /\ f = e
            /\ q = Append(s, [f EXCEPT !.d = f.d + d]) /\ [f EXCEPT !.d = f.d + d] \in JogSet
    BY <1>2, <1>5, JointIs
  <2> DEFINE g == [f EXCEPT !.d = f.d + d]
  <2>3. g \in JogSet /\ g.op = f.op /\ g.by = f.by /\ g.epoch = f.epoch /\ g.d = f.d + d
        /\ f.d \in Int
    BY <2>2 DEF JogSet
  <2> HIDE DEF g, q, e
  <2>4. /\ Len(i.jogs) = Len(s) + 1 /\ Len(q) = Len(s) + 1 /\ q \in Seq(JogSet)
        /\ i.jogs[Len(s) + 1] = f /\ q[Len(s) + 1] = g /\ Len(s) \in Nat
        /\ \A k \in 1 .. Len(s) : q[k] = s[k] /\ i.jogs[k] = s[k]
    BY <2>2, <2>3 DEF g
  <2>5. f.d # 0 /\ f.op = op /\ f.by = by /\ SignOf(f.d) = SignOf(d) /\ Size(f.d + d) <= Limit
        /\ f.epoch = i.epoch
    BY <1>2, <1>5, <2>2, <2>4 DEF Joins, JogsFit, Fresh, e
  <2>6. g.d # 0 /\ Size(g.d) <= Limit
    BY <2>3, <2>5 DEF SignOf
  <2>7. JogsFit(q)
    <3>1. \A k \in DOMAIN q : k = Len(s) + 1 \/ k \in 1 .. Len(s)
      BY <2>4
    <3> QED
      BY <1>2, <2>4, <2>6, <3>1 DEF JogsFit
  <2>8. /\ a \in LaneSet /\ a.epoch = i.epoch /\ a.jogs = q /\ a.globals = i.globals
        /\ a.forward = i.forward /\ a.rewind = i.rewind /\ a.home = i.home
        /\ a.wheel = i.wheel /\ a.push = i.push /\ a.error = i.error
    BY <1>2, <2>1, <2>4 DEF LaneSet
  <2>9. \A k \in DOMAIN q : k \in DOMAIN i.jogs /\ q[k].by = i.jogs[k].by
                            /\ q[k].epoch = i.jogs[k].epoch
    <3>1. \A k \in DOMAIN q : k = Len(s) + 1 \/ k \in 1 .. Len(s)
      BY <2>4
    <3> QED
      BY <2>3, <2>4, <3>1
  <2>10. Unpacked(q) = Unpacked(i.jogs) \o Turns(n)
    <3>1. [f EXCEPT !.d = d] \in JogSet /\ [f EXCEPT !.d = d].op = op
          /\ [f EXCEPT !.d = d].by = by /\ [f EXCEPT !.d = d].d = d
      BY <2>5 DEF JogSet
    <3>2. Turns([f EXCEPT !.d = d]) = Turns(n)
      BY <3>1 DEF Turns
    <3>3. Unpacked(q) = Unpacked(i.jogs) \o Turns([Last(i.jogs) EXCEPT !.d = d])
      <4>1. Last(i.jogs).d # 0 /\ SignOf(Last(i.jogs).d) = SignOf(d)
        BY <2>2, <2>5 DEF e
      <4> QED
        BY <1>2, <1>5, <4>1, UnpackedJoint DEF q
    <3> QED
      BY <2>2, <3>2, <3>3 DEF e
  <2> HIDE DEF a
  <2>11. LaneValueOK(a)
    BY <2>7, <2>8 DEF LaneValueOK
  <2>12. Fresh(a, t)
    BY <2>8, <2>9 DEF Fresh
  <2> QED
    BY <1>5, <2>8, <2>10, <2>11, <2>12 DEF Adds, a
<1>6. CASE i.error = "none" /\ ~(i.jogs # <<>> /\ Joins(Last(i.jogs), op, by, d)) /\ ~Room(i.jogs)
  <2>1. a = [i EXCEPT !.error = "capacity"]
    BY <1>1, <1>6 DEF AddJog
  <2>2. /\ a \in LaneSet /\ a.epoch = i.epoch /\ a.jogs = i.jogs /\ a.globals = i.globals
        /\ a.forward = i.forward /\ a.rewind = i.rewind /\ a.home = i.home
        /\ a.wheel = i.wheel /\ a.push = i.push /\ a.error = "capacity"
    BY <1>2, <2>1 DEF LaneSet
  <2> HIDE DEF a
  <2> QED
    BY <2>2 DEF Adds, a, LaneValueOK, Fresh
<1>7. CASE i.error = "none" /\ ~(i.jogs # <<>> /\ Joins(Last(i.jogs), op, by, d)) /\ Room(i.jogs)
  <2> DEFINE q == Append(i.jogs, n)
  <2>1. a = [i EXCEPT !.jogs = q]
    BY <1>1, <1>7 DEF AddJog
  <2>2. /\ q \in Seq(JogSet) /\ Len(q) = Len(i.jogs) + 1 /\ Len(q) <= Ring
        /\ \A k \in DOMAIN q : (k \in DOMAIN i.jogs /\ q[k] = i.jogs[k]) \/ q[k] = n
    BY <1>2, <1>3, <1>7, LaneSizes DEF Room
  <2>3. /\ a \in LaneSet /\ a.epoch = i.epoch /\ a.jogs = q /\ a.globals = i.globals
        /\ a.forward = i.forward /\ a.rewind = i.rewind /\ a.home = i.home
        /\ a.wheel = i.wheel /\ a.push = i.push /\ a.error = i.error
    BY <1>2, <2>1, <2>2 DEF LaneSet
  <2>4. Unpacked(q) = Unpacked(i.jogs) \o Turns(n)
    BY <1>2, <1>3, UnpackedAppend
  <2> HIDE DEF a, q, n
  <2>5. JogsFit(q)
    BY <1>2, <1>3, <2>2 DEF JogsFit
  <2>6. LaneValueOK(a)
    BY <2>3, <2>5 DEF LaneValueOK
  <2>7. Fresh(a, t)
    BY <1>3, <2>2, <2>3 DEF Fresh, Origin
  <2> QED
    BY <1>7, <2>3, <2>4, <2>6, <2>7 DEF Adds, a, n
<1> QED
  BY <1>4, <1>5, <1>6, <1>7

LEMMA AddGlobalOK ==
    ASSUME NEW i, NEW t, LaneOK(i, t), NEW v, i.epoch = v.epoch, NEW op \in Global,
           NEW press \in Nat
    PROVE  LaneOK(AddGlobal(i, v, op, press), t) /\ AddGlobal(i, v, op, press).epoch = i.epoch
<1> DEFINE n == [op |-> op, epoch |-> v.epoch, press |-> press]
           a == AddGlobal(i, v, op, press)
<1>1. Resynced(i, v) = i /\ i \in LaneSet /\ i.globals \in Seq(GlobalSet) /\ i.epoch \in Nat
      /\ Len(i.globals) <= Ring
  BY ResyncedTwice DEF LaneOK, LaneValueOK, LaneSet
<1>2. n \in GlobalSet
  BY <1>1 DEF GlobalSet
<1>3. CASE i.error # "none"
  BY <1>1, <1>3 DEF AddGlobal
<1>4. CASE i.error = "none" /\ ~Room(i.globals)
  <2>1. a = [i EXCEPT !.error = "capacity"]
    BY <1>1, <1>4 DEF AddGlobal
  <2>2. /\ a \in LaneSet /\ a.epoch = i.epoch /\ a.jogs = i.jogs /\ a.globals = i.globals
        /\ a.forward = i.forward /\ a.rewind = i.rewind /\ a.home = i.home
        /\ a.wheel = i.wheel /\ a.push = i.push /\ a.error = "capacity"
    BY <1>1, <2>1 DEF LaneSet
  <2> HIDE DEF a
  <2>3. LaneOK(a, t)
    BY <2>2 DEF LaneOK, LaneValueOK, Fresh, Owes
  <2> QED
    BY <2>2, <2>3 DEF a
<1>5. CASE i.error = "none" /\ Room(i.globals)
  <2> DEFINE q == Append(i.globals, n)
  <2>1. a = [i EXCEPT !.globals = q]
    BY <1>1, <1>5 DEF AddGlobal
  <2>2. q \in Seq(GlobalSet) /\ Len(q) <= Ring
    BY <1>1, <1>2, <1>5, LaneSizes DEF Room
  <2> HIDE DEF q
  <2>3. Kin(i, a)
    BY <1>1, <2>1, <2>2 DEF Kin, LaneSet
  <2> HIDE DEF a
  <2> QED
    BY <2>3, KinOK DEF Kin, a
<1> QED
  BY <1>3, <1>4, <1>5

\* The wheel's bank counts for the project in which its turns are heard.
LEMMA AddWheelOK ==
    ASSUME NEW i, NEW t, LaneOK(i, t), NEW v \in CopySet, i.epoch = v.epoch,
           NEW unit \in {"data", "note"}, NEW d \in Int,
           NEW w \in {t.wheel, v.epoch}, i.wheel = 0 => w = v.epoch
    PROVE  LaneOK(AddWheel(i, v, unit, d), [t EXCEPT !.wheel = w])
           /\ AddWheel(i, v, unit, d).epoch = i.epoch
<1> DEFINE a == AddWheel(i, v, unit, d)
           b == IF i.unit = unit THEN i.wheel ELSE 0
           u == [t EXCEPT !.wheel = w]
<1>1. Resynced(i, v) = i /\ i \in LaneSet /\ i.wheel \in Int /\ b \in Int /\ t \in ToldSet
      /\ w \in Nat
  BY ResyncedTwice DEF LaneOK, LaneValueOK, LaneSet, ToldSet, CopySet
<1>2. /\ u \in ToldSet /\ u.wheel = w /\ u.push = t.push /\ u.keys = t.keys /\ u.home = t.home
      /\ u.play = t.play /\ u.press = t.press /\ u.owed = t.owed
  BY <1>1 DEF ToldSet
<1>3. i.wheel # 0 => w = i.epoch
  BY DEF LaneOK, Fresh
<1> DEFINE c == Clip(b + d, Banked)
<1>4. c \in Int /\ Size(c) <= Banked
  <2>1. b + d \in Int
    BY <1>1
  <2> QED
    BY <2>1, LaneSizes, Clipped
<1>5. a = IF i.error # "none" THEN i ELSE [i EXCEPT !.unit = unit, !.wheel = c]
  BY <1>1 DEF AddWheel
<1> HIDE DEF u, c, a
<1>6. CASE i.error # "none"
  <2>1. a = i /\ Fresh(i, u)
    BY <1>2, <1>3, <1>5, <1>6 DEF LaneOK, Fresh
  <2> QED
    BY <1>2, <1>6, <2>1 DEF LaneOK, Owes, a, u
<1>7. CASE i.error = "none"
  <2>1. /\ a \in LaneSet /\ a.epoch = i.epoch /\ a.jogs = i.jogs /\ a.globals = i.globals
        /\ a.forward = i.forward /\ a.rewind = i.rewind /\ a.home = i.home
        /\ a.wheel = c /\ a.push = i.push /\ a.error = i.error
    BY <1>1, <1>4, <1>5, <1>7 DEF LaneSet
  <2>2. w = i.epoch
    BY <1>3
  <2>3. LaneOK(a, u)
    BY <1>2, <1>4, <2>1, <2>2 DEF LaneOK, LaneValueOK, Fresh, Owes
  <2> QED
    BY <2>1, <2>3 DEF a, u
<1> QED
  BY <1>6, <1>7

LEMMA AddPushOK ==
    ASSUME NEW i, NEW t, LaneOK(i, t), NEW v \in CopySet, i.epoch = v.epoch,
           NEW p \in {t.push, v.epoch}, ~i.push => p = v.epoch
    PROVE  LaneOK(AddPush(i, v), [t EXCEPT !.push = p]) /\ AddPush(i, v).epoch = i.epoch
<1> DEFINE a == AddPush(i, v)
           u == [t EXCEPT !.push = p]
<1>1. Resynced(i, v) = i /\ i \in LaneSet /\ t \in ToldSet /\ p \in Nat
  BY ResyncedTwice DEF LaneOK, LaneValueOK, LaneSet, ToldSet, CopySet
<1>2. /\ u \in ToldSet /\ u.wheel = t.wheel /\ u.push = p /\ u.keys = t.keys /\ u.home = t.home
      /\ u.play = t.play /\ u.press = t.press /\ u.owed = t.owed
  BY <1>1 DEF ToldSet
<1>3. i.push => p = i.epoch
  BY DEF LaneOK, Fresh
<1>4. a = IF i.error # "none" THEN i ELSE [i EXCEPT !.push = TRUE]
  BY <1>1 DEF AddPush
<1> HIDE DEF u, a
<1>5. CASE i.error # "none"
  <2>1. a = i /\ Fresh(i, u)
    BY <1>2, <1>3, <1>4, <1>5 DEF LaneOK, Fresh
  <2> QED
    BY <1>2, <1>5, <2>1 DEF LaneOK, Owes, a, u
<1>6. CASE i.error = "none"
  <2>1. /\ a \in LaneSet /\ a.epoch = i.epoch /\ a.jogs = i.jogs /\ a.globals = i.globals
        /\ a.forward = i.forward /\ a.rewind = i.rewind /\ a.home = i.home
        /\ a.wheel = i.wheel /\ a.push = TRUE /\ a.error = i.error
    BY <1>1, <1>4, <1>6 DEF LaneSet
  <2>2. p = i.epoch
    BY <1>1, <1>3, <2>1
  <2>3. LaneOK(a, u)
    BY <1>2, <2>1, <2>2 DEF LaneOK, LaneValueOK, Fresh, Owes
  <2> QED
    BY <2>1, <2>3 DEF a, u
<1> QED
  BY <1>5, <1>6

LEMMA ReleasedOK ==
    ASSUME NEW i, NEW t, LaneOK(i, t), NEW by \in {Forward, Rewind, Home}
    PROVE  /\ LaneOK(Released(i, by), t)
           /\ Released(i, by) \in LaneSet /\ Released(i, by).epoch = i.epoch
           /\ Released(i, by).home = i.home /\ Released(i, by).forward = i.forward
           /\ Released(i, by).rewind = i.rewind
           /\ \A k \in DOMAIN Released(i, by).jogs : Released(i, by).jogs[k].by # by
<1> DEFINE q == Without(i.jogs, by)
           a == Released(i, by)
<1>1. i \in LaneSet /\ JogsFit(i.jogs) /\ i.jogs \in Seq(JogSet)
  BY DEF LaneOK, LaneValueOK, JogsFit
<1>2. q \in Seq(JogSet) /\ Sifts(i.jogs, q, by) /\ by # Hand
  BY <1>1, WithoutOK DEF Forward, Rewind, Home, Hand
<1> HIDE DEF q
<1>3. /\ Len(q) <= Len(i.jogs) /\ Unpacked(q) = Unpacked(i.jogs)
      /\ \A k \in DOMAIN q : q[k].by # by /\ \E m \in DOMAIN i.jogs : q[k] = i.jogs[m]
  BY <1>2 DEF Sifts
<1>4. a = [i EXCEPT !.jogs = q]
  BY DEF Released, q
<1>5. /\ a \in LaneSet /\ a.epoch = i.epoch /\ a.jogs = q /\ a.globals = i.globals
      /\ a.forward = i.forward /\ a.rewind = i.rewind /\ a.home = i.home
      /\ a.wheel = i.wheel /\ a.push = i.push /\ a.error = i.error
  BY <1>1, <1>2, <1>4 DEF LaneSet
<1> HIDE DEF a
<1>6. JogsFit(q)
  <2>1. Len(q) <= Ring
    BY <1>1, <1>2, <1>3, LaneSizes DEF JogsFit
  <2> QED
    BY <1>1, <1>2, <1>3, <2>1 DEF JogsFit
<1>7. LaneOK(a, t)
  BY <1>3, <1>5, <1>6 DEF LaneOK, LaneValueOK, Fresh, Owes
<1> QED
  BY <1>3, <1>5, <1>7 DEF a

\* The history goes on: what the lane owes stands, and what waits is still asked for.
Backed(i, t) ==
    /\ i.forward => "forward" \in t.keys
    /\ i.rewind => "rewind" \in t.keys
    /\ i.home => t.home > t.play
    /\ \A k \in DOMAIN i.jogs : Origin(i.jogs[k].by, t)
LEMMA RetoldOK ==
    ASSUME NEW i, NEW t, NEW j, NEW u, LaneOK(i, t), Kin(i, j), u \in ToldSet,
           u.owed = t.owed, u.wheel = t.wheel, u.push = t.push, u.play <= u.press, Backed(j, u)
    PROVE  LaneOK(j, u)
<1>1. LaneValueOK(j) /\ Owes(j, u)
  BY DEF LaneOK, Kin, LaneValueOK, Owes
<1>2. Fresh(j, u)
  BY DEF LaneOK, Kin, Fresh, Backed, Origin
<1> QED
  BY <1>1, <1>2 DEF LaneOK

\* What a handler starts from.
Ready(v) ==
    /\ LaneOK(Resynced(lane, v), Recalled(v)) /\ Resynced(lane, v).epoch = v.epoch
    /\ Resynced(lane, v) \in LaneSet /\ Recalled(v) \in ToldSet
    /\ Recalled(v).press = told.press /\ Recalled(v).keys = told.keys
    /\ Recalled(v).home = told.home /\ Recalled(v).play = told.play
    /\ told.press \in Nat /\ told.play \in Nat /\ told.play <= told.press /\ told.keys \subseteq Held
LEMMA ReadyOK ==
    ASSUME LaneOK(lane, told), NEW v \in CopySet
    PROVE  Ready(v)
<1>1. LaneOK(Resynced(lane, v), Recalled(v)) /\ Resynced(lane, v).epoch = v.epoch
  BY ResyncedOK
<1>2. Resynced(lane, v) \in LaneSet /\ Recalled(v) \in ToldSet
  BY <1>1 DEF LaneOK, LaneValueOK
<1>3. told \in ToldSet /\ told.play <= told.press
  BY DEF LaneOK, Fresh
<1>4. /\ Recalled(v).press = told.press /\ Recalled(v).keys = told.keys
      /\ Recalled(v).home = told.home /\ Recalled(v).play = told.play
  BY <1>3 DEF Recalled, Forgiven, ToldSet
<1> QED
  BY <1>1, <1>2, <1>3, <1>4 DEF Ready, ToldSet

LEMMA EventOK ==
    ASSUME table \in TransportScenes, NEW e \in table.events
    PROVE  /\ e.kind = "turn" => e.arg \in Int /\ e.arg # 0 /\ Size(e.arg) <= Limit
           /\ e.kind = "cursor" => e.arg \in Int
           /\ told.keys \subseteq Held => Keys(e) \subseteq Held
           /\ \A k \in Held : k # e.kind => (k \in Keys(e) <=> k \in told.keys)
           /\ e.kind \in Held => (e.kind \in Keys(e) <=> Down(e))
           /\ e.kind \notin Held => Keys(e) = told.keys
<1>1. /\ e.kind = "turn" => e.arg \in -Limit .. Limit /\ e.arg # 0
      /\ e.kind = "cursor" => e.arg \in Int
  BY ScenesAssumption
<1>2. e.kind = "turn" => e.arg \in Int /\ e.arg # 0 /\ Size(e.arg) <= Limit
  BY <1>1, LaneSizes DEF Size
<1>3. told.keys \subseteq Held => Keys(e) \subseteq Held
  BY DEF Keys
<1> QED
  BY <1>1, <1>2, <1>3 DEF Keys

LEMMA KeyOK ==
    ASSUME LaneOK(lane, told), table \in TransportScenes, NEW e \in table.events,
           e.kind \in {"shift", "forward", "rewind"}, NEW v \in CopySet, Key(v, e)
    PROVE  LaneOK(lane', told')
<1> DEFINE r == Resynced(lane, v)
           t == Recalled(v)
           u == [t EXCEPT !.keys = Keys(e)]
<1>1. Ready(v)
  BY ReadyOK
<1>2. told' = u /\ lane' = IF e.kind = "shift" THEN [r EXCEPT !.shift = Down(e)]
                           ELSE KeyMoved(r, e)
  BY DEF Key
<1>3. LaneOK(r, t) /\ r \in LaneSet /\ t \in ToldSet /\ Fresh(r, t)
  BY <1>1 DEF Ready, LaneOK
<1>4. Keys(e) \subseteq Held /\ Down(e) \in BOOLEAN
  BY <1>1, EventOK DEF Ready, Down
<1>5. /\ u \in ToldSet /\ u.keys = Keys(e) /\ u.owed = t.owed /\ u.wheel = t.wheel
      /\ u.push = t.push /\ u.home = t.home /\ u.play = t.play /\ u.press = t.press
  BY <1>3, <1>4 DEF ToldSet
<1>6. /\ \A k \in {"forward", "rewind"} : k # e.kind => (k \in u.keys <=> k \in t.keys)
      /\ e.kind \in Held => (e.kind \in u.keys <=> Down(e))
  BY <1>1, <1>5, EventOK DEF Ready, Held
<1> HIDE DEF r, t, u
<1>7. CASE e.kind = "shift"
  <2>1. /\ Kin(r, lane') /\ lane'.forward = r.forward /\ lane'.rewind = r.rewind
        /\ lane'.home = r.home /\ lane'.jogs = r.jogs
    BY <1>2, <1>3, <1>4, <1>7 DEF Kin, LaneSet, LaneOK, LaneValueOK
  <2>2. Backed(lane', u)
    BY <1>3, <1>5, <1>6, <1>7, <2>1 DEF Backed, Fresh, Origin
  <2>3. u.play <= u.press
    BY <1>3, <1>5 DEF Fresh
  <2>4. LaneOK(lane', u)
    BY <1>3, <1>5, <2>1, <2>2, <2>3, RetoldOK
  <2> QED
    BY <1>2, <2>4
<1>8. CASE e.kind = "forward"
  <2> DEFINE s == IF Down(e) THEN r ELSE Released(r, Forward)
  <2>1. /\ LaneOK(s, t) /\ s \in LaneSet /\ s.home = r.home /\ s.rewind = r.rewind
        /\ ~Down(e) => \A k \in DOMAIN s.jogs : s.jogs[k].by # Forward
    BY <1>3, ReleasedOK
  <2>2. lane' = [s EXCEPT !.forward = Down(e)]
    BY <1>2, <1>8 DEF KeyMoved
  <2> HIDE DEF s
  <2>3. /\ lane' \in LaneSet /\ lane'.epoch = s.epoch /\ lane'.jogs = s.jogs
        /\ lane'.globals = s.globals /\ lane'.wheel = s.wheel /\ lane'.push = s.push
        /\ lane'.error = s.error /\ lane'.forward = Down(e) /\ lane'.rewind = s.rewind
        /\ lane'.home = s.home
    BY <1>4, <2>1, <2>2 DEF LaneSet
  <2>4. LaneValueOK(lane') /\ Owes(lane', u)
    BY <1>5, <2>1, <2>3 DEF LaneOK, LaneValueOK, Owes
  <2>5. Fresh(s, t)
    BY <2>1 DEF LaneOK
  <2>6. "forward" \in Held
    BY DEF Held
  <2>7. Fresh(lane', u)
    BY <1>5, <1>6, <1>8, <2>1, <2>3, <2>5, <2>6 DEF Fresh
  <2> QED
    BY <1>2, <1>5, <2>4, <2>7 DEF LaneOK
<1>9. CASE e.kind = "rewind"
  <2> DEFINE s == IF Down(e) THEN r ELSE Released(r, Rewind)
  <2>1. /\ LaneOK(s, t) /\ s \in LaneSet /\ s.home = r.home /\ s.forward = r.forward
        /\ ~Down(e) => \A k \in DOMAIN s.jogs : s.jogs[k].by # Rewind
    BY <1>3, ReleasedOK
  <2>2. lane' = [s EXCEPT !.rewind = Down(e)]
    BY <1>2, <1>9 DEF KeyMoved
  <2> HIDE DEF s
  <2>3. /\ lane' \in LaneSet /\ lane'.epoch = s.epoch /\ lane'.jogs = s.jogs
        /\ lane'.globals = s.globals /\ lane'.wheel = s.wheel /\ lane'.push = s.push
        /\ lane'.error = s.error /\ lane'.rewind = Down(e) /\ lane'.forward = s.forward
        /\ lane'.home = s.home
    BY <1>4, <2>1, <2>2 DEF LaneSet
  <2>4. LaneValueOK(lane') /\ Owes(lane', u)
    BY <1>5, <2>1, <2>3 DEF LaneOK, LaneValueOK, Owes
  <2>5. Fresh(s, t)
    BY <2>1 DEF LaneOK
  <2>6. "rewind" \in Held
    BY DEF Held
  <2>7. Fresh(lane', u)
    BY <1>5, <1>6, <1>9, <2>1, <2>3, <2>5, <2>6 DEF Fresh
  <2> QED
    BY <1>2, <1>5, <2>4, <2>7 DEF LaneOK
<1> QED
  BY <1>7, <1>8, <1>9

\* A Play takes back the return to the start.
LEMMA PlayDownOK ==
    ASSUME NEW i, NEW t, LaneOK(i, t), NEW v \in CopySet, i.epoch = v.epoch, told.press \in Nat,
           NEW u \in ToldSet, u.owed = t.owed, u.wheel = t.wheel, u.push = t.push,
           u.play <= u.press,
           \A k \in {"forward", "rewind"} : k \in t.keys => k \in u.keys
    PROVE  LaneOK(PlayDown(i, v), u)
<1> DEFINE s == Released(i, Home)
           r == [s EXCEPT !.playDown = TRUE, !.played = TRUE, !.home = FALSE]
<1>1. /\ LaneOK(s, t) /\ s \in LaneSet /\ s.epoch = i.epoch
      /\ \A k \in DOMAIN s.jogs : s.jogs[k].by # Home
  BY ReleasedOK
<1>2. PlayDown(i, v) = AddGlobal(r, v, "play", told.press + 1)
  BY DEF PlayDown
<1> HIDE DEF s
<1>3. /\ r \in LaneSet /\ r.epoch = s.epoch /\ r.jogs = s.jogs /\ r.globals = s.globals
      /\ r.wheel = s.wheel /\ r.push = s.push /\ r.error = s.error
      /\ r.forward = s.forward /\ r.rewind = s.rewind /\ r.home = FALSE
  BY <1>1 DEF LaneSet
<1> HIDE DEF r
<1>4. Kin(s, r)
  BY <1>1, <1>3 DEF Kin, LaneOK, LaneValueOK
<1>5. Backed(r, u)
  BY <1>1, <1>3 DEF Backed, Origin, LaneOK, Fresh
<1>6. LaneOK(r, u)
  BY <1>1, <1>4, <1>5, RetoldOK
<1>7. "play" \in Global /\ told.press + 1 \in Nat /\ r.epoch = v.epoch
  BY <1>1, <1>3 DEF Global, Transport
<1> QED
  BY <1>2, <1>6, <1>7, AddGlobalOK

\* A Stop of a song that stands asks for the start, and for nothing else.
LEMMA StopDownOK ==
    ASSUME NEW i, NEW t, LaneOK(i, t), NEW v \in CopySet, i.epoch = v.epoch, told.press \in Nat,
           NEW u \in ToldSet, u.wheel = t.wheel, u.push = t.push, u.play <= u.press,
           \A k \in {"forward", "rewind"} : k \in t.keys => k \in u.keys,
           Asks(i, v) => u.owed = <<>> /\ u.home > u.play,
           ~Asks(i, v) => u.owed = t.owed /\ u.home = t.home /\ u.play = t.play
    PROVE  LaneOK(StopDown(i, v), u)
<1> DEFINE r == [i EXCEPT !.stopDown = TRUE, !.played = FALSE]
           h == [r EXCEPT !.home = TRUE, !.stepped = FALSE, !.jogs = <<>>, !.rewind = FALSE,
                          !.forward = FALSE]
<1>1. i \in LaneSet /\ Len(i.globals) <= Ring
  BY DEF LaneOK, LaneValueOK
<1>2. /\ r \in LaneSet /\ r.epoch = i.epoch /\ r.jogs = i.jogs /\ r.globals = i.globals
      /\ r.wheel = i.wheel /\ r.push = i.push /\ r.error = i.error
      /\ r.forward = i.forward /\ r.rewind = i.rewind /\ r.home = i.home
  BY <1>1 DEF LaneSet
<1>3. CASE Asks(i, v)
  <2>1. StopDown(i, v) = h
    BY <1>3 DEF StopDown
  <2>2. <<>> \in Seq(JogSet)
    OBVIOUS
  <2> HIDE DEF r
  <2>3. /\ h \in LaneSet /\ h.epoch = r.epoch /\ h.jogs = <<>> /\ h.globals = r.globals
        /\ h.wheel = r.wheel /\ h.push = r.push /\ h.error = r.error
        /\ h.forward = FALSE /\ h.rewind = FALSE
    BY <1>2, <2>2 DEF LaneSet
  <2> HIDE DEF h
  <2>4. LaneValueOK(h)
    BY <1>2, <2>3, NoJogs DEF LaneOK, LaneValueOK
  <2>5. Fresh(h, u)
    BY <1>2, <1>3, <2>3 DEF LaneOK, Fresh
  <2>6. Owes(h, u)
    BY <1>3, <2>3, NoJogs DEF Owes
  <2> QED
    BY <2>1, <2>4, <2>5, <2>6 DEF LaneOK
<1>4. CASE ~Asks(i, v)
  <2>1. StopDown(i, v) = IF v.known THEN AddGlobal(r, v, "stop", told.press + 1) ELSE r
    BY <1>4 DEF StopDown
  <2> HIDE DEF r
  <2>2. Kin(i, r)
    BY <1>1, <1>2 DEF Kin
  <2>3. Backed(r, u)
    BY <1>2, <1>4 DEF Backed, Origin, LaneOK, Fresh
  <2>4. LaneOK(r, u)
    BY <1>4, <2>2, <2>3, RetoldOK
  <2>5. "stop" \in Global /\ told.press + 1 \in Nat /\ r.epoch = v.epoch
    BY <1>2 DEF Global, Transport
  <2>6. LaneOK(AddGlobal(r, v, "stop", told.press + 1), u)
    BY <2>4, <2>5, AddGlobalOK
  <2> QED
    BY <2>1, <2>4, <2>6
<1> QED
  BY <1>3, <1>4

LEMMA ButtonOK ==
    ASSUME LaneOK(lane, told), table \in TransportScenes, NEW e \in table.events,
           e.kind \in {"stop", "play", "relay"}, NEW v \in CopySet, Button(v, e)
    PROVE  LaneOK(lane', told')
<1> DEFINE r == Resynced(lane, v)
           t == Recalled(v)
           again == IF e.kind = "play" THEN r.playDown ELSE r.stopDown
           homes == e.kind # "play" /\ Asks(r, v)
           ku == [t EXCEPT !.keys = Keys(e)]
           pu == [t EXCEPT !.keys = Keys(e), !.press = @ + 1,
                           !.home = IF homes THEN told.press + 1 ELSE @,
                           !.play = IF e.kind = "play" THEN told.press + 1 ELSE @,
                           !.owed = IF homes THEN <<>> ELSE @]
<1>1. Ready(v)
  BY ReadyOK
<1>2. /\ ~Down(e) => /\ told' = ku
                     /\ lane' = IF e.kind = "play" THEN [r EXCEPT !.playDown = FALSE]
                                ELSE [r EXCEPT !.stopDown = FALSE]
      /\ Down(e) /\ again => told' = ku /\ lane' = r
      /\ Down(e) /\ ~again => /\ told' = pu
                              /\ lane' = IF e.kind = "play" THEN PlayDown(r, v)
                                         ELSE StopDown(r, v)
  BY DEF Button
<1>3. /\ LaneOK(r, t) /\ r \in LaneSet /\ t \in ToldSet /\ Fresh(r, t) /\ r.epoch = v.epoch
      /\ told.press \in Nat /\ told.play \in Nat /\ told.play <= told.press
      /\ t.press = told.press /\ t.home = told.home /\ t.play = told.play
  BY <1>1 DEF Ready, LaneOK
<1>4. Keys(e) \subseteq Held
  BY <1>1, EventOK DEF Ready
<1>5. /\ ku \in ToldSet /\ ku.keys = Keys(e) /\ ku.owed = t.owed /\ ku.wheel = t.wheel
      /\ ku.push = t.push /\ ku.home = t.home /\ ku.play = t.play /\ ku.press = t.press
  BY <1>3, <1>4 DEF ToldSet
<1>6. \A k \in {"forward", "rewind"} : k \in t.keys => k \in Keys(e)
  BY <1>1, EventOK DEF Ready, Held
<1>7. ku.play <= ku.press
  BY <1>3, <1>5
<1> HIDE DEF r, t, ku
<1>8. ASSUME NEW j, Kin(r, j) PROVE LaneOK(j, ku)
  <2>1. Backed(j, ku)
    BY <1>3, <1>5, <1>6, <1>8 DEF Backed, Fresh, Origin, Kin
  <2> QED
    BY <1>3, <1>5, <1>7, <1>8, <2>1, RetoldOK
<1>9. CASE ~Down(e)
  <2>1. Kin(r, lane')
    BY <1>2, <1>3, <1>9 DEF Kin, LaneSet, LaneOK, LaneValueOK
  <2> QED
    BY <1>2, <1>8, <1>9, <2>1
<1>10. CASE Down(e) /\ again
  <2>1. Kin(r, r)
    BY <1>3 DEF Kin, LaneOK, LaneValueOK
  <2> QED
    BY <1>2, <1>8, <1>10, <2>1
<1>11. CASE Down(e) /\ ~again
  <2> DEFINE o == IF homes THEN <<>> ELSE t.owed
             h == IF homes THEN told.press + 1 ELSE t.home
             p == IF e.kind = "play" THEN told.press + 1 ELSE t.play
  <2>1. o \in Seq(UnitSet) /\ h \in Nat /\ p \in Nat /\ t.press + 1 \in Nat
    <3>1. <<>> \in Seq(UnitSet)
      OBVIOUS
    <3> QED
      BY <1>3, <3>1 DEF ToldSet
  <2>2. pu = [t EXCEPT !.keys = Keys(e), !.press = t.press + 1, !.home = h, !.play = p,
                       !.owed = o]
    BY <1>3 DEF ToldSet
  <2> HIDE DEF pu, o, h, p
  <2>3. /\ pu \in ToldSet /\ pu.keys = Keys(e) /\ pu.owed = o /\ pu.wheel = t.wheel
        /\ pu.push = t.push /\ pu.home = h /\ pu.play = p /\ pu.press = t.press + 1
    BY <1>3, <1>4, <2>1, <2>2 DEF ToldSet
  <2>4. pu.play <= pu.press
    BY <1>3, <2>3 DEF p
  <2>5. CASE e.kind = "play"
    <3>1. pu.owed = t.owed
      BY <2>3, <2>5 DEF o
    <3>2. LaneOK(PlayDown(r, v), pu)
      BY <1>3, <1>6, <2>3, <2>4, <3>1, PlayDownOK
    <3> QED
      BY <1>2, <1>11, <2>5, <3>2
  <2>6. CASE e.kind # "play"
    <3>1. /\ Asks(r, v) => pu.owed = <<>> /\ pu.home > pu.play
          /\ ~Asks(r, v) => pu.owed = t.owed /\ pu.home = t.home /\ pu.play = t.play
      BY <1>3, <2>3, <2>6 DEF o, h, p
    <3>2. LaneOK(StopDown(r, v), pu)
      BY <1>3, <1>6, <2>3, <2>4, <3>1, StopDownOK
    <3> QED
      BY <1>2, <1>11, <2>6, <3>2
  <2> QED
    BY <2>5, <2>6
<1> QED
  BY <1>9, <1>10, <1>11

\* Adding to the lane begins with what the project leaves of it.
LEMMA AddResynced ==
    ASSUME NEW v, Resynced(lane, v).epoch = v.epoch
    PROVE  /\ \A op, by, d : AddJog(lane, v, op, by, d) = AddJog(Resynced(lane, v), v, op, by, d)
           /\ \A op, press : AddGlobal(lane, v, op, press)
                             = AddGlobal(Resynced(lane, v), v, op, press)
           /\ \A unit, d : AddWheel(lane, v, unit, d)
                           = AddWheel(Resynced(lane, v), v, unit, d)
           /\ AddPush(lane, v) = AddPush(Resynced(lane, v), v)
<1> DEFINE r == Resynced(lane, v)
<1>1. Resynced(r, v) = r
  BY ResyncedTwice
<1>2. \A op, by, d : AddJog(lane, v, op, by, d) = AddJog(r, v, op, by, d)
  BY <1>1, Zenon DEF AddJog
<1>3. \A op, press : AddGlobal(lane, v, op, press) = AddGlobal(r, v, op, press)
  BY <1>1, Zenon DEF AddGlobal
<1>4. \A unit, d : AddWheel(lane, v, unit, d) = AddWheel(r, v, unit, d)
  BY <1>1, Zenon DEF AddWheel
<1>5. AddPush(lane, v) = AddPush(r, v)
  BY <1>1, Zenon DEF AddPush
<1> QED
  BY <1>2, <1>3, <1>4, <1>5

LEMMA TurnOK ==
    ASSUME LaneOK(lane, told), NEW v \in CopySet, NEW d \in Int, d # 0, Size(d) <= Limit,
           surface \in [on : BOOLEAN, scrub : BOOLEAN], Turn(v, d)
    PROVE  LaneOK(lane', told') /\ surface' = surface
<1> DEFINE r == Resynced(lane, v)
           t == Recalled(v)
<1>1. Ready(v)
  BY ReadyOK
<1>2. LaneOK(r, t) /\ r.epoch = v.epoch /\ r \in LaneSet /\ t \in ToldSet /\ LaneValueOK(r)
      /\ Fresh(r, t) /\ Owes(r, t)
  BY <1>1 DEF Ready, LaneOK
<1>3. /\ AddJog(lane, v, TurnedUnit, Hand, d) = AddJog(r, v, TurnedUnit, Hand, d)
      /\ AddWheel(lane, v, TurnedUnit, d) = AddWheel(r, v, TurnedUnit, d)
  BY <1>2, AddResynced
<1>4. CASE surface.scrub
  <2> DEFINE w == IF r.wheel = 0 THEN v.epoch ELSE t.wheel
  <2>1. TurnedUnit \in {"data", "note"}
    BY <1>4 DEF TurnedUnit
  <2>2. lane' = AddWheel(r, v, TurnedUnit, d) /\ told' = [t EXCEPT !.wheel = w]
    BY <1>2, <1>3, <1>4 DEF Turn, ToldSet
  <2>3. w \in {t.wheel, v.epoch} /\ (r.wheel = 0 => w = v.epoch)
    OBVIOUS
  <2> HIDE DEF r, t, w
  <2>4. LaneOK(AddWheel(r, v, TurnedUnit, d), [t EXCEPT !.wheel = w])
    BY <1>2, <2>1, <2>3, AddWheelOK
  <2> QED
    BY <2>2, <2>4 DEF Turn
<1>5. CASE ~surface.scrub
  <2> DEFINE n == [op |-> TurnedUnit, by |-> Hand, d |-> d, epoch |-> v.epoch]
             a == AddJog(r, v, TurnedUnit, Hand, d)
             u == [t EXCEPT !.owed = t.owed \o Ones(TurnedUnit, d)]
  <2>1. TurnedUnit \in Jog
    BY <1>5 DEF TurnedUnit, Jog
  <2>2. lane' = a /\ told' = u
    BY <1>2, <1>3, <1>5 DEF Turn, ToldSet
  <2>3. Hand \in 0 .. 3 /\ Origin(Hand, t)
    BY DEF Hand, Forward, Rewind, Home, Origin
  <2>4. n \in JogSet /\ Turns(n) = Ones(TurnedUnit, d)
    BY <1>2, <2>1, <2>3 DEF JogSet, CopySet, Turns
  <2>5. Ones(TurnedUnit, d) \in Seq(UnitSet)
    BY <2>4, TurnsOK
  <2>6. t.owed \in Seq(UnitSet) /\ t.owed \o Ones(TurnedUnit, d) \in Seq(UnitSet)
    BY <1>2, <2>5, ConcatProperties DEF ToldSet
  <2> HIDE DEF r, t
  <2>7. /\ u \in ToldSet /\ u.owed = t.owed \o Ones(TurnedUnit, d) /\ u.wheel = t.wheel
        /\ u.push = t.push /\ u.keys = t.keys /\ u.home = t.home /\ u.play = t.play
        /\ u.press = t.press
    BY <1>2, <2>6 DEF ToldSet
  <2>8. Adds(r, a, t, Turns(n))
    BY <1>2, <2>1, <2>3, AddJogOK
  <2> HIDE DEF a, u, n
  <2>9. LaneValueOK(a) /\ Fresh(a, t) /\ (a.error = "none" =>
            r.error = "none" /\ Unpacked(a.jogs) = Unpacked(r.jogs) \o Ones(TurnedUnit, d))
    BY <2>4, <2>8 DEF Adds
  <2>10. Fresh(a, u)
    BY <2>7, <2>9 DEF Fresh
  <2>11. Owes(a, u)
    BY <1>2, <2>7, <2>9 DEF Owes
  <2> QED
    BY <2>2, <2>7, <2>9, <2>10, <2>11 DEF LaneOK, Turn
<1> QED
  BY <1>4, <1>5

LEMMA GeneralOK ==
    ASSUME LaneOK(lane, told), table \in TransportScenes, NEW e \in table.events,
           NEW v \in CopySet, surface \in [on : BOOLEAN, scrub : BOOLEAN], General(v, e)
    PROVE  LaneOK(lane', told') /\ surface' \in [on : BOOLEAN, scrub : BOOLEAN]
<1> DEFINE r == Resynced(lane, v)
           t == Recalled(v)
<1>1. Ready(v)
  BY ReadyOK
<1>2. LaneOK(r, t) /\ r.epoch = v.epoch /\ r \in LaneSet /\ t \in ToldSet
      /\ lane.unit \in {"data", "note"}
  BY <1>1 DEF Ready, LaneOK, LaneValueOK, LaneSet
<1>3. CASE e.kind = "scrub"
  BY <1>3 DEF General
<1>4. CASE e.kind = "cursor" /\ surface.scrub
  <2> DEFINE w == IF r.wheel = 0 \/ lane.unit # "data" THEN v.epoch ELSE t.wheel
  <2>1. /\ AddWheel(lane, v, "data", e.arg) = AddWheel(r, v, "data", e.arg)
        /\ e.arg \in Int
    BY <1>2, <1>4, AddResynced, EventOK
  <2>2. lane' = AddWheel(r, v, "data", e.arg) /\ told' = [t EXCEPT !.wheel = w]
        /\ surface' = surface
    BY <1>2, <1>4, <2>1 DEF General, ToldSet
  <2>3. w \in {t.wheel, v.epoch} /\ (r.wheel = 0 => w = v.epoch)
    OBVIOUS
  <2> DEFINE d == e.arg
             unit == "data"
  <2>31. d \in Int /\ unit \in {"data", "note"}
    BY <2>1
  <2> HIDE DEF r, t, w, d, unit
  <2>32. LaneOK(r, t) /\ r.epoch = v.epoch
    BY <1>2
  <2>33. LaneOK(AddWheel(r, v, unit, d), [t EXCEPT !.wheel = w])
    BY <2>3, <2>31, <2>32, AddWheelOK
  <2>4. LaneOK(AddWheel(r, v, "data", e.arg), [t EXCEPT !.wheel = w])
    BY <2>33 DEF d, unit
  <2> QED
    BY <2>2, <2>4
<1>5. CASE e.kind = "centre" /\ surface.scrub
  <2> DEFINE p == IF r.push THEN t.push ELSE v.epoch
  <2>1. AddPush(lane, v) = AddPush(r, v)
    BY <1>2, AddResynced
  <2>2. lane' = AddPush(r, v) /\ told' = [t EXCEPT !.push = p] /\ surface' = surface
    BY <1>2, <1>5, <2>1 DEF General, ToldSet
  <2>3. p \in {t.push, v.epoch} /\ (~r.push => p = v.epoch)
    OBVIOUS
  <2> HIDE DEF r, t, p
  <2>4. LaneOK(AddPush(r, v), [t EXCEPT !.push = p])
    BY <1>2, <2>3, AddPushOK
  <2> QED
    BY <2>2, <2>4
<1>6. CASE /\ e.kind # "scrub" /\ ~(e.kind = "cursor" /\ surface.scrub)
           /\ ~(e.kind = "centre" /\ surface.scrub)
  <2>1. AddGlobal(lane, v, "key", 0) = AddGlobal(r, v, "key", 0)
    BY <1>2, AddResynced
  <2>2. lane' = AddGlobal(r, v, "key", 0) /\ told' = t /\ surface' = surface
    BY <1>6, <2>1 DEF General
  <2>3. "key" \in Global /\ 0 \in Nat
    BY DEF Global
  <2> HIDE DEF r, t
  <2>4. LaneOK(AddGlobal(r, v, "key", 0), t)
    BY <1>2, <2>3, AddGlobalOK
  <2> QED
    BY <2>2, <2>4
<1> QED
  BY <1>3, <1>4, <1>5, <1>6

\* With nothing left in the lane, the history may take what keys it likes.
LEMMA EmptyOK ==
    ASSUME LaneOK(lane, told), NEW keys \in SUBSET Held, NEW shift \in BOOLEAN
    PROVE  LaneOK([JogDiscarded(lane) EXCEPT !.shift = shift], [Forgiven EXCEPT !.keys = keys])
<1> DEFINE d == JogDiscarded(lane)
           t == Forgiven
           i == [d EXCEPT !.shift = shift]
           u == [t EXCEPT !.keys = keys]
<1>1. LaneOK(d, t) /\ d \in LaneSet /\ t \in ToldSet /\ Fresh(d, t)
  BY JogDiscardedOK DEF LaneOK, LaneValueOK
<1>2. d.jogs = <<>> /\ d.forward = FALSE /\ d.rewind = FALSE /\ d.home = FALSE
  BY DEF JogDiscarded, NoLane
<1> HIDE DEF d, t
<1>3. /\ u \in ToldSet /\ u.owed = t.owed /\ u.wheel = t.wheel /\ u.push = t.push
      /\ u.play = t.play /\ u.press = t.press
  BY <1>1 DEF ToldSet
<1>4. /\ i \in LaneSet /\ i.epoch = d.epoch /\ i.jogs = d.jogs /\ i.globals = d.globals
      /\ i.wheel = d.wheel /\ i.push = d.push /\ i.error = d.error
      /\ i.forward = FALSE /\ i.rewind = FALSE /\ i.home = FALSE
  BY <1>1, <1>2 DEF LaneSet
<1> HIDE DEF i, u
<1>5. Kin(d, i) /\ Backed(i, u) /\ u.play <= u.press
  BY <1>1, <1>2, <1>3, <1>4 DEF Kin, Backed, LaneOK, LaneValueOK, Fresh
<1>6. LaneOK(i, u)
  BY <1>1, <1>3, <1>5, RetoldOK
<1> QED
  BY <1>6 DEF i, u, d, t

LEMMA UnheardOK ==
    ASSUME LaneOK(lane, told), table \in TransportScenes, NEW e \in table.events, LaneUnheard(e)
    PROVE  LaneOK(lane', told') /\ surface' = surface
<1> DEFINE s == IF e.kind = "shift" THEN Down(e) ELSE lane.shift
<1>1. s \in BOOLEAN /\ told.keys \subseteq Held
  BY DEF Down, LaneOK, LaneValueOK, LaneSet, ToldSet
<1>2. Keys(e) \in SUBSET Held
  BY <1>1, EventOK
<1>3. /\ lane' = [JogDiscarded(lane) EXCEPT !.shift = s]
      /\ told' = [Forgiven EXCEPT !.keys = Keys(e)] /\ surface' = surface
  BY DEF LaneUnheard
<1> HIDE DEF s
<1>4. LaneOK([JogDiscarded(lane) EXCEPT !.shift = s], [Forgiven EXCEPT !.keys = Keys(e)])
  BY <1>1, <1>2, EmptyOK
<1> QED
  BY <1>3, <1>4

LEMMA CopiesOK ==
    ASSUME project \in ProjectSet
    PROVE  NoLaneCopy \in CopySet /\ \A b \in BOOLEAN : LaneCopied(b) \in CopySet
<1>1. NoLaneCopy \in CopySet
  BY DEF NoLaneCopy, CopySet
<1>2. ASSUME NEW b \in BOOLEAN PROVE LaneCopied(b) \in CopySet
  BY DEF LaneCopied, CopySet, ProjectSet
<1> QED
  BY <1>1, <1>2

LEMMA RelayOK ==
    ASSUME LaneOK(lane, told), table \in TransportScenes, NEW e \in table.events,
           project \in ProjectSet, Relay(e)
    PROVE  LaneOK(lane', told') /\ surface' = surface /\ copy' = copy
<1>1. PICK v \in {LaneCopied(TRUE), NoLaneCopy} :
        IF Down(e) /\ lane.stopDown
        THEN told' = [told EXCEPT !.keys = Keys(e)] /\ UNCHANGED <<lane, surface>>
        ELSE IF LaneDeaf(v)
        THEN /\ lane' = [Released(lane, Home) EXCEPT !.home = FALSE, !.stopDown = Down(e)]
             /\ told' = [told EXCEPT !.keys = Keys(e)] /\ surface' = surface
        ELSE Button(v, e)
  BY DEF Relay
<1>2. e.kind = "relay" /\ copy' = copy
  BY DEF Relay
<1>3. v \in CopySet
  BY <1>1, CopiesOK
<1> DEFINE u == [told EXCEPT !.keys = Keys(e)]
<1>4. told \in ToldSet /\ Fresh(lane, told) /\ lane \in LaneSet /\ told.keys \subseteq Held
      /\ Down(e) \in BOOLEAN
  BY DEF LaneOK, LaneValueOK, ToldSet, Down
<1>5. Keys(e) \subseteq Held /\ \A k \in {"forward", "rewind"} : k \in told.keys => k \in Keys(e)
  BY <1>2, <1>4, EventOK DEF Held
<1>6. /\ u \in ToldSet /\ u.keys = Keys(e) /\ u.owed = told.owed /\ u.wheel = told.wheel
      /\ u.push = told.push /\ u.home = told.home /\ u.play = told.play /\ u.press = told.press
  BY <1>4, <1>5 DEF ToldSet
<1>7. u.play <= u.press
  BY <1>4, <1>6 DEF Fresh
<1> HIDE DEF u
<1>8. CASE Down(e) /\ lane.stopDown
  <2>1. lane' = lane /\ told' = u /\ surface' = surface
    BY <1>1, <1>8 DEF u
  <2>2. Kin(lane, lane) /\ Backed(lane, u)
    BY <1>4, <1>5, <1>6 DEF Kin, Backed, Origin, Fresh, LaneOK, LaneValueOK
  <2>3. LaneOK(lane, u)
    BY <1>6, <1>7, <2>2, RetoldOK
  <2> QED
    BY <1>2, <2>1, <2>3
<1>9. CASE ~(Down(e) /\ lane.stopDown) /\ LaneDeaf(v)
  <2> DEFINE s == Released(lane, Home)
             j == [s EXCEPT !.home = FALSE, !.stopDown = Down(e)]
  <2>1. lane' = j /\ told' = u /\ surface' = surface
    BY <1>1, <1>9 DEF u
  <2>2. /\ LaneOK(s, told) /\ s \in LaneSet
        /\ \A k \in DOMAIN s.jogs : s.jogs[k].by # Home
    BY ReleasedOK
  <2> HIDE DEF s
  <2>3. /\ j \in LaneSet /\ j.epoch = s.epoch /\ j.jogs = s.jogs /\ j.globals = s.globals
        /\ j.wheel = s.wheel /\ j.push = s.push /\ j.error = s.error
        /\ j.forward = s.forward /\ j.rewind = s.rewind /\ j.home = FALSE
    BY <1>4, <2>2 DEF LaneSet
  <2> HIDE DEF j
  <2>4. Kin(s, j) /\ Backed(j, u)
    BY <1>5, <1>6, <2>2, <2>3 DEF Kin, Backed, Origin, Fresh, LaneOK, LaneValueOK
  <2>5. LaneOK(j, u)
    BY <1>6, <1>7, <2>2, <2>4, RetoldOK
  <2> QED
    BY <1>2, <2>1, <2>5
<1>10. CASE ~(Down(e) /\ lane.stopDown) /\ ~LaneDeaf(v)
  <2>1. Button(v, e)
    BY <1>1, <1>10
  <2> QED
    BY <1>2, <1>3, <2>1, ButtonOK DEF Button
<1> QED
  BY <1>8, <1>9, <1>10

LEMMA HearOK ==
    ASSUME LaneInv, NEW e \in table.events, HearLane(e)
    PROVE  LaneInv'
<1>1. LaneOK(lane, told) /\ table \in TransportScenes /\ project \in ProjectSet /\ copy \in CopySet
      /\ surface \in [on : BOOLEAN, scrub : BOOLEAN] /\ budget \in [hand : Nat, app : Nat]
      /\ RequestsOK(request) /\ LineOK(line, request)
  BY DEF LaneInv, LaneKindsOK
<1>2. /\ stage = "drain" /\ budget.hand > 0
      /\ \/ Relay(e)
         \/ /\ e.kind # "relay"
            /\ \E v \in Views :
                  /\ copy' = v
                  /\ CASE LaneDeaf(v) -> LaneUnheard(e)
                       [] ~LaneDeaf(v) /\ e.kind = "turn" -> Turn(v, e.arg)
                       [] ~LaneDeaf(v) /\ e.kind \in {"shift", "forward", "rewind"} -> Key(v, e)
                       [] ~LaneDeaf(v) /\ e.kind \in {"stop", "play"} -> Button(v, e)
                       [] OTHER -> General(v, e)
      /\ budget' = [budget EXCEPT !.hand = @ - 1]
      /\ UNCHANGED <<table, project, request, line, stage>>
  BY DEF HearLane
<1>3. budget' \in [hand : Nat, app : Nat]
  BY <1>1, <1>2
<1>4. /\ LaneOK(lane', told') /\ surface' \in [on : BOOLEAN, scrub : BOOLEAN]
      /\ copy' \in CopySet
  <2>1. CASE Relay(e)
    BY <1>1, <2>1, RelayOK
  <2>2. ASSUME NEW v \in Views, e.kind # "relay", copy' = v,
               CASE LaneDeaf(v) -> LaneUnheard(e)
                 [] ~LaneDeaf(v) /\ e.kind = "turn" -> Turn(v, e.arg)
                 [] ~LaneDeaf(v) /\ e.kind \in {"shift", "forward", "rewind"} -> Key(v, e)
                 [] ~LaneDeaf(v) /\ e.kind \in {"stop", "play"} -> Button(v, e)
                 [] OTHER -> General(v, e)
        PROVE  /\ LaneOK(lane', told') /\ surface' \in [on : BOOLEAN, scrub : BOOLEAN]
               /\ copy' \in CopySet
    <3>1. v \in CopySet
      BY <1>1, CopiesOK DEF Views
    <3>2. CASE LaneDeaf(v)
      <4>1. LaneUnheard(e)
        BY <2>2, <3>2
      <4> QED
        BY <1>1, <2>2, <3>1, <4>1, UnheardOK
    <3>3. CASE ~LaneDeaf(v) /\ e.kind = "turn"
      <4>1. Turn(v, e.arg)
        BY <2>2, <3>3
      <4>2. e.arg \in Int /\ e.arg # 0 /\ Size(e.arg) <= Limit
        BY <1>1, <3>3, EventOK
      <4> QED
        BY <1>1, <2>2, <3>1, <4>1, <4>2, TurnOK
    <3>4. CASE ~LaneDeaf(v) /\ e.kind \in {"shift", "forward", "rewind"}
      <4>1. Key(v, e)
        BY <2>2, <3>4
      <4>2. surface' = surface
        BY <4>1 DEF Key
      <4> QED
        BY <1>1, <2>2, <3>1, <3>4, <4>1, <4>2, KeyOK
    <3>5. CASE ~LaneDeaf(v) /\ e.kind \in {"stop", "play"}
      <4>1. Button(v, e)
        BY <2>2, <3>5
      <4>2. surface' = surface
        BY <4>1 DEF Button
      <4> QED
        BY <1>1, <2>2, <3>1, <3>5, <4>1, <4>2, ButtonOK
    <3>6. CASE ~LaneDeaf(v) /\ e.kind \notin {"turn", "shift", "forward", "rewind", "stop", "play"}
      <4>1. General(v, e)
        BY <2>2, <3>6
      <4> QED
        BY <1>1, <2>2, <3>1, <4>1, GeneralOK
    <3> QED
      BY <3>2, <3>3, <3>4, <3>5, <3>6
  <2> QED
    BY <1>2, <2>1, <2>2
<1>5. /\ stage' = "drain" /\ table' = table /\ project' = project /\ request' = request /\ line' = line
  BY <1>2
<1>6. LaneKindsOK'
  BY <1>1, <1>3, <1>4, <1>5 DEF LaneKindsOK
<1>7. Pumped'
  BY <1>5 DEF Pumped, LanePumping
<1> QED
  BY <1>4, <1>6, <1>7 DEF LaneInv

-----------------------------------------------------------------------------
\* The pump.

LEMMA LaneErrorOK ==
    ASSUME NEW i, NEW t, LaneOK(i, t), NEW x \in {"capacity", "identity", "expired"}
    PROVE  LaneOK([i EXCEPT !.error = x], t) /\ [i EXCEPT !.error = x].epoch = i.epoch
<1> DEFINE a == [i EXCEPT !.error = x]
<1>1. i \in LaneSet
  BY DEF LaneOK, LaneValueOK
<1>2. /\ a \in LaneSet /\ a.epoch = i.epoch /\ a.jogs = i.jogs /\ a.globals = i.globals
      /\ a.forward = i.forward /\ a.rewind = i.rewind /\ a.home = i.home
      /\ a.wheel = i.wheel /\ a.push = i.push /\ a.error = x
  BY <1>1 DEF LaneSet
<1> HIDE DEF a
<1>3. LaneOK(a, t)
  BY <1>2 DEF LaneOK, LaneValueOK, Fresh, Owes
<1> QED
  BY <1>2, <1>3 DEF a

LEMMA WaitOK ==
    ASSUME NEW i, NEW t, LaneOK(i, t), NEW w \in BOOLEAN
    PROVE  LaneOK([i EXCEPT !.wait = w], t) /\ [i EXCEPT !.wait = w] \in LaneSet
           /\ [i EXCEPT !.wait = w].epoch = i.epoch /\ [i EXCEPT !.wait = w].jogs = i.jogs
<1> DEFINE a == [i EXCEPT !.wait = w]
<1>1. i \in LaneSet /\ Len(i.globals) <= Ring
  BY DEF LaneOK, LaneValueOK
<1>2. Kin(i, a)
  BY <1>1 DEF LaneSet, Kin
<1> HIDE DEF a
<1>3. LaneOK(a, t)
  BY <1>2, KinOK
<1> QED
  BY <1>2, <1>3 DEF a, Kin

\* A request takes a free slot, and its place at the end of the line.
Sends(n, rec) == request' = [request EXCEPT ![n] = rec] /\ line' = Append(line, n)
SendsFresh ==
    \A n \in 1 .. Slots : Published(n) =>
        /\ request'[n].by = Forward => "forward" \in told.keys
        /\ request'[n].by = Rewind => "rewind" \in told.keys
        /\ request'[n].by = Home => request'[n].press > told.play
        /\ request'[n].op \in {"data", "note"} => request'[n].epoch = told.wheel
        /\ request'[n].op = "push" => request'[n].epoch = told.push
Honest(rec) ==
    /\ rec.by = Forward => "forward" \in told.keys
    /\ rec.by = Rewind => "rewind" \in told.keys
    /\ rec.by = Home => rec.press > told.play
    /\ rec.op \in {"data", "note"} => rec.epoch = told.wheel
    /\ rec.op = "push" => rec.epoch = told.push
LEMMA SlotsOfLine ==
    ASSUME line \in Seq(1 .. Slots)
    PROVE  \A k \in DOMAIN line : line[k] \in 1 .. Slots
<1> DEFINE S == 1 .. Slots
<1>1. line \in Seq(S)
  OBVIOUS
<1> HIDE DEF S
<1>2. \A k \in DOMAIN line : line[k] \in S
  BY <1>1
<1> QED
  BY <1>2 DEF S

LEMMA SendOK ==
    ASSUME RequestsOK(request), LineOK(line, request), NEW n \in FreeRequests, NEW rec \in SlotSet,
           rec.phase = "sent", Sends(n, rec), Honest(rec)
    PROVE  RequestsOK(request') /\ LineOK(line', request') /\ SendsFresh
<1>1. n \in 1 .. Slots /\ request[n].phase \in {"free", "returned"}
  BY DEF FreeRequests, Unfree
<1>2. /\ request' \in [1 .. Slots -> SlotSet] /\ request'[n] = rec
      /\ \A m \in 1 .. Slots : m # n => request'[m] = request[m]
  BY <1>1 DEF RequestsOK, Sends
<1>3. line \in Seq(1 .. Slots) /\ line' = Append(line, n)
      /\ \A k \in DOMAIN line : line[k] # n
  BY <1>1 DEF LineOK, Sends
<1>4. line' \in Seq(1 .. Slots) /\ \A k \in DOMAIN line' :
          (k \in DOMAIN line /\ line'[k] = line[k]) \/ (k = Len(line) + 1 /\ line'[k] = n)
  BY <1>1, <1>3
<1>5. \A j, k \in DOMAIN line' : line'[j] = line'[k] => j = k
  BY <1>3, <1>4 DEF LineOK
<1>6. \A k \in DOMAIN line' : request'[line'[k]].phase \notin {"free", "returned"}
  <2> SUFFICES ASSUME NEW k \in DOMAIN line'
               PROVE  request'[line'[k]].phase \notin {"free", "returned"}
    OBVIOUS
  <2>1. CASE k \in DOMAIN line /\ line'[k] = line[k]
    <3>0. k \in DOMAIN line /\ line \in Seq(1 .. Slots)
      BY <1>3, <2>1
    <3>1. line[k] \in 1 .. Slots /\ line[k] # n
      BY <1>3, <3>0, SlotsOfLine
    <3>2. request'[line[k]] = request[line[k]]
      BY <1>2, <3>1
    <3> QED
      BY <2>1, <3>2 DEF LineOK
  <2>2. CASE line'[k] = n
    BY <1>2, <2>2
  <2> QED
    BY <1>4, <2>1, <2>2
<1>7. \A m \in 1 .. Slots : Published(m) => m = n
  BY <1>2 DEF Published
<1>8. SendsFresh
  BY <1>2, <1>7 DEF SendsFresh, Honest
<1> QED
  BY <1>2, <1>4, <1>5, <1>6, <1>8 DEF RequestsOK, LineOK

LEMMA NoneSent ==
    ASSUME \A n \in 1 .. Slots : request'[n].phase = "sent" => request[n].phase = "sent"
    PROVE  SendsFresh
BY DEF SendsFresh, Published

\* The facts of the state that the steps of the pump keep.
Kept0 == /\ table \in TransportScenes /\ project \in ProjectSet /\ copy \in CopySet
         /\ surface \in [on : BOOLEAN, scrub : BOOLEAN] /\ budget \in [hand : Nat, app : Nat]
         /\ RequestsOK(request) /\ LineOK(line, request)
LEMMA FromIInv ==
    ASSUME LaneInv
    PROVE  Kept0 /\ LaneOK(lane, told) /\ stage \in {"drain", "settle", "stopped"} \cup LanePumping
BY DEF LaneInv, LaneKindsOK, Kept0
\* What a step of the pump owes.
Pumps == /\ LaneOK(lane', told') /\ RequestsOK(request') /\ LineOK(line', request') /\ copy' \in CopySet
         /\ stage' \in {"drain", "settle", "stopped"} \cup LanePumping
         /\ Pumped' /\ SendsFresh
LEMMA PumpsOK ==
    ASSUME Kept0, Pumps, UNCHANGED <<table, project, surface, budget>>
    PROVE  LaneInv' /\ SendsFresh
BY DEF Kept0, Pumps, LaneInv, LaneKindsOK

LEMMA SettleOK ==
    ASSUME LaneInv, NEW beat \in BOOLEAN, Settle(beat)
    PROVE  LaneInv' /\ SendsFresh
<1>1. Kept0 /\ LaneOK(lane, told) /\ lane \in LaneSet /\ LaneValueOK(lane)
  BY FromIInv DEF LaneOK, LaneValueOK
<1> DEFINE w == Waits(beat)
           i == [lane EXCEPT !.wait = w]
<1>2. w \in BOOLEAN
  BY <1>1 DEF Waits, LaneSet
<1> HIDE DEF w
<1>3. LaneOK(i, told) /\ i \in LaneSet /\ i.epoch = lane.epoch
  BY <1>1, <1>2, WaitOK
<1>4. UNCHANGED <<table, project, line, surface, budget>>
      /\ copy' = (IF stage' = "globals" THEN copy ELSE NoLaneCopy)
  BY DEF Settle
<1>5. copy' \in CopySet
  BY <1>1, <1>4, CopiesOK DEF Kept0
<1>6. CASE lane.error # "none" \/ Strange
  <2> DEFINE x == IF lane.error = "none" THEN "identity" ELSE lane.error
  <2>1. stage' = "stopped" /\ request' = request /\ told' = told
    BY <1>6 DEF Settle
  <2>2. lane' = [lane EXCEPT !.error = x]
    BY <1>1, <1>6 DEF Settle, LaneSet
  <2>3. x \in {"capacity", "identity", "expired"}
    BY <1>1 DEF LaneValueOK, LaneSet
  <2> HIDE DEF x
  <2>4. LaneOK([lane EXCEPT !.error = x], told)
    BY <1>1, <2>3, LaneErrorOK
  <2>5. SendsFresh
    BY <2>1, NoneSent
  <2>6. Pumped'
    BY <2>1 DEF Pumped, LanePumping
  <2>7. Pumps
    BY <1>1, <1>4, <1>5, <2>1, <2>2, <2>4, <2>5, <2>6 DEF Pumps, Kept0
  <2> QED
    BY <1>1, <1>4, <2>7, PumpsOK
<1>7. CASE ~(lane.error # "none" \/ Strange)
  <2>1. request' = [n \in 1 .. Slots |-> Settled(n, beat)]
    BY <1>7 DEF Settle
  <2>2. \A n \in 1 .. Slots : /\ Settled(n, beat) \in SlotSet
                              /\ Settled(n, beat).phase = "sent" => request[n].phase = "sent"
                              /\ Settled(n, beat).phase \in {"free", "returned"} =>
                                    request[n].phase \in {"free", "returned"}
    <3> SUFFICES ASSUME NEW n \in 1 .. Slots
                 PROVE  /\ Settled(n, beat) \in SlotSet
                        /\ Settled(n, beat).phase = "sent" => request[n].phase = "sent"
                        /\ Settled(n, beat).phase \in {"free", "returned"} =>
                              request[n].phase \in {"free", "returned"}
      OBVIOUS
    <3>1. request[n] \in SlotSet
      BY <1>1 DEF Kept0, RequestsOK
    <3>2. CASE request[n].phase = "returned"
      BY <3>1, <3>2 DEF Settled, SlotSet, Phases
    <3>3. CASE request[n].phase = "done" /\ beat
      BY <3>1, <3>3 DEF Settled, SlotSet, Phases
    <3>4. CASE request[n].phase # "returned" /\ ~(request[n].phase = "done" /\ beat)
      BY <3>1, <3>4 DEF Settled
    <3> QED
      BY <3>2, <3>3, <3>4
  <2>3. RequestsOK(request') /\ SendsFresh
    <3>1. \A n \in 1 .. Slots : request'[n].phase = "sent" => request[n].phase = "sent"
      BY <2>1, <2>2
    <3>2. SendsFresh
      BY <3>1, NoneSent
    <3> QED
      BY <2>1, <2>2, <3>2 DEF RequestsOK
  <2>4. LineOK(line', request')
    <3>1. line' = line /\ line \in Seq(1 .. Slots) /\ (\A j, k \in DOMAIN line : line[j] = line[k] => j = k)
          /\ \A k \in DOMAIN line : request[line[k]].phase \notin {"free", "returned"}
      BY <1>1, <1>4 DEF Kept0, LineOK
    <3>2. \A k \in DOMAIN line : line[k] \in 1 .. Slots
      BY <3>1, SlotsOfLine
    <3>3. \A k \in DOMAIN line : request'[line[k]].phase \notin {"free", "returned"}
      BY <2>1, <2>2, <3>1, <3>2
    <3> QED
      BY <3>1, <3>3 DEF LineOK
  <2>5. CASE ~surface.on
    <3>1. stage' = "drain" /\ lane' = i /\ told' = told
      BY <1>7, <2>5 DEF Settle, w
    <3>2. Pumped'
      BY <3>1 DEF Pumped, LanePumping
    <3>3. Pumps
      BY <1>3, <1>5, <2>3, <2>4, <3>1, <3>2 DEF Pumps
    <3> QED
      BY <1>1, <1>4, <3>3, PumpsOK
  <2>6. CASE surface.on /\ (~copy.ready \/ project.intent)
    <3>1. stage' = "drain" /\ lane' = JogDiscarded(lane) /\ told' = Forgiven
      BY <1>7, <2>6 DEF Settle
    <3>2. Pumped'
      BY <3>1 DEF Pumped, LanePumping
    <3>3. LaneOK(JogDiscarded(lane), Forgiven)
      BY <1>1, JogDiscardedOK
    <3>4. Pumps
      BY <1>5, <2>3, <2>4, <3>1, <3>2, <3>3 DEF Pumps
    <3> QED
      BY <1>1, <1>4, <3>4, PumpsOK
  <2>7. CASE surface.on /\ ~(~copy.ready \/ project.intent)
    <3>1. stage' = "globals" /\ told' = Recalled(copy) /\ lane' = Resynced(i, copy)
      BY <1>7, <2>7 DEF Settle, w
    <3>2. copy' = copy /\ copy \in CopySet
      BY <1>1, <1>4, <3>1 DEF Kept0
    <3>3. LaneOK(lane', told') /\ lane'.epoch = copy.epoch
      <4>1. CASE lane.epoch = copy.epoch
        <5>1. Resynced(i, copy) = i /\ Recalled(copy) = told
          BY <1>3, <4>1 DEF Resynced, Recalled
        <5> QED
          BY <1>3, <3>1, <4>1, <5>1
      <4>2. CASE lane.epoch # copy.epoch
        <5>1. i.shift = lane.shift /\ JogDiscarded(i) = JogDiscarded(lane)
          BY <1>1, <1>3 DEF LaneSet, JogDiscarded
        <5>2. Resynced(i, copy) = Resynced(lane, copy)
          BY <1>3, <4>2, <5>1 DEF Resynced
        <5> QED
          BY <1>1, <3>1, <3>2, <5>2, ResyncedOK
      <4> QED
        BY <4>1, <4>2
    <3>4. Pumped'
      BY <3>2, <3>3 DEF Pumped
    <3>5. "globals" \in LanePumping
      BY DEF LanePumping
    <3>6. Pumps
      BY <1>5, <2>3, <2>4, <3>1, <3>3, <3>4, <3>5 DEF Pumps
    <3> QED
      BY <1>1, <1>4, <3>6, PumpsOK
  <2> QED
    BY <2>5, <2>6, <2>7
<1> QED
  BY <1>6, <1>7

\* A step of the pump that publishes nothing.
LEMMA PassOK ==
    ASSUME Kept0, NEW next \in LanePumping, Pass(next), LaneOK(lane', told), lane'.epoch = lane.epoch,
           lane.epoch = copy.epoch
    PROVE  Pumps
<1>1. stage' = next /\ request' = request /\ line' = line /\ copy' = copy /\ told' = told
  BY DEF Pass
<1>2. SendsFresh
  BY <1>1, NoneSent
<1>3. Pumped'
  BY <1>1 DEF Pumped
<1> QED
  BY <1>1, <1>2, <1>3 DEF Pumps, Kept0
\* A step after which the bridge is back at the surface, or stopped.
LEMMA LeaveOK ==
    ASSUME Kept0, stage' \in {"drain", "stopped"}, request' = request, line' = line,
           copy' \in CopySet, LaneOK(lane', told')
    PROVE  Pumps
<1>1. SendsFresh
  BY NoneSent
<1>2. Pumped'
  BY DEF Pumped, LanePumping
<1> QED
  BY <1>1, <1>2 DEF Pumps, Kept0

LEMMA FreeSlot ==
    ASSUME FreeRequests # {}
    PROVE  (CHOOSE n \in FreeRequests : \A m \in FreeRequests : n <= m) \in FreeRequests
<1>1. FreeRequests \subseteq 1 .. Slots
  BY DEF FreeRequests
<1> QED
  BY <1>1, Least

LEMMA PublishOK ==
    ASSUME Kept0, stage \in LanePumping, lane.epoch = copy.epoch, FreeRequests # {}, LaneOK(lane, told),
           NEW op \in Ops, NEW amount \in Int, NEW press \in Nat, NEW spent, NEW heard,
           ~Conflicts(op), LaneOK(spent, heard), spent.epoch = lane.epoch,
           op \in {"data", "note"} => lane.wheel # 0, op = "push" => lane.push,
           LanePublish(op, amount, Hand, press, spent, heard)
    PROVE  Pumps
<1>1. CASE project.intent
  <2>1. stage' = "drain" /\ copy' = NoLaneCopy /\ request' = request /\ line' = line /\ lane' = lane
        /\ told' = told
    BY <1>1 DEF LanePublish, LaneDone
  <2>2. copy' \in CopySet
    BY <2>1, CopiesOK DEF Kept0
  <2> QED
    BY <2>1, <2>2, LeaveOK
<1>2. CASE ~project.intent
  <2> DEFINE n == CHOOSE n \in FreeRequests : \A m \in FreeRequests : n <= m
             rec == [phase |-> "sent", op |-> op, amount |-> amount, epoch |-> copy.epoch,
                     by |-> Hand, press |-> press, playing |-> copy.playing, undone |-> FALSE]
  <2>1. /\ request' = [request EXCEPT ![n] = rec] /\ line' = Append(line, n)
        /\ lane' = spent /\ told' = heard /\ stage' = stage /\ copy' = copy
    BY <1>2 DEF LanePublish
  <2>2. n \in FreeRequests
    BY FreeSlot
  <2>3. copy \in CopySet /\ Hand \in 0 .. 3 /\ Hand # Forward /\ Hand # Rewind /\ Hand # Home
    BY DEF Kept0, Hand, Forward, Rewind, Home
  <2>4. /\ rec \in SlotSet /\ rec.phase = "sent" /\ rec.by = Hand /\ rec.op = op
        /\ rec.epoch = copy.epoch
    BY <2>3 DEF SlotSet, Phases, CopySet
  <2>5. Honest(rec)
    BY <2>3, <2>4 DEF Honest, LaneOK, Fresh
  <2> HIDE DEF n, rec
  <2>6. Sends(n, rec)
    BY <2>1 DEF Sends
  <2>7. RequestsOK(request') /\ LineOK(line', request') /\ SendsFresh
    BY <2>2, <2>4, <2>5, <2>6, SendOK DEF Kept0
  <2>8. Pumped'
    BY <2>1 DEF Pumped
  <2> QED
    BY <2>1, <2>3, <2>7, <2>8 DEF Pumps
<1> QED
  BY <1>1, <1>2

LEMMA Apart ==
    ASSUME ~Busy, NEW op \in Focus
    PROVE  ~Conflicts(op) /\ op \in Ops
<1>1. op \notin Global
  BY OpsApart
<1>2. Unfree \subseteq Flying
  BY DEF Unfree, Flying
<1> QED
  BY <1>1, <1>2 DEF Conflicts, Busy, Ops

LEMMA AtPump ==
    ASSUME LaneInv, stage \in LanePumping
    PROVE  Kept0 /\ LaneOK(lane, told) /\ lane \in LaneSet /\ lane.epoch = copy.epoch
           /\ copy \in CopySet
BY FromIInv DEF LaneInv, Pumped, LaneOK, LaneValueOK, Kept0

LEMMA GlobalOutOK ==
    ASSUME LaneInv, NEW late \in BOOLEAN, GlobalOut(late)
    PROVE  LaneInv' /\ SendsFresh
<1>1. stage = "globals" /\ stage \in LanePumping /\ "globals" \in LanePumping /\ "steps" \in LanePumping
      /\ UNCHANGED <<table, project, surface, budget>>
  BY DEF GlobalOut, LanePumping
<1>2. /\ Kept0 /\ LaneOK(lane, told) /\ lane \in LaneSet /\ lane.epoch = copy.epoch
      /\ copy \in CopySet
  BY <1>1, AtPump
<1> DEFINE g == Head(lane.globals)
           spent == [lane EXCEPT !.globals = Tail(@)]
<1>3. IF lane.globals = <<>> THEN Pass("steps") /\ lane' = lane
      ELSE IF g.epoch # copy.epoch THEN Pass("globals") /\ lane' = spent
      ELSE IF late THEN Pass("stopped") /\ lane' = [lane EXCEPT !.error = "expired"]
      ELSE IF FreeRequests = {} \/ Conflicts(g.op) THEN Pass("steps") /\ lane' = lane
      ELSE LanePublish(g.op, 0, Hand, g.press, spent, told)
  BY DEF GlobalOut
<1>4. CASE lane' = lane /\ Pass("steps")
  BY <1>1, <1>2, <1>4, PassOK, PumpsOK
<1>5. CASE lane.globals # <<>>
  <2>1. lane.globals \in Seq(GlobalSet) /\ Len(lane.globals) <= Ring
    BY <1>2 DEF LaneSet, LaneOK, LaneValueOK
  <2>2. g \in GlobalSet /\ Tail(lane.globals) \in Seq(GlobalSet)
        /\ Len(Tail(lane.globals)) <= Ring
    BY <1>5, <2>1, LaneSizes
  <2> DEFINE q == Tail(lane.globals)
  <2>3. spent = [lane EXCEPT !.globals = q]
    OBVIOUS
  <2> HIDE DEF q, spent, g
  <2>4. Kin(lane, spent)
    BY <1>2, <2>2, <2>3 DEF Kin, LaneSet, q
  <2>5. LaneOK(spent, told) /\ spent.epoch = lane.epoch
    BY <1>2, <2>4, KinOK DEF Kin
  <2>6. CASE Pass("globals") /\ lane' = spent
    BY <1>1, <1>2, <2>5, <2>6, PassOK, PumpsOK
  <2>7. CASE Pass("stopped") /\ lane' = [lane EXCEPT !.error = "expired"]
    <3> DEFINE x == "expired"
    <3>1. x \in {"capacity", "identity", "expired"}
      OBVIOUS
    <3> HIDE DEF x
    <3>2. LaneOK([lane EXCEPT !.error = x], told)
      BY <1>2, <3>1, LaneErrorOK
    <3>3. stage' = "stopped" /\ request' = request /\ line' = line /\ copy' = copy /\ told' = told
      BY <2>7 DEF Pass
    <3>4. LaneOK(lane', told')
      BY <2>7, <3>2, <3>3 DEF x
    <3>5. Pumps
      BY <1>2, <3>3, <3>4, LeaveOK
    <3> QED
      BY <1>1, <1>2, <3>5, PumpsOK
  <2>8. CASE FreeRequests # {} /\ ~Conflicts(g.op) /\ LanePublish(g.op, 0, Hand, g.press, spent, told)
    <3>1. g.op \in Ops /\ g.press \in Nat /\ g.op \notin Focus /\ g.op \in Global
      BY <2>2, OpsApart DEF GlobalSet, Ops
    <3>2. g.op \notin {"data", "note"} /\ g.op # "push"
      BY <3>1 DEF Focus
    <3> DEFINE op == g.op
               press == g.press
               zero == 0
    <3>3. /\ op \in Ops /\ press \in Nat /\ zero \in Int /\ ~Conflicts(op)
          /\ LanePublish(op, zero, Hand, press, spent, told)
          /\ (op \in {"data", "note"} => lane.wheel # 0) /\ (op = "push" => lane.push)
      BY <2>8, <3>1, <3>2
    <3> HIDE DEF op, press, zero
    <3>4. Pumps
      BY <1>1, <1>2, <2>5, <2>8, <3>3, PublishOK
    <3> QED
      BY <1>1, <1>2, <3>4, PumpsOK
  <2> QED
    BY <1>3, <1>4, <1>5, <2>6, <2>7, <2>8 DEF spent, g
<1>6. CASE lane.globals = <<>>
  BY <1>3, <1>4, <1>6
<1> QED
  BY <1>5, <1>6

LEMMA AddsNothing ==
    ASSUME NEW i, NEW j, NEW t, LaneOK(i, t), Adds(i, j, t, <<>>)
    PROVE  LaneOK(j, t)
<1>1. Unpacked(i.jogs) \in Seq(UnitSet)
  BY UnpackedOK DEF LaneOK, LaneValueOK, JogsFit
<1>2. Unpacked(i.jogs) \o <<>> = Unpacked(i.jogs)
  BY <1>1
<1> QED
  BY <1>2 DEF LaneOK, Adds, Owes

\* A step that the bridge adds of its own owes the hand nothing.
LEMMA OwnJogOK ==
    ASSUME NEW i, LaneOK(i, told), NEW v \in CopySet, i.epoch = v.epoch, NEW op \in Jog,
           NEW by \in {Forward, Rewind, Home}, NEW d \in Int, d # 0, Size(d) <= Limit,
           Origin(by, told)
    PROVE  /\ LaneOK(AddJog(i, v, op, by, d), told)
           /\ AddJog(i, v, op, by, d) \in LaneSet
           /\ AddJog(i, v, op, by, d).epoch = i.epoch
           /\ AddJog(i, v, op, by, d).forward = i.forward
           /\ AddJog(i, v, op, by, d).rewind = i.rewind
           /\ AddJog(i, v, op, by, d).home = i.home
<1> DEFINE n == [op |-> op, by |-> by, d |-> d, epoch |-> v.epoch]
           a == AddJog(i, v, op, by, d)
<1>1. by \in 0 .. 3 /\ by # Hand
  BY DEF Forward, Rewind, Home, Hand
<1>2. LaneValueOK(i) /\ Fresh(i, told)
  BY DEF LaneOK
<1>3. Adds(i, a, told, Turns(n))
  BY <1>1, <1>2, AddJogOK
<1>4. Turns(n) = <<>>
  BY <1>1 DEF Turns
<1> HIDE DEF a, n
<1>5. LaneOK(a, told)
  BY <1>3, <1>4, AddsNothing
<1> QED
  BY <1>3, <1>5 DEF a, Adds, LaneValueOK

LEMMA HomewardOK ==
    ASSUME NEW i, LaneOK(i, told), copy \in CopySet, i.epoch = copy.epoch, NEW late \in BOOLEAN
    PROVE  LaneOK(Homeward(i, late), told) /\ Homeward(i, late).epoch = i.epoch
<1>1. i \in LaneSet /\ Len(i.globals) <= Ring
  BY DEF LaneOK, LaneValueOK
<1> DEFINE far == copy.bar >= Limit
           d == -(IF far THEN Limit ELSE copy.bar + 1)
           ready == /\ copy.known /\ ~copy.playing /\ ~JogFlying /\ i.jogs = <<>>
                    /\ i.stepped => copy.newer
           j == AddJog(i, copy, "bar", Home, d)
           h == [j EXCEPT !.stepped = TRUE, !.home = far]
           o == [i EXCEPT !.home = FALSE]
<1>2. Homeward(i, late) = IF ~i.home THEN i
                          ELSE IF late THEN o ELSE IF ~ready THEN i ELSE h
  BY DEF Homeward
<1>3. LaneOK(o, told) /\ o.epoch = i.epoch
  <2>1. Kin(i, o)
    BY <1>1 DEF Kin, LaneSet
  <2> HIDE DEF o
  <2> QED
    BY <2>1, KinOK DEF Kin
<1>4. ASSUME i.home PROVE LaneOK(h, told) /\ h.epoch = i.epoch
  <2>1. d \in Int /\ d # 0 /\ Size(d) <= Limit /\ far \in BOOLEAN
    BY LaneSizes DEF CopySet, Size
  <2>2. "bar" \in Jog /\ Home \in {Forward, Rewind, Home} /\ Origin(Home, told)
    BY <1>4 DEF Jog, Origin, LaneOK, Fresh, Home, Forward, Rewind
  <2> DEFINE op == "bar"
  <2>3. op \in Jog
    BY <2>2
  <2> HIDE DEF d, far, op
  <2>4. /\ LaneOK(AddJog(i, copy, op, Home, d), told)
        /\ AddJog(i, copy, op, Home, d) \in LaneSet
        /\ AddJog(i, copy, op, Home, d).epoch = i.epoch
        /\ AddJog(i, copy, op, Home, d).home = i.home
    BY <2>1, <2>2, <2>3, OwnJogOK
  <2>5. LaneOK(j, told) /\ j \in LaneSet /\ j.epoch = i.epoch /\ j.home = i.home
    BY <2>4 DEF op
  <2> HIDE DEF j
  <2>6. Kin(j, h)
    BY <1>4, <2>1, <2>5 DEF Kin, LaneSet, LaneOK, LaneValueOK
  <2> HIDE DEF h
  <2> QED
    BY <2>5, <2>6, KinOK DEF Kin
<1> HIDE DEF h, o, ready
<1> QED
  BY <1>2, <1>3, <1>4

LEMMA RepeatedOK ==
    ASSUME NEW i, LaneOK(i, told), copy \in CopySet, i.epoch = copy.epoch, NEW tick \in BOOLEAN
    PROVE  LaneOK(Repeated(i, tick), told) /\ Repeated(i, tick).epoch = i.epoch
<1> DEFINE op == "beat"
           one == 1
           minus == -1
<1>1. op \in Jog /\ one \in Int /\ minus \in Int /\ one # 0 /\ minus # 0
      /\ Size(one) <= Limit /\ Size(minus) <= Limit
  BY LaneSizes DEF Jog, Size
<1>2. /\ i.forward => Origin(Forward, told)
      /\ i.rewind => Origin(Rewind, told)
  BY DEF LaneOK, Fresh, Origin, Forward, Rewind, Home
<1>3. Repeated(i, tick) \in {i} \/ (i.forward /\ Repeated(i, tick) = AddJog(i, copy, op, Forward, one))
      \/ (i.rewind /\ Repeated(i, tick) = AddJog(i, copy, op, Rewind, minus))
  <2>1. i.forward \in BOOLEAN /\ i.rewind \in BOOLEAN
    BY DEF LaneOK, LaneValueOK, LaneSet
  <2> QED
    BY <2>1 DEF Repeated
<1> HIDE DEF op, one, minus
<1>4. ASSUME i.forward
      PROVE  /\ LaneOK(AddJog(i, copy, op, Forward, one), told)
             /\ AddJog(i, copy, op, Forward, one).epoch = i.epoch
  <2>1. Forward \in {Forward, Rewind, Home}
    OBVIOUS
  <2> QED
    BY <1>1, <1>2, <1>4, <2>1, OwnJogOK
<1>5. ASSUME i.rewind
      PROVE  /\ LaneOK(AddJog(i, copy, op, Rewind, minus), told)
             /\ AddJog(i, copy, op, Rewind, minus).epoch = i.epoch
  <2>1. Rewind \in {Forward, Rewind, Home}
    OBVIOUS
  <2> QED
    BY <1>1, <1>2, <1>5, <2>1, OwnJogOK
<1> QED
  BY <1>3, <1>4, <1>5

LEMMA StepsDueOK ==
    ASSUME LaneInv, NEW late \in BOOLEAN, NEW tick \in BOOLEAN, StepsDue(late, tick)
    PROVE  LaneInv' /\ SendsFresh
<1> DEFINE p == lane.played /\ ~(copy.known /\ copy.playing)
           i == [lane EXCEPT !.played = p]
           h == Homeward(i, late)
<1>1. /\ stage \in LanePumping /\ "jog" \in LanePumping /\ Pass("jog")
      /\ UNCHANGED <<table, project, surface, budget>>
  BY DEF StepsDue, LanePumping
<1>2. /\ Kept0 /\ LaneOK(lane, told) /\ lane \in LaneSet /\ lane.epoch = copy.epoch
      /\ copy \in CopySet
  BY <1>1, AtPump
<1>3. p \in BOOLEAN
  BY <1>2 DEF LaneSet, CopySet
<1>4. lane' = Repeated(h, tick)
  BY <1>2 DEF StepsDue, LaneSet
<1> HIDE DEF p
<1>5. Kin(lane, i)
  BY <1>2, <1>3 DEF Kin, LaneSet, LaneOK, LaneValueOK
<1> HIDE DEF i
<1>6. LaneOK(i, told) /\ i.epoch = copy.epoch
  BY <1>2, <1>5, KinOK DEF Kin
<1>7. LaneOK(h, told) /\ h.epoch = copy.epoch
  BY <1>2, <1>6, HomewardOK
<1> HIDE DEF h
<1>8. LaneOK(lane', told) /\ lane'.epoch = lane.epoch
  BY <1>2, <1>4, <1>7, RepeatedOK
<1>9. Pumps
  BY <1>1, <1>2, <1>8, PassOK
<1> QED
  BY <1>1, <1>2, <1>9, PumpsOK

\* What follows the first part of a sequence.
LEMMA RestOf ==
    ASSUME NEW S, NEW a \in Seq(S), NEW b \in Seq(S), NEW s, s = a \o b,
           NEW n, n = Len(a)
    PROVE  SubSeq(s, n + 1, Len(s)) = b
<1>1. /\ s \in Seq(S) /\ Len(s) = Len(a) + Len(b)
      /\ \A p \in 1 .. Len(a) + Len(b) : s[p] = IF p <= Len(a) THEN a[p] ELSE b[p - Len(a)]
  BY ConcatProperties
<1> DEFINE l == n + 1
           m == Len(s)
           r == SubSeq(s, l, m)
<1>2. n \in Nat /\ l \in Int /\ m \in Int /\ l = n + 1 /\ m = n + Len(b) /\ Len(b) \in Nat
  BY <1>1, LenProperties
<1>3. \A p \in l .. m : s[p] \in S
  <2>1. \A p \in l .. m : p \in 1 .. Len(s)
    BY <1>1, <1>2
  <2> QED
    BY <1>1, <2>1, ElementOfSeq
<1> HIDE DEF l, m
<1>4. /\ r \in Seq(S) /\ Len(r) = IF l <= m THEN m - l + 1 ELSE 0
      /\ \A p \in 1 .. m - l + 1 : r[p] = s[l + p - 1]
  BY <1>2, <1>3, SubSeqProperties
<1> HIDE DEF r
<1>5. Len(r) = Len(b)
  BY <1>2, <1>4
<1>6. ASSUME NEW p \in 1 .. Len(b) PROVE r[p] = b[p]
  <2>1. p \in 1 .. m - l + 1 /\ l + p - 1 = n + p /\ n + p \in 1 .. Len(a) + Len(b)
        /\ ~(n + p <= Len(a)) /\ n + p - Len(a) = p
    BY <1>2
  <2>2. r[p] = s[n + p]
    BY <1>4, <2>1
  <2>3. s[n + p] = b[n + p - Len(a)]
    <3>1. \A k \in 1 .. Len(a) + Len(b) : ~(k <= Len(a)) => s[k] = b[k - Len(a)]
      BY <1>1
    <3> QED
      BY <2>1, <3>1
  <2> QED
    BY <2>1, <2>2, <2>3
<1>7. r = b
  <2>1. r \in Seq(S) /\ b \in Seq(S) /\ Len(r) = Len(b) /\ \A p \in 1 .. Len(r) : r[p] = b[p]
    BY <1>4, <1>5, <1>6
  <2> QED
    BY <2>1, SeqEqual
<1> QED
  BY <1>7 DEF r, l, m

\* The turns of the oldest packet are no longer owed once it has gone.
Settles(i, t) == IF Head(i.jogs).by = Hand
                 THEN [t EXCEPT !.owed = SubSeq(@, Size(Head(i.jogs).d) + 1, Len(@))] ELSE t
LEMMA OldestGone ==
    ASSUME NEW i, NEW t, LaneOK(i, t), i.jogs # <<>>
    PROVE  /\ LaneOK([i EXCEPT !.jogs = Tail(@)], Settles(i, t))
           /\ [i EXCEPT !.jogs = Tail(@)].epoch = i.epoch
<1> DEFINE j == Head(i.jogs)
           q == Tail(i.jogs)
           a == [i EXCEPT !.jogs = q]
           o == SubSeq(t.owed, Size(j.d) + 1, Len(t.owed))
           b == Settles(i, t)
<1>1. i \in LaneSet /\ JogsFit(i.jogs) /\ Len(i.globals) <= Ring /\ t \in ToldSet
      /\ Fresh(i, t) /\ Owes(i, t) /\ Size(i.wheel) <= Banked /\ i.error # "closed"
  BY DEF LaneOK, LaneValueOK
<1>2. i.jogs \in Seq(JogSet) /\ t.owed \in Seq(UnitSet)
  BY <1>1 DEF JogsFit, ToldSet
<1>3. /\ q \in Seq(JogSet) /\ Len(q) = Len(i.jogs) - 1 /\ j \in JogSet
      /\ \A k \in DOMAIN q : k + 1 \in DOMAIN i.jogs /\ q[k] = i.jogs[k + 1]
  BY <1>2, HeadTailProperties, LenProperties
<1>4. JogsFit(q)
  <2>1. Len(i.jogs) \in Nat /\ Len(q) <= Ring
    BY <1>1, <1>2, <1>3, LaneSizes DEF JogsFit
  <2> QED
    BY <1>1, <1>3, <2>1 DEF JogsFit
<1>5. Unpacked(i.jogs) = Turns(j) \o Unpacked(q) /\ Unpacked(q) \in Seq(UnitSet)
      /\ Turns(j) \in Seq(UnitSet)
  BY <1>2, <1>3, UnpackedTail, UnpackedOK, TurnsOK
<1>6. Size(j.d) \in Nat
  BY <1>3 DEF JogSet, Size
<1>7. o \in Seq(UnitSet)
  <2> DEFINE l == Size(j.d) + 1
             m == Len(t.owed)
  <2>1. l \in Int /\ m \in Int /\ l >= 1
    BY <1>2, <1>6, LenProperties
  <2>2. \A p \in l .. m : t.owed[p] \in UnitSet
    <3>1. \A p \in l .. m : p \in 1 .. Len(t.owed)
      BY <2>1
    <3> QED
      BY <1>2, <3>1, ElementOfSeq
  <2> HIDE DEF l, m
  <2>3. SubSeq(t.owed, l, m) \in Seq(UnitSet)
    BY <2>1, <2>2, SubSeqProperties
  <2> QED
    BY <2>3 DEF l, m
<1>8. i.error = "none" /\ j.by = Hand => o = Unpacked(q)
  <2> SUFFICES ASSUME i.error = "none", j.by = Hand PROVE o = Unpacked(q)
    OBVIOUS
  <2>1. t.owed = Turns(j) \o Unpacked(q)
    BY <1>1, <1>5 DEF Owes
  <2>2. Len(Turns(j)) = Size(j.d)
    BY <1>6 DEF Turns, Ones
  <2> QED
    BY <1>5, <2>1, <2>2, RestOf
<1>9. j.by # Hand => Unpacked(i.jogs) = Unpacked(q)
  BY <1>5 DEF Turns
<1> HIDE DEF q, o, j
<1>10. /\ a \in LaneSet /\ a.epoch = i.epoch /\ a.jogs = q /\ a.globals = i.globals
       /\ a.forward = i.forward /\ a.rewind = i.rewind /\ a.home = i.home
       /\ a.wheel = i.wheel /\ a.push = i.push /\ a.error = i.error
  BY <1>1, <1>3 DEF LaneSet
<1>11. b = IF j.by = Hand THEN [t EXCEPT !.owed = o] ELSE t
  BY <1>1 DEF Settles, ToldSet, j, o
<1>12. /\ b \in ToldSet /\ b.keys = t.keys /\ b.home = t.home /\ b.play = t.play
       /\ b.press = t.press /\ b.wheel = t.wheel /\ b.push = t.push
       /\ b.owed = IF j.by = Hand THEN o ELSE t.owed
  BY <1>1, <1>7, <1>11 DEF ToldSet
<1> HIDE DEF a, b
<1>13. LaneValueOK(a)
  BY <1>1, <1>4, <1>10 DEF LaneValueOK
<1>14. Fresh(a, b)
  BY <1>1, <1>3, <1>10, <1>12 DEF Fresh
<1>15. Owes(a, b)
  BY <1>1, <1>8, <1>9, <1>10, <1>12 DEF Owes
<1> QED
  BY <1>10, <1>12, <1>13, <1>14, <1>15 DEF LaneOK, a, b, q

\* input' = spent in the step that sends the oldest packet, or lets it expire.
LEMMA JogOutOK ==
    ASSUME LaneInv, NEW late \in BOOLEAN, JogOut(late)
    PROVE  LaneInv' /\ SendsFresh
<1> DEFINE w == lane.wait /\ ~Admits
           a == [lane EXCEPT !.wait = w]
           j == Head(lane.jogs)
           spent == [a EXCEPT !.jogs = Tail(@)]
           heard == Settles(a, told)
<1>1. /\ stage \in LanePumping /\ "wheel" \in LanePumping /\ UNCHANGED <<table, project, surface, budget>>
  BY DEF JogOut, LanePumping
<1>2. /\ Kept0 /\ LaneOK(lane, told) /\ lane \in LaneSet /\ lane.epoch = copy.epoch
      /\ copy \in CopySet /\ told \in ToldSet
  BY <1>1, AtPump DEF LaneOK
<1>3. w \in BOOLEAN /\ Admitted = a
  BY <1>2 DEF LaneSet, Admitted
<1> HIDE DEF w
<1>4. LaneOK(a, told) /\ a \in LaneSet /\ a.epoch = lane.epoch /\ a.jogs = lane.jogs
  BY <1>2, <1>3, WaitOK
<1> HIDE DEF a
<1>5. CASE Pass("wheel") /\ lane' \in {lane, a}
  <2>1. LaneOK(lane', told) /\ lane'.epoch = lane.epoch
    BY <1>2, <1>4, <1>5
  <2> QED
    BY <1>1, <1>2, <1>5, <2>1, PassOK, PumpsOK
<1>6. CASE LaneDone /\ lane' = a /\ UNCHANGED <<request, line, told>>
  <2>1. stage' = "drain" /\ copy' = NoLaneCopy /\ request' = request /\ line' = line /\ told' = told
    BY <1>6 DEF LaneDone
  <2>2. copy' \in CopySet /\ LaneOK(lane', told')
    BY <1>2, <1>4, <1>6, <2>1, CopiesOK DEF Kept0
  <2>3. Pumps
    BY <1>2, <2>1, <2>2, LeaveOK
  <2> QED
    BY <1>1, <1>2, <2>3, PumpsOK
<1>7. lane.jogs # <<>> => LaneOK(spent, heard) /\ spent.epoch = lane.epoch
  BY <1>2, <1>4, OldestGone
<1>8. heard = IF j.by = Hand THEN [told EXCEPT !.owed = SubSeq(@, Size(j.d) + 1, Len(@))]
              ELSE told
  BY <1>4 DEF Settles
<1>9. CASE /\ lane.jogs # <<>> /\ stage' = "wheel" /\ lane' = spent /\ told' = heard
           /\ UNCHANGED <<request, line, copy>>
  <2>1. LaneOK(lane', told') /\ lane'.epoch = lane.epoch
    BY <1>7, <1>9
  <2>2. Pumped'
    BY <1>2, <1>9, <2>1 DEF Pumped
  <2>3. SendsFresh
    BY <1>9, NoneSent
  <2>4. Pumps
    BY <1>1, <1>2, <1>9, <2>1, <2>2, <2>3 DEF Pumps, Kept0
  <2> QED
    BY <1>1, <1>2, <2>4, PumpsOK
<1> DEFINE n == CHOOSE n \in FreeRequests : \A m \in FreeRequests : n <= m
           rec == [phase |-> "sent", op |-> j.op, amount |-> j.d, epoch |-> copy.epoch,
                   by |-> j.by, press |-> IF j.by = Home THEN told.home ELSE 0,
                   playing |-> copy.playing, undone |-> FALSE]
<1>10. CASE /\ lane.jogs # <<>> /\ FreeRequests # {} /\ stage' = "wheel" /\ copy' = copy
            /\ lane' = spent /\ told' = heard
            /\ request' = [request EXCEPT ![n] = rec] /\ line' = Append(line, n)
  <2>1. lane.jogs \in Seq(JogSet) /\ Fresh(lane, told)
    BY <1>2 DEF LaneOK, LaneValueOK, JogsFit
  <2>2. j \in JogSet /\ 1 \in DOMAIN lane.jogs /\ j = lane.jogs[1]
    BY <1>10, <2>1
  <2>3. /\ j.by = Forward => "forward" \in told.keys
        /\ j.by = Rewind => "rewind" \in told.keys
        /\ j.by = Home => told.home > told.play
    BY <2>1, <2>2 DEF Fresh
  <2> HIDE DEF j
  <2>4. /\ rec \in SlotSet /\ rec.phase = "sent" /\ rec.by = j.by /\ rec.op = j.op
        /\ rec.press = IF j.by = Home THEN told.home ELSE 0
    BY <1>2, <2>2 DEF SlotSet, Phases, CopySet, JogSet, Ops, ToldSet
  <2>5. rec.op \notin {"data", "note", "push"}
    BY <2>2, <2>4, OpsApart DEF JogSet, Focus
  <2>6. Honest(rec)
    BY <2>3, <2>4, <2>5 DEF Honest
  <2>7. n \in FreeRequests
    BY <1>10, FreeSlot
  <2> HIDE DEF n, rec
  <2>8. Sends(n, rec)
    BY <1>10 DEF Sends
  <2>9. RequestsOK(request') /\ LineOK(line', request') /\ SendsFresh
    BY <1>2, <2>4, <2>6, <2>7, <2>8, SendOK DEF Kept0
  <2>10. LaneOK(lane', told') /\ lane'.epoch = lane.epoch
    BY <1>7, <1>10
  <2>11. Pumped'
    BY <1>2, <1>10, <2>10 DEF Pumped
  <2>12. Pumps
    BY <1>1, <1>2, <1>10, <2>9, <2>10, <2>11 DEF Pumps
  <2> QED
    BY <1>1, <1>2, <2>12, PumpsOK
<1>11. IF lane.jogs = <<>> \/ ~Admits \/ (j.by = Home /\ copy.playing)
       THEN Pass("wheel") /\ lane' = (IF lane.jogs = <<>> THEN lane ELSE a)
       ELSE IF late
       THEN /\ stage' = "wheel" /\ lane' = spent /\ told' = heard
            /\ UNCHANGED <<request, line, copy>>
       ELSE IF FreeRequests = {} THEN Pass("wheel") /\ lane' = a
       ELSE IF project.intent THEN LaneDone /\ lane' = a /\ UNCHANGED <<request, line, told>>
       ELSE /\ request' = [request EXCEPT ![n] = rec] /\ line' = Append(line, n)
            /\ lane' = spent /\ told' = heard /\ stage' = "wheel" /\ copy' = copy
  BY <1>3, <1>8 DEF JogOut
<1> HIDE DEF j, n, rec, spent, heard
<1> QED
  BY <1>5, <1>6, <1>9, <1>10, <1>11

LEMMA WheelOutOK ==
    ASSUME LaneInv, WheelOut
    PROVE  LaneInv' /\ SendsFresh
<1> DEFINE step == Clip(lane.wheel, Steps)
           rest == lane.wheel - step
           spent == [lane EXCEPT !.wheel = rest]
<1>1. /\ stage \in LanePumping /\ "push" \in LanePumping /\ UNCHANGED <<table, project, surface, budget>>
  BY DEF WheelOut, LanePumping
<1>2. /\ Kept0 /\ LaneOK(lane, told) /\ lane \in LaneSet /\ lane.epoch = copy.epoch
      /\ copy \in CopySet /\ LaneValueOK(lane) /\ Fresh(lane, told) /\ Owes(lane, told)
      /\ told \in ToldSet
  BY <1>1, AtPump DEF LaneOK
<1>3. /\ lane.wheel \in Int /\ Size(lane.wheel) <= Banked /\ lane.unit \in {"data", "note"}
  BY <1>2 DEF LaneSet, LaneValueOK
<1>4. step \in Int /\ Size(rest) <= Size(lane.wheel) /\ Size(lane.wheel) \in Nat
  BY <1>3, LaneSizes, Clipped
<1>5. rest \in Int /\ Size(rest) <= Banked
  BY <1>3, <1>4, LaneSizes DEF Size
<1>6. IF lane.wheel = 0 \/ Busy \/ FreeRequests = {}
      THEN Pass("push") /\ lane' = lane
      ELSE LanePublish(lane.unit, step, Hand, 0, spent, told)
  BY <1>2 DEF WheelOut, LaneSet
<1> HIDE DEF step, rest
<1>7. CASE Pass("push") /\ lane' = lane
  BY <1>1, <1>2, <1>7, PassOK, PumpsOK
<1>8. CASE /\ lane.wheel # 0 /\ ~Busy /\ FreeRequests # {}
           /\ LanePublish(lane.unit, step, Hand, 0, spent, told)
  <2>1. /\ spent \in LaneSet /\ spent.epoch = lane.epoch /\ spent.jogs = lane.jogs
        /\ spent.globals = lane.globals /\ spent.forward = lane.forward
        /\ spent.rewind = lane.rewind /\ spent.home = lane.home /\ spent.wheel = rest
        /\ spent.push = lane.push /\ spent.error = lane.error
    BY <1>2, <1>5 DEF LaneSet
  <2> HIDE DEF spent
  <2>2. LaneOK(spent, told)
    BY <1>2, <1>5, <1>8, <2>1 DEF LaneOK, LaneValueOK, Fresh, Owes
  <2> DEFINE op == lane.unit
             zero == 0
  <2>3. op \in Focus /\ zero \in Nat /\ op # "push"
    BY <1>3 DEF Focus
  <2>4. LanePublish(op, step, Hand, zero, spent, told)
    BY <1>8
  <2> HIDE DEF op, zero
  <2>5. ~Conflicts(op) /\ op \in Ops
    BY <1>8, <2>3, Apart
  <2>6. Pumps
    BY <1>1, <1>2, <1>4, <1>8, <2>1, <2>2, <2>3, <2>4, <2>5, PublishOK
  <2> QED
    BY <1>1, <1>2, <2>6, PumpsOK
<1> QED
  BY <1>6, <1>7, <1>8

LEMMA PushOutOK ==
    ASSUME LaneInv, PushOut
    PROVE  LaneInv' /\ SendsFresh
<1> DEFINE spent == [lane EXCEPT !.push = FALSE]
<1>1. /\ stage \in LanePumping /\ UNCHANGED <<table, project, surface, budget>>
  BY DEF PushOut, LanePumping
<1>2. /\ Kept0 /\ LaneOK(lane, told) /\ lane \in LaneSet /\ lane.epoch = copy.epoch
      /\ copy \in CopySet /\ LaneValueOK(lane) /\ Fresh(lane, told) /\ Owes(lane, told)
      /\ told \in ToldSet
  BY <1>1, AtPump DEF LaneOK
<1>3. IF ~lane.push \/ Busy \/ FreeRequests = {}
      THEN LaneDone /\ UNCHANGED <<request, line, lane, told>>
      ELSE LanePublish("push", 0, Hand, 0, spent, told)
  BY DEF PushOut
<1>4. CASE LaneDone /\ UNCHANGED <<request, line, lane, told>>
  <2>1. /\ stage' = "drain" /\ copy' = NoLaneCopy /\ request' = request /\ line' = line /\ told' = told
        /\ lane' = lane
    BY <1>4 DEF LaneDone
  <2>2. copy' \in CopySet /\ LaneOK(lane', told')
    BY <1>2, <2>1, CopiesOK DEF Kept0
  <2>3. Pumps
    BY <1>2, <2>1, <2>2, LeaveOK
  <2> QED
    BY <1>1, <1>2, <2>3, PumpsOK
<1>5. CASE /\ lane.push /\ ~Busy /\ FreeRequests # {} /\ LanePublish("push", 0, Hand, 0, spent, told)
  <2>1. /\ spent \in LaneSet /\ spent.epoch = lane.epoch /\ spent.jogs = lane.jogs
        /\ spent.globals = lane.globals /\ spent.forward = lane.forward
        /\ spent.rewind = lane.rewind /\ spent.home = lane.home
        /\ spent.wheel = lane.wheel /\ spent.push = FALSE /\ spent.error = lane.error
    BY <1>2 DEF LaneSet
  <2> HIDE DEF spent
  <2>2. LaneOK(spent, told)
    BY <1>2, <2>1 DEF LaneOK, LaneValueOK, Fresh, Owes
  <2> DEFINE op == "push"
             zero == 0
  <2>3. op \in Focus /\ zero \in Nat /\ zero \in Int /\ op \notin {"data", "note"}
    BY DEF Focus
  <2>4. LanePublish(op, zero, Hand, zero, spent, told)
    BY <1>5
  <2> HIDE DEF op, zero
  <2>5. ~Conflicts(op) /\ op \in Ops
    BY <1>5, <2>3, Apart
  <2>6. Pumps
    BY <1>1, <1>2, <1>5, <2>1, <2>2, <2>3, <2>4, <2>5, PublishOK
  <2> QED
    BY <1>1, <1>2, <2>6, PumpsOK
<1> QED
  BY <1>3, <1>4, <1>5

\* The copy, and the surface that comes and goes.
LEMMA LaneCopyOK ==
    ASSUME LaneInv, NEW newer \in BOOLEAN, TakeCopy(newer)
    PROVE  LaneInv' /\ SendsFresh
<1>1. Kept0 /\ LaneOK(lane, told)
  BY FromIInv
<1>2. /\ stage' = "settle" /\ copy' = LaneCopied(newer)
      /\ UNCHANGED <<table, project, request, line, surface, lane, budget, told>>
  BY DEF TakeCopy
<1>3. copy' \in CopySet
  BY <1>1, <1>2 DEF Kept0, LaneCopied, ProjectSet, CopySet
<1>4. Pumped'
  BY <1>2 DEF Pumped, LanePumping
<1>5. SendsFresh
  BY <1>2, NoneSent
<1>6. Pumps
  BY <1>1, <1>2, <1>3, <1>4, <1>5 DEF Pumps, Kept0
<1> QED
  BY <1>1, <1>2, <1>6, PumpsOK

LEMMA CopyFailsOK ==
    ASSUME LaneInv, TakeCopyFails
    PROVE  LaneInv' /\ SendsFresh
<1>1. Kept0 /\ LaneOK(lane, told)
  BY FromIInv
<1>2. /\ stage = "drain" /\ copy' = NoLaneCopy
      /\ lane' = (IF surface.on THEN lane ELSE JogDiscarded(lane))
      /\ told' = (IF surface.on THEN told ELSE Forgiven)
      /\ UNCHANGED <<table, project, request, line, stage, surface, budget>>
  BY DEF TakeCopyFails
<1>3. copy' \in CopySet
  BY <1>1, <1>2, CopiesOK DEF Kept0
<1>4. LaneOK(lane', told')
  BY <1>1, <1>2, JogDiscardedOK
<1>5. Pumps
  BY <1>1, <1>2, <1>3, <1>4, LeaveOK
<1> QED
  BY <1>1, <1>2, <1>5, PumpsOK

LEMMA UnplugOK ==
    ASSUME LaneInv, Unplug
    PROVE  LaneInv' /\ SendsFresh
<1>1. Kept0 /\ LaneOK(lane, told)
  BY FromIInv
<1>2. /\ stage = "drain" /\ surface' = [on |-> FALSE, scrub |-> FALSE] /\ copy' = NoLaneCopy
      /\ lane' = JogDiscarded(lane) /\ told' = Forgiven /\ budget.app > 0
      /\ budget' = [budget EXCEPT !.app = @ - 1]
      /\ UNCHANGED <<table, project, request, line, stage>>
  BY DEF Unplug
<1>3. copy' \in CopySet
  BY <1>1, <1>2, CopiesOK DEF Kept0
<1>4. LaneOK(lane', told')
  BY <1>1, <1>2, JogDiscardedOK
<1>5. Pumps
  BY <1>1, <1>2, <1>3, <1>4, LeaveOK
<1>6. surface' \in [on : BOOLEAN, scrub : BOOLEAN] /\ budget' \in [hand : Nat, app : Nat]
  BY <1>1, <1>2 DEF Kept0
<1> QED
  BY <1>1, <1>2, <1>5, <1>6 DEF LaneInv, LaneKindsOK, Kept0, Pumps

LEMMA PlugOK ==
    ASSUME LaneInv, Plug
    PROVE  LaneInv' /\ SendsFresh
<1>1. Kept0 /\ LaneOK(lane, told)
  BY FromIInv
<1>2. /\ stage = "drain" /\ surface' = [surface EXCEPT !.on = TRUE]
      /\ UNCHANGED <<table, project, request, line, stage, copy, lane, budget, told>>
  BY DEF Plug
<1>3. copy' \in CopySet
  BY <1>1, <1>2 DEF Kept0
<1>5. Pumps
  BY <1>1, <1>2, <1>3, LeaveOK
<1>6. surface' \in [on : BOOLEAN, scrub : BOOLEAN]
  BY <1>1, <1>2 DEF Kept0
<1> QED
  BY <1>1, <1>2, <1>5, <1>6 DEF LaneInv, LaneKindsOK, Kept0, Pumps

-----------------------------------------------------------------------------
\* The application, which touches neither the lane nor what the hand is owed.

\* A request that stays in use keeps its place.
LEMMA LaneMovesOn ==
    ASSUME RequestsOK(request), LineOK(line, request), NEW n \in 1 .. Slots, NEW rec \in SlotSet,
           request' = [request EXCEPT ![n] = rec], line' = line,
           rec.phase \notin {"free", "returned", "sent"}
    PROVE  RequestsOK(request') /\ LineOK(line', request') /\ SendsFresh
<1>1. /\ request' \in [1 .. Slots -> SlotSet] /\ request'[n] = rec
      /\ \A m \in 1 .. Slots : m # n => request'[m] = request[m]
  BY DEF RequestsOK
<1>2. line \in Seq(1 .. Slots)
  BY DEF LineOK
<1>3. ASSUME NEW k \in DOMAIN line PROVE request'[line[k]].phase \notin {"free", "returned"}
  <2>1. line[k] \in 1 .. Slots
    BY <1>2, SlotsOfLine
  <2>2. request[line[k]].phase \notin {"free", "returned"}
    BY DEF LineOK
  <2> QED
    BY <1>1, <2>1, <2>2
<1>4. LineOK(line', request')
  BY <1>3 DEF LineOK
<1>5. SendsFresh
  BY <1>1, NoneSent
<1> QED
  BY <1>1, <1>4, <1>5 DEF RequestsOK

\* What a step of the application owes.
Serves == /\ project' \in ProjectSet /\ budget' \in [hand : Nat, app : Nat]
          /\ RequestsOK(request') /\ LineOK(line', request') /\ LaneOK(lane, told') /\ SendsFresh
LEMMA ServesOK ==
    ASSUME LaneInv, Serves, UNCHANGED <<table, stage, surface, copy, lane>>
    PROVE  LaneInv' /\ SendsFresh
BY DEF Serves, LaneInv, LaneKindsOK, Pumped

LEMMA ServeOK ==
    ASSUME LaneInv, NEW n \in 1 .. Slots, Serve(n)
    PROVE  LaneInv' /\ SendsFresh
<1> DEFINE ph == IF request[n].op \in Jog \cup Transport THEN "active" ELSE "done"
           rec == [request[n] EXCEPT !.phase = ph]
           m == IF request[n].press > told.last THEN request[n].press ELSE told.last
           t == [told EXCEPT !.last = m]
<1>1. Kept0 /\ LaneOK(lane, told) /\ told \in ToldSet /\ request \in [1 .. Slots -> SlotSet]
  BY FromIInv DEF LaneOK, Kept0, RequestsOK
<1>2. /\ request' = [request EXCEPT ![n] = rec] /\ told' = t
      /\ UNCHANGED <<table, project, line, stage, surface, copy, lane, budget>>
  BY <1>1 DEF Serve, ToldSet
<1>3. ph \in {"active", "done"} /\ m \in Nat
  BY <1>1 DEF SlotSet, ToldSet
<1> HIDE DEF ph, m
<1>4. rec \in SlotSet /\ rec.phase \notin {"free", "returned", "sent"}
  BY <1>1, <1>3 DEF SlotSet, Phases
<1>5. /\ t \in ToldSet /\ t.keys = told.keys /\ t.home = told.home /\ t.play = told.play
      /\ t.press = told.press /\ t.wheel = told.wheel /\ t.push = told.push /\ t.owed = told.owed
  BY <1>1, <1>3 DEF ToldSet
<1> HIDE DEF rec, t
<1>6. LaneOK(lane, t)
  BY <1>1, <1>5 DEF LaneOK, Fresh, Owes
<1>7. RequestsOK(request') /\ LineOK(line', request') /\ SendsFresh
  BY <1>1, <1>2, <1>4, LaneMovesOn DEF Kept0
<1>8. Serves
  BY <1>1, <1>2, <1>6, <1>7 DEF Serves, Kept0
<1> QED
  BY <1>2, <1>8, ServesOK

LEMMA RefuseOK ==
    ASSUME LaneInv, NEW n \in 1 .. Slots, LaneRefuse(n)
    PROVE  LaneInv' /\ SendsFresh
<1> DEFINE u == request[n].op \in Jog
           rec == [request[n] EXCEPT !.phase = "refused", !.undone = u]
<1>1. Kept0 /\ LaneOK(lane, told) /\ request \in [1 .. Slots -> SlotSet]
  BY FromIInv DEF Kept0, RequestsOK
<1>2. /\ request' = [request EXCEPT ![n] = rec]
      /\ UNCHANGED <<table, project, line, stage, surface, copy, lane, budget, told>>
  BY <1>1 DEF LaneRefuse
<1>3. u \in BOOLEAN
  OBVIOUS
<1> HIDE DEF u
<1>4. rec \in SlotSet /\ rec.phase \notin {"free", "returned", "sent"}
  BY <1>1, <1>3 DEF SlotSet, Phases
<1> HIDE DEF rec
<1>7. RequestsOK(request') /\ LineOK(line', request') /\ SendsFresh
  BY <1>1, <1>2, <1>4, LaneMovesOn DEF Kept0
<1>8. Serves
  BY <1>1, <1>2, <1>7 DEF Serves, Kept0
<1> QED
  BY <1>2, <1>8, ServesOK

LEMMA ReturnOK ==
    ASSUME LaneInv, NEW n \in 1 .. Slots, Return(n)
    PROVE  LaneInv' /\ SendsFresh
<1> DEFINE gone == request[n].op \in Transport /\ request[n].epoch # project.epoch
           ph == IF gone THEN "lost" ELSE "done"
           p == request[n].playing \/ project.playing
           rec == [request[n] EXCEPT !.phase = ph, !.playing = p]
           bar == IF request[n].op # "bar" \/ project.bar + request[n].amount < 0 THEN 0
                  ELSE project.bar + request[n].amount
           plays == request[n].op = "play"
<1>1. Kept0 /\ LaneOK(lane, told) /\ request \in [1 .. Slots -> SlotSet] /\ project \in ProjectSet
  BY FromIInv DEF Kept0, RequestsOK
<1>2. /\ request' = [request EXCEPT ![n] = rec]
      /\ project' = CASE gone -> project
                      [] request[n].op \in Jog -> [project EXCEPT !.advanced = FALSE, !.bar = bar]
                      [] OTHER -> [project EXCEPT !.playing = plays]
      /\ UNCHANGED <<table, line, stage, surface, copy, lane, budget, told>>
  <2>1. request[n] \in SlotSet
    BY <1>1
  <2>2. rec = [request[n] EXCEPT !.phase = ph, !.playing = @ \/ project.playing]
    BY <2>1 DEF SlotSet
  <2>3. [project EXCEPT !.advanced = FALSE, !.bar = bar]
         = [project EXCEPT !.advanced = FALSE,
                           !.bar = IF request[n].op # "bar" \/ @ + request[n].amount < 0 THEN 0
                                   ELSE @ + request[n].amount]
    BY <1>1 DEF ProjectSet
  <2>4. request' = [request EXCEPT ![n] = [request[n] EXCEPT !.phase = ph, !.playing = @ \/ project.playing]]
    BY <1>1 DEF Return
  <2>5. request' = [request EXCEPT ![n] = rec]
    BY <2>2, <2>4
  <2>6. /\ project' = CASE gone -> project
                        [] request[n].op \in Jog ->
                             [project EXCEPT !.advanced = FALSE,
                                 !.bar = IF request[n].op # "bar" \/ @ + request[n].amount < 0 THEN 0
                                         ELSE @ + request[n].amount]
                        [] OTHER -> [project EXCEPT !.playing = request[n].op = "play"]
        /\ UNCHANGED <<table, line, stage, surface, copy, lane, budget, told>>
    BY DEF Return
  <2>7. (CASE gone -> project
           [] request[n].op \in Jog ->
                [project EXCEPT !.advanced = FALSE,
                    !.bar = IF request[n].op # "bar" \/ @ + request[n].amount < 0 THEN 0
                            ELSE @ + request[n].amount]
           [] OTHER -> [project EXCEPT !.playing = request[n].op = "play"])
        = (CASE gone -> project
             [] request[n].op \in Jog -> [project EXCEPT !.advanced = FALSE, !.bar = bar]
             [] OTHER -> [project EXCEPT !.playing = plays])
    BY <2>3
  <2> QED
    BY <2>5, <2>6, <2>7
<1>3. ph \in {"lost", "done"} /\ p \in BOOLEAN /\ plays \in BOOLEAN /\ bar \in Nat
  BY <1>1 DEF SlotSet, ProjectSet
<1> HIDE DEF ph, p, plays, bar, gone
<1>4. rec \in SlotSet /\ rec.phase \notin {"free", "returned", "sent"}
  BY <1>1, <1>3 DEF SlotSet, Phases
<1>5. project' \in ProjectSet
  BY <1>1, <1>2, <1>3 DEF ProjectSet
<1> HIDE DEF rec
<1>7. RequestsOK(request') /\ LineOK(line', request') /\ SendsFresh
  BY <1>1, <1>2, <1>4, LaneMovesOn DEF Kept0
<1>8. Serves
  BY <1>1, <1>2, <1>5, <1>7 DEF Serves, Kept0
<1> QED
  BY <1>2, <1>8, ServesOK

LEMMA ReclaimOK ==
    ASSUME LaneInv, NEW n \in 1 .. Slots, LaneReclaim(n)
    PROVE  LaneInv' /\ SendsFresh
<1> DEFINE rec == [request[n] EXCEPT !.phase = "returned"]
           S == 1 .. Slots
<1>1. Kept0 /\ LaneOK(lane, told) /\ request \in [1 .. Slots -> SlotSet]
  BY FromIInv DEF Kept0, RequestsOK
<1>2. /\ request' = [request EXCEPT ![n] = rec]
      /\ UNCHANGED <<table, project, stage, surface, copy, lane, budget, told>>
  BY <1>1 DEF LaneReclaim
<1>3. rec \in SlotSet /\ rec.phase = "returned"
  BY <1>1 DEF SlotSet, Phases
<1> HIDE DEF rec
<1>4. /\ RequestsOK(request') /\ request'[n].phase = "returned"
      /\ \A m \in 1 .. Slots : m # n => request'[m] = request[m]
  BY <1>1, <1>2, <1>3 DEF RequestsOK
<1>5. PICK k \in DOMAIN line : line[k] = n /\ line' = RemoveAt(line, k)
  BY DEF LaneReclaim
<1>6. /\ line \in Seq(S) /\ \A j, m \in DOMAIN line : line[j] = line[m] => j = m
      /\ \A m \in DOMAIN line : request[line[m]].phase \notin {"free", "returned"}
  BY <1>1 DEF Kept0, LineOK
<1>61. \A m \in DOMAIN line : line[m] \in 1 .. Slots
  BY <1>6, SlotsOfLine
<1> HIDE DEF S
<1>7. k \in 1 .. Len(line)
  BY <1>6
<1>8. /\ line' \in Seq(S)
      /\ \A m \in DOMAIN line' : LaneWas(k, m) \in DOMAIN line /\ LaneWas(k, m) # k
                                 /\ line'[m] = line[LaneWas(k, m)]
  BY <1>5, <1>6, <1>7, LaneRemovedAt
<1>9. ASSUME NEW j \in DOMAIN line', NEW m \in DOMAIN line', line'[j] = line'[m]
      PROVE  j = m
  <2>1. LaneWas(k, j) = LaneWas(k, m)
    BY <1>6, <1>8, <1>9
  <2>2. j \in Nat /\ m \in Nat /\ k \in Nat
    BY <1>7, <1>8
  <2> QED
    BY <2>1, <2>2 DEF LaneWas
<1>10. ASSUME NEW m \in DOMAIN line' PROVE request'[line'[m]].phase \notin {"free", "returned"}
  <2>1. LaneWas(k, m) \in DOMAIN line /\ LaneWas(k, m) # k /\ line'[m] = line[LaneWas(k, m)]
    BY <1>8
  <2>2. line'[m] \in 1 .. Slots /\ line'[m] # n
    BY <1>5, <1>6, <1>61, <2>1
  <2> QED
    BY <1>4, <1>6, <2>1, <2>2
<1>11. LineOK(line', request')
  BY <1>8, <1>9, <1>10 DEF LineOK, S
<1>12. SendsFresh
  BY <1>4, NoneSent
<1>13. Serves
  BY <1>1, <1>2, <1>4, <1>11, <1>12 DEF Serves, Kept0
<1> QED
  BY <1>2, <1>13, ServesOK

\* What the application does of its own.
LEMMA OwnOK ==
    ASSUME LaneInv, project' \in ProjectSet, budget' \in [hand : Nat, app : Nat],
           UNCHANGED <<table, request, line, stage, surface, copy, lane, told>>
    PROVE  LaneInv' /\ SendsFresh
<1>1. Kept0 /\ LaneOK(lane, told)
  BY FromIInv
<1>2. SendsFresh
  BY NoneSent
<1>3. Serves
  BY <1>1, <1>2 DEF Serves, Kept0
<1> QED
  BY <1>3, ServesOK

LEMMA ApplicationOK ==
    ASSUME LaneInv, LaneApplication
    PROVE  LaneInv' /\ SendsFresh
<1>1. project \in ProjectSet /\ budget \in [hand : Nat, app : Nat]
  BY FromIInv DEF Kept0
<1>2. ASSUME NEW move, NEW now \in ProjectSet, LaneOwn(move, now)
      PROVE  LaneInv' /\ SendsFresh
  <2>1. /\ budget.app > 0 /\ budget' = [budget EXCEPT !.app = @ - 1] /\ project' = now
        /\ UNCHANGED <<table, request, line, stage, surface, copy, lane, told>>
    BY <1>2 DEF LaneOwn
  <2>2. budget' \in [hand : Nat, app : Nat]
    BY <1>1, <2>1
  <2> QED
    BY <1>2, <2>1, <2>2, OwnOK
<1>3. CASE \E n \in 1 .. Slots : Serve(n) \/ LaneRefuse(n) \/ Return(n) \/ LaneReclaim(n)
  BY <1>3, ServeOK, RefuseOK, ReturnOK, ReclaimOK
<1>4. CASE LaneOwn("transport", [project EXCEPT !.playing = ~@, !.advanced = FALSE])
  <2>1. [project EXCEPT !.playing = ~@, !.advanced = FALSE] \in ProjectSet
    BY <1>1 DEF ProjectSet
  <2> QED
    BY <1>2, <1>4, <2>1
<1>5. CASE LaneOwn("known", [project EXCEPT !.known = ~@])
  <2>1. [project EXCEPT !.known = ~@] \in ProjectSet
    BY <1>1 DEF ProjectSet
  <2> QED
    BY <1>2, <1>5, <2>1
<1>6. CASE LaneOwn("intend", [project EXCEPT !.intent = TRUE])
  <2>1. [project EXCEPT !.intent = TRUE] \in ProjectSet
    BY <1>1 DEF ProjectSet
  <2> QED
    BY <1>2, <1>6, <2>1
<1>7. CASE LaneOwn("load", [project EXCEPT !.ready = FALSE, !.epoch = @ + 1, !.intent = FALSE,
                                           !.playing = FALSE])
  <2> DEFINE next == project.epoch + 1
  <2>1. next \in Nat
    BY <1>1 DEF ProjectSet
  <2> HIDE DEF next
  <2>2. [project EXCEPT !.ready = FALSE, !.epoch = next, !.intent = FALSE,
                        !.playing = FALSE] \in ProjectSet
    BY <1>1, <2>1 DEF ProjectSet
  <2> QED
    BY <1>2, <1>7, <2>2 DEF next
<1>8. CASE /\ project' = [project EXCEPT !.ready = TRUE, !.advanced = @ \/ project.playing]
           /\ UNCHANGED <<table, request, line, stage, surface, copy, lane, budget, told>>
  <2>1. project' \in ProjectSet
    BY <1>1, <1>8 DEF ProjectSet
  <2> QED
    BY <1>1, <1>8, <2>1, OwnOK
<1> QED
  BY <1>3, <1>4, <1>5, <1>6, <1>7, <1>8 DEF LaneApplication

-----------------------------------------------------------------------------
\* The whole.

LEMMA LaneInitOK ==
    ASSUME LaneInit
    PROVE  LaneInv
<1>1. /\ table \in TransportScenes
      /\ project = [epoch |-> 1, ready |-> TRUE, intent |-> FALSE, known |-> TRUE,
                    playing |-> FALSE, bar |-> table.bar, advanced |-> FALSE]
      /\ request = [n \in 1 .. Slots |-> NoRequest] /\ line = <<>>
      /\ stage = "drain" /\ surface = [on |-> TRUE, scrub |-> table.scrub]
      /\ copy = NoLaneCopy /\ lane = NoLane
      /\ budget = [hand |-> table.hand, app |-> table.app] /\ told = Untold
  BY DEF LaneInit
<1>2. table.hand \in Nat /\ table.app \in Nat /\ table.bar \in Nat /\ table.scrub \in BOOLEAN
  BY <1>1, ScenesAssumption
<1>3. /\ project \in ProjectSet /\ surface \in [on : BOOLEAN, scrub : BOOLEAN]
      /\ budget \in [hand : Nat, app : Nat]
  BY <1>1, <1>2 DEF ProjectSet
<1>4. copy \in CopySet
  BY <1>1 DEF NoLaneCopy, CopySet
<1>5. RequestsOK(request)
  <2>1. NoRequest \in SlotSet
    BY DEF NoRequest, SlotSet, Phases, Ops, Global, Hand
  <2> QED
    BY <1>1, <2>1 DEF RequestsOK
<1>6. LineOK(line, request)
  BY <1>1 DEF LineOK
<1>7. LaneKindsOK
  BY <1>1, <1>3, <1>4, <1>5, <1>6 DEF LaneKindsOK
<1>8. /\ lane.jogs = <<>> /\ lane.globals = <<>> /\ ~lane.forward /\ ~lane.rewind
      /\ ~lane.home /\ lane.wheel = 0 /\ ~lane.push /\ lane.error = "none"
  BY <1>1 DEF NoLane
<1>9. LaneValueOK(lane)
  BY <1>1, <1>8, NoJogs, LaneSizes DEF LaneValueOK, Size
<1>10. told \in ToldSet /\ told.play = 0 /\ told.press = 0 /\ told.owed = <<>>
  <2>1. <<>> \in Seq(UnitSet)
    OBVIOUS
  <2> QED
    BY <1>1, <2>1 DEF Untold, ToldSet, Held
<1>11. Fresh(lane, told)
  BY <1>8, <1>10 DEF Fresh
<1>12. Owes(lane, told)
  BY <1>8, <1>10, NoJogs DEF Owes
<1>13. Pumped
  BY <1>1 DEF Pumped, LanePumping
<1> QED
  BY <1>7, <1>9, <1>10, <1>11, <1>12, <1>13 DEF LaneInv, LaneOK

\* Every step keeps the invariant, and sends nothing that was taken back.
LEMMA StepOK ==
    ASSUME LaneInv, [LaneNext]_laneVars
    PROVE  LaneInv' /\ SendsFresh
<1>1. ASSUME NEW e \in table.events, HearLane(e) PROVE LaneInv' /\ SendsFresh
  <2>1. request' = request
    BY <1>1 DEF HearLane
  <2>2. SendsFresh
    BY <2>1, NoneSent
  <2> QED
    BY <1>1, <2>2, HearOK
<1>2. CASE LaneBridge
  BY <1>2, LaneCopyOK, SettleOK, GlobalOutOK, JogOutOK, StepsDueOK, CopyFailsOK, WheelOutOK,
     PushOutOK, UnplugOK, PlugOK DEF LaneBridge
<1>3. CASE LaneApplication
  BY <1>3, ApplicationOK
<1>4. CASE UNCHANGED laneVars
  <2>1. UNCHANGED <<table, project, request, line, stage, surface, copy, lane, budget, told>>
    BY <1>4 DEF laneVars
  <2>2. project' \in ProjectSet /\ budget' \in [hand : Nat, app : Nat]
    BY <2>1, FromIInv DEF Kept0
  <2> QED
    BY <2>1, <2>2, OwnOK
<1> QED
  BY <1>1, <1>2, <1>3, <1>4 DEF LaneNext

\* The lane is always as the invariant says: its values have their types, the line
\* holds every request in use once, and what waits in the lane is the project's,
\* has not been taken back and is what the hand is owed.
THEOREM LaneHolds == LaneSpec => []LaneInv
<1>1. LaneInit => LaneInv
  BY LaneInitOK
<1>2. LaneInv /\ [LaneNext]_laneVars => LaneInv'
  BY StepOK
<1> QED
  BY <1>1, <1>2, PTL DEF LaneSpec

\* TypeOK of the model follows: the rings, the counters and the packets stay within
\* their limits whatever the hand does (input_jog_add_origin, input_global_add,
\* input_counted_focus_add).
THEOREM LaneTypes == LaneSpec => []LaneTypeOK
<1>1. LaneInv => LaneTypeOK
  <2> SUFFICES ASSUME LaneInv PROVE LaneTypeOK
    OBVIOUS
  <2>1. /\ Kept0 /\ LaneValueOK(lane) /\ stage \in {"drain", "settle", "stopped"} \cup LanePumping
    BY FromIInv DEF LaneOK
  <2>2. \A n \in 1 .. Slots : request[n].phase \in Phases /\ request[n].op \in Ops
    BY <2>1 DEF Kept0, RequestsOK, SlotSet
  <2>3. line \in Seq(1 .. Slots) /\ \A j, k \in DOMAIN line : line[j] = line[k] => j = k
    BY <2>1 DEF Kept0, LineOK
  <2>4. IsInjective(line)
    BY <2>3 DEF IsInjective
  <2>5. ToSet(line) \subseteq 1 .. Slots
    BY <2>3, SlotsOfLine DEF ToSet
  <2>6. lane.error \in {"none", "capacity", "identity", "expired", "closed"}
    BY <2>1 DEF LaneValueOK, LaneSet
  <2> QED
    BY <2>1, <2>2, <2>4, <2>5, <2>6 DEF LaneTypeOK, LaneValueOK, JogsFit, LanePumping, Phases, Ops
<1> QED
  BY <1>1, LaneHolds, PTL

\* The bridge never publishes into a conflict with a request of its own, which would
\* stop it for good (input_pump_mode, command_publish_request_at).
THEOREM LaneNeverAgainstItself == LaneSpec => []NoLaneConflict
<1>1. LaneInv => NoLaneConflict
  BY DEF LaneInv, LaneOK, LaneValueOK, NoLaneConflict
<1> QED
  BY <1>1, LaneHolds, PTL

\* The turns that wait are the turns the hand is owed, in their order and whole,
\* however the packets were joined, split off, forgotten or sent (input_jog_add_origin).
THEOREM TurnsWait == LaneSpec => []TurnsArriveInOrder
<1>1. LaneInv => TurnsArriveInOrder
  BY DEF LaneInv, LaneOK, Owes, TurnsArriveInOrder
<1> QED
  BY <1>1, LaneHolds, PTL

\* Nothing that the hand took back is sent (surface_jog, input_stop_button,
\* input_stop_home, input_jog_release, input_jog_resync).
THEOREM SentAsMeant == LaneSpec => NothingStaleIsSent
<1>1. LaneInv /\ [LaneNext]_laneVars =>
        [\A n \in 1 .. Slots : Published(n) =>
            /\ request'[n].by = Forward => "forward" \in told.keys
            /\ request'[n].by = Rewind => "rewind" \in told.keys
            /\ request'[n].by = Home => request'[n].press > told.play
            /\ request'[n].op \in {"data", "note"} => request'[n].epoch = told.wheel
            /\ request'[n].op = "push" => request'[n].epoch = told.push]_laneVars
  BY StepOK DEF SendsFresh
<1> QED
  BY <1>1, LaneHolds, PTL DEF LaneSpec, NothingStaleIsSent

-----------------------------------------------------------------------------
\* The two lanes of the bridge side by side (MCInput).  A step of one leaves the other
\* as it is, so what each promises by itself they promise together, in any scene.
LEMMA EachLaneRuns == InputSpec => Spec /\ LaneSpec
<1>1. InputInit => Init /\ LaneInit
  BY DEF InputInit
<1>2. [InputNext]_<<part, vars, laneVars>> => [Next]_vars /\ [LaneNext]_laneVars
  BY DEF InputNext, vars, laneVars
<1> QED
  BY <1>1, <1>2, PTL DEF InputSpec, Spec, LaneSpec

\* Both lanes keep within their types and bounds (mirror-input-core.h).
THEOREM LanesKeepTheirTypes == InputSpec => []InputTypeOK
<1>1. TypeOK /\ LaneTypeOK => InputTypeOK
  BY DEF InputTypeOK
<1> QED
  BY <1>1, EachLaneRuns, SurfaceTypes, LaneTypes, PTL

\* Neither lane publishes into a conflict with a request of its own, which would
\* stop the bridge for good (command_publish_request_at).
THEOREM LanesNeverConflict == InputSpec => []NeverSentIntoConflict
<1>1. NoSelfConflict /\ NoLaneConflict => NeverSentIntoConflict
  BY DEF NeverSentIntoConflict
<1> QED
  BY <1>1, EachLaneRuns, NeverAgainstItself, LaneNeverAgainstItself, PTL
===============================================================================
