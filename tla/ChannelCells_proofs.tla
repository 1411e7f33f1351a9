------------------------- MODULE ChannelCells_proofs -------------------------
(***************************************************************************)
(* Proofs about the retained channel fields, for any number of addresses,  *)
(* fields, owner slots, cells, words, probes and retries: every index      *)
(* stays in its table and no counter wraps, one thread at a time changes a *)
(* cell, and a copy the reader calls available is a value that the field   *)
(* it asked for really had while the copy was made.                        *)
(*                                                                         *)
(* The argument for the copy is that of a sequence lock: whoever changes a *)
(* cell holds its revision, which is odd until it lets go, so a revision   *)
(* that is even and has not moved says that nothing else has.              *)
(*                                                                         *)
(* The second part shows that the field of a living object is always found *)
(* by a probe. A record is placed when its entry is a word of its key's    *)
(* chain, and the chain reaches that word over full words none of which    *)
(* names another record with the key. Words are never emptied, so what     *)
(* could displace a record is a word taken over that is not stale, a       *)
(* second record with its key before it, or a claim on a cell whose owner  *)
(* lives. The invariant excludes them one by one: entries agree with their *)
(* words, owners that live have addresses apart, objects have properties   *)
(* apart, the word a birth has chosen stays bound while other threads      *)
(* commit, and a token that is given out is in no cell yet.                *)
(***************************************************************************)
EXTENDS ChannelCells, FiniteSetTheorems, TLAPS

\* The steps of an owner's birth, and of a field's; those that hold its cell.
Storing  == {"retired", "addressed", "tokened", "owner_word"}
Claiming == {"claimed", "named", "identified", "filled"}
Seeking  == {"pick", "cas", "claimed", "named"}
Filling  == {"cas", "field_word"} \cup Claiming
Looking  == {"live", "kind", "token", "address"}
Reading  == {"window", "identity", "payload", "check"}

\* An owner's slot has a token once it has an address, and the generation that the
\* table has reached has room for the birth that is under way.
OwnersInv ==
    /\ \A k \in 1 .. OwnerSlots : owner[k].token # 0 => owner[k].address # 0
    /\ ui.pc \in Storing => ui.index \in 1 .. OwnerSlots
    /\ ui.pc = "addressed" => owner[ui.index].address # 0
    /\ ui.pc \in {"retired", "addressed"} => owners.generation < Generations
    /\ owners.used < OwnerSlots =>
          /\ owners.generation <= owners.used + (IF ui.pc = "tokened" THEN 1 ELSE 0)
          /\ ui.pc \in {"retired", "addressed", "tokened"} => ui.index = owners.used + 1

\* Only cells in use are named by a word, filled, written or read.
FieldsInv ==
    /\ \A w \in 0 .. Words - 1 : fields.directory[w] <= fields.used
    /\ ui.pc \in Filling => ui.index \in 1 .. fields.used
    /\ ui.pc \in {"pick", "cas"} => fields.used = Cells
    /\ ui.pc = "pick" => ui.index <= Cells
    /\ ui.pc \in Seeking => OwnerAt(ui.address) # 0
    /\ \A t \in Threads : wr[t].pc # "idle" => wr[t].cell <= fields.used

\* What the reader dereferences is there.
ReaderInv ==
    /\ rd.pc \in Looking => rd.token # 0 /\ SlotOf(rd.token) \in 1 .. OwnerSlots
    /\ rd.pc = "address" => owner[SlotOf(rd.token)].address # 0
    /\ rd.pc = "probe" => rd.property # 0
    /\ rd.pc \in Reading => rd.cell <= fields.used
    /\ rd.retry < Retries

\* Whoever changes a cell holds its odd revision, alone.
Odd(n) == cell[n].revision % 2 = 1
HeldBy(t, n) == wr[t].pc \in {"locked", "stored"} /\ wr[t].cell = n
LocksInv ==
    /\ \A t \in Threads : wr[t].pc \in {"loaded", "locked", "stored"} => Idle(wr[t].revision)
    /\ ui.pc \in {"cas"} \cup Claiming => Idle(ui.revision)
    /\ \A t \in Threads, n \in 1 .. Cells : HeldBy(t, n) => cell[n].revision = wr[t].revision + 1
    /\ \A t, u \in Threads, n \in 1 .. Cells : HeldBy(t, n) /\ HeldBy(u, n) => t = u
    /\ ui.pc \in Claiming => /\ cell[ui.index].revision = ui.revision + 1
                             /\ \A t \in Threads : ~HeldBy(t, ui.index)

\* While the revision that was read stands, the cell is as it was then.
WindowInv ==
    /\ rd.pc \in {"identity", "payload", "check"} =>
          rd.revision % 2 = 0 /\ rd.revision <= cell[rd.cell].revision
    /\ rd.pc = "payload" /\ cell[rd.cell].revision = rd.revision => Matches
    /\ rd.pc = "check" /\ cell[rd.cell].revision = rd.revision /\ rd.live => rd.bits \in seen
    /\ rd.pc = "final" /\ rd.live => rd.bits \in seen
    /\ ReadIsCurrent

TypeInv == TypeOK /\ OwnersInv /\ FieldsInv /\ ReaderInv /\ LocksInv

-----------------------------------------------------------------------------
(* Probing.                                                                 *)

\* The least of some numbers exists: of the intervals below them one contains no other.
LEMMA LeastIs ==
    ASSUME NEW S \in SUBSET Nat, S # {}
    PROVE  Least(S) \in S /\ \A j \in S : Least(S) <= j
<1>1. PICK b \in S : TRUE
  OBVIOUS
<1> DEFINE I    == 0 .. b
           T(i) == {x \in I : x < i}
           TT   == {T(i) : i \in S}
<1>2. b \in Nat /\ IsFiniteSet(I)
  BY <1>1, FS_Interval
<1>3. IsWellFoundedOn(StrictSubsetOrdering(I), SUBSET I)
  BY <1>2, FS_StrictSubsetOrderingWellFounded, FS_FiniteSubsetsOfFinite
<1>4. TT \subseteq SUBSET I /\ TT # {}
  OBVIOUS
<1>5. \E X \in TT : \A Y \in TT : ~(<<Y, X>> \in StrictSubsetOrdering(I))
  BY <1>3, <1>4, WFMin
<1>6. PICK i \in S : \A j \in S : ~(<<T(j), T(i)>> \in StrictSubsetOrdering(I))
  BY <1>5
<1>7. \A j \in S : ~(T(j) \subseteq T(i) /\ T(j) # T(i))
  BY <1>6 DEF StrictSubsetOrdering
<1>8. \A j \in S : j < i /\ j <= b => T(j) \subseteq T(i) /\ j \in T(i) /\ j \notin T(j)
  BY <1>2
<1>9. \A j \in S : ~(j < i /\ j <= b)
  BY <1>7, <1>8
<1>10. \A j \in S : i <= j \/ b < j
  BY <1>2, <1>9
<1>11. i <= b
  BY <1>1, <1>2, <1>9
<1>12. \A j \in S : i <= j
  BY <1>2, <1>10, <1>11
<1> QED BY <1>12 DEF Least

\* The constants, one fact each.
LEMMA Sizes == /\ OwnerSlots \in Nat /\ OwnerSlots >= 1 /\ Cells \in Nat /\ Cells >= 1
               /\ Words \in Nat /\ Words >= 1 /\ Probes \in Nat /\ Probes >= 1
               /\ Budget \in Nat /\ Budget >= 1 /\ Tries \in Nat /\ Tries >= 1
               /\ Retries \in Nat /\ Retries >= 1
               /\ Generations \in Nat /\ Generations >= OwnerSlots
               /\ LastRevision \in Nat /\ LastRevision % 2 = 0 /\ LastRevision >= 2
BY TableAssumption

LEMMA Choices == /\ AnyAddress \in Addresses /\ AnyField \in Fields /\ AnyBit \in Bits
                 /\ "none" \in {"none"} /\ Threads = {"ui", "audio"}
BY AddressAssumption DEF AnyAddress, AnyField, AnyBit, Threads

\* A word of either directory is within it.
LEMMA AtWord ==
    ASSUME NEW key \in Keys, NEW i \in Nat
    PROVE  At(key, i) \in 0 .. Words - 1
<1>1. HashOf[key] \in 0 .. Words - 1 /\ Words \in Nat /\ Words >= 1
  BY TableAssumption, Sizes
<1>2. \A x \in Nat : x % Words \in 0 .. Words - 1
  BY <1>1
<1> QED BY <1>1, <1>2 DEF At

LEMMA LeastStep ==
    ASSUME NEW S \in SUBSET Steps, S # {}
    PROVE  Least(S) \in S /\ Least(S) \in Nat
<1>1. Steps \subseteq Nat
  BY Sizes DEF Steps
<1> QED BY <1>1, LeastIs

\* A probe ends at a word that names a record with the key, or nowhere.
LEMMA OwnerFound ==
    ASSUME owner \in [1 .. OwnerSlots -> OwnerWords], owners \in Tables(OwnerSlots), NEW a \in Addresses
    PROVE  /\ OwnerAt(a) \in 0 .. OwnerSlots
           /\ OwnerAt(a) # 0 => owner[OwnerAt(a)].address = a
<1> DEFINE hits == {i \in Reached(owners.directory, a) : owner[owners.directory[At(a, i)]].address = a}
<1>1. CASE hits = {}
  BY <1>1, Sizes DEF OwnerAt
<1>2. CASE hits # {}
  <2>1. hits \subseteq Steps
    BY DEF Reached
  <2>2. PICK i \in hits : OwnerAt(a) = owners.directory[At(a, i)] /\ i \in Nat
    BY <1>2, <2>1, LeastStep DEF OwnerAt
  <2>3. At(a, i) \in 0 .. Words - 1
    BY <2>2, AtWord DEF Keys
  <2> QED BY <2>2, <2>3 DEF Tables
<1> QED BY <1>1, <1>2

LEMMA CellFound ==
    ASSUME fields \in Tables(Cells), NEW p \in Properties
    PROVE  /\ CellAt(p) \in 0 .. Cells
           /\ CellAt(p) # 0 => /\ \E w \in 0 .. Words - 1 : CellAt(p) = fields.directory[w]
                               /\ cell[CellAt(p)].property = p
<1> DEFINE hits == {i \in Reached(fields.directory, p) : cell[fields.directory[At(p, i)]].property = p}
<1>1. CASE hits = {}
  BY <1>1, Sizes DEF CellAt
<1>2. CASE hits # {}
  <2>1. hits \subseteq Steps
    BY DEF Reached
  <2>2. PICK i \in hits : CellAt(p) = fields.directory[At(p, i)] /\ i \in Nat
    BY <1>2, <2>1, LeastStep DEF CellAt
  <2>3. At(p, i) \in 0 .. Words - 1
    BY <2>2, AtWord DEF Keys
  <2> QED BY <2>2, <2>3 DEF Tables
<1> QED BY <1>1, <1>2

\* A scan finds a record that may be spent, and leaves the cursor in the table.
LEMMA ScanFinds ==
    ASSUME NEW n \in Nat \ {0}, NEW table, table.cursor \in 0 .. n - 1, NEW spendable
    PROVE  /\ Scan(table, n, spendable).found \in 0 .. n
           /\ Scan(table, n, spendable).found # 0 => Scan(table, n, spendable).found \in spendable
           /\ Scan(table, n, spendable).cursor \in 0 .. n - 1
<1> DEFINE hits == {k \in 0 .. Budget - 1 : ((table.cursor + k) % n) + 1 \in spendable}
<1>0. \A x \in Nat : x % n \in 0 .. n - 1
  OBVIOUS
<1>1. CASE hits = {}
  <2>1. (table.cursor + Budget) % n \in 0 .. n - 1
    BY <1>0, Sizes
  <2> QED BY <1>1, <2>1 DEF Scan
<1>2. CASE hits # {}
  <2>1. hits \in SUBSET Nat
    BY Sizes
  <2>2. Least(hits) \in hits /\ Least(hits) \in Nat
    BY <1>2, <2>1, LeastIs
  <2> DEFINE k == Least(hits)
  <2>3. ((table.cursor + k) % n) + 1 \in spendable
    BY <2>2
  <2>4. (table.cursor + k) % n \in 0 .. n - 1 /\ (table.cursor + k + 1) % n \in 0 .. n - 1
    <3> HIDE DEF k
    <3>1. table.cursor + k \in Nat /\ table.cursor + k + 1 \in Nat
      BY <2>2 DEF k
    <3> QED BY <1>0, <3>1
  <2>5. /\ Scan(table, n, spendable).found = ((table.cursor + k) % n) + 1
        /\ Scan(table, n, spendable).cursor = (table.cursor + k + 1) % n
    BY <1>2 DEF Scan
  <2> HIDE DEF k
  <2> QED BY <2>3, <2>4, <2>5
<1> QED BY <1>1, <1>2

\* A table keeps its type when a record takes a word.
LEMMA EnterTypes ==
    ASSUME NEW n \in Nat, NEW table \in Tables(n), NEW at \in 0 .. Words - 1, NEW index \in 1 .. n
    PROVE  /\ Enter(table, at, index) \in Tables(n)
           /\ Enter(table, at, index).used = table.used
           /\ Enter(table, at, index).generation = table.generation
           /\ \A w \in 0 .. Words - 1 : Enter(table, at, index).directory[w] \in {index, table.directory[w]}
<1> DEFINE left == IF table.entry[index] \in {0, at + 1} THEN {} ELSE {table.entry[index] - 1}
           e(k) == IF k = index THEN at + 1
                   ELSE IF k = table.directory[at] /\ table.entry[k] = at + 1 THEN 0 ELSE table.entry[k]
<1>0. Words \in Nat /\ table.entry \in [1 .. n -> 0 .. Words]
      /\ table.directory \in [0 .. Words - 1 -> 0 .. n] /\ table.stale \subseteq 0 .. Words - 1
  BY Sizes DEF Tables
<1>1. left \subseteq 0 .. Words - 1
  <2>1. table.entry[index] \in 0 .. Words
    BY <1>0
  <2> QED BY <1>0, <2>1
<1>2. \A k \in 1 .. n : e(k) \in 0 .. Words
  BY <1>0
<1>3. [k \in 1 .. n |-> e(k)] \in [1 .. n -> 0 .. Words]
  BY <1>2
<1>4. [table.directory EXCEPT ![at] = index] \in [0 .. Words - 1 -> 0 .. n]
  BY <1>0
<1>5. Enter(table, at, index) =
        [table EXCEPT !.directory = [table.directory EXCEPT ![at] = index],
                      !.stale = (table.stale \cup left) \ {at},
                      !.entry = [k \in 1 .. n |-> e(k)]]
  BY <1>0 DEF Enter, Tables
<1> HIDE DEF left, e
<1>6. (table.stale \cup left) \ {at} \subseteq 0 .. Words - 1
  BY <1>0, <1>1
<1> QED BY <1>0, <1>3, <1>4, <1>5, <1>6 DEF Tables

\* A token carries its slot.
LEMMA TokenSlot ==
    ASSUME NEW k \in 1 .. OwnerSlots, NEW g \in 0 .. Generations
    PROVE  TokenOf(k, g) \in Tokens /\ TokenOf(k, g) # 0 /\ SlotOf(TokenOf(k, g)) = k
<1> DEFINE m == OwnerSlots + 1
<1>1. m \in Nat /\ m >= 2 /\ g \in Nat /\ k \in 0 .. m - 1 /\ k >= 1
  BY Sizes
<1>2. TokenOf(k, g) \in Tokens
  BY Sizes DEF Tokens
<1>3. TokenOf(k, g) = k + g * m
  BY DEF TokenOf
<1> HIDE DEF m
<1>4. g * m \in Nat
  BY <1>1
<1>5. (k + g * m) % m = k
  BY <1>1, <1>4
<1> QED BY <1>1, <1>2, <1>3, <1>4, <1>5 DEF SlotOf, m

-----------------------------------------------------------------------------
(* Types, and what the indices stand on.                                    *)

UiWords == [pc : UiPcs, address : Addresses, field : Fields, word : 0 .. Words - 1,
            index : 0 .. OwnerSlots + Cells, revision : 0 .. LastRevision, tries : 0 .. Tries,
            bit : Bits]
WrWords == [pc : WrPcs, cell : 1 .. Cells, bits : Values, death : BOOLEAN, revision : 0 .. LastRevision]
RdWords == [pc : RdPcs, token : Tokens, field : Fields, property : Properties \cup {0},
            probe : 0 .. Probes, cell : 1 .. Cells, revision : 0 .. LastRevision,
            retry : 0 .. Retries, bits : Values, live : BOOLEAN, available : BOOLEAN]

LEMMA Types ==
    TypeOK <=>
        /\ owner \in [1 .. OwnerSlots -> OwnerWords] /\ owners \in Tables(OwnerSlots)
        /\ cell \in [1 .. Cells -> CellWords] /\ fields \in Tables(Cells)
        /\ error \in [Fields -> Errors]
        /\ native \in [Addresses -> Fields \cup {"none"}] /\ built \subseteq Addresses
        /\ enrolled \subseteq Addresses
        /\ ui \in UiWords /\ wr \in [Threads -> WrWords] /\ rd \in RdWords /\ seen \subseteq Values
BY DEF TypeOK, UiWords, WrWords, RdWords

LEMMA TypesNext ==
    ASSUME /\ owner' \in [1 .. OwnerSlots -> OwnerWords] /\ owners' \in Tables(OwnerSlots)
           /\ cell' \in [1 .. Cells -> CellWords] /\ fields' \in Tables(Cells)
           /\ error' \in [Fields -> Errors]
           /\ native' \in [Addresses -> Fields \cup {"none"}] /\ built' \subseteq Addresses
           /\ enrolled' \subseteq Addresses
           /\ ui' \in UiWords /\ wr' \in [Threads -> WrWords] /\ rd' \in RdWords /\ seen' \subseteq Values
    PROVE  TypeOK'
BY DEF TypeOK, UiWords, WrWords, RdWords

\* What no birth, no write and no read has.
LEMMA Blanks ==
    /\ NoBirth \in UiWords /\ NoBirth.pc = "idle" /\ NoBirth.index = 0 /\ NoBirth.tries = 0
    /\ NoWrite \in WrWords /\ NoWrite.pc = "idle" /\ NoRead \in RdWords /\ NoRead.pc = "idle"
    /\ NoRead.retry = 0 /\ NoRead.cell = 1
<1>1. 0 \in Tokens
  <2>1. 0 = TokenOf(0, 0)
    BY Sizes DEF TokenOf
  <2> QED BY <2>1, Sizes DEF Tokens
<1>2. <<0, AnyBit>> \in Values
  BY Choices DEF Values
<1>3. NoBirth \in UiWords
  BY Sizes, Choices DEF NoBirth, UiWords, UiPcs
<1>4. NoWrite \in WrWords
  BY <1>2, Sizes DEF NoWrite, WrWords, WrPcs
<1>5. NoRead \in RdWords
  BY <1>1, <1>2, Sizes, Choices DEF NoRead, RdWords, RdPcs
<1> QED BY <1>3, <1>4, <1>5 DEF NoBirth, NoWrite, NoRead

\* History holds values.
LEMMA SeenTypes ==
    ASSUME cell' \in [1 .. Cells -> CellWords], seen \subseteq Values, Remember
    PROVE  seen' \subseteq Values
<1>1. Current' \subseteq Values
  BY DEF Current, CellWords
<1> QED BY <1>1 DEF Remember

\* The UI owner's steps on the owner table and on the field table.
OwnerSide == \/ \E a \in Addresses : OwnerDeath(a) \/ \E f \in Fields : OwnerBirth(a, f)
             \/ StoreAddress \/ StoreToken \/ StoreLive \/ StoreOwnerWord
FieldSide == \/ \E a \in Addresses : FieldBirth(a)
             \/ PickVictim \/ ClaimVictim
             \/ RenameCell \/ ReidentifyCell \/ RefillCell \/ ReleaseCell \/ StoreFieldWord

\* A birth is refused, or has a word and a slot to take and a generation to give.
LEMMA OwnerBirthTypes ==
    ASSUME TypeInv, NEW a \in Addresses, NEW f \in Fields, OwnerBirth(a, f)
    PROVE  /\ owner' \in [1 .. OwnerSlots -> OwnerWords] /\ owners' \in Tables(OwnerSlots)
           /\ error' \in [Fields -> Errors] /\ ui' \in UiWords /\ OwnersInv'
           /\ ui'.pc \in {"idle", "retired"}
           /\ \A k \in 1 .. OwnerSlots : owner'[k].address = owner[k].address
<1> DEFINE full   == owners.used = OwnerSlots
           keep   == OwnerAt(a)
           spare  == IF full THEN {k \in 1 .. OwnerSlots : OwnerSpendable(k)} ELSE {}
           places == Acceptable(owners, a, keep, spare)
           at     == At(a, Least(places))
           id     == owners.directory[at]
           handed == IF id \in spare \/ (full /\ keep # 0 /\ id = keep) THEN id ELSE 0
           scan   == Scan(owners, OwnerSlots, spare)
           index  == IF ~full THEN owners.used + 1 ELSE IF handed # 0 THEN handed ELSE scan.found
           refuse == (full /\ owners.generation >= Generations) \/ places = {}
           scans  == ~refuse /\ full /\ handed = 0
<1>1. /\ ui.pc = "idle" /\ owners' = IF scans THEN [owners EXCEPT !.cursor = scan.cursor] ELSE owners
      /\ IF refuse \/ index = 0
            THEN error' = [error EXCEPT ![f] = "capacity"] /\ UNCHANGED <<owner, ui>>
            ELSE /\ owner' = [k \in 1 .. OwnerSlots |->
                                IF k \in {keep, index} THEN [owner[k] EXCEPT !.live = FALSE] ELSE owner[k]]
                 /\ ui' = [NoBirth EXCEPT !.pc = "retired", !.address = a, !.field = f,
                                          !.word = at, !.index = index]
                 /\ UNCHANGED error
  BY DEF OwnerBirth, UiFree
<1>2. ~refuse => at \in 0 .. Words - 1
  <2>1. places \in SUBSET Steps
    BY DEF Acceptable
  <2>2. places # {} => Least(places) \in Nat
    BY <2>1, LeastStep
  <2> QED BY <2>2, AtWord DEF Keys
<1>t. /\ owner \in [1 .. OwnerSlots -> OwnerWords] /\ owners \in Tables(OwnerSlots)
      /\ error \in [Fields -> Errors] /\ ui \in UiWords /\ OwnersInv
  BY Types DEF TypeInv
<1>3. scan.found \in 0 .. OwnerSlots /\ scan.cursor \in 0 .. OwnerSlots - 1
  BY <1>t, Sizes, ScanFinds DEF Tables
<1>4. ~refuse /\ index # 0 => index \in 1 .. OwnerSlots
  <2>1. owners.used \in 0 .. OwnerSlots
    BY <1>t DEF Tables
  <2>2. ~full => owners.used + 1 \in 1 .. OwnerSlots
    BY <2>1, Sizes
  <2>3. ~refuse => id \in 0 .. OwnerSlots
    BY <1>2, <1>t DEF Tables
  <2> QED BY <1>3, <2>2, <2>3, Sizes
<1>5. ~refuse => owners.generation < Generations
  <2>1. owners.used \in 0 .. OwnerSlots /\ owners.generation \in 0 .. Generations
    BY <1>t DEF Tables
  <2>2. ~full => owners.generation <= owners.used
    BY <1>1, <1>t, <2>1, Sizes DEF OwnersInv
  <2> QED BY <2>1, <2>2, Sizes
<1>6. ~full => index = owners.used + 1
  OBVIOUS
<1>7. owners.used < OwnerSlots => ~full
  BY Sizes
<1> HIDE DEF full, keep, at, index, refuse, scan, scans
<1>8. /\ owners' \in Tables(OwnerSlots) /\ owners'.used = owners.used
      /\ owners'.generation = owners.generation
  BY <1>1, <1>3, <1>t DEF Tables
<1>9. CASE refuse \/ index = 0
  <2>1. UNCHANGED <<owner, ui>> /\ error' \in [Fields -> Errors]
    BY <1>1, <1>9, <1>t DEF Errors
  <2> QED BY <1>1, <1>8, <1>t, <2>1 DEF OwnersInv, Storing
<1>10. CASE ~refuse /\ index # 0
  <2>1. /\ ui' = [NoBirth EXCEPT !.pc = "retired", !.address = a, !.field = f, !.word = at, !.index = index]
        /\ owner' = [k \in 1 .. OwnerSlots |->
                       IF k \in {keep, index} THEN [owner[k] EXCEPT !.live = FALSE] ELSE owner[k]]
        /\ UNCHANGED error
    BY <1>1, <1>10
  <2>2. index \in 0 .. OwnerSlots + Cells
    BY <1>4, <1>10, Sizes
  <2>3. ui' \in UiWords /\ ui'.pc = "retired" /\ ui'.index = index
    BY <1>2, <1>10, <2>1, <2>2, Blanks DEF UiWords, UiPcs
  <2>4. owner' \in [1 .. OwnerSlots -> OwnerWords]
        /\ \A k \in 1 .. OwnerSlots : owner'[k].address = owner[k].address /\ owner'[k].token = owner[k].token
    BY <1>t, <2>1 DEF OwnerWords
  <2>5. OwnersInv'
    BY <1>1, <1>4, <1>5, <1>6, <1>7, <1>8, <1>10, <1>t, <2>3, <2>4 DEF OwnersInv, Storing
  <2> QED BY <1>8, <1>t, <2>1, <2>3, <2>4, <2>5
<1> QED BY <1>9, <1>10

\* The stores that finish a birth, and a death, keep the owner table in order.
LEMMA OwnerStoreTypes ==
    ASSUME TypeInv, \/ StoreAddress \/ StoreToken \/ StoreLive \/ StoreOwnerWord
                    \/ \E a \in Addresses : OwnerDeath(a)
    PROVE  /\ owner' \in [1 .. OwnerSlots -> OwnerWords] /\ owners' \in Tables(OwnerSlots)
           /\ error' \in [Fields -> Errors] /\ ui' \in UiWords /\ OwnersInv'
           /\ ui'.pc \in Storing \cup {"idle"}
           /\ \A k \in 1 .. OwnerSlots : owner[k].address # 0 => owner'[k].address # 0
<1>t. /\ owner \in [1 .. OwnerSlots -> OwnerWords] /\ owners \in Tables(OwnerSlots)
      /\ error \in [Fields -> Errors] /\ ui \in UiWords /\ OwnersInv
  BY Types DEF TypeInv
<1>u. owners.used \in 0 .. OwnerSlots /\ owners.generation \in 0 .. Generations
  BY <1>t DEF Tables
<1>1. CASE StoreAddress
  <2>1. /\ ui.pc = "retired" /\ ui' = [ui EXCEPT !.pc = "addressed"] /\ UNCHANGED <<owners, error>>
        /\ owner' = [owner EXCEPT ![ui.index].address = ui.address, ![ui.index].kind = ui.field]
    BY <1>1 DEF StoreAddress, Goto
  <2>2. ui.index \in 1 .. OwnerSlots
    BY <1>t, <2>1 DEF OwnersInv, Storing
  <2>3. ui.address \in Addresses /\ ui.field \in Fields /\ ui.address # 0
    BY <1>t, AddressAssumption DEF UiWords
  <2>4. owner' = [owner EXCEPT ![ui.index] = [@ EXCEPT !.address = ui.address, !.kind = ui.field]]
    BY <1>t, <2>1, <2>2 DEF OwnerWords
  <2>5. owner' \in [1 .. OwnerSlots -> OwnerWords]
    BY <1>t, <2>2, <2>3, <2>4 DEF OwnerWords
  <2>6. /\ owner'[ui.index].address # 0
        /\ \A k \in 1 .. OwnerSlots : owner[k].address # 0 => owner'[k].address # 0
        /\ \A k \in 1 .. OwnerSlots : owner'[k].token = owner[k].token
    BY <1>t, <2>2, <2>3, <2>4 DEF OwnerWords
  <2>7. ui' \in UiWords /\ ui'.pc = "addressed" /\ ui'.index = ui.index
    BY <1>t, <2>1 DEF UiWords, UiPcs
  <2>8. OwnersInv'
    BY <1>t, <2>1, <2>2, <2>6, <2>7 DEF OwnersInv, Storing
  <2> QED BY <1>t, <2>1, <2>5, <2>6, <2>7, <2>8 DEF Storing
<1>2. CASE StoreToken
  <2>1. /\ ui.pc = "addressed" /\ ui' = [ui EXCEPT !.pc = "tokened"] /\ UNCHANGED error
        /\ owners' = [owners EXCEPT !.generation = @ + 1]
        /\ owner' = [owner EXCEPT ![ui.index].token = TokenOf(ui.index, owners'.generation)]
    BY <1>2 DEF StoreToken, Goto
  <2>2. ui.index \in 1 .. OwnerSlots /\ owner[ui.index].address # 0 /\ owners.generation < Generations
    BY <1>t, <2>1 DEF OwnersInv, Storing
  <2>3. owners.generation + 1 \in 0 .. Generations
    BY <1>u, <2>2, Sizes
  <2>4. owners' \in Tables(OwnerSlots) /\ owners'.generation = owners.generation + 1 /\ owners'.used = owners.used
    BY <1>t, <2>1, <2>3 DEF Tables
  <2>5. TokenOf(ui.index, owners'.generation) \in Tokens
    BY <2>2, <2>3, <2>4, TokenSlot
  <2>6. /\ owner' \in [1 .. OwnerSlots -> OwnerWords]
        /\ \A k \in 1 .. OwnerSlots : owner'[k].address = owner[k].address
        /\ \A k \in 1 .. OwnerSlots : k # ui.index => owner'[k].token = owner[k].token
    BY <1>t, <2>1, <2>2, <2>5 DEF OwnerWords
  <2>7. ui' \in UiWords /\ ui'.pc = "tokened" /\ ui'.index = ui.index
    BY <1>t, <2>1 DEF UiWords, UiPcs
  <2>8. owners.used < OwnerSlots => owners.generation <= owners.used /\ ui.index = owners.used + 1
    BY <1>t, <1>u, <2>1 DEF OwnersInv
  <2>9. owners'.used < OwnerSlots =>
          owners'.generation <= owners'.used + 1 /\ ui'.index = owners'.used + 1
    BY <1>u, <2>4, <2>7, <2>8
  <2>10. \A k \in 1 .. OwnerSlots : owner'[k].token # 0 => owner'[k].address # 0
    BY <1>t, <2>2, <2>6 DEF OwnersInv
  <2>11. OwnersInv'
    BY <2>2, <2>7, <2>9, <2>10 DEF OwnersInv, Storing
  <2> QED BY <1>t, <2>1, <2>4, <2>6, <2>7, <2>11 DEF Storing
<1>3. CASE StoreLive
  <2>1. /\ ui.pc = "tokened" /\ ui' = [ui EXCEPT !.pc = "owner_word"] /\ UNCHANGED error
        /\ owner' = [owner EXCEPT ![ui.index].live = TRUE]
        /\ owners' = [owners EXCEPT !.used = IF ui.index > owners.used THEN ui.index ELSE owners.used]
    BY <1>3 DEF StoreLive, Goto
  <2>2. ui.index \in 1 .. OwnerSlots
    BY <1>t, <2>1 DEF OwnersInv, Storing
  <2>3. (IF ui.index > owners.used THEN ui.index ELSE owners.used) \in 0 .. OwnerSlots
    BY <1>u, <2>2
  <2>4. /\ owners' \in Tables(OwnerSlots) /\ owners'.generation = owners.generation
        /\ owners'.used = IF ui.index > owners.used THEN ui.index ELSE owners.used
    BY <1>t, <2>1, <2>3 DEF Tables
  <2>5. /\ owner' \in [1 .. OwnerSlots -> OwnerWords]
        /\ \A k \in 1 .. OwnerSlots : owner'[k].address = owner[k].address /\ owner'[k].token = owner[k].token
    BY <1>t, <2>1, <2>2 DEF OwnerWords
  <2>6. ui' \in UiWords /\ ui'.pc = "owner_word" /\ ui'.index = ui.index
    BY <1>t, <2>1 DEF UiWords, UiPcs
  <2>7. owners.used < OwnerSlots => owners.generation <= owners.used + 1 /\ ui.index = owners.used + 1
    BY <1>t, <2>1 DEF OwnersInv
  <2>8. owners'.used < OwnerSlots => owners'.generation <= owners'.used
    BY <1>u, <2>2, <2>4, <2>7, Sizes
  <2>9. owners'.used < OwnerSlots => owners'.generation <= owners'.used + 0
    BY <1>u, <2>2, <2>4, <2>8
  <2>10. \A k \in 1 .. OwnerSlots : owner'[k].token # 0 => owner'[k].address # 0
    BY <1>t, <2>5 DEF OwnersInv
  <2>11. OwnersInv'
    BY <2>2, <2>6, <2>9, <2>10 DEF OwnersInv, Storing
  <2> QED BY <1>t, <2>1, <2>4, <2>5, <2>6, <2>11 DEF Storing
<1>4. CASE StoreOwnerWord
  <2>1. /\ ui.pc = "owner_word" /\ ui' = NoBirth /\ owners' = Enter(owners, ui.word, ui.index)
        /\ UNCHANGED <<owner, error>>
    BY <1>4 DEF StoreOwnerWord
  <2>2. ui.index \in 1 .. OwnerSlots /\ ui.word \in 0 .. Words - 1
    BY <1>t, <2>1 DEF OwnersInv, Storing, UiWords
  <2>3. owners' \in Tables(OwnerSlots) /\ owners'.used = owners.used /\ owners'.generation = owners.generation
    BY <1>t, <2>1, <2>2, Sizes, EnterTypes
  <2>4. ui' \in UiWords /\ ui'.pc = "idle"
    BY <2>1, Blanks
  <2>5. OwnersInv'
    BY <1>t, <2>1, <2>3, <2>4 DEF OwnersInv, Storing
  <2> QED BY <1>t, <2>1, <2>3, <2>4, <2>5
<1>5. CASE \E a \in Addresses : OwnerDeath(a)
  <2>1. PICK a \in Addresses : OwnerDeath(a)
    BY <1>5
  <2>2. /\ ui.pc = "idle" /\ UNCHANGED <<owners, error, ui>>
        /\ \/ owner' = [k \in 1 .. OwnerSlots |->
                          IF k = OwnerAt(a) THEN [owner[k] EXCEPT !.live = FALSE] ELSE owner[k]]
           \/ UNCHANGED owner
    BY <2>1 DEF OwnerDeath, UiFree
  <2>3. /\ owner' \in [1 .. OwnerSlots -> OwnerWords]
        /\ \A k \in 1 .. OwnerSlots : owner'[k].address = owner[k].address /\ owner'[k].token = owner[k].token
    BY <1>t, <2>2 DEF OwnerWords
  <2>4. OwnersInv'
    BY <1>t, <2>2, <2>3 DEF OwnersInv, Storing
  <2> QED BY <1>t, <2>2, <2>3, <2>4
<1> QED BY <1>1, <1>2, <1>3, <1>4, <1>5

\* The other parts of the invariant only look at what an owner's birth leaves alone.
LEMMA OwnerSideStep ==
    ASSUME TypeInv, OwnerSide
    PROVE  TypeInv' /\ UNCHANGED <<cell, fields, wr, rd>> /\ ui'.pc \in Storing \cup {"idle"}
<1>1. /\ owner' \in [1 .. OwnerSlots -> OwnerWords] /\ owners' \in Tables(OwnerSlots)
      /\ error' \in [Fields -> Errors] /\ ui' \in UiWords /\ OwnersInv'
      /\ ui'.pc \in Storing \cup {"idle"}
      /\ \A k \in 1 .. OwnerSlots : owner[k].address # 0 => owner'[k].address # 0
  <2>1. CASE \E a \in Addresses, f \in Fields : OwnerBirth(a, f)
    BY <2>1, OwnerBirthTypes DEF Storing
  <2>2. CASE \/ StoreAddress \/ StoreToken \/ StoreLive \/ StoreOwnerWord
             \/ \E a \in Addresses : OwnerDeath(a)
    BY <2>2, OwnerStoreTypes
  <2> QED BY <2>1, <2>2 DEF OwnerSide
<1>2. UNCHANGED <<cell, fields, wr, rd>> /\ Remember
  BY DEF OwnerSide, OwnerDeath, OwnerBirth, StoreAddress, StoreToken, StoreLive, StoreOwnerWord, BirthFrame
<1>3. /\ native' \in [Addresses -> Fields \cup {"none"}] /\ built' \subseteq Addresses
      /\ enrolled' \subseteq Addresses
  <2>1. /\ native \in [Addresses -> Fields \cup {"none"}] /\ built \subseteq Addresses
        /\ enrolled \subseteq Addresses /\ ui.address \in Addresses
    BY Types DEF TypeInv, UiWords
  <2>2. ASSUME NEW a \in Addresses, NEW f \in Fields, OwnerBirth(a, f)
        PROVE  /\ native' \in [Addresses -> Fields \cup {"none"}] /\ built' \subseteq Addresses
               /\ enrolled' \subseteq Addresses
    <3>1. native' = [native EXCEPT ![a] = f] /\ built' = built \ {a} /\ UNCHANGED enrolled
      BY <2>2 DEF OwnerBirth
    <3> QED BY <2>1, <3>1
  <2>3. ASSUME NEW a \in Addresses, OwnerDeath(a)
        PROVE  /\ native' \in [Addresses -> Fields \cup {"none"}] /\ built' \subseteq Addresses
               /\ enrolled' \subseteq Addresses
    <3>1. native' = [native EXCEPT ![a] = "none"] /\ enrolled' = enrolled \ {a} /\ UNCHANGED built
      BY <2>3 DEF OwnerDeath
    <3> QED BY <2>1, <3>1
  <2>4. CASE StoreAddress \/ StoreToken \/ StoreLive \/ StoreOwnerWord
    <3>1. UNCHANGED <<native, built>> /\ (UNCHANGED enrolled \/ enrolled' = enrolled \cup {ui.address})
      BY <2>4 DEF StoreAddress, StoreToken, StoreLive, StoreOwnerWord, BirthFrame
    <3> QED BY <2>1, <3>1
  <2> QED BY <2>2, <2>3, <2>4 DEF OwnerSide
<1>t. /\ cell \in [1 .. Cells -> CellWords] /\ fields \in Tables(Cells)
      /\ wr \in [Threads -> WrWords] /\ rd \in RdWords /\ seen \subseteq Values
  BY Types DEF TypeInv
<1>4. TypeOK'
  <2>1. seen' \subseteq Values
    BY <1>2, <1>t, SeenTypes
  <2> QED BY <1>1, <1>2, <1>3, <1>t, <2>1, TypesNext
<1>5. FieldsInv'
  BY <1>1, <1>2 DEF TypeInv, FieldsInv, Storing, Filling, Seeking, Claiming
<1>6. ReaderInv'
  BY <1>1, <1>2 DEF TypeInv, ReaderInv, Looking
<1>7. LocksInv'
  BY <1>1, <1>2 DEF TypeInv, LocksInv, HeldBy, Storing, Claiming
<1> QED BY <1>1, <1>2, <1>4, <1>5, <1>6, <1>7 DEF TypeInv

\* How a cell in use may move: its revision goes up by one, or is odd and stays.
Moves(n) == \/ cell'[n] = cell[n]
            \/ cell'[n].revision = cell[n].revision /\ Odd(n)
            \/ cell'[n].revision = cell[n].revision + 1

LEMMA PropertyType == \A a \in Addresses, f \in Fields : Property(a, f) \in Properties \cap Keys
BY DEF Properties, Keys

\* A probe of an owner table that has not moved ends where it did.
LEMMA OwnerStays ==
    ASSUME UNCHANGED <<owner, owners>>, UNCHANGED (ui.address), OwnerAt(ui.address) # 0
    PROVE  (OwnerAt(ui.address) # 0)'
BY DEF OwnerAt

\* Before the table is full, a field's birth fills a cell that nobody has seen.
LEMMA FieldBirthTypes ==
    ASSUME TypeInv, NEW a \in Addresses, FieldBirth(a)
    PROVE  /\ cell' \in [1 .. Cells -> CellWords] /\ fields' \in Tables(Cells)
           /\ error' \in [Fields -> Errors] /\ ui' \in UiWords /\ ui'.pc \notin Storing
           /\ FieldsInv' /\ LocksInv' /\ fields'.used >= fields.used
           /\ \A n \in 1 .. fields.used : Moves(n)
<1> DEFINE f == native[a]
           p == Property(a, f)
           o == OwnerAt(a)
           old   == CellAt(p)
           full  == fields.used = Cells
           spare == IF full THEN {n \in 1 .. Cells : CellSpendable(n)} ELSE {}
           places == Acceptable(fields, p, old, spare)
           at     == At(p, Least(places))
           id     == fields.directory[at]
           alive  == IF o = 0 THEN FALSE ELSE owner[o].live
           twice  == IF ~alive \/ old = 0 THEN FALSE
                     ELSE cell[old].live /\ cell[old].token = owner[o].token
           fresh(bit) == [property |-> p, token |-> owner[o].token, field |-> f,
                          revision |-> 2, live |-> TRUE, bits |-> <<p, bit>>]
<1>1. /\ ui.pc = "idle" /\ UNCHANGED <<owner, owners, wr>> /\ f # "none"
      /\ \/ /\ UNCHANGED <<cell, fields, ui>>
            /\ \E e \in {"lifetime", "capacity"} : error' = [error EXCEPT ![f] = e] \/ UNCHANGED error
         \/ /\ alive /\ places # {} /\ ~full
            /\ \E bit \in Bits : cell' = [cell EXCEPT ![fields.used + 1] = fresh(bit)]
            /\ fields' = [fields EXCEPT !.used = @ + 1]
            /\ ui' = [NoBirth EXCEPT !.pc = "field_word", !.address = a, !.field = f,
                                     !.word = at, !.index = fields.used + 1]
            /\ UNCHANGED error
         \/ /\ alive /\ places # {} /\ full
            /\ \E bit \in Bits :
                  ui' = [NoBirth EXCEPT !.pc = "pick", !.address = a, !.field = f, !.word = at,
                                        !.bit = bit, !.index = IF id \in spare THEN id ELSE 0]
            /\ UNCHANGED <<cell, fields, error>>
  BY DEF FieldBirth, UiFree, FieldFrame
<1>0. wr' = wr /\ owner' = owner /\ owners' = owners
  BY DEF FieldBirth, FieldFrame
<1>t. /\ owner \in [1 .. OwnerSlots -> OwnerWords] /\ owners \in Tables(OwnerSlots)
      /\ cell \in [1 .. Cells -> CellWords] /\ fields \in Tables(Cells)
      /\ error \in [Fields -> Errors] /\ ui \in UiWords /\ wr \in [Threads -> WrWords]
      /\ native \in [Addresses -> Fields \cup {"none"}] /\ FieldsInv /\ LocksInv
  BY Types DEF TypeInv
<1>2. f \in Fields /\ p \in Properties /\ p \in Keys
  BY <1>1, <1>t, PropertyType
<1>3. places # {} => at \in 0 .. Words - 1
  <2>1. places \in SUBSET Steps
    BY DEF Acceptable
  <2> QED BY <1>2, <2>1, LeastStep, AtWord
<1>4. alive => OwnerAt(a) # 0 /\ owner[OwnerAt(a)].token \in Tokens
  BY <1>t, OwnerFound DEF OwnerWords
<1>5. fields.used \in 0 .. Cells
  BY <1>t DEF Tables
<1>6. places # {} => id \in 0 .. Cells
  BY <1>3, <1>t DEF Tables
<1> DEFINE handed == IF id \in spare THEN id ELSE 0
<1>7. places # {} => handed \in 0 .. Cells
  BY <1>6, Sizes
<1> HIDE DEF f, p, o, places, at, id, alive, spare, handed, fresh
<1>8. CASE /\ UNCHANGED <<cell, fields, ui>>
           /\ \E e \in {"lifetime", "capacity"} : error' = [error EXCEPT ![f] = e] \/ UNCHANGED error
  <2>1. error' \in [Fields -> Errors]
    BY <1>8, <1>t, <1>2 DEF Errors
  <2>2. FieldsInv' /\ LocksInv'
    BY <1>1, <1>8, <1>t DEF FieldsInv, LocksInv, HeldBy, Claiming, Filling, Seeking
  <2>3. fields'.used >= fields.used
    BY <1>8, <1>5, Sizes
  <2> QED BY <1>1, <1>8, <1>t, <2>1, <2>2, <2>3 DEF Storing, Moves
<1>9. CASE /\ alive /\ places # {} /\ ~full
           /\ \E bit \in Bits : cell' = [cell EXCEPT ![fields.used + 1] = fresh(bit)]
           /\ fields' = [fields EXCEPT !.used = @ + 1]
           /\ ui' = [NoBirth EXCEPT !.pc = "field_word", !.address = a, !.field = f,
                                    !.word = at, !.index = fields.used + 1]
           /\ UNCHANGED error
  <2>1. PICK bit \in Bits : cell' = [cell EXCEPT ![fields.used + 1] = fresh(bit)]
    BY <1>9
  <2>2. fields.used + 1 \in 1 .. Cells /\ fields.used + 1 \in 0 .. OwnerSlots + Cells
        /\ fields.used + 1 \in 0 .. Cells
    BY <1>5, <1>9, Sizes
  <2>3. fresh(bit) \in CellWords
    <3>1. <<p, bit>> \in Values
      BY <1>2 DEF Values
    <3>2. owner[o].token \in Tokens
      BY <1>4, <1>9 DEF o
    <3> QED BY <1>2, <3>1, <3>2, Sizes DEF fresh, CellWords
  <2>4. cell' \in [1 .. Cells -> CellWords]
        /\ \A n \in 1 .. Cells : n # fields.used + 1 => cell'[n] = cell[n]
    BY <1>t, <2>1, <2>2, <2>3
  <2>5. fields' \in Tables(Cells) /\ fields'.used = fields.used + 1 /\ fields'.directory = fields.directory
    BY <1>9, <1>t, <2>2 DEF Tables
  <2>6. ui' \in UiWords /\ ui'.pc = "field_word" /\ ui'.index = fields.used + 1
    BY <1>2, <1>3, <1>9, <2>2, Blanks DEF UiWords, UiPcs
  <2>7. /\ \A w \in 0 .. Words - 1 : fields.directory[w] \in 0 .. Cells /\ fields.directory[w] <= fields.used
        /\ \A t \in Threads : wr[t].cell \in 1 .. Cells /\ (wr[t].pc # "idle" => wr[t].cell <= fields.used)
    BY <1>t DEF FieldsInv, Tables, WrWords
  <2>8. FieldsInv'
    <3>1. \A w \in 0 .. Words - 1 : fields'.directory[w] <= fields'.used
      BY <1>5, <2>5, <2>7, Sizes
    <3>2. \A t \in Threads : wr'[t].pc # "idle" => wr'[t].cell <= fields'.used
      BY <1>0, <1>5, <2>5, <2>7, Sizes
    <3>3. ui'.index \in 1 .. fields'.used
      BY <1>5, <2>5, <2>6, Sizes
    <3> QED BY <2>6, <3>1, <3>2, <3>3 DEF FieldsInv, Filling, Seeking, Claiming
  <2>9. \A t \in Threads, n \in 1 .. Cells : HeldBy(t, n) => n # fields.used + 1
    BY <1>5, <2>7, Sizes DEF HeldBy
  <2>10. LocksInv'
    <3>1. \A t \in Threads, n \in 1 .. Cells : HeldBy(t, n)' <=> HeldBy(t, n)
      BY <1>0 DEF HeldBy
    <3>2. \A t \in Threads, n \in 1 .. Cells : HeldBy(t, n)' => cell'[n].revision = wr'[t].revision + 1
      BY <1>0, <1>t, <2>4, <2>9, <3>1 DEF LocksInv
    <3>3. \A t \in Threads : wr'[t].pc \in {"loaded", "locked", "stored"} => Idle(wr'[t].revision)
      BY <1>0, <1>t DEF LocksInv
    <3>4. \A t, u \in Threads, n \in 1 .. Cells : HeldBy(t, n)' /\ HeldBy(u, n)' => t = u
      BY <1>t, <3>1 DEF LocksInv
    <3> QED BY <2>6, <3>2, <3>3, <3>4 DEF LocksInv, Claiming
  <2>11. \A n \in 1 .. fields.used : cell'[n] = cell[n]
    BY <1>5, <2>4, Sizes
  <2>12. fields'.used >= fields.used
    BY <1>5, <2>5, Sizes
  <2> QED BY <1>9, <1>t, <2>4, <2>5, <2>6, <2>8, <2>10, <2>11, <2>12 DEF Storing, Moves
<1>10. CASE /\ alive /\ places # {} /\ full
            /\ \E bit \in Bits :
                  ui' = [NoBirth EXCEPT !.pc = "pick", !.address = a, !.field = f, !.word = at,
                                        !.bit = bit, !.index = handed]
            /\ UNCHANGED <<cell, fields, error>>
  <2>1. handed \in 0 .. OwnerSlots + Cells /\ handed <= Cells
    BY <1>7, <1>10, Sizes
  <2>2. ui' \in UiWords /\ ui'.pc = "pick" /\ ui'.index = handed /\ ui'.address = a
    BY <1>2, <1>3, <1>10, <2>1, Blanks DEF UiWords, UiPcs
  <2>3. (OwnerAt(ui.address) # 0)'
    BY <1>1, <1>4, <1>10, <2>2 DEF OwnerAt
  <2>4. FieldsInv'
    BY <1>1, <1>10, <1>t, <2>1, <2>2, <2>3 DEF FieldsInv, Filling, Claiming
  <2>5. LocksInv'
    BY <1>1, <1>10, <1>t, <2>2 DEF LocksInv, HeldBy, Claiming
  <2>6. fields'.used >= fields.used
    BY <1>5, <1>10, Sizes
  <2> QED BY <1>10, <1>t, <2>2, <2>4, <2>5, <2>6 DEF Storing, Moves
<1> QED BY <1>1, <1>8, <1>9, <1>10 DEF handed

\* A thread's hold on a cell is not disturbed by a change to another cell.
LEMMA LocksKept ==
    ASSUME LocksInv, wr' = wr, NEW i, \A t \in Threads : ~HeldBy(t, i),
           \A n \in 1 .. Cells : n # i => cell'[n] = cell[n]
    PROVE  /\ \A t \in Threads : wr'[t].pc \in {"loaded", "locked", "stored"} => Idle(wr'[t].revision)
           /\ \A t \in Threads, n \in 1 .. Cells : HeldBy(t, n)' => cell'[n].revision = wr'[t].revision + 1
           /\ \A t, u \in Threads, n \in 1 .. Cells : HeldBy(t, n)' /\ HeldBy(u, n)' => t = u
           /\ \A t \in Threads : ~HeldBy(t, i)'
<1>1. \A n : \A t \in Threads : HeldBy(t, n)' <=> HeldBy(t, n)
  BY DEF HeldBy
<1>2. \A t \in Threads, n \in 1 .. Cells : HeldBy(t, n)' => cell'[n].revision = wr'[t].revision + 1
  BY <1>1 DEF LocksInv
<1>3. \A t \in Threads : wr'[t].pc \in {"loaded", "locked", "stored"} => Idle(wr'[t].revision)
  BY DEF LocksInv
<1>4. \A t, u \in Threads, n \in 1 .. Cells : HeldBy(t, n)' /\ HeldBy(u, n)' => t = u
  BY <1>1 DEF LocksInv
<1> QED BY <1>1, <1>2, <1>3, <1>4

\* A field table that has not moved still names only cells in use.
LEMMA FieldsKept ==
    ASSUME FieldsInv, wr' = wr, fields'.used = fields.used, fields'.directory = fields.directory
    PROVE  /\ \A w \in 0 .. Words - 1 : fields'.directory[w] <= fields'.used
           /\ \A t \in Threads : wr'[t].pc # "idle" => wr'[t].cell <= fields'.used
BY DEF FieldsInv

LEMMA AgainTypes ==
    ASSUME TypeInv, Again \/ Refuse
    PROVE  /\ ui' \in UiWords /\ error' \in [Fields -> Errors] /\ ui'.pc \in {"pick", "idle"}
           /\ ui'.pc = "pick" => ui'.index = 0 /\ ui'.address = ui.address
<1>t. ui \in UiWords /\ error \in [Fields -> Errors]
  BY Types DEF TypeInv
<1>1. CASE Refuse
  BY <1>1, <1>t, Blanks DEF Refuse, UiWords, Errors
<1>2. CASE ui.tries + 1 < Tries /\ Again
  <2>1. ui' = [ui EXCEPT !.pc = "pick", !.index = 0, !.tries = @ + 1] /\ UNCHANGED error
    BY <1>2 DEF Again
  <2>2. ui.tries + 1 \in 0 .. Tries /\ 0 \in 0 .. OwnerSlots + Cells
    BY <1>t, <1>2, Sizes DEF UiWords
  <2> QED BY <1>t, <2>1, <2>2 DEF UiWords, UiPcs
<1> QED BY <1>1, <1>2 DEF Again

\* A victim is claimed at the revision it was picked at, which is even: nobody holds it.
LEMMA ClaimTypes ==
    ASSUME TypeInv, PickVictim \/ ClaimVictim
    PROVE  /\ cell' \in [1 .. Cells -> CellWords] /\ fields' \in Tables(Cells)
           /\ error' \in [Fields -> Errors] /\ ui' \in UiWords /\ ui'.pc \notin Storing
           /\ FieldsInv' /\ LocksInv' /\ fields'.used >= fields.used
           /\ \A n \in 1 .. fields.used : Moves(n)
<1>0. wr' = wr /\ owner' = owner /\ owners' = owners
  BY DEF PickVictim, ClaimVictim, FieldFrame
<1>t. /\ cell \in [1 .. Cells -> CellWords] /\ fields \in Tables(Cells)
      /\ error \in [Fields -> Errors] /\ ui \in UiWords /\ wr \in [Threads -> WrWords]
      /\ FieldsInv /\ LocksInv
  BY Types DEF TypeInv
<1>u. fields.used \in 0 .. Cells /\ fields.used = Cells /\ OwnerAt(ui.address) # 0
  BY <1>t DEF Tables, FieldsInv, Seeking, PickVictim, ClaimVictim
<1>a. ui'.address = ui.address => (OwnerAt(ui.address) # 0)'
  BY <1>0, <1>u, OwnerStays
<1>1. CASE PickVictim
  <2> DEFINE scan == Scan(fields, Cells, {n \in 1 .. Cells : CellSpendable(n)})
             v    == IF ui.index # 0 THEN ui.index ELSE scan.found
  <2>1. /\ ui.pc = "pick" /\ cell' = cell
        /\ fields' = IF ui.index # 0 THEN fields ELSE [fields EXCEPT !.cursor = scan.cursor]
        /\ \/ Refuse
           \/ Again
           \/ /\ v # 0 /\ Idle(cell[v].revision) /\ UNCHANGED error
              /\ ui' = [ui EXCEPT !.pc = "cas", !.index = v, !.revision = cell[v].revision]
    BY <1>1 DEF PickVictim
  <2>2. fields.cursor \in 0 .. Cells - 1 /\ ui.index \in 0 .. Cells
    <3>1. ui.index \in Nat /\ ui.index <= Cells
      BY <1>t, <2>1, Sizes DEF UiWords, FieldsInv
    <3> QED BY <1>t, <3>1, Sizes DEF Tables
  <2>3. scan.found \in 0 .. Cells /\ scan.cursor \in 0 .. Cells - 1
    BY <2>2, Sizes, ScanFinds
  <2>4. v \in 0 .. Cells
    BY <2>2, <2>3
  <2> HIDE DEF scan, v
  <2>5. fields' \in Tables(Cells) /\ fields'.used = fields.used /\ fields'.directory = fields.directory
    BY <1>t, <2>1, <2>3 DEF Tables
  <2>6. cell' \in [1 .. Cells -> CellWords] /\ (\A n \in 1 .. fields.used : Moves(n)) /\ fields'.used >= fields.used
    BY <1>t, <1>u, <2>1, <2>5, Sizes DEF Moves
  <2>7. /\ \A t \in Threads : wr'[t].pc \in {"loaded", "locked", "stored"} => Idle(wr'[t].revision)
        /\ \A t \in Threads, n \in 1 .. Cells : HeldBy(t, n)' => cell'[n].revision = wr'[t].revision + 1
        /\ \A t, u \in Threads, n \in 1 .. Cells : HeldBy(t, n)' /\ HeldBy(u, n)' => t = u
    BY <1>0, <1>t, <2>1 DEF LocksInv, HeldBy
  <2>8. CASE Refuse \/ Again
    <3>1. /\ ui' \in UiWords /\ error' \in [Fields -> Errors] /\ ui'.pc \in {"pick", "idle"}
          /\ ui'.pc = "pick" => ui'.index = 0 /\ ui'.address = ui.address
      BY <2>8, AgainTypes
    <3>2. FieldsInv'
      BY <1>0, <1>a, <1>t, <1>u, <2>5, <3>1, FieldsKept, Sizes DEF FieldsInv, Filling, Claiming, Seeking
    <3>3. LocksInv'
      BY <2>7, <3>1 DEF LocksInv, Claiming
    <3> QED BY <2>5, <2>6, <3>1, <3>2, <3>3 DEF Storing
  <2>9. CASE /\ v # 0 /\ Idle(cell[v].revision) /\ UNCHANGED error
             /\ ui' = [ui EXCEPT !.pc = "cas", !.index = v, !.revision = cell[v].revision]
    <3>1. v \in 1 .. Cells /\ v \in 0 .. OwnerSlots + Cells
      BY <2>4, <2>9, Sizes
    <3>2. cell[v].revision \in 0 .. LastRevision
      BY <1>t, <3>1 DEF CellWords
    <3>3. /\ ui' \in UiWords /\ ui'.pc = "cas" /\ ui'.index = v /\ ui'.revision = cell[v].revision
          /\ ui'.address = ui.address
      BY <1>t, <2>9, <3>1, <3>2 DEF UiWords, UiPcs
    <3>4. FieldsInv'
      BY <1>0, <1>a, <1>t, <1>u, <2>5, <3>1, <3>3, FieldsKept DEF FieldsInv, Filling, Claiming, Seeking
    <3>5. LocksInv'
      BY <2>7, <2>9, <3>3 DEF LocksInv, Claiming
    <3> QED BY <1>t, <2>5, <2>6, <2>9, <3>3, <3>4, <3>5 DEF Storing
  <2> QED BY <2>1, <2>8, <2>9
<1>2. CASE ClaimVictim
  <2>1. /\ ui.pc = "cas" /\ fields' = fields
        /\ \/ /\ cell[ui.index].revision = ui.revision /\ ui' = [ui EXCEPT !.pc = "claimed"]
              /\ cell' = [cell EXCEPT ![ui.index].revision = ui.revision + 1] /\ error' = error
           \/ Again /\ cell' = cell
    BY <1>2 DEF ClaimVictim, Goto
  <2>2. ui.index \in 1 .. Cells /\ ui.index \in 1 .. fields.used
    BY <1>t, <1>u, <2>1 DEF FieldsInv, Filling
  <2>3. fields' \in Tables(Cells) /\ fields'.used >= fields.used
    BY <1>t, <1>u, <2>1, Sizes
  <2>4. CASE Again /\ cell' = cell
    <3>1. /\ ui' \in UiWords /\ error' \in [Fields -> Errors] /\ ui'.pc \in {"pick", "idle"}
          /\ ui'.pc = "pick" => ui'.index = 0 /\ ui'.address = ui.address
      BY <2>4, AgainTypes
    <3>2. FieldsInv'
      BY <1>0, <1>a, <1>t, <1>u, <2>1, <3>1, FieldsKept, Sizes DEF FieldsInv, Filling, Claiming, Seeking
    <3>3. LocksInv'
      BY <1>0, <1>t, <2>4, <3>1 DEF LocksInv, HeldBy, Claiming
    <3> QED BY <1>t, <2>3, <2>4, <3>1, <3>2, <3>3 DEF Storing, Moves
  <2>5. CASE /\ cell[ui.index].revision = ui.revision /\ ui' = [ui EXCEPT !.pc = "claimed"]
             /\ cell' = [cell EXCEPT ![ui.index].revision = ui.revision + 1] /\ error' = error
    <3>1. Idle(ui.revision) /\ ui.revision \in 0 .. LastRevision
      BY <1>t, <2>1 DEF LocksInv, UiWords
    <3>2. ui.revision + 1 \in 0 .. LastRevision
      BY <3>1, Sizes DEF Idle
    <3>3. /\ cell' \in [1 .. Cells -> CellWords] /\ cell'[ui.index].revision = ui.revision + 1
          /\ \A n \in 1 .. Cells : n # ui.index => cell'[n] = cell[n]
      BY <1>t, <2>2, <2>5, <3>2 DEF CellWords
    <3>4. \A t \in Threads : ~HeldBy(t, ui.index)
      <4> SUFFICES ASSUME NEW t \in Threads, HeldBy(t, ui.index) PROVE FALSE
        OBVIOUS
      <4>1. ui.revision = wr[t].revision + 1 /\ Idle(wr[t].revision)
        BY <1>t, <2>2, <2>5 DEF LocksInv, HeldBy
      <4>2. wr[t].revision \in Nat /\ ui.revision \in Nat
        BY <1>t, <3>1 DEF WrWords
      <4> QED BY <3>1, <4>1, <4>2 DEF Idle
    <3>5. /\ ui' \in UiWords /\ ui'.pc = "claimed" /\ ui'.index = ui.index /\ ui'.revision = ui.revision
          /\ ui'.address = ui.address
      BY <1>t, <2>5 DEF UiWords, UiPcs
    <3>6. FieldsInv'
      BY <1>0, <1>a, <1>t, <2>1, <2>2, <3>5, FieldsKept DEF FieldsInv, Filling, Claiming, Seeking
    <3>7. LocksInv'
      BY <1>0, <1>t, <3>1, <3>3, <3>4, <3>5, LocksKept DEF LocksInv, Claiming
    <3>8. \A n \in 1 .. fields.used : Moves(n)
      BY <1>u, <2>5, <3>3 DEF Moves
    <3> QED BY <1>t, <2>3, <2>5, <3>3, <3>5, <3>6, <3>7, <3>8 DEF Storing
  <2> QED BY <2>1, <2>4, <2>5
<1> QED BY <1>1, <1>2

\* The holder's stores leave its claim standing, and the last one gives it up.
LEMMA RefillTypes ==
    ASSUME TypeInv, RenameCell \/ ReidentifyCell \/ RefillCell \/ ReleaseCell
    PROVE  /\ cell' \in [1 .. Cells -> CellWords] /\ fields' \in Tables(Cells)
           /\ error' \in [Fields -> Errors] /\ ui' \in UiWords /\ ui'.pc \notin Storing
           /\ FieldsInv' /\ LocksInv' /\ fields'.used >= fields.used
           /\ \A n \in 1 .. fields.used : Moves(n)
<1>0. wr' = wr /\ owner' = owner /\ owners' = owners /\ fields' = fields /\ error' = error
  BY DEF RenameCell, ReidentifyCell, RefillCell, ReleaseCell, FillFrame, FieldFrame
<1>p. ui.pc \in Claiming
  BY DEF RenameCell, ReidentifyCell, RefillCell, ReleaseCell, Claiming
<1>t. /\ cell \in [1 .. Cells -> CellWords] /\ fields \in Tables(Cells)
      /\ error \in [Fields -> Errors] /\ ui \in UiWords /\ wr \in [Threads -> WrWords]
      /\ owner \in [1 .. OwnerSlots -> OwnerWords] /\ owners \in Tables(OwnerSlots)
      /\ FieldsInv /\ LocksInv
  BY Types DEF TypeInv
<1> DEFINE i == ui.index
<1>1. i \in 1 .. fields.used /\ fields.used \in 0 .. Cells /\ i \in 1 .. Cells
  <2>1. i \in 1 .. fields.used /\ fields.used \in 0 .. Cells
    BY <1>p, <1>t DEF FieldsInv, Filling, Tables
  <2> QED BY <2>1, Sizes
<1>2. /\ cell[i].revision = ui.revision + 1 /\ \A t \in Threads : ~HeldBy(t, i)
      /\ Idle(ui.revision) /\ ui.revision \in 0 .. LastRevision
  BY <1>p, <1>t DEF LocksInv, UiWords
<1>3. ui.revision + 1 \in 0 .. LastRevision /\ ui.revision + 2 \in 0 .. LastRevision /\ Odd(i)
  <2>1. ui.revision \in Nat /\ ui.revision % 2 = 0 /\ ui.revision <= LastRevision - 2
    BY <1>2, Sizes DEF Idle
  <2>2. (ui.revision + 1) % 2 = 1
    BY <2>1
  <2> QED BY <1>2, <2>1, <2>2, Sizes DEF Odd
<1>4. \E w \in CellWords :
         /\ cell' = [cell EXCEPT ![i] = w]
         /\ \/ w.revision = ui.revision + 1 /\ ui'.pc \in Claiming
            \/ w.revision = ui.revision + 2 /\ ui'.pc = "field_word"
         /\ ui' = [ui EXCEPT !.pc = ui'.pc]
         /\ ui'.pc \in Seeking => ui.pc = "claimed"
  <2>1. ui.address \in Addresses /\ ui.field \in Fields /\ ui.bit \in Bits
        /\ Property(ui.address, ui.field) \in Properties /\ cell[i] \in CellWords
    BY <1>1, <1>t, PropertyType DEF UiWords
  <2>2. CASE RenameCell
    <3> DEFINE w == [cell[i] EXCEPT !.live = FALSE, !.property = Property(ui.address, ui.field)]
    <3>1. w \in CellWords /\ w.revision = ui.revision + 1
      BY <1>2, <2>1 DEF CellWords
    <3>2. cell' = [cell EXCEPT ![i] = w]
      BY <1>1, <1>t, <2>2 DEF RenameCell, CellWords
    <3>3. ui' = [ui EXCEPT !.pc = "named"] /\ ui.pc = "claimed"
      BY <2>2 DEF RenameCell, Goto
    <3>4. ui'.pc = "named" /\ ui' = [ui EXCEPT !.pc = ui'.pc]
      BY <1>t, <3>3 DEF UiWords
    <3> QED BY <3>1, <3>2, <3>3, <3>4 DEF Claiming, Seeking
  <2>3. CASE ReidentifyCell
    <3> DEFINE w == [cell[i] EXCEPT !.token = owner[OwnerAt(ui.address)].token, !.field = ui.field]
    <3>1. owner[OwnerAt(ui.address)].token \in Tokens
      <4>1. OwnerAt(ui.address) # 0
        BY <1>t, <2>3 DEF ReidentifyCell, FieldsInv, Seeking
      <4>2. OwnerAt(ui.address) \in 1 .. OwnerSlots
        BY <1>t, <2>1, <4>1, OwnerFound, Sizes
      <4> QED BY <1>t, <4>2 DEF OwnerWords
    <3>2. w \in CellWords /\ w.revision = ui.revision + 1
      BY <1>2, <2>1, <3>1 DEF CellWords
    <3>3. cell' = [cell EXCEPT ![i] = w]
      BY <1>1, <1>t, <2>3 DEF ReidentifyCell, CellWords
    <3>4. ui' = [ui EXCEPT !.pc = "identified"]
      BY <2>3 DEF ReidentifyCell, Goto
    <3>5. ui'.pc = "identified" /\ ui' = [ui EXCEPT !.pc = ui'.pc]
      BY <1>t, <3>4 DEF UiWords
    <3> QED BY <3>2, <3>3, <3>5 DEF Claiming, Seeking
  <2>4. CASE RefillCell
    <3> DEFINE v == <<Property(ui.address, ui.field), ui.bit>>
               w == [cell[i] EXCEPT !.bits = v, !.live = TRUE]
    <3>1. v \in Values
      BY <2>1 DEF Values
    <3>2. w \in CellWords /\ w.revision = ui.revision + 1
      <4> HIDE DEF v
      <4> QED BY <1>2, <2>1, <3>1 DEF CellWords
    <3>3. cell' = [cell EXCEPT ![i] = w]
      <4>1. cell' = [cell EXCEPT ![i].bits = v, ![i].live = TRUE]
        BY <2>4 DEF RefillCell
      <4> HIDE DEF v
      <4> QED BY <1>1, <1>t, <4>1 DEF CellWords
    <3>4. ui' = [ui EXCEPT !.pc = "filled"]
      BY <2>4 DEF RefillCell, Goto
    <3>5. ui'.pc = "filled" /\ ui' = [ui EXCEPT !.pc = ui'.pc]
      BY <1>t, <3>4 DEF UiWords
    <3> QED BY <3>2, <3>3, <3>5 DEF Claiming, Seeking
  <2>5. CASE ReleaseCell
    <3> DEFINE w == [cell[i] EXCEPT !.revision = ui.revision + 2]
    <3>1. w \in CellWords /\ w.revision = ui.revision + 2
      BY <1>3, <2>1 DEF CellWords
    <3>2. cell' = [cell EXCEPT ![i] = w]
      BY <1>1, <1>t, <2>5 DEF ReleaseCell, CellWords
    <3>3. ui' = [ui EXCEPT !.pc = "field_word"]
      BY <2>5 DEF ReleaseCell, Goto
    <3>4. ui'.pc = "field_word" /\ ui' = [ui EXCEPT !.pc = ui'.pc]
      BY <1>t, <3>3 DEF UiWords
    <3> QED BY <3>1, <3>2, <3>4 DEF Seeking
  <2> QED BY <2>2, <2>3, <2>4, <2>5
<1> HIDE DEF i
<1>5. PICK w \in CellWords :
         /\ cell' = [cell EXCEPT ![i] = w]
         /\ \/ w.revision = ui.revision + 1 /\ ui'.pc \in Claiming
            \/ w.revision = ui.revision + 2 /\ ui'.pc = "field_word"
         /\ ui' = [ui EXCEPT !.pc = ui'.pc]
         /\ ui'.pc \in Seeking => ui.pc = "claimed"
  BY <1>4
<1>6. cell' \in [1 .. Cells -> CellWords] /\ cell'[i] = w /\ \A n \in 1 .. Cells : n # i => cell'[n] = cell[n]
  BY <1>1, <1>5, <1>t
<1>7. /\ ui' \in UiWords /\ ui'.index = i /\ ui'.revision = ui.revision /\ ui'.address = ui.address
      /\ ui'.pc \in Claiming \cup {"field_word"}
  <2>1. ui'.pc \in Claiming \cup {"field_word"}
    BY <1>5
  <2> QED BY <1>5, <1>t, <2>1 DEF UiWords, UiPcs, Claiming, i
<1>8. FieldsInv'
  <2>1. ui'.pc \in Seeking => (OwnerAt(ui.address) # 0)'
    <3>1. ui'.pc \in Seeking => ui.pc \in Seeking
      BY <1>5 DEF Seeking
    <3> QED BY <1>0, <1>7, <1>t, <3>1, OwnerStays DEF FieldsInv
  <2> QED BY <1>0, <1>1, <1>7, <1>t, <2>1, FieldsKept DEF FieldsInv, Filling, Claiming
<1>9. LocksInv'
  <2>1. ui'.pc \in Claiming => cell'[ui'.index].revision = ui'.revision + 1
    BY <1>5, <1>6, <1>7 DEF Claiming
  <2>2. Idle(ui'.revision)
    BY <1>2, <1>7
  <2> QED BY <1>0, <1>2, <1>6, <1>7, <1>t, <2>1, <2>2, LocksKept DEF LocksInv
<1>10. \A n \in 1 .. fields.used : Moves(n)
  <2>1. Moves(i)
    <3>1. cell'[i].revision = cell[i].revision \/ cell'[i].revision = cell[i].revision + 1
      BY <1>2, <1>5, <1>6
    <3> QED BY <1>3, <3>1 DEF Moves
  <2> QED BY <1>1, <1>6, <2>1, Sizes DEF Moves
<1>11. fields'.used >= fields.used
  BY <1>0, <1>1, Sizes
<1> QED BY <1>0, <1>6, <1>7, <1>8, <1>9, <1>10, <1>11, <1>t DEF Storing, Claiming

\* The word that leads to a cell is stored when the cell is in use.
LEMMA FieldWordTypes ==
    ASSUME TypeInv, StoreFieldWord
    PROVE  /\ cell' \in [1 .. Cells -> CellWords] /\ fields' \in Tables(Cells)
           /\ error' \in [Fields -> Errors] /\ ui' \in UiWords /\ ui'.pc \notin Storing
           /\ FieldsInv' /\ LocksInv' /\ fields'.used >= fields.used
           /\ \A n \in 1 .. fields.used : Moves(n)
<1>1. /\ ui.pc = "field_word" /\ ui' = NoBirth /\ fields' = Enter(fields, ui.word, ui.index)
      /\ wr' = wr /\ cell' = cell /\ error' = error
  BY DEF StoreFieldWord, FieldFrame
<1>t. /\ cell \in [1 .. Cells -> CellWords] /\ fields \in Tables(Cells)
      /\ error \in [Fields -> Errors] /\ ui \in UiWords /\ FieldsInv /\ LocksInv
  BY Types DEF TypeInv
<1>2. /\ ui.index \in 1 .. fields.used /\ fields.used \in 0 .. Cells /\ ui.index \in 1 .. Cells
      /\ ui.word \in 0 .. Words - 1
  <2>1. ui.index \in 1 .. fields.used /\ fields.used \in 0 .. Cells
    BY <1>1, <1>t DEF FieldsInv, Filling, Tables
  <2> QED BY <1>t, <2>1, Sizes DEF UiWords
<1>3. /\ fields' \in Tables(Cells) /\ fields'.used = fields.used
      /\ \A w \in 0 .. Words - 1 : fields'.directory[w] \in {ui.index, fields.directory[w]}
  BY <1>1, <1>2, <1>t, Sizes, EnterTypes
<1>4. ui' \in UiWords /\ ui'.pc = "idle"
  BY <1>1, Blanks
<1>5. \A w \in 0 .. Words - 1 : fields'.directory[w] <= fields'.used
  BY <1>2, <1>3, <1>t, Sizes DEF FieldsInv
<1>6. FieldsInv'
  BY <1>1, <1>3, <1>4, <1>5, <1>t DEF FieldsInv, Filling, Claiming, Seeking
<1>7. LocksInv'
  BY <1>1, <1>4, <1>t DEF LocksInv, HeldBy, Claiming
<1>8. fields'.used >= fields.used
  BY <1>2, <1>3, Sizes
<1> QED BY <1>1, <1>3, <1>4, <1>6, <1>7, <1>8, <1>t DEF Storing, Moves

\* A field's birth leaves the owners and the reader where they are.
LEMMA FieldSideStep ==
    ASSUME TypeInv, FieldSide
    PROVE  /\ TypeInv' /\ rd' = rd /\ fields'.used >= fields.used
           /\ \A n \in 1 .. fields.used : Moves(n)
<1>1. /\ cell' \in [1 .. Cells -> CellWords] /\ fields' \in Tables(Cells)
      /\ error' \in [Fields -> Errors] /\ ui' \in UiWords /\ ui'.pc \notin Storing
      /\ FieldsInv' /\ LocksInv' /\ fields'.used >= fields.used
      /\ \A n \in 1 .. fields.used : Moves(n)
  <2>1. CASE \E a \in Addresses : FieldBirth(a)
    BY <2>1, FieldBirthTypes
  <2>2. CASE PickVictim \/ ClaimVictim
    BY <2>2, ClaimTypes
  <2>3. CASE RenameCell \/ ReidentifyCell \/ RefillCell \/ ReleaseCell
    BY <2>3, RefillTypes
  <2>4. CASE StoreFieldWord
    BY <2>4, FieldWordTypes
  <2> QED BY <2>1, <2>2, <2>3, <2>4 DEF FieldSide
<1>2. owner' = owner /\ owners' = owners /\ wr' = wr /\ rd' = rd /\ Remember /\ UNCHANGED <<native, enrolled>>
      /\ ui.pc # "tokened"
  BY DEF FieldSide, FieldBirth, PickVictim, ClaimVictim, RenameCell, ReidentifyCell, RefillCell,
         ReleaseCell, StoreFieldWord, FillFrame, FieldFrame, UiFree
<1>3. built' = built \/ \E a \in Addresses : built' = built \cup {a}
  BY DEF FieldSide, FieldBirth, PickVictim, ClaimVictim, RenameCell, ReidentifyCell, RefillCell,
         ReleaseCell, StoreFieldWord, FillFrame
<1>t. /\ owner \in [1 .. OwnerSlots -> OwnerWords] /\ owners \in Tables(OwnerSlots)
      /\ native \in [Addresses -> Fields \cup {"none"}] /\ built \subseteq Addresses
      /\ enrolled \subseteq Addresses /\ fields \in Tables(Cells)
      /\ wr \in [Threads -> WrWords] /\ rd \in RdWords /\ seen \subseteq Values
  BY Types DEF TypeInv
<1>4. TypeOK'
  <2>1. seen' \subseteq Values
    BY <1>1, <1>2, <1>t, SeenTypes
  <2>2. built' \subseteq Addresses
    BY <1>3, <1>t
  <2> QED BY <1>1, <1>2, <1>t, <2>1, <2>2, TypesNext
<1>5. OwnersInv'
  BY <1>1, <1>2 DEF TypeInv, OwnersInv, Storing
<1>6. ReaderInv'
  <2>1. fields.used \in Nat /\ fields'.used \in Nat /\ rd.cell \in Nat
    <3>1. fields.used \in 0 .. Cells /\ fields'.used \in 0 .. Cells /\ rd.cell \in 1 .. Cells
      BY <1>1, <1>t DEF Tables, RdWords
    <3> QED BY <3>1, Sizes
  <2>2. rd.cell <= fields.used => rd.cell <= fields'.used
    BY <1>1, <2>1
  <2> QED BY <1>2, <2>2 DEF TypeInv, ReaderInv
<1> QED BY <1>1, <1>2, <1>4, <1>5, <1>6 DEF TypeInv

\* A commit resolves a cell in use, claims it at an even revision, and gives it up.
LEMMA WriteTypes ==
    ASSUME TypeInv, NEW t \in Threads,
           \/ \E a \in Addresses, bit \in Bits, death \in BOOLEAN : Resolve(t, a, bit, death)
           \/ LoadRevision(t) \/ LockCell(t) \/ StorePayload(t) \/ UnlockCell(t)
    PROVE  /\ cell' \in [1 .. Cells -> CellWords] /\ error' \in [Fields -> Errors]
           /\ wr' \in [Threads -> WrWords] /\ FieldsInv' /\ LocksInv'
           /\ \A n \in 1 .. fields.used : Moves(n)
<1> DEFINE c == wr[t].cell
<1>i. PICK i : i = ui.index
  OBVIOUS
<1>0. fields' = fields /\ ui' = ui /\ owner' = owner /\ owners' = owners
  BY DEF Resolve, LoadRevision, LockCell, StorePayload, UnlockCell, WriteFrame
<1>t. /\ cell \in [1 .. Cells -> CellWords] /\ fields \in Tables(Cells)
      /\ error \in [Fields -> Errors] /\ wr \in [Threads -> WrWords] /\ ui \in UiWords
      /\ native \in [Addresses -> Fields \cup {"none"}] /\ FieldsInv /\ LocksInv
  BY Types DEF TypeInv
<1>1. /\ c \in 1 .. Cells /\ cell[c] \in CellWords /\ fields.used \in 0 .. Cells
      /\ cell[c].revision \in 0 .. LastRevision /\ wr[t].revision \in 0 .. LastRevision
  BY <1>t DEF WrWords, CellWords, Tables
\* The thread's own words stay typed, and name a cell in use or none.
<1>2. /\ wr' \in [Threads -> WrWords] /\ error' \in [Fields -> Errors]
      /\ wr'[t].pc # "idle" => wr'[t].cell <= fields.used
      /\ \A u \in Threads : u # t => wr'[u] = wr[u]
  <2>1. ASSUME NEW a \in Addresses, NEW bit \in Bits, NEW death \in BOOLEAN, Resolve(t, a, bit, death)
        PROVE  /\ wr' \in [Threads -> WrWords] /\ error' \in [Fields -> Errors]
               /\ wr'[t].pc # "idle" => wr'[t].cell <= fields.used
               /\ \A u \in Threads : u # t => wr'[u] = wr[u]
    <3> DEFINE p == Property(a, native[a])
               w == [pc |-> "resolved", cell |-> CellAt(p), revision |-> 0, bits |-> <<p, bit>>,
                     death |-> death]
    <3>1. native[a] \in Fields /\ CellAt(p) # 0 /\ wr' = [wr EXCEPT ![t] = w] /\ error' = error
      BY <1>t, <2>1 DEF Resolve
    <3>2. p \in Properties
      BY <3>1, PropertyType
    <3>3. CellAt(p) \in 1 .. Cells /\ CellAt(p) <= fields.used
      <4>1. CellAt(p) \in 0 .. Cells /\ \E x \in 0 .. Words - 1 : CellAt(p) = fields.directory[x]
        BY <1>t, <3>1, <3>2, CellFound
      <4> QED BY <1>t, <3>1, <4>1, Sizes DEF FieldsInv
    <3>4. w \in WrWords
      <4>1. <<p, bit>> \in Values
        BY <3>2 DEF Values
      <4> QED BY <3>3, <4>1, Sizes DEF WrWords, WrPcs
    <3> HIDE DEF w
    <3>5. wr' \in [Threads -> WrWords] /\ wr'[t] = w /\ \A u \in Threads : u # t => wr'[u] = wr[u]
      BY <1>t, <3>1, <3>4
    <3> QED BY <1>t, <3>1, <3>3, <3>5 DEF w
  <2>2. CASE Leave(t) /\ (error' = error \/ \E e \in Errors : error' = [error EXCEPT ![cell[c].field] = e])
    <3>1. wr' \in [Threads -> WrWords] /\ wr'[t].pc = "idle" /\ \A u \in Threads : u # t => wr'[u] = wr[u]
      BY <1>t, <2>2, Blanks DEF Leave
    <3>2. error' \in [Fields -> Errors]
      BY <1>t, <2>2
    <3> QED BY <3>1, <3>2
  <2>3. CASE /\ wr[t].pc \in {"resolved", "loaded", "locked"} /\ error' = error
             /\ \E pc \in {"loaded", "locked", "stored"}, r \in {cell[c].revision, wr[t].revision} :
                   wr' = [wr EXCEPT ![t] = [@ EXCEPT !.pc = pc, !.revision = r]]
    <3>1. PICK pc \in {"loaded", "locked", "stored"}, r \in {cell[c].revision, wr[t].revision} :
             wr' = [wr EXCEPT ![t] = [@ EXCEPT !.pc = pc, !.revision = r]]
      BY <2>3
    <3>2. r \in 0 .. LastRevision
      BY <1>1, <3>1
    <3>3. wr' \in [Threads -> WrWords] /\ wr'[t].cell = c /\ \A u \in Threads : u # t => wr'[u] = wr[u]
      BY <1>t, <3>1, <3>2 DEF WrWords, WrPcs
    <3>4. c <= fields.used
      BY <1>t, <2>3 DEF FieldsInv
    <3> QED BY <1>t, <2>3, <3>3, <3>4
  <2>4. CASE LoadRevision(t)
    <3>1. \/ Leave(t) /\ (error' = error \/ \E e \in Errors : error' = [error EXCEPT ![cell[c].field] = e])
          \/ /\ wr[t].pc = "resolved" /\ error' = error
             /\ wr' = [wr EXCEPT ![t].pc = "loaded", ![t].revision = cell[c].revision]
      BY <2>4 DEF LoadRevision, Errors
    <3>2. wr' = [wr EXCEPT ![t].pc = "loaded", ![t].revision = cell[c].revision]
            => wr' = [wr EXCEPT ![t] = [@ EXCEPT !.pc = "loaded", !.revision = cell[c].revision]]
      BY <1>t DEF WrWords
    <3> QED BY <2>2, <2>3, <3>1, <3>2
  <2>5. CASE LockCell(t) \/ StorePayload(t) \/ UnlockCell(t)
    <3>1. \/ Leave(t) /\ error' = error
          \/ /\ wr[t].pc \in {"loaded", "locked"} /\ error' = error
             /\ \E pc \in {"locked", "stored"} : wr' = [wr EXCEPT ![t].pc = pc]
      BY <2>5 DEF LockCell, StorePayload, UnlockCell
    <3>2. \A pc : wr' = [wr EXCEPT ![t].pc = pc]
            => wr' = [wr EXCEPT ![t] = [@ EXCEPT !.pc = pc, !.revision = wr[t].revision]]
      BY <1>t DEF WrWords
    <3> QED BY <2>2, <2>3, <3>1, <3>2
  <2> QED BY <2>1, <2>4, <2>5
<1>3. FieldsInv'
  <2>1. ui.pc \in Seeking => (OwnerAt(ui.address) # 0)'
    BY <1>0, <1>t, OwnerStays DEF FieldsInv
  <2>2. \A u \in Threads : wr'[u].pc # "idle" => wr'[u].cell <= fields.used
    BY <1>2, <1>t DEF FieldsInv
  <2> QED BY <1>0, <1>t, <2>1, <2>2 DEF FieldsInv
\* It claims the cell when nobody holds it, and stores while it holds it alone.
<1>4. /\ cell' \in [1 .. Cells -> CellWords] /\ LocksInv' /\ \A n \in 1 .. fields.used : Moves(n)
  <2>0. \A n : \A u \in Threads : u # t => (HeldBy(u, n)' <=> HeldBy(u, n))
    BY <1>2 DEF HeldBy
  <2>1. CASE /\ cell' = cell /\ wr'[t].pc \in {"idle", "resolved", "loaded"}
             /\ wr'[t].pc = "loaded" => Idle(wr'[t].revision)
    <3>1. \A n : \A u \in Threads : HeldBy(u, n)' => HeldBy(u, n) /\ u # t
      BY <2>0, <2>1 DEF HeldBy
    <3>2. \A u \in Threads : wr'[u].pc \in {"loaded", "locked", "stored"} => Idle(wr'[u].revision)
      BY <1>2, <1>t, <2>1 DEF LocksInv
    <3>3. \A u \in Threads, n \in 1 .. Cells : HeldBy(u, n)' => cell'[n].revision = wr'[u].revision + 1
      BY <1>2, <1>t, <2>1, <3>1 DEF LocksInv
    <3>4. \A u, v \in Threads, n \in 1 .. Cells : HeldBy(u, n)' /\ HeldBy(v, n)' => u = v
      BY <1>t, <3>1 DEF LocksInv
    <3>5. ui.pc \in Claiming => /\ cell'[i].revision = ui.revision + 1
                                /\ \A u \in Threads : ~HeldBy(u, i)'
      BY <1>i, <1>t, <2>1, <3>1 DEF LocksInv
    <3>6. LocksInv'
      BY <1>0, <1>i, <1>t, <3>2, <3>3, <3>4, <3>5 DEF LocksInv
    <3> QED BY <1>t, <2>1, <3>6 DEF Moves
  <2>2. CASE LockCell(t) /\ Won(t)
    <3>1. /\ wr[t].pc = "loaded" /\ cell[c].revision = wr[t].revision
          /\ cell' = [cell EXCEPT ![c].revision = wr[t].revision + 1]
          /\ wr' = [wr EXCEPT ![t].pc = "locked"]
      BY <2>2 DEF LockCell, Won
    <3>2. Idle(wr[t].revision)
      BY <1>t, <3>1 DEF LocksInv
    <3>3. wr[t].revision + 1 \in 0 .. LastRevision /\ wr[t].revision % 2 = 0 /\ wr[t].revision \in Nat
      BY <1>1, <3>2, Sizes DEF Idle
    <3>4. /\ cell' \in [1 .. Cells -> CellWords] /\ cell'[c].revision = wr[t].revision + 1
          /\ \A n \in 1 .. Cells : n # c => cell'[n] = cell[n]
      BY <1>1, <1>t, <3>1, <3>3 DEF CellWords
    <3>5. \A u \in Threads : ~HeldBy(u, c)
      <4> SUFFICES ASSUME NEW u \in Threads, HeldBy(u, c) PROVE FALSE
        OBVIOUS
      <4>1. wr[t].revision = wr[u].revision + 1 /\ Idle(wr[u].revision)
        BY <1>1, <1>t, <3>1 DEF LocksInv, HeldBy
      <4>2. wr[u].revision \in Nat
        BY <1>t DEF WrWords
      <4> QED BY <3>3, <4>1, <4>2 DEF Idle
    <3>6. ui.pc \in Claiming => ui.index # c
      <4> SUFFICES ASSUME ui.pc \in Claiming, ui.index = c PROVE FALSE
        OBVIOUS
      <4>1. wr[t].revision = ui.revision + 1 /\ Idle(ui.revision)
        BY <1>t, <3>1 DEF LocksInv
      <4>2. ui.revision \in Nat
        BY <1>t DEF UiWords
      <4> QED BY <3>3, <4>1, <4>2 DEF Idle
    <3>7. wr'[t].pc = "locked" /\ wr'[t].cell = c /\ wr'[t].revision = wr[t].revision
      BY <1>t, <3>1 DEF WrWords
    <3>8. \A n : HeldBy(t, n)' <=> n = c
      BY <3>7 DEF HeldBy
    <3>9. \A u \in Threads : wr'[u].pc \in {"loaded", "locked", "stored"} => Idle(wr'[u].revision)
      BY <1>2, <1>t, <3>2, <3>7 DEF LocksInv
    <3>10. \A u \in Threads, n \in 1 .. Cells : HeldBy(u, n)' => cell'[n].revision = wr'[u].revision + 1
      <4>1. \A n \in 1 .. Cells : HeldBy(t, n)' => cell'[n].revision = wr'[t].revision + 1
        BY <3>4, <3>7, <3>8
      <4>2. \A u \in Threads, n \in 1 .. Cells : u # t /\ HeldBy(u, n)' => cell'[n].revision = wr'[u].revision + 1
        BY <1>2, <1>t, <2>0, <3>4, <3>5 DEF LocksInv
      <4> QED BY <4>1, <4>2
    <3>11. \A u, v \in Threads, n \in 1 .. Cells : HeldBy(u, n)' /\ HeldBy(v, n)' => u = v
      BY <1>t, <2>0, <3>5, <3>8 DEF LocksInv
    <3>12. ui.pc \in Claiming => /\ cell'[i].revision = ui.revision + 1
                                 /\ \A u \in Threads : ~HeldBy(u, i)'
      <4>1. ui.pc \in Claiming => i \in 1 .. Cells
        BY <1>i, <1>1, <1>t, Sizes DEF FieldsInv, Filling
      <4> QED BY <1>i, <1>t, <2>0, <3>4, <3>6, <3>8, <4>1 DEF LocksInv
    <3>13. LocksInv'
      BY <1>0, <1>i, <1>t, <3>9, <3>10, <3>11, <3>12 DEF LocksInv
    <3>14. \A n \in 1 .. fields.used : Moves(n)
      BY <1>1, <3>1, <3>4, Sizes DEF Moves
    <3> QED BY <3>4, <3>13, <3>14
  <2>3. CASE StorePayload(t) \/ UnlockCell(t)
    <3>1. HeldBy(t, c) /\ cell[c].revision = wr[t].revision + 1 /\ Idle(wr[t].revision)
      BY <1>1, <1>t, <2>3 DEF StorePayload, UnlockCell, HeldBy, LocksInv
    <3>2. /\ \A u \in Threads : HeldBy(u, c) => u = t
          /\ ui.pc \in Claiming => ui.index # c /\ ui.index \in 1 .. Cells
      BY <1>1, <1>t, <3>1, Sizes DEF LocksInv, FieldsInv, Filling
    <3>3. /\ wr[t].revision \in Nat /\ wr[t].revision + 1 \in 0 .. LastRevision
          /\ wr[t].revision + 2 \in 0 .. LastRevision /\ Odd(c)
      <4>1. wr[t].revision \in Nat /\ wr[t].revision % 2 = 0 /\ wr[t].revision <= LastRevision - 2
        BY <1>1, <3>1, Sizes DEF Idle
      <4>2. (wr[t].revision + 1) % 2 = 1
        BY <4>1
      <4> QED BY <3>1, <4>1, <4>2, Sizes DEF Odd
    <3>4. \E w \in CellWords :
             /\ cell' = [cell EXCEPT ![c] = w]
             /\ \/ w.revision = wr[t].revision + 1 /\ wr' = [wr EXCEPT ![t].pc = "stored"]
                \/ w.revision = wr[t].revision + 2 /\ wr' = [wr EXCEPT ![t] = NoWrite]
      <4>1. CASE StorePayload(t)
        <5> DEFINE w == IF wr[t].death THEN [cell[c] EXCEPT !.live = FALSE]
                                       ELSE [cell[c] EXCEPT !.bits = wr[t].bits]
        <5>1. wr[t].bits \in Values
          BY <1>t DEF WrWords
        <5>2. w \in CellWords /\ w.revision = wr[t].revision + 1
          BY <1>1, <3>1, <5>1 DEF CellWords
        <5>3. cell' = [cell EXCEPT ![c] = w] /\ wr' = [wr EXCEPT ![t].pc = "stored"]
          BY <1>1, <1>t, <4>1 DEF StorePayload
        <5> QED BY <5>2, <5>3
      <4>2. CASE UnlockCell(t)
        <5> DEFINE w == [cell[c] EXCEPT !.revision = wr[t].revision + 2]
        <5>1. w \in CellWords /\ w.revision = wr[t].revision + 2
          BY <1>1, <3>3 DEF CellWords
        <5>2. cell' = [cell EXCEPT ![c] = w] /\ wr' = [wr EXCEPT ![t] = NoWrite]
          BY <1>1, <1>t, <4>2 DEF UnlockCell, Leave, CellWords
        <5> QED BY <5>1, <5>2
      <4> QED BY <2>3, <4>1, <4>2
    <3>5. PICK w \in CellWords :
             /\ cell' = [cell EXCEPT ![c] = w]
             /\ \/ w.revision = wr[t].revision + 1 /\ wr' = [wr EXCEPT ![t].pc = "stored"]
                \/ w.revision = wr[t].revision + 2 /\ wr' = [wr EXCEPT ![t] = NoWrite]
      BY <3>4
    <3>6. /\ cell' \in [1 .. Cells -> CellWords] /\ cell'[c] = w
          /\ \A n \in 1 .. Cells : n # c => cell'[n] = cell[n]
      BY <1>1, <1>t, <3>5
    <3>7. /\ \A n : HeldBy(t, n)' => n = c /\ w.revision = wr'[t].revision + 1
          /\ wr'[t].pc \in {"loaded", "locked", "stored"} => Idle(wr'[t].revision)
      <4>1. CASE w.revision = wr[t].revision + 1 /\ wr' = [wr EXCEPT ![t].pc = "stored"]
        <5>1. wr'[t].pc = "stored" /\ wr'[t].cell = c /\ wr'[t].revision = wr[t].revision
          BY <1>t, <4>1 DEF WrWords
        <5> QED BY <3>1, <4>1, <5>1 DEF HeldBy
      <4>2. CASE wr' = [wr EXCEPT ![t] = NoWrite]
        <5>1. wr'[t].pc = "idle"
          BY <1>t, <4>2, Blanks
        <5> QED BY <5>1 DEF HeldBy
      <4> QED BY <3>5, <4>1, <4>2
    <3>8. \A u \in Threads : wr'[u].pc \in {"loaded", "locked", "stored"} => Idle(wr'[u].revision)
      BY <1>2, <1>t, <3>7 DEF LocksInv
    <3>9. \A u \in Threads, n \in 1 .. Cells : HeldBy(u, n)' => cell'[n].revision = wr'[u].revision + 1
      <4>1. \A u \in Threads, n \in 1 .. Cells : u # t /\ HeldBy(u, n)' => cell'[n].revision = wr'[u].revision + 1
        BY <1>2, <1>t, <2>0, <3>2, <3>6 DEF LocksInv
      <4> QED BY <3>6, <3>7, <4>1
    <3>10. \A u, v \in Threads, n \in 1 .. Cells : HeldBy(u, n)' /\ HeldBy(v, n)' => u = v
      BY <1>t, <2>0, <3>2, <3>7 DEF LocksInv
    <3>11. ui.pc \in Claiming => /\ cell'[i].revision = ui.revision + 1
                                 /\ \A u \in Threads : ~HeldBy(u, i)'
      BY <1>i, <1>t, <2>0, <3>2, <3>6, <3>7 DEF LocksInv
    <3>12. LocksInv'
      BY <1>0, <1>i, <1>t, <3>8, <3>9, <3>10, <3>11 DEF LocksInv
    <3>13. \A n \in 1 .. fields.used : Moves(n)
      <4>1. Moves(c)
        <5>1. cell'[c].revision = cell[c].revision \/ cell'[c].revision = cell[c].revision + 1
          BY <3>1, <3>3, <3>5, <3>6
        <5> QED BY <3>3, <5>1 DEF Moves
      <4>2. \A n \in 1 .. Cells : n # c => Moves(n)
        BY <3>6 DEF Moves
      <4>3. fields.used <= Cells
        BY <1>1, Sizes
      <4> QED BY <1>1, <4>1, <4>2, <4>3, Sizes
    <3> QED BY <3>6, <3>12, <3>13
  <2>4. CASE \/ \E a \in Addresses, bit \in Bits, death \in BOOLEAN : Resolve(t, a, bit, death)
             \/ LoadRevision(t)
             \/ LockCell(t) /\ ~Won(t)
    <3>1. \/ \E w : w.pc = "resolved" /\ wr' = [wr EXCEPT ![t] = w]
          \/ wr' = [wr EXCEPT ![t] = NoWrite]
          \/ Idle(cell[c].revision) /\ wr' = [wr EXCEPT ![t].pc = "loaded", ![t].revision = cell[c].revision]
      BY <2>4 DEF Resolve, LoadRevision, LockCell, Leave
    <3>2. /\ wr'[t].pc \in {"idle", "resolved", "loaded"}
          /\ wr'[t].pc = "loaded" => Idle(wr'[t].revision)
      BY <1>t, <3>1, Blanks DEF WrWords
    <3>3. cell' = cell
      BY <2>4 DEF Resolve, LoadRevision, LockCell
    <3> QED BY <2>1, <3>2, <3>3
  <2>5. CASE LockCell(t)
    BY <2>2, <2>4, <2>5
  <2> QED BY <2>3, <2>4, <2>5
<1> QED BY <1>2, <1>3, <1>4

\* A commit leaves the owners, the directories and the reader where they are.
LEMMA WriteStep ==
    ASSUME TypeInv, Writes
    PROVE  /\ TypeInv' /\ rd' = rd /\ fields' = fields
           /\ \A n \in 1 .. fields.used : Moves(n)
<1>1. PICK t \in Threads :
         \/ \E a \in Addresses, bit \in Bits, death \in BOOLEAN : Resolve(t, a, bit, death)
         \/ LoadRevision(t) \/ LockCell(t) \/ StorePayload(t) \/ UnlockCell(t)
  BY AddressAssumption, Choices DEF Writes
<1>2. UNCHANGED <<owner, owners, fields, native, built, enrolled, ui, rd>> /\ Remember
  BY <1>1 DEF Resolve, LoadRevision, LockCell, StorePayload, UnlockCell, WriteFrame
<1>3. /\ cell' \in [1 .. Cells -> CellWords] /\ error' \in [Fields -> Errors]
      /\ wr' \in [Threads -> WrWords] /\ FieldsInv' /\ LocksInv'
      /\ \A n \in 1 .. fields.used : Moves(n)
  BY <1>1, WriteTypes
<1>t. /\ owner \in [1 .. OwnerSlots -> OwnerWords] /\ owners \in Tables(OwnerSlots)
      /\ native \in [Addresses -> Fields \cup {"none"}] /\ built \subseteq Addresses
      /\ enrolled \subseteq Addresses /\ fields \in Tables(Cells)
      /\ ui \in UiWords /\ rd \in RdWords /\ seen \subseteq Values
  BY Types DEF TypeInv
<1>4. TypeOK'
  <2>1. seen' \subseteq Values
    BY <1>2, <1>3, <1>t, SeenTypes
  <2> QED BY <1>2, <1>3, <1>t, <2>1, TypesNext
<1>5. OwnersInv' /\ ReaderInv'
  BY <1>2 DEF TypeInv, OwnersInv, ReaderInv
<1> QED BY <1>2, <1>3, <1>4, <1>5 DEF TypeInv

\* The reader follows a token it was given to a record, to a property, to a cell in use.
LEMMA ReadTypes ==
    ASSUME TypeInv, Reads
    PROVE  rd' \in RdWords /\ ReaderInv'
<1>0. UNCHANGED ReadFrame
  BY DEF Reads, ReadStart, ReadLive, ReadKind, ReadToken, ReadAddress, ReadProbe, ReadRevision,
         ReadIdentity, ReadPayload, ReadCheck, ReadFinal, ReadEnd, Load
<1>t. /\ owner \in [1 .. OwnerSlots -> OwnerWords] /\ owners \in Tables(OwnerSlots)
      /\ cell \in [1 .. Cells -> CellWords] /\ fields \in Tables(Cells) /\ rd \in RdWords
      /\ OwnersInv /\ ReaderInv /\ FieldsInv
  BY Types DEF TypeInv
<1>1. owner' = owner /\ fields' = fields
  BY <1>0 DEF ReadFrame
<1>2. CASE rd' = NoRead
  BY <1>2, <1>1, Blanks, Sizes DEF ReaderInv, Looking, Reading
<1>3. ASSUME NEW k \in 1 .. OwnerSlots, NEW f \in Wanted, NEW g \in 1 .. owners.generation,
             ReadStart(TokenOf(k, g), f)
      PROVE  rd' \in RdWords /\ ReaderInv'
  <2>1. rd' = [NoRead EXCEPT !.pc = "live", !.token = TokenOf(k, g), !.field = f]
    BY <1>3 DEF ReadStart, Load
  <2>2. g \in 0 .. Generations
    <3>1. owners.generation \in 0 .. Generations
      BY <1>t DEF Tables
    <3> QED BY <3>1, Sizes
  <2>3. TokenOf(k, g) \in Tokens /\ TokenOf(k, g) # 0 /\ SlotOf(TokenOf(k, g)) = k /\ f \in Fields
    BY <2>2, TokenSlot, AddressAssumption
  <2> HIDE DEF Looking
  <2>4. rd' \in RdWords /\ rd'.pc = "live" /\ rd'.token = TokenOf(k, g) /\ rd'.retry = 0
    BY <2>1, <2>3, Blanks DEF RdWords, RdPcs
  <2> QED BY <2>3, <2>4, Sizes DEF ReaderInv, Reading
<1>4. ASSUME rd.pc \in Looking, NEW pc \in {"kind", "token"}, rd' = Ahead(pc)
      PROVE  rd' \in RdWords /\ ReaderInv'
  <2>1. rd' \in RdWords /\ rd'.pc = pc /\ rd'.token = rd.token /\ rd'.retry = rd.retry
    BY <1>4, <1>t DEF Ahead, RdWords, RdPcs
  <2> QED BY <1>1, <1>4, <1>t, <2>1 DEF ReaderInv, Looking, Reading
<1>5. CASE rd.pc = "token" /\ Quoted.token = rd.token /\ rd' = Ahead("address")
  <2>1. rd' \in RdWords /\ rd'.pc = "address" /\ rd'.token = rd.token /\ rd'.retry = rd.retry
    BY <1>5, <1>t DEF Ahead, RdWords, RdPcs
  <2>2. rd.token # 0 /\ SlotOf(rd.token) \in 1 .. OwnerSlots
    BY <1>5, <1>t DEF ReaderInv, Looking
  <2>3. owner[SlotOf(rd.token)].address # 0
    BY <1>5, <1>t, <2>2 DEF OwnersInv, Quoted
  <2> QED BY <1>1, <1>t, <2>1, <2>2, <2>3 DEF ReaderInv, Looking, Reading
<1>6. CASE /\ rd.pc = "address"
           /\ rd' = [Ahead("probe") EXCEPT !.property = Property(Quoted.address, rd.field)]
  <2>1. Quoted.address \in Addresses /\ rd.field \in Fields
    <3>1. SlotOf(rd.token) \in 1 .. OwnerSlots /\ owner[SlotOf(rd.token)].address # 0
      BY <1>6, <1>t DEF ReaderInv, Looking
    <3> QED BY <1>t, <3>1 DEF Quoted, OwnerWords, RdWords
  <2> DEFINE p == Property(Quoted.address, rd.field)
  <2>2. p \in Properties /\ p # 0
    <3>1. Quoted.address \in Nat \ {0} /\ Offset[rd.field] \in Nat
      BY <2>1, AddressAssumption
    <3> QED BY <2>1, <3>1, PropertyType DEF Property
  <2> HIDE DEF p
  <2>3. rd' \in RdWords /\ rd'.pc = "probe" /\ rd'.property = p /\ rd'.retry = rd.retry
    BY <1>6, <1>t, <2>2 DEF Ahead, RdWords, RdPcs, p
  <2> QED BY <1>t, <2>2, <2>3 DEF ReaderInv, Looking, Reading
<1>7. CASE ReadProbe
  <2> DEFINE n == IF rd.probe = Probes THEN 0 ELSE fields.directory[At(rd.property, rd.probe)]
  <2>1. /\ rd.pc = "probe"
        /\ \/ rd' = NoRead
           \/ n # 0 /\ rd' = [rd EXCEPT !.probe = @ + 1]
           \/ n # 0 /\ rd' = [Ahead("window") EXCEPT !.cell = n, !.probe = 0]
    BY <1>7 DEF ReadProbe, Load, GiveUp
  <2>2. rd.property \in Keys /\ rd.probe \in 0 .. Probes /\ rd.property # 0
    <3>1. rd.property # 0
      BY <1>t, <2>1 DEF ReaderInv
    <3> QED BY <1>t, <3>1 DEF RdWords, Keys
  <2>3. n # 0 => n \in 1 .. Cells /\ n <= fields.used /\ rd.probe + 1 \in 0 .. Probes
    <3>1. rd.probe # Probes => rd.probe \in Nat /\ rd.probe + 1 \in 0 .. Probes
      BY <2>2, Sizes
    <3>2. rd.probe # Probes => At(rd.property, rd.probe) \in 0 .. Words - 1
      BY <2>2, <3>1, AtWord
    <3>3. rd.probe # Probes => n \in 0 .. Cells /\ n <= fields.used
      BY <1>t, <3>2 DEF Tables, FieldsInv
    <3> QED BY <3>1, <3>3, Sizes
  <2> HIDE DEF n
  <2>4. CASE n # 0 /\ rd' = [rd EXCEPT !.probe = @ + 1]
    <3>1. rd' \in RdWords /\ rd'.pc = "probe" /\ rd'.property = rd.property /\ rd'.retry = rd.retry
      BY <1>t, <2>1, <2>3, <2>4 DEF RdWords
    <3> QED BY <1>t, <2>2, <3>1 DEF ReaderInv, Looking, Reading
  <2>5. CASE n # 0 /\ rd' = [Ahead("window") EXCEPT !.cell = n, !.probe = 0]
    <3>1. 0 \in 0 .. Probes
      BY Sizes
    <3>2. rd' \in RdWords /\ rd'.pc = "window" /\ rd'.cell = n /\ rd'.retry = rd.retry
      BY <1>t, <2>3, <2>5, <3>1 DEF Ahead, RdWords, RdPcs
    <3> QED BY <1>1, <1>t, <2>3, <2>5, <3>2 DEF ReaderInv, Looking
  <2> QED BY <1>2, <2>1, <2>4, <2>5
<1>8. CASE rd.pc \in Reading /\ rd.retry + 1 # Retries /\ rd' = [Ahead("window") EXCEPT !.retry = @ + 1]
  <2>1. rd.retry + 1 \in 0 .. Retries /\ rd.retry + 1 < Retries
    <3>1. rd.retry \in 0 .. Retries /\ rd.retry < Retries
      BY <1>t DEF ReaderInv, RdWords
    <3> QED BY <1>8, <3>1, Sizes
  <2>2. rd' \in RdWords /\ rd'.pc = "window" /\ rd'.cell = rd.cell /\ rd'.retry = rd.retry + 1
    BY <1>8, <1>t, <2>1 DEF Ahead, RdWords, RdPcs
  <2> QED BY <1>1, <1>8, <1>t, <2>1, <2>2 DEF ReaderInv, Looking
<1>9. ASSUME rd.pc \in Reading, NEW w \in RdWords, rd' = w,
             w.pc \in {"identity", "payload", "check", "final"}, w.cell = rd.cell, w.retry = rd.retry
      PROVE  rd' \in RdWords /\ ReaderInv'
  BY <1>1, <1>9, <1>t DEF ReaderInv, Looking
<1>10. rd.pc \in Reading => Copied.revision \in 0 .. LastRevision /\ Copied.bits \in Values /\ Copied.live \in BOOLEAN
  BY <1>t DEF Copied, RdWords, CellWords
<1>11. CASE ReadRevision \/ ReadIdentity \/ ReadPayload \/ ReadCheck
  <2>1. rd.pc \in Reading
    BY <1>11 DEF ReadRevision, ReadIdentity, ReadPayload, ReadCheck, Load, Reading
  <2>2. CASE rd' = [Ahead("identity") EXCEPT !.revision = Copied.revision]
    <3>1. rd' \in RdWords /\ rd'.pc = "identity" /\ rd'.cell = rd.cell /\ rd'.retry = rd.retry
      BY <1>10, <1>t, <2>1, <2>2 DEF Ahead, RdWords, RdPcs
    <3> QED BY <1>9, <2>1, <3>1
  <2>3. CASE rd' = [Ahead("check") EXCEPT !.bits = Copied.bits, !.live = Copied.live]
    <3>1. rd' \in RdWords /\ rd'.pc = "check" /\ rd'.cell = rd.cell /\ rd'.retry = rd.retry
      BY <1>10, <1>t, <2>1, <2>3 DEF Ahead, RdWords, RdPcs
    <3> QED BY <1>9, <2>1, <3>1
  <2>4. CASE rd' = Ahead("payload") \/ rd' = Ahead("final")
    BY <1>9, <1>t, <2>1, <2>4 DEF Ahead, RdWords, RdPcs
  <2>5. CASE rd' = NextRetry
    BY <1>2, <1>8, <2>1, <2>5 DEF NextRetry, GiveUp
  <2> QED BY <1>2, <1>11, <2>2, <2>3, <2>4, <2>5
          DEF ReadRevision, ReadIdentity, ReadPayload, ReadCheck, Load, GiveUp
<1>12. CASE ReadFinal
  <2> DEFINE yes == rd.live /\ Quoted.live /\ ~Faulty(error[rd.field])
  <2>1. rd' = [Ahead("done") EXCEPT !.available = yes]
    BY <1>12 DEF ReadFinal, Load
  <2>2. yes \in BOOLEAN
    OBVIOUS
  <2> HIDE DEF yes
  <2>3. rd' \in RdWords /\ rd'.pc = "done" /\ rd'.retry = rd.retry
    BY <1>t, <2>1, <2>2 DEF Ahead, RdWords, RdPcs
  <2> QED BY <1>t, <2>3 DEF ReaderInv, Looking, Reading
<1>13. CASE ReadLive \/ ReadKind \/ ReadToken \/ ReadAddress \/ ReadEnd
  <2>1. \/ rd' = NoRead
        \/ rd.pc \in Looking /\ \E pc \in {"kind", "token"} : rd' = Ahead(pc)
        \/ rd.pc = "token" /\ Quoted.token = rd.token /\ rd' = Ahead("address")
        \/ /\ rd.pc = "address"
           /\ rd' = [Ahead("probe") EXCEPT !.property = Property(Quoted.address, rd.field)]
    BY <1>13 DEF ReadLive, ReadKind, ReadToken, ReadAddress, ReadEnd, Load, GiveUp, Looking
  <2> QED BY <1>2, <1>4, <1>5, <1>6, <2>1
<1> QED BY <1>3, <1>7, <1>11, <1>12, <1>13 DEF Reads

\* A copy changes nothing but the reader.
LEMMA ReadStep ==
    ASSUME TypeInv, Reads
    PROVE  TypeInv'
<1>1. rd' \in RdWords /\ ReaderInv'
  BY ReadTypes
<1>2. UNCHANGED <<owner, owners, cell, fields, error, native, built, enrolled, ui, wr>> /\ Remember
  BY DEF Reads, ReadStart, ReadLive, ReadKind, ReadToken, ReadAddress, ReadProbe, ReadRevision,
         ReadIdentity, ReadPayload, ReadCheck, ReadFinal, ReadEnd, Load, ReadFrame
<1>t. /\ owner \in [1 .. OwnerSlots -> OwnerWords] /\ owners \in Tables(OwnerSlots)
      /\ cell \in [1 .. Cells -> CellWords] /\ fields \in Tables(Cells) /\ error \in [Fields -> Errors]
      /\ native \in [Addresses -> Fields \cup {"none"}] /\ built \subseteq Addresses
      /\ enrolled \subseteq Addresses
      /\ ui \in UiWords /\ wr \in [Threads -> WrWords] /\ seen \subseteq Values
  BY Types DEF TypeInv
<1>3. TypeOK'
  <2>1. seen' \subseteq Values
    BY <1>2, <1>t, SeenTypes
  <2> QED BY <1>1, <1>2, <1>t, <2>1, TypesNext
<1>4. FieldsInv'
  <2>1. ui.pc \in Seeking => (OwnerAt(ui.address) # 0)'
    BY <1>2, OwnerStays DEF TypeInv, FieldsInv
  <2> QED BY <1>2, <2>1 DEF TypeInv, FieldsInv
<1>5. OwnersInv' /\ LocksInv'
  BY <1>2 DEF TypeInv, OwnersInv, LocksInv, HeldBy
<1> QED BY <1>1, <1>3, <1>4, <1>5 DEF TypeInv

-----------------------------------------------------------------------------
(* The window.                                                              *)

\* A cell whose revision is again what an even one was has not moved since.
LEMMA WindowKept ==
    ASSUME TypeInv, WindowInv, rd' = rd, Remember, \A n \in 1 .. fields.used : Moves(n)
    PROVE  WindowInv'
<1> DEFINE c == rd.cell
<1>t. cell \in [1 .. Cells -> CellWords] /\ fields \in Tables(Cells) /\ rd \in RdWords /\ ReaderInv
  BY Types DEF TypeInv
<1>1. rd.pc # "idle" => seen \subseteq seen'
  BY DEF Remember
<1>2. CASE rd.pc \in {"identity", "payload", "check"}
  <2>1. Moves(c) /\ cell[c].revision \in Nat /\ rd.revision \in Nat
    <3>1. c \in 1 .. fields.used /\ c \in 1 .. Cells
      <4>1. c <= fields.used /\ c \in 1 .. Cells /\ fields.used \in 0 .. Cells
        BY <1>2, <1>t DEF ReaderInv, Reading, RdWords, Tables
      <4> QED BY <4>1, Sizes
    <3>2. cell[c].revision \in 0 .. LastRevision /\ rd.revision \in 0 .. LastRevision
      BY <1>t, <3>1 DEF CellWords, RdWords
    <3> QED BY <3>1, <3>2, Sizes
  <2>2. rd.revision % 2 = 0 /\ rd.revision <= cell[c].revision
    BY <1>2 DEF WindowInv
  <2>3. rd.revision <= cell'[c].revision
    BY <2>1, <2>2 DEF Moves
  <2>4. cell'[c].revision = rd.revision => cell'[c] = cell[c]
    BY <2>1, <2>2 DEF Moves, Odd
  <2>5. /\ rd.pc = "payload" /\ cell'[c].revision = rd.revision => Matches'
        /\ rd.pc = "check" /\ cell'[c].revision = rd.revision /\ rd.live => rd.bits \in seen'
    BY <1>1, <2>4 DEF WindowInv, Matches, Copied
  <2> QED BY <1>2, <2>2, <2>3, <2>5 DEF WindowInv, ReadIsCurrent
<1>3. CASE rd.pc \notin {"identity", "payload", "check"}
  BY <1>1, <1>3 DEF WindowInv, ReadIsCurrent
<1> QED BY <1>2, <1>3

\* What the reader copies between two equal even revisions is what the field held.
LEMMA WindowRead ==
    ASSUME TypeInv, WindowInv, Reads
    PROVE  WindowInv'
<1>t. cell \in [1 .. Cells -> CellWords] /\ fields \in Tables(Cells) /\ rd \in RdWords /\ ReaderInv
  BY Types DEF TypeInv
<1>0. cell' = cell /\ Remember
  BY DEF Reads, ReadStart, ReadLive, ReadKind, ReadToken, ReadAddress, ReadProbe, ReadRevision,
         ReadIdentity, ReadPayload, ReadCheck, ReadFinal, ReadEnd, Load, ReadFrame
<1>1. rd'.pc # "idle" => seen' = seen \cup Current'
  BY <1>0 DEF Remember
<1>2. CASE rd'.pc \in Looking \cup {"idle", "probe", "window"}
  BY <1>2 DEF WindowInv, ReadIsCurrent, Looking
<1>3. rd.pc \in Reading => rd.cell \in 1 .. Cells /\ Copied = cell[rd.cell] /\ Copied.revision \in 0 .. LastRevision
  BY <1>t DEF Copied, RdWords, CellWords
<1>4. CASE ReadRevision
  <2>1. \/ rd'.pc \in {"idle", "window"}
        \/ /\ rd.pc = "window" /\ Copied.revision % 2 # 1
           /\ rd' = [Ahead("identity") EXCEPT !.revision = Copied.revision]
    BY <1>4, <1>t, Blanks DEF ReadRevision, Load, NextRetry, GiveUp, Ahead, RdWords
  <2>2. CASE /\ rd.pc = "window" /\ Copied.revision % 2 # 1
             /\ rd' = [Ahead("identity") EXCEPT !.revision = Copied.revision]
    <3>1. rd'.pc = "identity" /\ rd'.revision = Copied.revision /\ rd'.cell = rd.cell
      BY <1>t, <2>2 DEF Ahead, RdWords
    <3>2. Copied = cell'[rd'.cell] /\ Copied.revision \in Nat
      BY <1>0, <1>3, <2>2, <3>1, Sizes DEF Reading
    <3>3. Copied.revision % 2 = 0 /\ Copied.revision <= Copied.revision
      BY <2>2, <3>2
    <3> QED BY <3>1, <3>2, <3>3 DEF WindowInv, ReadIsCurrent
  <2> QED BY <1>2, <2>1, <2>2
<1>5. CASE ReadIdentity
  <2>1. rd.pc = "identity" /\ (rd'.pc = "idle" \/ (Matches /\ rd' = Ahead("payload")))
    BY <1>5, Blanks DEF ReadIdentity, Load, GiveUp
  <2>2. CASE Matches /\ rd' = Ahead("payload")
    <3>1. /\ rd'.pc = "payload" /\ rd'.revision = rd.revision /\ rd'.cell = rd.cell
          /\ rd'.property = rd.property /\ rd'.field = rd.field /\ rd'.token = rd.token
      BY <1>t, <2>2 DEF Ahead, RdWords
    <3>2. Matches'
      BY <1>0, <2>2, <3>1 DEF Matches, Copied
    <3> QED BY <1>0, <2>1, <3>1, <3>2 DEF WindowInv, ReadIsCurrent
  <2> QED BY <1>2, <2>1, <2>2
<1>6. CASE ReadPayload
  <2>1. rd.pc = "payload" /\ rd' = [Ahead("check") EXCEPT !.bits = Copied.bits, !.live = Copied.live]
    BY <1>6 DEF ReadPayload, Load
  <2>2. /\ rd'.pc = "check" /\ rd'.revision = rd.revision /\ rd'.cell = rd.cell
        /\ rd'.field = rd.field /\ rd'.token = rd.token
        /\ rd'.bits = Copied.bits /\ rd'.live = Copied.live
    BY <1>t, <2>1 DEF Ahead, RdWords
  <2>3. rd.revision % 2 = 0 /\ rd.revision <= cell[rd.cell].revision
    BY <2>1 DEF WindowInv
  <2>4. ASSUME cell[rd.cell].revision = rd.revision, rd'.live PROVE rd'.bits \in seen'
    <3>1. Matches
      BY <2>1, <2>4 DEF WindowInv
    <3>2. /\ rd.cell \in 1 .. Cells /\ cell'[rd.cell].token = rd'.token /\ cell'[rd.cell].field = rd'.field
          /\ cell'[rd.cell].live /\ cell'[rd.cell].revision % 2 = 0 /\ cell'[rd.cell].bits = rd'.bits
      BY <1>0, <1>3, <2>1, <2>2, <2>3, <2>4, <3>1 DEF Matches, Reading
    <3>3. rd'.bits \in Current'
      BY <3>2 DEF Current
    <3> QED BY <1>1, <2>2, <3>3
  <2> QED BY <1>0, <2>2, <2>3, <2>4 DEF WindowInv, ReadIsCurrent
<1>7. CASE ReadCheck
  <2>1. \/ rd'.pc \in {"idle", "window"}
        \/ rd.pc = "check" /\ Copied.revision = rd.revision /\ rd' = Ahead("final")
    BY <1>7, <1>t, Blanks DEF ReadCheck, Load, NextRetry, GiveUp, Ahead, RdWords
  <2>2. CASE rd.pc = "check" /\ Copied.revision = rd.revision /\ rd' = Ahead("final")
    <3>1. rd'.pc = "final" /\ rd'.live = rd.live /\ rd'.bits = rd.bits
      BY <1>t, <2>2 DEF Ahead, RdWords
    <3>2. rd.live => rd.bits \in seen
      BY <2>2 DEF WindowInv, Copied
    <3> QED BY <1>1, <3>1, <3>2 DEF WindowInv, ReadIsCurrent
  <2> QED BY <1>2, <2>1, <2>2
<1>8. CASE ReadFinal
  <2> DEFINE yes == rd.live /\ Quoted.live /\ ~Faulty(error[rd.field])
  <2>1. rd.pc = "final" /\ rd' = [Ahead("done") EXCEPT !.available = yes]
    BY <1>8 DEF ReadFinal, Load
  <2>2. yes => rd.live
    OBVIOUS
  <2> HIDE DEF yes
  <2>3. rd'.pc = "done" /\ rd'.bits = rd.bits /\ rd'.available = yes
    BY <1>t, <2>1 DEF Ahead, RdWords
  <2>4. rd.live => rd.bits \in seen
    BY <2>1 DEF WindowInv
  <2> QED BY <1>1, <2>2, <2>3, <2>4 DEF WindowInv, ReadIsCurrent
<1>9. CASE ReadLive \/ ReadKind \/ ReadToken \/ ReadAddress \/ ReadProbe \/ ReadEnd
  <2>1. rd'.pc \in Looking \cup {"idle", "probe", "window"}
    BY <1>9, <1>t, Blanks DEF ReadLive, ReadKind, ReadToken, ReadAddress, ReadProbe, ReadEnd, Load,
                              GiveUp, Ahead, Looking, RdWords
  <2> QED BY <1>2, <2>1
<1>10. CASE \E k \in 1 .. OwnerSlots, f \in Wanted, g \in 1 .. owners.generation : ReadStart(TokenOf(k, g), f)
  <2>1. \E token, f : rd' = [NoRead EXCEPT !.pc = "live", !.token = token, !.field = f]
    BY <1>10 DEF ReadStart, Load
  <2>2. rd'.pc = "live"
    BY <2>1, Blanks DEF RdWords
  <2> QED BY <1>2, <2>2 DEF Looking
<1> QED BY <1>4, <1>5, <1>6, <1>7, <1>8, <1>9, <1>10 DEF Reads

-----------------------------------------------------------------------------
(* The invariant and the theorems.                                          *)

ChannelInv == TypeInv /\ WindowInv

LEMMA ChannelInit == Init => ChannelInv
<1> SUFFICES ASSUME Init PROVE ChannelInv
  OBVIOUS
<1>0. 0 \in Tokens /\ <<0, AnyBit>> \in Values
  <2>1. 0 = TokenOf(0, 0)
    BY Sizes DEF TokenOf
  <2> QED BY <2>1, Sizes, Choices DEF Tokens, Values
<1>1. \A n \in Nat \ {0} : EmptyTable(n) \in Tables(n)
  <2>1. 0 \in 0 .. Generations /\ 0 \in 0 .. Words /\ \A n \in Nat \ {0} : 0 \in 0 .. n /\ 0 \in 0 .. n - 1
    BY Sizes
  <2> QED BY <2>1 DEF EmptyTable, Tables
<1>2. owners \in Tables(OwnerSlots) /\ fields \in Tables(Cells)
  BY <1>1, Sizes DEF Init
<1>3. owner \in [1 .. OwnerSlots -> OwnerWords]
  BY <1>0, Choices DEF Init, OwnerWords
<1>4. cell \in [1 .. Cells -> CellWords]
  <2>1. 0 \in 0 .. LastRevision
    BY Sizes
  <2> QED BY <1>0, <2>1, Choices DEF Init, CellWords
<1>5. ui = NoBirth /\ wr = [t \in Threads |-> NoWrite] /\ rd = NoRead
  BY DEF Init
<1>6. TypeOK
  <2>1. error \in [Fields -> Errors] /\ native \in [Addresses -> Fields \cup {"none"}]
        /\ built = {} /\ enrolled = {} /\ seen = {}
    BY DEF Init, Errors
  <2> QED BY <1>2, <1>3, <1>4, <1>5, <2>1, Blanks, Types
<1>7. ui.pc = "idle" /\ rd.pc = "idle" /\ rd.retry = 0 /\ \A t \in Threads : wr[t].pc = "idle"
  BY <1>5, Blanks
<1>8. OwnersInv
  <2>1. owners.used = 0 /\ owners.generation = 0
    BY DEF Init, EmptyTable
  <2>2. \A k \in 1 .. OwnerSlots : owner[k].token = 0
    BY DEF Init
  <2> QED BY <1>7, <2>1, <2>2, Sizes DEF OwnersInv, Storing
<1>9. FieldsInv
  <2>1. fields.used = 0 /\ \A w \in 0 .. Words - 1 : fields.directory[w] = 0
    BY DEF Init, EmptyTable
  <2> QED BY <1>7, <2>1 DEF FieldsInv, Filling, Claiming, Seeking
<1>10. ReaderInv /\ LocksInv /\ WindowInv
  BY <1>7, Sizes DEF ReaderInv, LocksInv, WindowInv, ReadIsCurrent, Looking, Reading, Claiming, HeldBy
<1> QED BY <1>6, <1>8, <1>9, <1>10 DEF ChannelInv, TypeInv

LEMMA ChannelStep == ChannelInv /\ [Next]_vars => ChannelInv'
<1> SUFFICES ASSUME ChannelInv, [Next]_vars PROVE ChannelInv'
  OBVIOUS
<1>0. TypeInv /\ WindowInv
  BY DEF ChannelInv
<1>1. CASE OwnerSide
  <2>1. TypeInv' /\ cell' = cell /\ rd' = rd
    BY <1>0, <1>1, OwnerSideStep
  <2>2. Remember
    BY <1>1 DEF OwnerSide, OwnerDeath, OwnerBirth, StoreAddress, StoreToken, StoreLive, StoreOwnerWord
  <2>3. \A n \in 1 .. fields.used : Moves(n)
    BY <2>1 DEF Moves
  <2> QED BY <1>0, <2>1, <2>2, <2>3, WindowKept DEF ChannelInv
<1>2. CASE FieldSide
  <2>1. TypeInv' /\ rd' = rd /\ \A n \in 1 .. fields.used : Moves(n)
    BY <1>0, <1>2, FieldSideStep
  <2>2. Remember
    BY <1>2 DEF FieldSide, FieldBirth, PickVictim, ClaimVictim, RenameCell, ReidentifyCell, RefillCell,
                ReleaseCell, StoreFieldWord
  <2> QED BY <1>0, <2>1, <2>2, WindowKept DEF ChannelInv
<1>3. CASE Writes
  <2>1. TypeInv' /\ rd' = rd /\ \A n \in 1 .. fields.used : Moves(n)
    BY <1>0, <1>3, WriteStep
  <2>2. Remember
    BY <1>3 DEF Writes, Resolve, LoadRevision, LockCell, StorePayload, UnlockCell
  <2> QED BY <1>0, <2>1, <2>2, WindowKept DEF ChannelInv
<1>4. CASE Reads
  BY <1>0, <1>4, ReadStep, WindowRead DEF ChannelInv
<1>5. CASE UNCHANGED vars
  <2>1. UNCHANGED <<owner, owners, cell, fields, error, native, built, enrolled, ui, wr, rd, seen>>
    BY <1>5 DEF vars
  <2>2. TypeOK' /\ OwnersInv' /\ ReaderInv' /\ LocksInv'
    BY <1>0, <2>1 DEF TypeInv, TypeOK, OwnersInv, ReaderInv, LocksInv, HeldBy
  <2>3. FieldsInv'
    <3>1. ui.pc \in Seeking => (OwnerAt(ui.address) # 0)'
      BY <1>0, <2>1, OwnerStays DEF TypeInv, FieldsInv
    <3> QED BY <1>0, <2>1, <3>1 DEF TypeInv, FieldsInv
  <2>4. WindowInv'
    BY <1>0, <2>1 DEF WindowInv, ReadIsCurrent, Matches, Copied
  <2> QED BY <2>2, <2>3, <2>4 DEF ChannelInv, TypeInv
<1> QED BY <1>1, <1>2, <1>3, <1>4, <1>5 DEF Next, Births, OwnerSide, FieldSide

LEMMA ChannelHolds == Spec => []ChannelInv
BY ChannelInit, ChannelStep, PTL DEF Spec

\* channel-capture.inc, mirror-read.c: every slot, cell, word, probe and retry that
\* the three threads use is in its table, and no generation and no revision
\* passes its last value, whatever the sizes of the tables are.
THEOREM ChannelTypes == Spec => []TypeOK
<1>1. ChannelInv => TypeOK
  BY DEF ChannelInv, TypeInv
<1> QED BY <1>1, ChannelHolds, PTL

\* channel_write, channel_birth: "Only the acquire is a CAS".  Between its acquire and
\* its release a thread has the cell to itself: no other thread and no birth
\* changes its words, and the odd revision tells the reader so.
WriterIsAlone ==
    \A t \in Threads, n \in 1 .. Cells :
        HeldBy(t, n) => /\ Odd(n) /\ ~(ui.pc \in Claiming /\ ui.index = n)
                        /\ \A u \in Threads \ {t} : ~HeldBy(u, n)

\* The commits of any threads and the births never write one cell together.
THEOREM WritersTakeTurns == Spec => []WriterIsAlone
<1>1. ChannelInv => WriterIsAlone
  <2> SUFFICES ASSUME ChannelInv, NEW t \in Threads, NEW n \in 1 .. Cells, HeldBy(t, n)
               PROVE  /\ Odd(n) /\ ~(ui.pc \in Claiming /\ ui.index = n)
                      /\ \A u \in Threads \ {t} : ~HeldBy(u, n)
    BY DEF WriterIsAlone
  <2>1. LocksInv /\ wr \in [Threads -> WrWords]
    BY Types DEF ChannelInv, TypeInv
  <2>2. cell[n].revision = wr[t].revision + 1 /\ Idle(wr[t].revision)
    BY <2>1 DEF LocksInv, HeldBy
  <2>3. wr[t].revision \in Nat /\ wr[t].revision % 2 = 0
    BY <2>1, <2>2, Sizes DEF WrWords, Idle
  <2>4. Odd(n)
    BY <2>2, <2>3 DEF Odd
  <2> QED BY <2>1, <2>4 DEF LocksInv
<1> QED BY <1>1, ChannelHolds, PTL

\* copy_channel: a copy it calls available is a value that the field it asked for
\* had, in the lifetime it asked for, at some moment since it began.
THEOREM CopiesAreTrue == Spec => []ReadIsCurrent
<1>1. ChannelInv => ReadIsCurrent
  BY DEF ChannelInv, WindowInv
<1> QED BY <1>1, ChannelHolds, PTL

-----------------------------------------------------------------------------
\* Places: the field of a living object is found.

\* A record's entry is the word that names it, and that word is not stale.
EntriesAgree(table, n) ==
    \A k \in 1 .. n : table.entry[k] # 0 =>
        /\ table.directory[table.entry[k] - 1] = k
        /\ table.entry[k] - 1 \notin table.stale

\* A word of a key's chain that the chain reaches without an end, and without a
\* record that has the key, other than k itself.
Bound(table, key, word, mine, k) ==
    \E i \in Steps : /\ word = At(key, i)
                     /\ \A j \in 0 .. i - 1 : /\ table.directory[At(key, j)] # 0
                                              /\ table.directory[At(key, j)] \in mine =>
                                                    table.directory[At(key, j)] = k
Placed(table, key, mine, k) == table.entry[k] # 0 /\ Bound(table, key, table.entry[k] - 1, mine, k)

OwnersAt(O, a) == {k \in 1 .. OwnerSlots : O[k].address = a}
CellsAt(C, p)  == {n \in 1 .. Cells : C[n].property = p}

\* Every token was given out by the generation that has been reached.
Given(generation) == {TokenOf(s, g) : s \in 0 .. OwnerSlots, g \in 0 .. generation}
TokensInv == /\ \A k \in 1 .. OwnerSlots : owner[k].token \in Given(owners.generation)
             /\ \A n \in 1 .. Cells : cell[n].token \in Given(owners.generation)

\* A live owner is where a probe of its address finds it, or about to be put there.
OwnersStand(O, T, u) ==
    \A k \in 1 .. OwnerSlots : O[k].live =>
        /\ SlotOf(O[k].token) = k
        /\ \/ u.pc = "owner_word" /\ k = u.index
           \/ Placed(T, O[k].address, OwnersAt(O, O[k].address), k)
\* An owner on its way: its word is bound to its address, which no other live owner
\* has, and no live owner is found by that word.
OwnerComes(O, T, N, E, u) ==
    /\ N[u.address] = u.field /\ u.address \notin E
    /\ Bound(T, u.address, u.word, OwnersAt(O, u.address), u.index)
    /\ \A k \in (1 .. OwnerSlots) \ {u.index} :
          O[k].live => O[k].address # u.address /\ T.entry[k] # u.word + 1
    /\ u.pc # "owner_word" => ~O[u.index].live
    /\ u.pc # "retired" => O[u.index].address = u.address
    /\ u.pc \in {"tokened", "owner_word"} => SlotOf(O[u.index].token) = u.index
TokenIsNew(O, C, u) ==
    u.pc \in {"tokened", "owner_word"} => \A n \in 1 .. Cells : C[n].token # O[u.index].token
OwnerPlacesInv ==
    /\ EntriesAgree(owners, OwnerSlots) /\ OwnersStand(owner, owners, ui)
    /\ ui.pc \in Storing => OwnerComes(owner, owners, native, enrolled, ui)
    /\ TokenIsNew(owner, cell, ui)

\* A cell with the property and the lifetime of the object that lives at an address.
Own(O, C, N, a, n, k) == /\ O[k].live /\ O[k].address = a /\ C[n].token = O[k].token
                         /\ C[n].property = Property(a, N[a])
Gone(O, C, n) == LET s == SlotOf(C[n].token)
                 IN  s = 0 \/ ~O[s].live \/ O[s].token # C[n].token
Birthing == {"pick", "cas", "claimed", "named", "identified", "filled", "field_word"}
Named    == {"named", "identified", "filled", "field_word"}
Entering == {"identified", "filled", "field_word"}

\* No two objects overlap, and those enrolled are there.
Apart(N, E) ==
    /\ \A a, b \in Addresses : a # b /\ N[a] # "none" /\ N[b] # "none" =>
                                  Span(a, N[a]) \cap Span(b, N[b]) = {}
    /\ \A a \in E : N[a] # "none"
\* The cell of a living object is where a probe of its property finds it, or about
\* to be put there.
CellsStand(O, C, T, N, E, B, u) ==
    \A a \in E, n \in 1 .. Cells, k \in 1 .. OwnerSlots : Own(O, C, N, a, n, k) =>
        /\ a \in B
        /\ \/ u.pc \in Entering /\ n = u.index
           \/ Placed(T, Property(a, N[a]), CellsAt(C, Property(a, N[a])), n)
\* A field on its way: its word is bound to its property, no living object's cell is
\* found by that word, and the cell that is taken for it is nobody's.
FieldComes(O, C, T, N, E, B, u) ==
    LET p == Property(u.address, u.field) IN
    /\ N[u.address] = u.field /\ u.address \in B
    /\ Bound(T, p, u.word, CellsAt(C, p), IF u.pc \in Named THEN u.index ELSE 0)
    /\ \A a \in E, n \in 1 .. Cells, k \in 1 .. OwnerSlots :
          Own(O, C, N, a, n, k) /\ n # u.index => a # u.address /\ T.entry[n] # u.word + 1
    /\ u.index # 0 /\ u.pc \notin Entering => Gone(O, C, u.index)
    /\ u.pc \in Named => C[u.index].property = p
CellPlacesInv ==
    /\ Apart(native, enrolled) /\ EntriesAgree(fields, Cells)
    /\ CellsStand(owner, cell, fields, native, enrolled, built, ui)
    /\ ui.pc \in Birthing => FieldComes(owner, cell, fields, native, enrolled, built, ui)
PlacesInv == TokensInv /\ OwnerPlacesInv /\ CellPlacesInv

-----------------------------------------------------------------------------
(* Directories.                                                             *)

LEMMA StepKinds == Steps \subseteq Nat /\ \A i \in Steps : \A j \in 0 .. i - 1 : j \in Steps
BY Sizes DEF Steps

LEMMA TableKinds ==
    ASSUME NEW n \in Nat, NEW table \in Tables(n)
    PROVE  /\ table.entry \in [1 .. n -> 0 .. Words]
           /\ table.directory \in [0 .. Words - 1 -> 0 .. n] /\ table.stale \subseteq 0 .. Words - 1
BY DEF Tables

\* What a record's taking a word changes.
Entered(table, t, at, index, n) ==
    /\ t.directory = [table.directory EXCEPT ![at] = index]
    /\ t.stale = (table.stale \cup (IF table.entry[index] \in {0, at + 1} THEN {}
                                    ELSE {table.entry[index] - 1})) \ {at}
    /\ t.entry[index] = at + 1
    /\ \A k \in 1 .. n : k # index =>
          t.entry[k] = IF k = table.directory[at] /\ table.entry[k] = at + 1 THEN 0 ELSE table.entry[k]
LEMMA EnterIs ==
    ASSUME NEW n \in Nat, NEW table \in Tables(n), NEW at \in 0 .. Words - 1, NEW index \in 1 .. n
    PROVE  Entered(table, Enter(table, at, index), at, index, n)
<1> DEFINE e(k) == IF k = index THEN at + 1
                   ELSE IF k = table.directory[at] /\ table.entry[k] = at + 1 THEN 0 ELSE table.entry[k]
<1>1. DOMAIN table.entry = 1 .. n
  BY TableKinds
<1>2. Enter(table, at, index).entry = [k \in 1 .. n |-> e(k)]
  BY <1>1 DEF Enter, Tables
<1>3. Enter(table, at, index).directory = [table.directory EXCEPT ![at] = index]
  BY DEF Enter, Tables
<1>4. Enter(table, at, index).stale = (table.stale \cup (IF table.entry[index] \in {0, at + 1} THEN {}
                                          ELSE {table.entry[index] - 1})) \ {at}
  BY DEF Enter, Tables
<1> QED BY <1>2, <1>3, <1>4 DEF Entered

LEMMA EnterAgrees ==
    ASSUME NEW n \in Nat, NEW table \in Tables(n), NEW at \in 0 .. Words - 1, NEW index \in 1 .. n,
           EntriesAgree(table, n)
    PROVE  /\ EntriesAgree(Enter(table, at, index), n)
           /\ Enter(table, at, index).entry[index] = at + 1
           /\ \A k \in 1 .. n : k # index /\ table.entry[k] # at + 1 =>
                 Enter(table, at, index).entry[k] = table.entry[k]
<1> DEFINE t == Enter(table, at, index)
           prev == table.entry[index]
<1>0. Entered(table, t, at, index, n)
  BY EnterIs
<1>1. /\ t.directory = [table.directory EXCEPT ![at] = index]
      /\ t.stale = (table.stale \cup (IF prev \in {0, at + 1} THEN {} ELSE {prev - 1})) \ {at}
      /\ t.entry[index] = at + 1
      /\ \A k \in 1 .. n : k # index =>
            t.entry[k] = IF k = table.directory[at] /\ table.entry[k] = at + 1 THEN 0 ELSE table.entry[k]
  <2> HIDE DEF t
  <2> QED BY <1>0 DEF Entered
<1>2. /\ table.entry \in [1 .. n -> 0 .. Words] /\ Words \in Nat
      /\ table.directory \in [0 .. Words - 1 -> 0 .. n]
  BY TableKinds, Sizes
<1> HIDE DEF t
<1>3. ASSUME NEW k \in 1 .. n, t.entry[k] # 0
      PROVE  t.directory[t.entry[k] - 1] = k /\ t.entry[k] - 1 \notin t.stale
  <2>1. CASE k = index
    BY <1>1, <1>2, <2>1
  <2>2. CASE k # index
    <3>1. t.entry[k] = table.entry[k] /\ table.entry[k] # 0
      BY <1>1, <1>3, <2>2
    <3>2. table.directory[table.entry[k] - 1] = k /\ table.entry[k] - 1 \notin table.stale
      BY <3>1 DEF EntriesAgree
    <3>3. table.entry[k] # at + 1
      BY <1>1, <1>3, <2>2, <3>1, <3>2
    <3>4. table.entry[k] - 1 # at /\ table.entry[k] - 1 \in 0 .. Words - 1
      <4>1. table.entry[k] \in 0 .. Words /\ Words \in Nat /\ table.entry[k] # 0
        BY <1>2, <3>1
      <4>2. at \in 0 .. Words - 1
        OBVIOUS
      <4> QED BY <3>3, <4>1, <4>2
    <3>5. t.directory[table.entry[k] - 1] = k
      BY <1>1, <1>2, <3>2, <3>4
    <3>6. prev # 0 => table.directory[prev - 1] = index
      BY DEF EntriesAgree
    <3>7. prev \in 0 .. Words /\ table.entry[k] \in 0 .. Words
      BY <1>2
    <3>8. prev # 0 => table.entry[k] # prev
      BY <2>2, <3>2, <3>6
    <3>9. prev # 0 => table.entry[k] - 1 # prev - 1
      BY <3>7, <3>8
    <3>10. table.entry[k] - 1 \notin t.stale
      BY <1>1, <3>2, <3>9
    <3> QED BY <3>1, <3>5, <3>10
  <2> QED BY <2>1, <2>2
<1>4. \A k \in 1 .. n : k # index /\ table.entry[k] # at + 1 => t.entry[k] = table.entry[k]
  BY <1>1
<1>5. EntriesAgree(t, n)
  BY <1>3 DEF EntriesAgree
<1> QED BY <1>1, <1>4, <1>5 DEF t

LEMMA EnterBound ==
    ASSUME NEW n \in Nat, NEW table \in Tables(n), NEW at \in 0 .. Words - 1, NEW index \in 1 .. n,
           NEW key \in Keys, NEW word, NEW mine, NEW k, Bound(table, key, word, mine, k),
           index \notin mine \/ index = k
    PROVE  Bound(Enter(table, at, index), key, word, mine, k)
<1> DEFINE t == Enter(table, at, index)
<1>1. PICK i \in Steps : /\ word = At(key, i)
                         /\ \A j \in 0 .. i - 1 : /\ table.directory[At(key, j)] # 0
                                                  /\ table.directory[At(key, j)] \in mine =>
                                                        table.directory[At(key, j)] = k
  BY DEF Bound
<1>2. t.directory = [table.directory EXCEPT ![at] = index] /\ index # 0
      /\ table.directory \in [0 .. Words - 1 -> 0 .. n]
  <2>1. Entered(table, t, at, index, n)
    BY EnterIs
  <2> HIDE DEF t
  <2> QED BY <2>1, TableKinds DEF Entered
<1> HIDE DEF t
<1>3. ASSUME NEW j \in 0 .. i - 1
      PROVE  t.directory[At(key, j)] # 0 /\ (t.directory[At(key, j)] \in mine => t.directory[At(key, j)] = k)
  <2>1. At(key, j) \in 0 .. Words - 1
    BY StepKinds, AtWord
  <2>2. t.directory[At(key, j)] = IF At(key, j) = at THEN index ELSE table.directory[At(key, j)]
    BY <1>2, <2>1
  <2> QED BY <1>1, <1>2, <2>2
<1>4. Bound(t, key, word, mine, k)
  BY <1>1, <1>3 DEF Bound
<1> QED BY <1>4 DEF t

\* The first record with a key that a probe meets, as OwnerAt and CellAt do.
FirstOf(directory, key, mine) ==
    LET hits == {i \in Reached(directory, key) : directory[At(key, i)] \in mine}
    IN  IF hits = {} THEN 0 ELSE directory[At(key, Least(hits))]

LEMMA OwnerAtIs ==
    ASSUME owners \in Tables(OwnerSlots), NEW a \in Addresses
    PROVE  OwnerAt(a) = FirstOf(owners.directory, a, OwnersAt(owner, a))
<1>1. ASSUME NEW i \in Reached(owners.directory, a)
      PROVE  owner[owners.directory[At(a, i)]].address = a <=> owners.directory[At(a, i)] \in OwnersAt(owner, a)
  <2>0. i \in Steps
    BY DEF Reached
  <2>1. i \in Steps /\ i \in 0 .. i
    <3>1. i \in Nat
      BY <2>0, StepKinds
    <3> QED BY <2>0, <3>1
  <2>2. owners.directory[At(a, i)] # 0
    BY <1>1, <2>1 DEF Reached
  <2>3. At(a, i) \in 0 .. Words - 1
    BY <2>1, StepKinds, AtWord DEF Keys
  <2>4. owners.directory[At(a, i)] \in 1 .. OwnerSlots
    BY <2>2, <2>3, Sizes DEF Tables
  <2> QED BY <2>4 DEF OwnersAt
<1>2. {i \in Reached(owners.directory, a) : owner[owners.directory[At(a, i)]].address = a}
      = {i \in Reached(owners.directory, a) : owners.directory[At(a, i)] \in OwnersAt(owner, a)}
  BY <1>1
<1> QED BY <1>2 DEF OwnerAt, FirstOf

LEMMA CellAtIs ==
    ASSUME fields \in Tables(Cells), NEW p \in Properties
    PROVE  CellAt(p) = FirstOf(fields.directory, p, CellsAt(cell, p))
<1>1. ASSUME NEW i \in Reached(fields.directory, p)
      PROVE  cell[fields.directory[At(p, i)]].property = p <=> fields.directory[At(p, i)] \in CellsAt(cell, p)
  <2>0. i \in Steps
    BY DEF Reached
  <2>1. i \in Steps /\ i \in 0 .. i
    <3>1. i \in Nat
      BY <2>0, StepKinds
    <3> QED BY <2>0, <3>1
  <2>2. fields.directory[At(p, i)] # 0
    BY <1>1, <2>1 DEF Reached
  <2>3. At(p, i) \in 0 .. Words - 1
    BY <2>1, StepKinds, AtWord DEF Keys
  <2>4. fields.directory[At(p, i)] \in 1 .. Cells
    BY <2>2, <2>3, Sizes DEF Tables
  <2> QED BY <2>4 DEF CellsAt
<1>2. {i \in Reached(fields.directory, p) : cell[fields.directory[At(p, i)]].property = p}
      = {i \in Reached(fields.directory, p) : fields.directory[At(p, i)] \in CellsAt(cell, p)}
  BY <1>1
<1> QED BY <1>2 DEF CellAt, FirstOf

\* A record that has its place is the one a probe finds.
LEMMA PlacedIsFound ==
    ASSUME NEW n \in Nat, NEW table \in Tables(n), EntriesAgree(table, n), NEW key \in Keys,
           NEW mine, NEW k \in 1 .. n, k \in mine, Placed(table, key, mine, k)
    PROVE  FirstOf(table.directory, key, mine) = k
<1> DEFINE D == table.directory
           hits == {i \in Reached(D, key) : D[At(key, i)] \in mine}
<1>1. PICK i \in Steps : /\ table.entry[k] # 0 /\ table.entry[k] - 1 = At(key, i)
                         /\ \A j \in 0 .. i - 1 : D[At(key, j)] # 0 /\ (D[At(key, j)] \in mine => D[At(key, j)] = k)
  BY DEF Placed, Bound
<1>2. D[At(key, i)] = k /\ k # 0 /\ i \in Nat
  BY <1>1, StepKinds DEF EntriesAgree
<1> HIDE DEF D
<1>3. \A j \in 0 .. i : D[At(key, j)] # 0 /\ (D[At(key, j)] \in mine => D[At(key, j)] = k)
  <2>1. \A j \in 0 .. i : j \in 0 .. i - 1 \/ j = i
    BY <1>2
  <2> QED BY <1>1, <1>2, <2>1
<1>4. i \in hits
  BY <1>2, <1>3 DEF Reached
<1>5. hits \subseteq Steps
  BY DEF Reached
<1>6. Least(hits) \in hits /\ \A j \in hits : Least(hits) <= j
  BY <1>4, <1>5, StepKinds, LeastIs
<1> DEFINE h == Least(hits)
<1>7. h \in hits /\ h <= i
  BY <1>4, <1>6
<1> HIDE DEF h
<1>8. h \in 0 .. i
  <2>1. h \in Nat
    BY <1>5, <1>7, StepKinds
  <2> QED BY <1>2, <1>7, <2>1
<1>9. D[At(key, h)] = k
  BY <1>3, <1>7, <1>8
<1>10. FirstOf(D, key, mine) = D[At(key, h)]
  BY <1>4 DEF FirstOf, h
<1> QED BY <1>9, <1>10 DEF D

\* The first acceptable word, as both births choose it.
Takes(table, key, mine, keep, spare, at) ==
    /\ keep = FirstOf(table.directory, key, mine)
    /\ Acceptable(table, key, keep, spare) # {}
    /\ at = At(key, Least(Acceptable(table, key, keep, spare)))
\* It is bound: before it the chain has neither an end, nor a record with the key, nor
\* one that may be spent.
FirstWord(table, key, mine, keep, spare, at) ==
    /\ at \in 0 .. Words - 1
    /\ \/ table.directory[at] = 0 \/ table.directory[at] \in spare
       \/ keep # 0 /\ table.directory[at] = keep
       \/ at \in table.stale
    /\ \E i \in Steps :
          /\ at = At(key, i)
          /\ \A j \in 0 .. i - 1 : /\ table.directory[At(key, j)] # 0
                                   /\ table.directory[At(key, j)] \notin mine
                                   /\ table.directory[At(key, j)] \notin spare
LEMMA FirstAcceptable ==
    ASSUME NEW n \in Nat, NEW table \in Tables(n), NEW key \in Keys, NEW mine \in SUBSET (1 .. n),
           NEW keep, NEW spare, NEW at, Takes(table, key, mine, keep, spare, at)
    PROVE  FirstWord(table, key, mine, keep, spare, at)
<1> DEFINE places == Acceptable(table, key, keep, spare)
<1>0. keep = FirstOf(table.directory, key, mine) /\ places # {} /\ at = At(key, Least(places))
  BY DEF Takes
<1> DEFINE D == table.directory
           hits == {i \in Reached(D, key) : D[At(key, i)] \in mine}
           i == Least(places)
<1>1. places \subseteq Steps
  BY DEF Acceptable
<1>2. i \in places /\ \A j \in places : i <= j
  BY <1>0, <1>1, StepKinds, LeastIs
<1>3. i \in Steps /\ i \in Nat /\ at = At(key, i)
  BY <1>0, <1>1, <1>2, StepKinds
<1>4. at \in 0 .. Words - 1
  BY <1>3, AtWord
<1>5. D[at] = 0 \/ D[at] \in spare \/ (keep # 0 /\ D[at] = keep) \/ at \in table.stale
  BY <1>2, <1>3 DEF Acceptable
<1> HIDE DEF i
<1>6. ASSUME NEW j \in 0 .. i - 1 PROVE D[At(key, j)] # 0 /\ D[At(key, j)] \notin spare /\ D[At(key, j)] # keep
  <2>1. j \in Steps /\ ~(i <= j)
    BY <1>3, StepKinds
  <2>2. j \notin places
    BY <1>2, <2>1
  <2>3. D[At(key, j)] # 0 /\ D[At(key, j)] \notin spare /\ (keep # 0 => D[At(key, j)] # keep)
    BY <2>1, <2>2 DEF Acceptable
  <2> QED BY <2>3
<1>7. ASSUME NEW j \in 0 .. i - 1, D[At(key, j)] \in mine PROVE FALSE
  <2>1. j \in Steps /\ \A l \in 0 .. j : l \in 0 .. i - 1
    BY <1>3, StepKinds
  <2>2. j \in hits
    BY <1>6, <1>7, <2>1 DEF Reached
  <2>3. hits \subseteq Steps
    BY DEF Reached
  <2>4. Least(hits) \in hits /\ Least(hits) <= j
    BY <2>2, <2>3, StepKinds, LeastIs
  <2> DEFINE h == Least(hits)
  <2>5. keep = D[At(key, h)]
    BY <1>0, <2>2 DEF FirstOf
  <2>6. h \in Nat /\ h <= j
    BY <2>3, <2>4, StepKinds
  <2> HIDE DEF h
  <2>7. h \in 0 .. i - 1
    BY <1>3, <2>6
  <2> QED BY <1>6, <2>5, <2>7
<1> QED BY <1>3, <1>4, <1>5, <1>6, <1>7 DEF FirstWord

-----------------------------------------------------------------------------
(* Places.                                                                  *)

\* The types of the state, for every step below.
LEMMA Kinds ==
    ASSUME TypeInv
    PROVE  /\ owner \in [1 .. OwnerSlots -> OwnerWords] /\ owners \in Tables(OwnerSlots)
           /\ cell \in [1 .. Cells -> CellWords] /\ fields \in Tables(Cells)
           /\ native \in [Addresses -> Fields \cup {"none"}] /\ built \subseteq Addresses
           /\ enrolled \subseteq Addresses
           /\ ui.pc \in UiPcs /\ ui.address \in Addresses /\ ui.field \in Fields
           /\ ui.word \in 0 .. Words - 1
           /\ wr \in [Threads -> WrWords] /\ OwnersInv /\ FieldsInv
<1>1. TypeOK /\ ui \in UiWords
  BY Types DEF TypeInv
<1>2. /\ ui.pc \in UiPcs /\ ui.address \in Addresses /\ ui.field \in Fields
      /\ ui.word \in 0 .. Words - 1
  BY <1>1 DEF UiWords
<1> QED BY <1>1, <1>2, Types DEF TypeInv

\* Only what the places are made of counts.
LEMMA OwnersKept ==
    ASSUME OwnerPlacesInv, owner' = owner, owners' = owners, native' = native,
           enrolled' = enrolled,
           \/ ui' = ui /\ \A n \in 1 .. Cells : cell'[n].token = cell[n].token
           \/ ui.pc \notin Storing /\ ui'.pc \notin Storing
    PROVE  OwnerPlacesInv'
<1>1. CASE ui' = ui /\ \A n \in 1 .. Cells : cell'[n].token = cell[n].token
  <2>1. TokenIsNew(owner, cell', ui)
    BY <1>1 DEF OwnerPlacesInv, TokenIsNew
  <2> QED BY <1>1, <2>1 DEF OwnerPlacesInv
<1>2. CASE ui.pc \notin Storing /\ ui'.pc \notin Storing
  <2>1. OwnersStand(owner, owners, ui')
    BY <1>2 DEF OwnerPlacesInv, OwnersStand, Storing
  <2>2. TokenIsNew(owner, cell', ui')
    BY <1>2 DEF TokenIsNew, Storing
  <2> QED BY <1>2, <2>1, <2>2 DEF OwnerPlacesInv
<1> QED BY <1>1, <1>2

\* The fields keep their places while only owners change, none comes under the fields
\* that are there, and no object moves.
LEMMA CellsKept ==
    ASSUME CellPlacesInv, cell' = cell, fields' = fields,
           ui.pc \notin Birthing, ui'.pc \notin Birthing, Apart(native', enrolled'),
           \A a \in enrolled', n \in 1 .. Cells, k \in 1 .. OwnerSlots :
              Own(owner', cell, native', a, n, k) =>
                 /\ a \in enrolled /\ Own(owner, cell, native, a, n, k)
                 /\ native'[a] = native[a] /\ (a \in built => a \in built')
    PROVE  CellPlacesInv'
<1>1. CellsStand(owner', cell, fields, native', enrolled', built', ui')
  BY DEF CellPlacesInv, CellsStand, Birthing, Entering
<1> QED BY <1>1 DEF CellPlacesInv

\* A commit changes neither what a cell is nor whose.
LEMMA CommitsKeep ==
    ASSUME CellPlacesInv, owner' = owner, fields' = fields, native' = native,
           enrolled' = enrolled, built' = built, ui' = ui,
           \A n \in 1 .. Cells : cell'[n].token = cell[n].token /\ cell'[n].property = cell[n].property,
           ui.pc \in Birthing /\ ui.index # 0 => ui.index \in 1 .. Cells,
           ui.pc \in Named => ui.index \in 1 .. Cells
    PROVE  CellPlacesInv'
<1>1. \A p : CellsAt(cell', p) = CellsAt(cell, p)
  BY DEF CellsAt
<1>2. \A a, k : \A n \in 1 .. Cells : Own(owner, cell', native, a, n, k) <=> Own(owner, cell, native, a, n, k)
  BY DEF Own
<1>3. CellsStand(owner, cell', fields, native, enrolled, built, ui)
  BY <1>1, <1>2 DEF CellPlacesInv, CellsStand
<1>4. ASSUME ui.pc \in Birthing PROVE FieldComes(owner, cell', fields, native, enrolled, built, ui)
  <2> DEFINE p == Property(ui.address, ui.field)
  <2>1. FieldComes(owner, cell, fields, native, enrolled, built, ui)
    BY <1>4 DEF CellPlacesInv
  <2>2. Bound(fields, p, ui.word, CellsAt(cell', p), IF ui.pc \in Named THEN ui.index ELSE 0)
    BY <1>1, <2>1 DEF FieldComes
  <2>3. ui.index # 0 /\ ui.pc \notin Entering => Gone(owner, cell', ui.index)
    BY <1>4, <2>1 DEF FieldComes, Gone
  <2>4. ui.pc \in Named => cell'[ui.index].property = p
    BY <2>1 DEF FieldComes
  <2>5. \A a \in enrolled, n \in 1 .. Cells, k \in 1 .. OwnerSlots :
           Own(owner, cell', native, a, n, k) /\ n # ui.index => a # ui.address /\ fields.entry[n] # ui.word + 1
    BY <1>2, <2>1 DEF FieldComes
  <2>6. native[ui.address] = ui.field /\ ui.address \in built
    BY <2>1 DEF FieldComes
  <2> QED BY <2>2, <2>3, <2>4, <2>5, <2>6 DEF FieldComes
<1> QED BY <1>3, <1>4 DEF CellPlacesInv

\* Owners that are retired and words that stand leave the others where they are.
LEMMA RetiringKeeps ==
    ASSUME NEW O, NEW O2, NEW T, NEW T2, NEW u, NEW u2, OwnersStand(O, T, u),
           u.pc # "owner_word",
           \A k \in 1 .. OwnerSlots : O2[k].address = O[k].address /\ O2[k].token = O[k].token
                                      /\ (O2[k].live => O[k].live),
           T2.directory = T.directory, T2.entry = T.entry
    PROVE  OwnersStand(O2, T2, u2)
<1>1. \A a : OwnersAt(O2, a) = OwnersAt(O, a)
  BY DEF OwnersAt
<1> QED BY <1>1 DEF OwnersStand, Placed, Bound

\* A live owner is found by its address.
LEMMA LiveIsFound ==
    ASSUME TypeInv, OwnerPlacesInv, ui.pc # "owner_word", NEW k \in 1 .. OwnerSlots, owner[k].live
    PROVE  owner[k].address \in Addresses /\ OwnerAt(owner[k].address) = k
<1>1. owners \in Tables(OwnerSlots) /\ owner[k] \in OwnerWords /\ OwnersInv /\ OwnerSlots \in Nat
  BY Kinds, Sizes
<1>2. SlotOf(owner[k].token) = k /\ EntriesAgree(owners, OwnerSlots)
      /\ Placed(owners, owner[k].address, OwnersAt(owner, owner[k].address), k)
  BY DEF OwnerPlacesInv, OwnersStand
<1>3. owner[k].token # 0
  <2>1. 0 % (OwnerSlots + 1) = 0
    BY Sizes
  <2> QED BY <1>2, <2>1, Sizes DEF SlotOf
<1>4. owner[k].address \in Addresses
  BY <1>1, <1>3 DEF OwnersInv, OwnerWords
<1>5. k \in OwnersAt(owner, owner[k].address) /\ owner[k].address \in Keys
  BY <1>4 DEF OwnersAt, Keys
<1>6. FirstOf(owners.directory, owner[k].address, OwnersAt(owner, owner[k].address)) = k
  BY <1>1, <1>2, <1>5, PlacedIsFound
<1> QED BY <1>1, <1>4, <1>6, OwnerAtIs

LEMMA OwnerDeathPlaces ==
    ASSUME TypeInv, PlacesInv, NEW a \in Addresses, OwnerDeath(a)
    PROVE  PlacesInv'
<1>1. /\ ui.pc = "idle" /\ native' = [native EXCEPT ![a] = "none"] /\ enrolled' = enrolled \ {a}
      /\ owners' = owners /\ cell' = cell /\ fields' = fields /\ ui' = ui /\ built' = built
      /\ native \in [Addresses -> Fields \cup {"none"}] /\ enrolled \subseteq Addresses
      /\ owner \in [1 .. OwnerSlots -> OwnerWords]
  BY Kinds DEF OwnerDeath, UiFree
<1>2. \A k \in 1 .. OwnerSlots : /\ owner'[k].address = owner[k].address
                                 /\ owner'[k].token = owner[k].token
                                 /\ (owner'[k].live => owner[k].live)
  <2>1. \/ owner' = [k \in 1 .. OwnerSlots |->
                      IF k = OwnerAt(a) THEN [owner[k] EXCEPT !.live = FALSE] ELSE owner[k]]
        \/ owner' = owner
    BY DEF OwnerDeath
  <2>2. CASE owner' = owner
    BY <2>2
  <2>3. CASE owner' = [k \in 1 .. OwnerSlots |->
                         IF k = OwnerAt(a) THEN [owner[k] EXCEPT !.live = FALSE] ELSE owner[k]]
    <3>1. \A k \in 1 .. OwnerSlots : owner[k] \in OwnerWords
      BY <1>1
    <3> QED BY <2>3, <3>1 DEF OwnerWords
  <2> QED BY <2>1, <2>2, <2>3
<1>3. TokensInv'
  BY <1>1, <1>2 DEF PlacesInv, TokensInv
<1>4. OwnerPlacesInv'
  <2>1. OwnersStand(owner', owners', ui')
    BY <1>1, <1>2, RetiringKeeps DEF PlacesInv, OwnerPlacesInv
  <2> QED BY <1>1, <2>1 DEF PlacesInv, OwnerPlacesInv, Storing, TokenIsNew
<1>5. CellPlacesInv'
  <2>1. Apart(native', enrolled')
    BY <1>1 DEF PlacesInv, CellPlacesInv, Apart
  <2>2. ASSUME NEW b \in enrolled', NEW n \in 1 .. Cells, NEW k \in 1 .. OwnerSlots,
               Own(owner', cell, native', b, n, k)
        PROVE  /\ b \in enrolled /\ Own(owner, cell, native, b, n, k)
               /\ native'[b] = native[b] /\ (b \in built => b \in built')
    BY <1>1, <1>2, <2>2 DEF Own
  <2> QED BY <1>1, <2>1, <2>2, CellsKept DEF PlacesInv, Birthing
<1> QED BY <1>3, <1>4, <1>5 DEF PlacesInv

\* The generation that is given next is in no token yet.
LEMMA TokenFresh ==
    ASSUME NEW k \in 1 .. OwnerSlots, NEW G \in Nat, G < Generations
    PROVE  /\ TokenOf(k, G + 1) \in Given(G + 1) /\ TokenOf(k, G + 1) \notin Given(G)
           /\ SlotOf(TokenOf(k, G + 1)) = k /\ Given(G) \subseteq Given(G + 1)
<1> DEFINE m == OwnerSlots + 1
<1>1. m \in Nat /\ k \in 1 .. OwnerSlots /\ G + 1 \in 0 .. Generations
  BY Sizes
<1>2. TokenOf(k, G + 1) \in Given(G + 1) /\ Given(G) \subseteq Given(G + 1)
  BY Sizes DEF Given
<1>3. ASSUME NEW s \in 0 .. OwnerSlots, NEW g \in 0 .. G PROVE TokenOf(s, g) # TokenOf(k, G + 1)
  <2>1. TokenOf(s, g) = s + g * m /\ TokenOf(k, G + 1) = k + (G + 1) * m
    BY DEF TokenOf
  <2> HIDE DEF m
  <2>2. PICK d \in Nat : G = g + d
    BY <1>3
  <2>3. (G + 1) * m = g * m + d * m + m /\ g * m \in Nat /\ d * m \in Nat
    BY <1>1, <1>3, <2>2
  <2>4. s < m
    BY <1>1, Sizes DEF m
  <2> QED BY <1>1, <2>1, <2>3, <2>4
<1>4. TokenOf(k, G + 1) \notin Given(G)
  BY <1>3 DEF Given
<1> QED BY <1>1, <1>2, <1>4, TokenSlot

\* The word a birth takes, the slot it takes, and the owners it leaves.
LEMMA OwnerBirthWord ==
    ASSUME TypeInv, PlacesInv, NEW a \in Addresses, NEW f \in Fields, OwnerBirth(a, f)
    PROVE  /\ ui.pc = "idle" /\ native[a] = "none"
           /\ \A b \in Addresses : native[b] # "none" => Span(a, f) \cap Span(b, native[b]) = {}
           /\ native' = [native EXCEPT ![a] = f] /\ built' = built \ {a} /\ enrolled' = enrolled
           /\ cell' = cell /\ fields' = fields
           /\ owners'.directory = owners.directory /\ owners'.entry = owners.entry
           /\ owners'.stale = owners.stale /\ owners'.generation = owners.generation
           /\ \A k \in 1 .. OwnerSlots : /\ owner'[k].address = owner[k].address
                                         /\ owner'[k].token = owner[k].token
                                         /\ (owner'[k].live => owner[k].live)
           /\ \/ ui' = ui
              \/ /\ ui'.pc = "retired" /\ ui'.address = a /\ ui'.field = f
                 /\ ~owner'[ui'.index].live
                 /\ Bound(owners', a, ui'.word, OwnersAt(owner', a), ui'.index)
                 /\ \A k \in 1 .. OwnerSlots : owner'[k].live =>
                       owner'[k].address # a /\ owners'.entry[k] # ui'.word + 1
<1> DEFINE full == owners.used = OwnerSlots
           keep   == OwnerAt(a)
           spare  == IF full THEN {k \in 1 .. OwnerSlots : OwnerSpendable(k)} ELSE {}
           places == Acceptable(owners, a, keep, spare)
           at     == At(a, Least(places))
           id     == owners.directory[at]
           handed == IF id \in spare \/ (full /\ keep # 0 /\ id = keep) THEN id ELSE 0
           scan   == Scan(owners, OwnerSlots, spare)
           index  == IF ~full THEN owners.used + 1 ELSE IF handed # 0 THEN handed ELSE scan.found
           refuse == (full /\ owners.generation >= Generations) \/ places = {}
           scans  == ~refuse /\ full /\ handed = 0
           retired == [k \in 1 .. OwnerSlots |->
                         IF k \in {keep, index} THEN [owner[k] EXCEPT !.live = FALSE] ELSE owner[k]]
<1>1. /\ owner \in [1 .. OwnerSlots -> OwnerWords] /\ owners \in Tables(OwnerSlots)
      /\ OwnerSlots \in Nat /\ a \in Keys
  BY Kinds, Sizes DEF Keys
<1>2. /\ ui.pc = "idle" /\ native[a] = "none"
      /\ \A b \in Addresses : native[b] # "none" => Span(a, f) \cap Span(b, native[b]) = {}
      /\ native' = [native EXCEPT ![a] = f] /\ built' = built \ {a} /\ enrolled' = enrolled
      /\ cell' = cell /\ fields' = fields
  BY DEF OwnerBirth, UiFree
<1>3. owners' = IF scans THEN [owners EXCEPT !.cursor = scan.cursor] ELSE owners
  BY DEF OwnerBirth
<1>4. IF refuse \/ index = 0 THEN owner' = owner /\ ui' = ui
      ELSE /\ owner' = retired
           /\ ui' = [NoBirth EXCEPT !.pc = "retired", !.address = a, !.field = f,
                                    !.word = at, !.index = index]
  BY DEF OwnerBirth
<1> HIDE DEF scans, refuse, index, places, at, keep, spare, retired
<1>5. /\ owners'.directory = owners.directory /\ owners'.entry = owners.entry
      /\ owners'.stale = owners.stale /\ owners'.generation = owners.generation
  BY <1>1, <1>3 DEF Tables
<1>6. /\ \A k \in 1 .. OwnerSlots : /\ retired[k].address = owner[k].address
                                    /\ retired[k].token = owner[k].token
                                    /\ (retired[k].live => owner[k].live)
      /\ \A k \in 1 .. OwnerSlots : k \in {keep, index} => ~retired[k].live
  BY <1>1 DEF retired, OwnerWords
<1>7. CASE refuse \/ index = 0
  BY <1>2, <1>4, <1>5, <1>7
<1>8. CASE ~(refuse \/ index = 0)
  <2>1. owner' = retired
    BY <1>4, <1>8
  <2>2. /\ ui'.pc = "retired" /\ ui'.address = a /\ ui'.field = f /\ ui'.word = at
        /\ ui'.index = index
    BY <1>4, <1>8 DEF NoBirth
  <2>3. index \in 1 .. OwnerSlots
    <3>1. OwnersInv'
      BY OwnerBirthTypes
    <3> QED BY <2>2, <3>1 DEF OwnersInv, Storing
  <2>4. keep = FirstOf(owners.directory, a, OwnersAt(owner, a)) /\ places # {}
    BY <1>1, <1>8, OwnerAtIs DEF keep, refuse
  <2>5. OwnersAt(owner, a) \in SUBSET (1 .. OwnerSlots) /\ places = Acceptable(owners, a, keep, spare)
        /\ at = At(a, Least(places))
    BY DEF OwnersAt, places, at
  <2>6. /\ \/ owners.directory[at] = 0 \/ owners.directory[at] \in spare
           \/ keep # 0 /\ owners.directory[at] = keep
           \/ at \in owners.stale
        /\ \E i \in Steps :
              /\ at = At(a, i)
              /\ \A j \in 0 .. i - 1 : /\ owners.directory[At(a, j)] # 0
                                       /\ owners.directory[At(a, j)] \notin OwnersAt(owner, a)
                                       /\ owners.directory[At(a, j)] \notin spare
        /\ at \in 0 .. Words - 1
    <3> DEFINE mine == OwnersAt(owner, a)
    <3>1. mine \in SUBSET (1 .. OwnerSlots) /\ Takes(owners, a, mine, keep, spare, at)
      BY <2>4, <2>5 DEF Takes
    <3> HIDE DEF mine
    <3>2. FirstWord(owners, a, mine, keep, spare, at)
      BY <1>1, <3>1, FirstAcceptable
    <3> QED BY <3>2 DEF FirstWord, mine
  <2>7. OwnersAt(owner', a) = OwnersAt(owner, a)
    BY <1>6, <2>1 DEF OwnersAt
  <2>8. Bound(owners', a, at, OwnersAt(owner', a), index)
    BY <1>5, <2>6, <2>7 DEF Bound
  <2>9. ASSUME NEW k \in 1 .. OwnerSlots, owner'[k].live
        PROVE  owner'[k].address # a /\ owners'.entry[k] # at + 1
    <3>1. owner[k].live /\ k # keep
      BY <1>6, <2>1, <2>9
    <3>2. owner[k].address # a
      BY <1>2, <3>1, LiveIsFound DEF PlacesInv, keep
    <3>3. k \notin spare
      BY <3>1 DEF spare, OwnerSpendable
    <3>4. owners.entry[k] # 0 => /\ owners.directory[owners.entry[k] - 1] = k
                                 /\ owners.entry[k] - 1 \notin owners.stale
      BY DEF PlacesInv, OwnerPlacesInv, EntriesAgree
    <3>5. at \in Nat /\ (at + 1) - 1 = at /\ at + 1 # 0
      BY <2>6, Sizes
    <3>6. owners.entry[k] # at + 1
      BY <2>6, <3>1, <3>3, <3>4, <3>5
    <3> QED BY <1>5, <1>6, <2>1, <3>2, <3>6
  <2>10. ~owner'[index].live
    BY <1>6, <2>1, <2>3
  <2> QED BY <1>2, <1>5, <1>6, <2>1, <2>2, <2>8, <2>9, <2>10
<1> QED BY <1>7, <1>8

LEMMA OwnerBirthPlaces ==
    ASSUME TypeInv, PlacesInv, NEW a \in Addresses, NEW f \in Fields, OwnerBirth(a, f)
    PROVE  PlacesInv'
<1>1. /\ ui.pc = "idle" /\ native[a] = "none"
      /\ \A b \in Addresses : native[b] # "none" => Span(a, f) \cap Span(b, native[b]) = {}
      /\ native' = [native EXCEPT ![a] = f] /\ built' = built \ {a} /\ enrolled' = enrolled
      /\ cell' = cell /\ fields' = fields
      /\ owners'.directory = owners.directory /\ owners'.entry = owners.entry
      /\ owners'.stale = owners.stale /\ owners'.generation = owners.generation
  BY OwnerBirthWord
<1>2. \A k \in 1 .. OwnerSlots : /\ owner'[k].address = owner[k].address
                                 /\ owner'[k].token = owner[k].token
                                 /\ (owner'[k].live => owner[k].live)
  BY OwnerBirthWord
<1>3. \/ ui' = ui
      \/ /\ ui'.pc = "retired" /\ ui'.address = a /\ ui'.field = f
         /\ ~owner'[ui'.index].live
         /\ Bound(owners', a, ui'.word, OwnersAt(owner', a), ui'.index)
         /\ \A k \in 1 .. OwnerSlots : owner'[k].live =>
               owner'[k].address # a /\ owners'.entry[k] # ui'.word + 1
  BY OwnerBirthWord
<1> HIDE DEF OwnerBirth
<1>4. native'[a] = f
  BY <1>1, Kinds
<1>5. a \notin enrolled
  BY <1>1 DEF PlacesInv, CellPlacesInv, Apart
<1>6. TokensInv'
  BY <1>1, <1>2 DEF PlacesInv, TokensInv
<1>7. OwnerPlacesInv'
  <2>1. OwnersStand(owner', owners', ui')
    BY <1>1, <1>2, RetiringKeeps DEF PlacesInv, OwnerPlacesInv
  <2>2. EntriesAgree(owners', OwnerSlots)
    BY <1>1 DEF PlacesInv, OwnerPlacesInv, EntriesAgree
  <2>3. ui'.pc \in Storing => OwnerComes(owner', owners', native', enrolled', ui')
    BY <1>1, <1>3, <1>4, <1>5 DEF OwnerComes, Storing
  <2>4. TokenIsNew(owner', cell', ui')
    BY <1>1, <1>3 DEF TokenIsNew
  <2> QED BY <2>1, <2>2, <2>3, <2>4 DEF OwnerPlacesInv
<1>8. CellPlacesInv'
  <2>1. Apart(native', enrolled')
    <3>1. Apart(native, enrolled) /\ native \in [Addresses -> Fields \cup {"none"}] /\ enrolled \subseteq Addresses
      BY Kinds DEF PlacesInv, CellPlacesInv
    <3>2. ASSUME NEW b \in Addresses, NEW c \in Addresses, b # c, native'[b] # "none", native'[c] # "none"
          PROVE  Span(b, native'[b]) \cap Span(c, native'[c]) = {}
      <4>1. native'[a] = f /\ \A d \in Addresses : d # a => native'[d] = native[d]
        BY <1>1, <3>1
      <4>2. CASE b = a
        BY <1>1, <3>2, <4>1, <4>2
      <4>3. CASE c = a
        BY <1>1, <3>2, <4>1, <4>3
      <4>4. CASE b # a /\ c # a
        BY <3>1, <3>2, <4>1, <4>4 DEF Apart
      <4> QED BY <4>2, <4>3, <4>4
    <3>3. \A b \in enrolled' : native'[b] # "none"
      BY <1>1, <1>5, <3>1 DEF Apart
    <3> QED BY <3>2, <3>3 DEF Apart
  <2>2. ASSUME NEW b \in enrolled', NEW n \in 1 .. Cells, NEW k \in 1 .. OwnerSlots,
               Own(owner', cell, native', b, n, k)
        PROVE  /\ b \in enrolled /\ Own(owner, cell, native, b, n, k)
               /\ native'[b] = native[b] /\ (b \in built => b \in built')
    <3>1. b \in enrolled /\ b # a /\ b \in Addresses
      BY <1>1, <1>5, Kinds
    <3>2. native'[b] = native[b]
      BY <1>1, <3>1, Kinds
    <3> QED BY <1>1, <1>2, <2>2, <3>1, <3>2 DEF Own
  <2> QED BY <1>1, <1>3, <2>1, <2>2, CellsKept DEF PlacesInv, Birthing
<1> QED BY <1>6, <1>7, <1>8 DEF PlacesInv

\* An owner on its way holds its slot, which is of its kind.
LEMMA Coming ==
    ASSUME TypeInv, PlacesInv, ui.pc \in Storing
    PROVE  /\ owner \in [1 .. OwnerSlots -> OwnerWords] /\ owners \in Tables(OwnerSlots)
           /\ ui.index \in 1 .. OwnerSlots /\ ui.address \in Addresses /\ ui.field \in Fields
           /\ ui.word \in 0 .. Words - 1
           /\ EntriesAgree(owners, OwnerSlots) /\ OwnersStand(owner, owners, ui)
           /\ OwnerComes(owner, owners, native, enrolled, ui) /\ TokenIsNew(owner, cell, ui)
           /\ CellPlacesInv /\ TokensInv /\ ui.pc \notin Birthing
BY Kinds DEF PlacesInv, OwnerPlacesInv, OwnersInv, Storing, Birthing

\* Until it is live an owner on its way owns nothing, and is not in the way.
LEMMA StoreAddressPlaces ==
    ASSUME TypeInv, PlacesInv, StoreAddress
    PROVE  PlacesInv'
<1> DEFINE x == ui.index
<1>1. /\ ui.pc = "retired" /\ ui' = [ui EXCEPT !.pc = "addressed"]
      /\ owner' = [owner EXCEPT ![x].address = ui.address, ![x].kind = ui.field]
      /\ owners' = owners /\ cell' = cell /\ fields' = fields /\ native' = native
      /\ built' = built /\ enrolled' = enrolled
  BY DEF StoreAddress, Goto, BirthFrame
<1>2. ui.pc \in Storing
  BY <1>1 DEF Storing
<1>3. /\ owner \in [1 .. OwnerSlots -> OwnerWords] /\ owners \in Tables(OwnerSlots)
      /\ x \in 1 .. OwnerSlots /\ EntriesAgree(owners, OwnerSlots) /\ OwnersStand(owner, owners, ui)
      /\ OwnerComes(owner, owners, native, enrolled, ui) /\ CellPlacesInv /\ TokensInv
  BY <1>2, Coming
<1>4. /\ ui'.pc = "addressed" /\ ui'.index = x /\ ui'.address = ui.address /\ ui'.field = ui.field
      /\ ui'.word = ui.word
  <2>1. ui \in UiWords
    BY Types DEF TypeInv
  <2> QED BY <1>1, <2>1 DEF UiWords
<1> HIDE DEF StoreAddress, x
<1>5. /\ \A k \in 1 .. OwnerSlots : owner'[k].live = owner[k].live /\ owner'[k].token = owner[k].token
      /\ \A k \in 1 .. OwnerSlots : k # x => owner'[k] = owner[k]
      /\ owner'[x].address = ui.address /\ ~owner[x].live
  BY <1>1, <1>3 DEF OwnerWords, OwnerComes, x
<1>6. TokensInv'
  BY <1>1, <1>3, <1>5 DEF TokensInv
<1>7. OwnersStand(owner', owners, ui')
  <2>1. ASSUME NEW k \in 1 .. OwnerSlots, owner'[k].live
        PROVE  SlotOf(owner'[k].token) = k /\ Placed(owners, owner'[k].address, OwnersAt(owner', owner'[k].address), k)
    <3>1. k # x /\ owner'[k] = owner[k] /\ owner[k].live
      BY <1>5, <2>1
    <3>2. owner[k].address # ui.address
      BY <1>3, <3>1 DEF OwnerComes, x
    <3>3. SlotOf(owner[k].token) = k /\ Placed(owners, owner[k].address, OwnersAt(owner, owner[k].address), k)
      BY <1>1, <1>3, <3>1 DEF OwnersStand
    <3>4. OwnersAt(owner', owner[k].address) \subseteq OwnersAt(owner, owner[k].address)
      BY <1>5, <3>2 DEF OwnersAt
    <3> QED BY <3>1, <3>3, <3>4 DEF Placed, Bound
  <2> QED BY <2>1 DEF OwnersStand
<1>8. OwnerComes(owner', owners, native, enrolled, ui')
  <2>1. Bound(owners, ui.address, ui.word, OwnersAt(owner, ui.address), x)
    BY <1>3 DEF OwnerComes, x
  <2>2. OwnersAt(owner', ui.address) \subseteq OwnersAt(owner, ui.address) \cup {x}
    BY <1>5 DEF OwnersAt
  <2>3. Bound(owners, ui.address, ui.word, OwnersAt(owner', ui.address), x)
    BY <2>1, <2>2 DEF Bound
  <2>4. \A k \in (1 .. OwnerSlots) \ {x} :
           owner'[k].live => owner'[k].address # ui.address /\ owners.entry[k] # ui.word + 1
    BY <1>3, <1>5 DEF OwnerComes, x
  <2> QED BY <1>3, <1>4, <1>5, <2>3, <2>4 DEF OwnerComes
<1>9. OwnerPlacesInv'
  BY <1>1, <1>3, <1>4, <1>7, <1>8 DEF OwnerPlacesInv, TokenIsNew
<1>10. CellPlacesInv'
  <2>1. Apart(native', enrolled')
    BY <1>1, <1>3 DEF CellPlacesInv
  <2>2. \A a \in enrolled', n \in 1 .. Cells, k \in 1 .. OwnerSlots :
           Own(owner', cell, native', a, n, k) =>
              /\ a \in enrolled /\ Own(owner, cell, native, a, n, k)
              /\ native'[a] = native[a] /\ (a \in built => a \in built')
    BY <1>1, <1>5 DEF Own
  <2> QED BY <1>1, <1>3, <1>4, <2>1, <2>2, CellsKept DEF Birthing
<1> QED BY <1>6, <1>9, <1>10 DEF PlacesInv

LEMMA StoreTokenPlaces ==
    ASSUME TypeInv, PlacesInv, StoreToken
    PROVE  PlacesInv'
<1> DEFINE x == ui.index
           G == owners.generation
<1>1. /\ ui.pc = "addressed" /\ ui' = [ui EXCEPT !.pc = "tokened"]
      /\ owners' = [owners EXCEPT !.generation = @ + 1]
      /\ owner' = [owner EXCEPT ![x].token = TokenOf(x, owners'.generation)]
      /\ cell' = cell /\ fields' = fields /\ native' = native
      /\ built' = built /\ enrolled' = enrolled
  BY DEF StoreToken, Goto, BirthFrame
<1>2. ui.pc \in Storing
  BY <1>1 DEF Storing
<1>3. /\ owner \in [1 .. OwnerSlots -> OwnerWords] /\ owners \in Tables(OwnerSlots)
      /\ x \in 1 .. OwnerSlots /\ EntriesAgree(owners, OwnerSlots) /\ OwnersStand(owner, owners, ui)
      /\ OwnerComes(owner, owners, native, enrolled, ui) /\ CellPlacesInv /\ TokensInv
  BY <1>2, Coming
<1>4. /\ ui'.pc = "tokened" /\ ui'.index = x /\ ui'.address = ui.address /\ ui'.field = ui.field
      /\ ui'.word = ui.word
  <2>1. ui \in UiWords
    BY Types DEF TypeInv
  <2> QED BY <1>1, <2>1 DEF UiWords
<1>5. /\ G \in Nat /\ G < Generations /\ owners'.generation = G + 1 /\ owners'.directory = owners.directory
      /\ owners'.entry = owners.entry /\ owners'.stale = owners.stale
  <2>1. G \in 0 .. Generations
    BY <1>3 DEF Tables
  <2>2. G < Generations
    BY <1>1, Kinds DEF OwnersInv
  <2> QED BY <1>1, <1>3, <2>1, <2>2, Sizes DEF Tables
<1> HIDE DEF StoreToken, x, G
<1>6. /\ \A k \in 1 .. OwnerSlots : owner'[k].live = owner[k].live /\ owner'[k].address = owner[k].address
      /\ \A k \in 1 .. OwnerSlots : k # x => owner'[k] = owner[k]
      /\ owner'[x].token = TokenOf(x, G + 1) /\ ~owner[x].live
  BY <1>1, <1>3, <1>5 DEF OwnerWords, OwnerComes, x
<1>7. /\ TokenOf(x, G + 1) \in Given(G + 1) /\ TokenOf(x, G + 1) \notin Given(G)
      /\ SlotOf(TokenOf(x, G + 1)) = x /\ Given(G) \subseteq Given(G + 1)
  BY <1>3, <1>5, TokenFresh
<1>8. TokensInv'
  BY <1>1, <1>3, <1>5, <1>6, <1>7 DEF TokensInv, G
<1>9. \A a : OwnersAt(owner', a) = OwnersAt(owner, a)
  BY <1>6 DEF OwnersAt
<1>10. OwnersStand(owner', owners', ui')
  <2>1. ASSUME NEW k \in 1 .. OwnerSlots, owner'[k].live
        PROVE  SlotOf(owner'[k].token) = k /\ Placed(owners', owner'[k].address, OwnersAt(owner', owner'[k].address), k)
    <3>1. k # x /\ owner'[k] = owner[k] /\ owner[k].live
      BY <1>6, <2>1
    <3>2. SlotOf(owner[k].token) = k /\ Placed(owners, owner[k].address, OwnersAt(owner, owner[k].address), k)
      BY <1>1, <1>3, <3>1 DEF OwnersStand
    <3> QED BY <1>5, <1>9, <3>1, <3>2 DEF Placed, Bound
  <2> QED BY <2>1 DEF OwnersStand
<1>11. OwnerComes(owner', owners', native, enrolled, ui')
  <2>1. Bound(owners', ui.address, ui.word, OwnersAt(owner', ui.address), x)
    BY <1>3, <1>5, <1>9 DEF OwnerComes, x, Bound
  <2>2. \A k \in (1 .. OwnerSlots) \ {x} :
           owner'[k].live => owner'[k].address # ui.address /\ owners'.entry[k] # ui.word + 1
    BY <1>3, <1>5, <1>6 DEF OwnerComes, x
  <2>3. owner'[x].address = ui.address
    BY <1>1, <1>3, <1>6 DEF OwnerComes, x
  <2> QED BY <1>3, <1>4, <1>6, <1>7, <2>1, <2>2, <2>3 DEF OwnerComes
<1>12. TokenIsNew(owner', cell', ui')
  BY <1>1, <1>3, <1>4, <1>6, <1>7 DEF TokenIsNew, TokensInv, G
<1>13. EntriesAgree(owners', OwnerSlots)
  BY <1>3, <1>5 DEF EntriesAgree
<1>14. OwnerPlacesInv'
  BY <1>1, <1>10, <1>11, <1>12, <1>13 DEF OwnerPlacesInv
<1>15. CellPlacesInv'
  <2>1. Apart(native', enrolled')
    BY <1>1, <1>3 DEF CellPlacesInv
  <2>2. \A a \in enrolled', n \in 1 .. Cells, k \in 1 .. OwnerSlots :
           Own(owner', cell, native', a, n, k) =>
              /\ a \in enrolled /\ Own(owner, cell, native, a, n, k)
              /\ native'[a] = native[a] /\ (a \in built => a \in built')
    BY <1>1, <1>6 DEF Own
  <2> QED BY <1>1, <1>3, <1>4, <2>1, <2>2, CellsKept DEF Birthing
<1> QED BY <1>8, <1>14, <1>15 DEF PlacesInv

\* An owner that becomes live owns nothing yet: its token is new.
LEMMA StoreLivePlaces ==
    ASSUME TypeInv, PlacesInv, StoreLive
    PROVE  PlacesInv'
<1> DEFINE x == ui.index
<1>1. /\ ui.pc = "tokened" /\ ui' = [ui EXCEPT !.pc = "owner_word"]
      /\ owners' = [owners EXCEPT !.used = IF x > @ THEN x ELSE @]
      /\ owner' = [owner EXCEPT ![x].live = TRUE]
      /\ cell' = cell /\ fields' = fields /\ native' = native
      /\ built' = built /\ enrolled' = enrolled
  BY DEF StoreLive, Goto, BirthFrame
<1>2. ui.pc \in Storing
  BY <1>1 DEF Storing
<1>3. /\ owner \in [1 .. OwnerSlots -> OwnerWords] /\ owners \in Tables(OwnerSlots)
      /\ x \in 1 .. OwnerSlots /\ EntriesAgree(owners, OwnerSlots) /\ OwnersStand(owner, owners, ui)
      /\ OwnerComes(owner, owners, native, enrolled, ui) /\ CellPlacesInv /\ TokensInv
      /\ TokenIsNew(owner, cell, ui)
  BY <1>2, Coming
<1>4. /\ ui'.pc = "owner_word" /\ ui'.index = x /\ ui'.address = ui.address /\ ui'.field = ui.field
      /\ ui'.word = ui.word
  <2>1. ui \in UiWords
    BY Types DEF TypeInv
  <2> QED BY <1>1, <2>1 DEF UiWords
<1>5. /\ owners'.generation = owners.generation /\ owners'.directory = owners.directory
      /\ owners'.entry = owners.entry /\ owners'.stale = owners.stale
  BY <1>1, <1>3 DEF Tables
<1> HIDE DEF StoreLive, x
<1>6. /\ \A k \in 1 .. OwnerSlots : owner'[k].token = owner[k].token /\ owner'[k].address = owner[k].address
      /\ \A k \in 1 .. OwnerSlots : k # x => owner'[k] = owner[k]
      /\ owner[x].address = ui.address /\ SlotOf(owner[x].token) = x
  BY <1>1, <1>3 DEF OwnerWords, OwnerComes, x
<1>7. TokensInv'
  BY <1>1, <1>3, <1>5, <1>6 DEF TokensInv
<1>8. \A a : OwnersAt(owner', a) = OwnersAt(owner, a)
  BY <1>6 DEF OwnersAt
<1>9. OwnersStand(owner', owners', ui')
  <2>1. ASSUME NEW k \in 1 .. OwnerSlots, owner'[k].live, k # x
        PROVE  SlotOf(owner'[k].token) = k /\ Placed(owners', owner'[k].address, OwnersAt(owner', owner'[k].address), k)
    <3>1. owner'[k] = owner[k] /\ owner[k].live
      BY <1>6, <2>1
    <3>2. SlotOf(owner[k].token) = k /\ Placed(owners, owner[k].address, OwnersAt(owner, owner[k].address), k)
      BY <1>1, <1>3, <3>1 DEF OwnersStand
    <3> QED BY <1>5, <1>8, <3>1, <3>2 DEF Placed, Bound
  <2>2. SlotOf(owner'[x].token) = x
    BY <1>3, <1>6
  <2> QED BY <1>4, <2>1, <2>2 DEF OwnersStand
<1>10. OwnerComes(owner', owners', native, enrolled, ui')
  <2>1. Bound(owners', ui.address, ui.word, OwnersAt(owner', ui.address), x)
    BY <1>3, <1>5, <1>8 DEF OwnerComes, x, Bound
  <2>2. \A k \in (1 .. OwnerSlots) \ {x} :
           owner'[k].live => owner'[k].address # ui.address /\ owners'.entry[k] # ui.word + 1
    BY <1>3, <1>5, <1>6 DEF OwnerComes, x
  <2>3. owner'[x].address = ui.address /\ SlotOf(owner'[x].token) = x
    BY <1>3, <1>6
  <2> QED BY <1>3, <1>4, <2>1, <2>2, <2>3 DEF OwnerComes
<1>11. TokenIsNew(owner', cell', ui')
  BY <1>1, <1>3, <1>4, <1>6 DEF TokenIsNew, x
<1>12. EntriesAgree(owners', OwnerSlots)
  BY <1>3, <1>5 DEF EntriesAgree
<1>13. OwnerPlacesInv'
  BY <1>1, <1>9, <1>10, <1>11, <1>12 DEF OwnerPlacesInv
<1>14. CellPlacesInv'
  <2>1. Apart(native', enrolled') /\ ui.address \notin enrolled
    BY <1>1, <1>3 DEF CellPlacesInv, OwnerComes
  <2>2. ASSUME NEW a \in enrolled', NEW n \in 1 .. Cells, NEW k \in 1 .. OwnerSlots,
               Own(owner', cell, native', a, n, k)
        PROVE  /\ a \in enrolled /\ Own(owner, cell, native, a, n, k)
               /\ native'[a] = native[a] /\ (a \in built => a \in built')
    <3>1. k # x
      BY <1>1, <1>6, <2>1, <2>2 DEF Own
    <3> QED BY <1>1, <1>6, <2>2, <3>1 DEF Own
  <2> QED BY <1>1, <1>3, <1>4, <2>1, <2>2, CellsKept DEF Birthing
<1> QED BY <1>7, <1>13, <1>14 DEF PlacesInv

\* With its word an owner has its place, and takes nobody's.
LEMMA StoreOwnerWordPlaces ==
    ASSUME TypeInv, PlacesInv, StoreOwnerWord
    PROVE  PlacesInv'
<1> DEFINE x == ui.index
           T == Enter(owners, ui.word, x)
<1>1. /\ ui.pc = "owner_word" /\ ui' = NoBirth /\ owners' = T
      /\ enrolled' = enrolled \cup {ui.address} /\ owner' = owner
      /\ cell' = cell /\ fields' = fields /\ native' = native /\ built' = built
  BY DEF StoreOwnerWord, BirthFrame
<1>2. ui.pc \in Storing
  BY <1>1 DEF Storing
<1>3. /\ owner \in [1 .. OwnerSlots -> OwnerWords] /\ owners \in Tables(OwnerSlots)
      /\ x \in 1 .. OwnerSlots /\ ui.word \in 0 .. Words - 1 /\ ui.address \in Addresses
      /\ ui.field \in Fields /\ EntriesAgree(owners, OwnerSlots) /\ OwnersStand(owner, owners, ui)
      /\ OwnerComes(owner, owners, native, enrolled, ui) /\ CellPlacesInv /\ TokensInv
      /\ TokenIsNew(owner, cell, ui) /\ OwnerSlots \in Nat
  BY <1>2, Coming, Sizes
<1>4. /\ EntriesAgree(T, OwnerSlots) /\ T.entry[x] = ui.word + 1
      /\ \A k \in 1 .. OwnerSlots : k # x /\ owners.entry[k] # ui.word + 1 => T.entry[k] = owners.entry[k]
      /\ T.generation = owners.generation
  BY <1>3, EnterAgrees, EnterTypes
<1> HIDE DEF StoreOwnerWord, x, T
<1>5. ui'.pc = "idle"
  BY <1>1 DEF NoBirth
<1>6. /\ native[ui.address] = ui.field /\ owner[x].address = ui.address /\ SlotOf(owner[x].token) = x
      /\ Bound(owners, ui.address, ui.word, OwnersAt(owner, ui.address), x)
      /\ \A k \in (1 .. OwnerSlots) \ {x} :
            owner[k].live => owner[k].address # ui.address /\ owners.entry[k] # ui.word + 1
  BY <1>1, <1>3 DEF OwnerComes, x
<1>7. TokensInv'
  BY <1>1, <1>3, <1>4 DEF TokensInv
<1>8. OwnersStand(owner, T, ui')
  <2>1. ASSUME NEW k \in 1 .. OwnerSlots, owner[k].live
        PROVE  SlotOf(owner[k].token) = k /\ Placed(T, owner[k].address, OwnersAt(owner, owner[k].address), k)
    <3>1. CASE k = x
      <4>1. Bound(T, ui.address, ui.word, OwnersAt(owner, ui.address), x)
        BY <1>3, <1>6, EnterBound DEF T, Keys
      <4>2. ui.word + 1 # 0 /\ (ui.word + 1) - 1 = ui.word
        BY <1>3, Sizes
      <4> QED BY <1>4, <1>6, <3>1, <4>1, <4>2 DEF Placed
    <3>2. CASE k # x
      <4>1. owner[k].address # ui.address /\ owners.entry[k] # ui.word + 1
        BY <1>6, <2>1, <3>2
      <4>2. /\ SlotOf(owner[k].token) = k
            /\ Placed(owners, owner[k].address, OwnersAt(owner, owner[k].address), k)
        BY <1>3, <2>1, <3>2 DEF OwnersStand, x
      <4>3. x \notin OwnersAt(owner, owner[k].address)
        BY <1>6, <4>1 DEF OwnersAt
      <4>4. owner[k].address \in Addresses
        <5>1. owner[k] \in OwnerWords /\ owner[k].token # 0
          <6>1. 0 % (OwnerSlots + 1) = 0
            BY Sizes
          <6> QED BY <1>3, <4>2, <6>1, Sizes DEF SlotOf
        <5> QED BY <5>1, Kinds DEF OwnersInv, OwnerWords
      <4>5. Bound(T, owner[k].address, owners.entry[k] - 1, OwnersAt(owner, owner[k].address), k)
        BY <1>3, <4>2, <4>3, <4>4, EnterBound DEF T, Keys, Placed
      <4>6. T.entry[k] = owners.entry[k] /\ owners.entry[k] # 0
        BY <1>4, <3>2, <4>1, <4>2 DEF Placed
      <4> QED BY <4>2, <4>5, <4>6 DEF Placed
    <3> QED BY <3>1, <3>2
  <2> QED BY <2>1 DEF OwnersStand
<1>9. OwnerPlacesInv'
  BY <1>1, <1>4, <1>5, <1>8 DEF OwnerPlacesInv, Storing, TokenIsNew
<1>10. CellPlacesInv'
  <2>1. Apart(native', enrolled')
    BY <1>1, <1>3, <1>6, AddressAssumption DEF CellPlacesInv, Apart
  <2>2. ASSUME NEW a \in enrolled', NEW n \in 1 .. Cells, NEW k \in 1 .. OwnerSlots,
               Own(owner', cell, native', a, n, k)
        PROVE  /\ a \in enrolled /\ Own(owner, cell, native, a, n, k)
               /\ native'[a] = native[a] /\ (a \in built => a \in built')
    <3>1. owner[k].live /\ owner[k].address = a /\ cell[n].token = owner[k].token
      BY <1>1, <2>2 DEF Own
    <3>2. k # x
      BY <1>1, <1>3, <3>1 DEF TokenIsNew, x
    <3>3. a # ui.address
      BY <1>6, <3>1, <3>2
    <3> QED BY <1>1, <2>2, <3>3
  <2> QED BY <1>1, <1>3, <1>5, <2>1, <2>2, CellsKept DEF Birthing
<1> QED BY <1>7, <1>9, <1>10 DEF PlacesInv

-----------------------------------------------------------------------------
(* Fields take their places.                                                *)

\* The cell of a living object is nobody's to take.
LEMMA OwnIsNotGone ==
    ASSUME NEW O, NEW C, NEW T, NEW N, NEW u, OwnersStand(O, T, u), NEW a, NEW n,
           NEW k \in 1 .. OwnerSlots, Own(O, C, N, a, n, k)
    PROVE  ~Gone(O, C, n)
<1>1. SlotOf(O[k].token) = k /\ O[k].live /\ C[n].token = O[k].token /\ k # 0
  BY Sizes DEF OwnersStand, Own
<1> QED BY <1>1 DEF Gone

LEMMA GoneIs == \A n \in 1 .. Cells : OwnerGone(n) <=> Gone(owner, cell, n)
BY DEF OwnerGone, Gone

\* Objects that live apart have properties apart.
LEMMA PropertiesApart ==
    ASSUME NEW N \in [Addresses -> Fields \cup {"none"}], NEW E, Apart(N, E),
           NEW a \in Addresses, NEW b \in Addresses, a # b, N[a] # "none", N[b] # "none"
    PROVE  Property(a, N[a]) # Property(b, N[b])
<1>1. a \in Nat /\ b \in Nat /\ Offset[N[a]] \in Nat /\ Offset[N[b]] \in Nat
  BY AddressAssumption
<1>2. Property(a, N[a]) \in Span(a, N[a]) /\ Property(b, N[b]) \in Span(b, N[b])
  BY <1>1 DEF Property, Span
<1> QED BY <1>2 DEF Apart

\* Where a field on its way finds the tables, and its cell.
LEMMA Seeker ==
    ASSUME TypeInv, PlacesInv, ui.pc \in Birthing
    PROVE  /\ owner \in [1 .. OwnerSlots -> OwnerWords] /\ owners \in Tables(OwnerSlots)
           /\ cell \in [1 .. Cells -> CellWords] /\ fields \in Tables(Cells)
           /\ native \in [Addresses -> Fields \cup {"none"}] /\ enrolled \subseteq Addresses
           /\ ui.index \in 0 .. Cells /\ (ui.pc # "pick" => ui.index \in 1 .. Cells)
           /\ ui.address \in Addresses /\ ui.field \in Fields /\ ui.word \in 0 .. Words - 1
           /\ OwnersStand(owner, owners, ui) /\ OwnerPlacesInv /\ TokensInv
           /\ Apart(native, enrolled) /\ EntriesAgree(fields, Cells)
           /\ CellsStand(owner, cell, fields, native, enrolled, built, ui)
           /\ FieldComes(owner, cell, fields, native, enrolled, built, ui)
           /\ ui.pc \notin Storing
<1>1. FieldsInv /\ fields \in Tables(Cells) /\ ui \in UiWords
  BY Kinds, Types DEF TypeInv
<1>2. fields.used \in 0 .. Cells /\ ui.index \in Nat
  BY <1>1, Sizes DEF Tables, UiWords
<1>3. ui.pc # "pick" => ui.index \in 1 .. Cells
  BY <1>1, <1>2, Sizes DEF FieldsInv, Filling, Claiming, Birthing
<1>4. ui.pc = "pick" => ui.index <= Cells
  BY <1>1 DEF FieldsInv
<1>5. ui.index \in 0 .. Cells
  BY <1>2, <1>3, <1>4, Sizes
<1> QED BY <1>3, <1>5, Kinds DEF PlacesInv, OwnerPlacesInv, CellPlacesInv, Birthing, Storing

\* While a cell is looked for and claimed nothing has a new place.
LEMMA SeekingKeeps ==
    ASSUME TypeInv, PlacesInv, ui.pc \in {"pick", "cas"},
           owner' = owner, owners' = owners, native' = native, enrolled' = enrolled, built' = built,
           \A n \in 1 .. Cells : cell'[n].token = cell[n].token /\ cell'[n].property = cell[n].property,
           fields'.directory = fields.directory, fields'.entry = fields.entry,
           fields'.stale = fields.stale,
           \/ ui'.pc = "idle"
           \/ /\ ui'.pc \in {"pick", "cas", "claimed"} /\ ui'.address = ui.address
              /\ ui'.field = ui.field /\ ui'.word = ui.word
              /\ ui'.index # 0 => ui'.index \in 1 .. Cells /\ Gone(owner, cell, ui'.index)
    PROVE  PlacesInv'
<1>1. ui.pc \in Birthing
  BY DEF Birthing
<1>2. /\ OwnersStand(owner, owners, ui) /\ OwnerPlacesInv /\ TokensInv
      /\ Apart(native, enrolled) /\ EntriesAgree(fields, Cells)
      /\ CellsStand(owner, cell, fields, native, enrolled, built, ui)
      /\ FieldComes(owner, cell, fields, native, enrolled, built, ui)
  BY <1>1, Seeker
<1>3. TokensInv'
  BY <1>2 DEF TokensInv
<1>4. OwnerPlacesInv'
  BY <1>2, OwnersKept DEF Storing
<1>5. \A p : CellsAt(cell', p) = CellsAt(cell, p)
  BY DEF CellsAt
<1>6. \A a, k : \A n \in 1 .. Cells : Own(owner, cell', native, a, n, k) <=> Own(owner, cell, native, a, n, k)
  BY DEF Own
<1>7. CellsStand(owner, cell', fields', native, enrolled, built, ui')
  <2>1. ASSUME NEW a \in enrolled, NEW n \in 1 .. Cells, NEW k \in 1 .. OwnerSlots,
               Own(owner, cell', native, a, n, k)
        PROVE  a \in built /\ Placed(fields', Property(a, native[a]), CellsAt(cell', Property(a, native[a])), n)
    <3>1. a \in built /\ Placed(fields, Property(a, native[a]), CellsAt(cell, Property(a, native[a])), n)
      BY <1>2, <1>6, <2>1 DEF CellsStand, Entering
    <3> QED BY <1>5, <3>1 DEF Placed, Bound
  <2> QED BY <2>1 DEF CellsStand
<1>8. ASSUME ui'.pc \in Birthing PROVE FieldComes(owner, cell', fields', native, enrolled, built, ui')
  <2> DEFINE p == Property(ui.address, ui.field)
  <2>1. /\ ui'.pc \in {"pick", "cas", "claimed"} /\ ui'.address = ui.address
        /\ ui'.field = ui.field /\ ui'.word = ui.word
        /\ ui'.index # 0 => ui'.index \in 1 .. Cells /\ Gone(owner, cell, ui'.index)
    BY <1>8 DEF Birthing
  <2>2. Bound(fields', p, ui.word, CellsAt(cell', p), 0)
    BY <1>2, <1>5 DEF FieldComes, Named, Bound
  <2>3. ASSUME NEW a \in enrolled, NEW n \in 1 .. Cells, NEW k \in 1 .. OwnerSlots,
               Own(owner, cell', native, a, n, k)
        PROVE  a # ui.address /\ fields'.entry[n] # ui.word + 1
    <3>1. Own(owner, cell, native, a, n, k)
      BY <1>6, <2>3
    <3>2. ~Gone(owner, cell, n)
      BY <1>2, <3>1, OwnIsNotGone
    <3>3. ui.index # 0 => Gone(owner, cell, ui.index)
      BY <1>2 DEF FieldComes, Entering
    <3>4. n # ui.index
      BY <3>2, <3>3
    <3> QED BY <1>2, <3>1, <3>4 DEF FieldComes
  <2>4. ui'.index # 0 => Gone(owner, cell', ui'.index)
    BY <2>1 DEF Gone
  <2>5. native[ui.address] = ui.field /\ ui.address \in built
    BY <1>2 DEF FieldComes
  <2> QED BY <2>1, <2>2, <2>3, <2>4, <2>5 DEF FieldComes, Named
<1>9. EntriesAgree(fields', Cells)
  BY <1>2 DEF EntriesAgree
<1>10. CellPlacesInv'
  BY <1>2, <1>7, <1>8, <1>9 DEF CellPlacesInv
<1> QED BY <1>3, <1>4, <1>10 DEF PlacesInv

LEMMA AgainSeeks ==
    ASSUME ui \in UiWords, Again
    PROVE  \/ ui'.pc = "idle"
           \/ /\ ui'.pc = "pick" /\ ui'.address = ui.address /\ ui'.field = ui.field
              /\ ui'.word = ui.word /\ ui'.index = 0
<1>1. \/ ui' = [ui EXCEPT !.pc = "pick", !.index = 0, !.tries = ui.tries + 1]
      \/ ui' = NoBirth
  BY DEF Again, Refuse
<1>2. NoBirth.pc = "idle"
  BY DEF NoBirth
<1> HIDE DEF Again
<1> QED BY <1>1, <1>2 DEF UiWords

LEMMA PickPlaces ==
    ASSUME TypeInv, PlacesInv, PickVictim
    PROVE  PlacesInv'
<1> DEFINE spare == {n \in 1 .. Cells : CellSpendable(n)}
           scan == Scan(fields, Cells, spare)
           v    == IF ui.index # 0 THEN ui.index ELSE scan.found
<1>1. /\ ui.pc = "pick" /\ owner' = owner /\ owners' = owners /\ native' = native
      /\ enrolled' = enrolled /\ built' = built /\ cell' = cell
  BY DEF PickVictim, FieldFrame
<1>2. /\ fields' = IF ui.index # 0 THEN fields ELSE [fields EXCEPT !.cursor = scan.cursor]
      /\ \/ Refuse
         \/ v # 0 /\ Again
         \/ v # 0 /\ ui' = [ui EXCEPT !.pc = "cas", !.index = v, !.revision = cell[v].revision]
  BY DEF PickVictim
<1>3. ui \in UiWords /\ fields \in Tables(Cells) /\ Cells \in Nat \ {0} /\ ui.index \in 0 .. Cells
      /\ FieldComes(owner, cell, fields, native, enrolled, built, ui)
  BY <1>1, Types, Seeker, Sizes DEF TypeInv, Birthing
<1>4. fields'.directory = fields.directory /\ fields'.entry = fields.entry /\ fields'.stale = fields.stale
  BY <1>2, <1>3 DEF Tables
<1>5. v # 0 => v \in 1 .. Cells /\ Gone(owner, cell, v)
  <2>1. CASE ui.index # 0
    BY <1>1, <1>3, <2>1 DEF FieldComes, Entering
  <2>2. CASE ui.index = 0
    <3>1. fields.cursor \in 0 .. Cells - 1
      BY <1>3 DEF Tables
    <3> HIDE DEF spare
    <3>2. scan.found # 0 => scan.found \in spare
      BY <1>3, <3>1, ScanFinds
    <3> QED BY <2>2, <3>2, GoneIs DEF spare, CellSpendable
  <2> QED BY <2>1, <2>2
<1> HIDE DEF v, PickVictim
<1>6. \/ ui'.pc = "idle"
      \/ /\ ui'.pc \in {"pick", "cas", "claimed"} /\ ui'.address = ui.address
         /\ ui'.field = ui.field /\ ui'.word = ui.word
         /\ ui'.index # 0 => ui'.index \in 1 .. Cells /\ Gone(owner, cell, ui'.index)
  <2>1. CASE Refuse
    BY <2>1 DEF Refuse, NoBirth
  <2>2. CASE Again
    BY <1>3, <2>2, AgainSeeks
  <2>3. CASE v # 0 /\ ui' = [ui EXCEPT !.pc = "cas", !.index = v, !.revision = cell[v].revision]
    BY <1>3, <1>5, <2>3 DEF UiWords
  <2> QED BY <1>2, <2>1, <2>2, <2>3
<1> QED BY <1>1, <1>4, <1>6, SeekingKeeps

LEMMA ClaimPlaces ==
    ASSUME TypeInv, PlacesInv, ClaimVictim
    PROVE  PlacesInv'
<1>1. /\ ui.pc = "cas" /\ owner' = owner /\ owners' = owners /\ native' = native
      /\ enrolled' = enrolled /\ built' = built /\ fields' = fields
      /\ \/ /\ cell' = [cell EXCEPT ![ui.index].revision = ui.revision + 1]
            /\ ui' = [ui EXCEPT !.pc = "claimed"]
         \/ Again /\ cell' = cell
  BY DEF ClaimVictim, FieldFrame, Goto
<1>2. ui \in UiWords /\ cell \in [1 .. Cells -> CellWords] /\ ui.index \in 1 .. Cells
      /\ FieldComes(owner, cell, fields, native, enrolled, built, ui)
  BY <1>1, Types, Seeker DEF TypeInv, Birthing
<1> HIDE DEF ClaimVictim
<1>3. \A n \in 1 .. Cells : cell'[n].token = cell[n].token /\ cell'[n].property = cell[n].property
  <2>1. CASE cell' = cell
    BY <2>1
  <2>2. CASE cell' = [cell EXCEPT ![ui.index].revision = ui.revision + 1]
    BY <1>2, <2>2 DEF CellWords
  <2> QED BY <1>1, <2>1, <2>2
<1>4. Gone(owner, cell, ui.index)
  BY <1>1, <1>2 DEF FieldComes, Entering
<1>5. \/ ui'.pc = "idle"
      \/ /\ ui'.pc \in {"pick", "cas", "claimed"} /\ ui'.address = ui.address
         /\ ui'.field = ui.field /\ ui'.word = ui.word
         /\ ui'.index # 0 => ui'.index \in 1 .. Cells /\ Gone(owner, cell, ui'.index)
  <2>1. CASE Again
    BY <1>2, <2>1, AgainSeeks
  <2>2. CASE ui' = [ui EXCEPT !.pc = "claimed"]
    BY <1>2, <1>4, <2>2 DEF UiWords
  <2> QED BY <1>1, <2>1, <2>2
<1> QED BY <1>1, <1>3, <1>5, SeekingKeeps

\* What a birth of a field finds: no cell of a living object has its property, and
\* the word it takes is nobody's place.
LEMMA FieldBirthWord ==
    ASSUME TypeInv, PlacesInv, NEW a \in Addresses, ui.pc = "idle", native[a] # "none",
           a \notin built, NEW p, p = Property(a, native[a]),
           NEW spare, spare \subseteq {n \in 1 .. Cells : Gone(owner, cell, n)},
           NEW at, Takes(fields, p, CellsAt(cell, p), CellAt(p), spare, at)
    PROVE  /\ at \in 0 .. Words - 1 /\ p \in Keys
           /\ Bound(fields, p, at, CellsAt(cell, p), 0)
           /\ \A b \in enrolled, n \in 1 .. Cells, k \in 1 .. OwnerSlots :
                 Own(owner, cell, native, b, n, k) =>
                    b # a /\ Property(b, native[b]) # p /\ fields.entry[n] # at + 1
<1>1. /\ native \in [Addresses -> Fields \cup {"none"}] /\ enrolled \subseteq Addresses
      /\ fields \in Tables(Cells) /\ Apart(native, enrolled) /\ EntriesAgree(fields, Cells)
      /\ CellsStand(owner, cell, fields, native, enrolled, built, ui)
      /\ OwnersStand(owner, owners, ui) /\ Cells \in Nat
  BY Kinds, Sizes DEF PlacesInv, OwnerPlacesInv, CellPlacesInv
<1>2. native[a] \in Fields
  BY <1>1
<1>3. p \in Properties /\ p \in Keys
  BY <1>2, PropertyType
<1>4. CellsAt(cell, p) \in SUBSET (1 .. Cells)
  BY DEF CellsAt
<1>5. FirstWord(fields, p, CellsAt(cell, p), CellAt(p), spare, at)
  BY <1>1, <1>3, <1>4, FirstAcceptable
<1>6. at \in 0 .. Words - 1 /\ Bound(fields, p, at, CellsAt(cell, p), 0)
  BY <1>5 DEF FirstWord, Bound
<1>7. ASSUME NEW b \in enrolled, NEW n \in 1 .. Cells, NEW k \in 1 .. OwnerSlots,
             Own(owner, cell, native, b, n, k)
      PROVE  b # a /\ Property(b, native[b]) # p /\ fields.entry[n] # at + 1
  <2>1. b \in built /\ b # a /\ b \in Addresses
    BY <1>1, <1>7 DEF CellsStand
  <2>2. native[b] # "none"
    BY <1>1 DEF Apart
  <2>3. Property(b, native[b]) # p
    BY <1>1, <2>1, <2>2, PropertiesApart
  <2>4. n \notin spare
    BY <1>1, <1>7, OwnIsNotGone
  <2>5. CellAt(p) # 0 => cell[CellAt(p)].property = p
    BY <1>1, <1>3, CellFound
  <2>6. cell[n].property = Property(b, native[b]) /\ n # 0
    BY <1>7 DEF Own
  <2>7. ~(CellAt(p) # 0 /\ n = CellAt(p))
    BY <2>3, <2>5, <2>6
  <2>8. fields.entry[n] # 0 => /\ fields.directory[fields.entry[n] - 1] = n
                               /\ fields.entry[n] - 1 \notin fields.stale
    BY <1>1 DEF EntriesAgree
  <2>9. at \in Nat /\ (at + 1) - 1 = at /\ at + 1 # 0
    BY <1>6, Sizes
  <2>10. fields.entry[n] # at + 1
    BY <1>5, <2>4, <2>6, <2>7, <2>8, <2>9 DEF FirstWord
  <2> QED BY <2>1, <2>3, <2>10
<1> QED BY <1>3, <1>6, <1>7

\* More built objects: nothing moves.
LEMMA BuiltGrows ==
    ASSUME TypeInv, PlacesInv, ui.pc = "idle", ui'.pc = "idle", owner' = owner, owners' = owners, cell' = cell,
           fields' = fields, native' = native, enrolled' = enrolled, built \subseteq built'
    PROVE  PlacesInv'
<1>1. TokensInv'
  BY DEF PlacesInv, TokensInv
<1>2. OwnerPlacesInv'
  BY OwnersKept DEF PlacesInv, Storing
<1>3. CellPlacesInv'
  BY CellsKept DEF PlacesInv, CellPlacesInv, Birthing
<1> QED BY <1>1, <1>2, <1>3 DEF PlacesInv

\* While cells are left a birth fills the next one before a word leads to it.
LEMMA FreshCellPlaces ==
    ASSUME TypeInv, PlacesInv, NEW a \in Addresses, ui.pc = "idle", native[a] # "none",
           a \notin built, NEW p, p = Property(a, native[a]), NEW at,
           Takes(fields, p, CellsAt(cell, p), CellAt(p), {}, at),
           fields.used # Cells, NEW o \in 1 .. OwnerSlots, NEW bit \in Bits,
           cell' = [cell EXCEPT ![fields.used + 1] =
                      [property |-> p, token |-> owner[o].token, field |-> native[a],
                       revision |-> 2, live |-> TRUE, bits |-> <<p, bit>>]],
           fields' = [fields EXCEPT !.used = @ + 1],
           ui' = [NoBirth EXCEPT !.pc = "field_word", !.address = a, !.field = native[a],
                                 !.word = at, !.index = fields.used + 1],
           owner' = owner, owners' = owners, native' = native, enrolled' = enrolled,
           built' = built \cup {a}
    PROVE  PlacesInv'
<1> DEFINE x == fields.used + 1
<1>1. /\ native \in [Addresses -> Fields \cup {"none"}] /\ enrolled \subseteq Addresses
      /\ fields \in Tables(Cells) /\ Apart(native, enrolled) /\ EntriesAgree(fields, Cells)
      /\ CellsStand(owner, cell, fields, native, enrolled, built, ui)
      /\ cell \in [1 .. Cells -> CellWords] /\ Cells \in Nat /\ TokensInv /\ OwnerPlacesInv
  BY Kinds, Sizes DEF PlacesInv, OwnerPlacesInv, CellPlacesInv
<1>2. /\ at \in 0 .. Words - 1 /\ p \in Keys /\ Bound(fields, p, at, CellsAt(cell, p), 0)
      /\ \A b \in enrolled, n \in 1 .. Cells, k \in 1 .. OwnerSlots :
            Own(owner, cell, native, b, n, k) =>
               b # a /\ Property(b, native[b]) # p /\ fields.entry[n] # at + 1
  <2>1. {} \subseteq {n \in 1 .. Cells : Gone(owner, cell, n)}
    OBVIOUS
  <2> QED BY <2>1, FieldBirthWord
<1>3. x \in 1 .. Cells
  <2>1. fields.used \in 0 .. Cells
    BY <1>1 DEF Tables
  <2> QED BY <1>1, <2>1
<1>4. /\ fields'.directory = fields.directory /\ fields'.entry = fields.entry
      /\ fields'.stale = fields.stale
  BY <1>1 DEF Tables
<1>5. /\ ui'.pc = "field_word" /\ ui'.address = a /\ ui'.field = native[a] /\ ui'.word = at
      /\ ui'.index = x
  BY DEF NoBirth
<1> HIDE DEF x
<1>6. /\ cell'[x].property = p /\ cell'[x].token = owner[o].token
      /\ \A n \in 1 .. Cells : n # x => cell'[n] = cell[n]
  BY <1>1, <1>3 DEF x
<1>7. TokensInv'
  BY <1>1, <1>6 DEF TokensInv
<1>8. OwnerPlacesInv'
  BY <1>1, <1>5, OwnersKept DEF Storing
<1>9. \A q : /\ q # p => CellsAt(cell', q) \subseteq CellsAt(cell, q)
             /\ CellsAt(cell', q) \subseteq CellsAt(cell, q) \cup {x}
  BY <1>6 DEF CellsAt
<1>10. \A b \in enrolled, n \in 1 .. Cells, k \in 1 .. OwnerSlots :
          Own(owner, cell', native, b, n, k) /\ n # x => Own(owner, cell, native, b, n, k)
  BY <1>6 DEF Own
<1>11. CellsStand(owner, cell', fields', native, enrolled, built', ui')
  <2>1. ASSUME NEW b \in enrolled, NEW n \in 1 .. Cells, NEW k \in 1 .. OwnerSlots,
               Own(owner, cell', native, b, n, k)
        PROVE  /\ b \in built'
               /\ \/ n = x
                  \/ Placed(fields', Property(b, native[b]), CellsAt(cell', Property(b, native[b])), n)
    <3>1. CASE n = x
      <4>1. Property(b, native[b]) = p
        BY <1>6, <2>1, <3>1 DEF Own
      <4>2. b \in Addresses /\ native[b] # "none"
        BY <1>1 DEF Apart
      <4>3. b = a
        BY <1>1, <4>1, <4>2, PropertiesApart
      <4> QED BY <3>1, <4>3
    <3>2. CASE n # x
      <4>1. Own(owner, cell, native, b, n, k)
        BY <1>10, <2>1, <3>2
      <4>2. b \in built /\ Placed(fields, Property(b, native[b]), CellsAt(cell, Property(b, native[b])), n)
        BY <1>1, <4>1 DEF CellsStand, Entering
      <4>3. Property(b, native[b]) # p
        BY <1>2, <4>1
      <4>4. CellsAt(cell', Property(b, native[b])) \subseteq CellsAt(cell, Property(b, native[b]))
        BY <1>9, <4>3
      <4> QED BY <1>4, <4>2, <4>4 DEF Placed, Bound
    <3> QED BY <3>1, <3>2
  <2> QED BY <1>5, <2>1 DEF CellsStand, Entering
<1>12. FieldComes(owner, cell', fields', native, enrolled, built', ui')
  <2>1. Bound(fields', p, at, CellsAt(cell', p), x)
    <3>1. CellsAt(cell', p) \subseteq CellsAt(cell, p) \cup {x}
      BY <1>9
    <3>2. 0 \notin CellsAt(cell, p)
      BY DEF CellsAt
    <3> QED BY <1>2, <1>4, <3>1, <3>2 DEF Bound
  <2>2. \A b \in enrolled, n \in 1 .. Cells, k \in 1 .. OwnerSlots :
           Own(owner, cell', native, b, n, k) /\ n # x => b # a /\ fields'.entry[n] # at + 1
    BY <1>2, <1>4, <1>10
  <2>3. /\ Property(ui'.address, ui'.field) = p /\ native[ui'.address] = ui'.field
        /\ ui'.address \in built' /\ ui'.pc \in Named /\ ui'.pc \in Entering
        /\ cell'[ui'.index].property = p
    BY <1>5, <1>6 DEF Named, Entering
  <2>4. Bound(fields', p, ui'.word, CellsAt(cell', p), IF ui'.pc \in Named THEN ui'.index ELSE 0)
    BY <1>5, <2>1, <2>3
  <2>5. \A b \in enrolled, n \in 1 .. Cells, k \in 1 .. OwnerSlots :
           Own(owner, cell', native, b, n, k) /\ n # ui'.index =>
              b # ui'.address /\ fields'.entry[n] # ui'.word + 1
    BY <1>5, <2>2
  <2> QED BY <2>3, <2>4, <2>5 DEF FieldComes
<1>13. EntriesAgree(fields', Cells)
  BY <1>1, <1>4 DEF EntriesAgree
<1>14. CellPlacesInv'
  BY <1>1, <1>11, <1>12, <1>13 DEF CellPlacesInv
<1> QED BY <1>7, <1>8, <1>14 DEF PlacesInv

\* Once none is left it has a word, and looks for a cell.
LEMMA SeekPlaces ==
    ASSUME TypeInv, PlacesInv, NEW a \in Addresses, ui.pc = "idle", native[a] # "none",
           a \notin built, NEW p, p = Property(a, native[a]), NEW at,
           NEW spare, spare \subseteq {n \in 1 .. Cells : Gone(owner, cell, n)},
           Takes(fields, p, CellsAt(cell, p), CellAt(p), spare, at),
           cell' = cell, fields' = fields,
           NEW x, x # 0 => x \in spare, NEW bit,
           ui' = [NoBirth EXCEPT !.pc = "pick", !.address = a, !.field = native[a],
                                 !.word = at, !.bit = bit, !.index = x],
           owner' = owner, owners' = owners, native' = native, enrolled' = enrolled,
           built' = built \cup {a}
    PROVE  PlacesInv'
<1>1. /\ Apart(native, enrolled) /\ EntriesAgree(fields, Cells) /\ TokensInv /\ OwnerPlacesInv
      /\ CellsStand(owner, cell, fields, native, enrolled, built, ui)
  BY DEF PlacesInv, CellPlacesInv
<1>2. /\ Bound(fields, p, at, CellsAt(cell, p), 0)
      /\ \A b \in enrolled, n \in 1 .. Cells, k \in 1 .. OwnerSlots :
            Own(owner, cell, native, b, n, k) => b # a /\ fields.entry[n] # at + 1
  BY FieldBirthWord
<1>3. /\ ui'.pc = "pick" /\ ui'.address = a /\ ui'.field = native[a] /\ ui'.word = at
      /\ ui'.index = x
  BY DEF NoBirth
<1>4. TokensInv' /\ OwnerPlacesInv'
  BY <1>1, <1>3, OwnersKept DEF TokensInv, Storing
<1>5. CellsStand(owner, cell, fields, native, enrolled, built', ui')
  BY <1>1, <1>3 DEF CellsStand, Entering
<1>6. FieldComes(owner, cell, fields, native, enrolled, built', ui')
  BY <1>2, <1>3 DEF FieldComes, Named, Entering
<1> QED BY <1>1, <1>4, <1>5, <1>6 DEF PlacesInv, CellPlacesInv

LEMMA FieldBirthPlaces ==
    ASSUME TypeInv, PlacesInv, NEW a \in Addresses, FieldBirth(a)
    PROVE  PlacesInv'
<1> DEFINE f == native[a]
           p == Property(a, f)
           o == OwnerAt(a)
           old   == CellAt(p)
           full  == fields.used = Cells
           spare == IF full THEN {n \in 1 .. Cells : CellSpendable(n)} ELSE {}
           places == Acceptable(fields, p, old, spare)
           at     == At(p, Least(places))
           id     == fields.directory[at]
           alive  == IF o = 0 THEN FALSE ELSE owner[o].live
<1>1. /\ ui.pc = "idle" /\ native[a] # "none" /\ a \notin built /\ built' = built \cup {a}
      /\ owner' = owner /\ owners' = owners /\ native' = native /\ enrolled' = enrolled
  BY DEF FieldBirth, UiFree, FieldFrame
<1>2. \/ cell' = cell /\ fields' = fields /\ ui' = ui
      \/ /\ alive /\ places # {} /\ ~full
         /\ \E bit \in Bits :
               cell' = [cell EXCEPT ![fields.used + 1] =
                          [property |-> p, token |-> owner[o].token, field |-> f,
                           revision |-> 2, live |-> TRUE, bits |-> <<p, bit>>]]
         /\ fields' = [fields EXCEPT !.used = @ + 1]
         /\ ui' = [NoBirth EXCEPT !.pc = "field_word", !.address = a, !.field = f,
                                  !.word = at, !.index = fields.used + 1]
      \/ /\ alive /\ places # {} /\ full
         /\ \E bit \in Bits :
               ui' = [NoBirth EXCEPT !.pc = "pick", !.address = a, !.field = f,
                                     !.word = at, !.bit = bit,
                                     !.index = IF id \in spare THEN id ELSE 0]
         /\ cell' = cell /\ fields' = fields
  BY ZenonT(30) DEF FieldBirth
<1> HIDE DEF FieldBirth, alive, spare, places, at, id, old, full, p, o
<1>3. CellsAt(cell, p) \in SUBSET (1 .. Cells) /\ fields \in Tables(Cells) /\ p \in Properties
  BY <1>1, Kinds, PropertyType DEF CellsAt, p
<1>4. places # {} => Takes(fields, p, CellsAt(cell, p), CellAt(p), spare, at)
  BY <1>3, CellAtIs DEF Takes, places, at, old
<1>5. spare \subseteq {n \in 1 .. Cells : Gone(owner, cell, n)}
  BY GoneIs DEF spare, CellSpendable
<1>6. CASE cell' = cell /\ fields' = fields /\ ui' = ui
  BY <1>1, <1>6, BuiltGrows
<1>7. ASSUME alive, places # {}, ~full, NEW bit \in Bits,
             cell' = [cell EXCEPT ![fields.used + 1] =
                        [property |-> p, token |-> owner[o].token, field |-> f,
                         revision |-> 2, live |-> TRUE, bits |-> <<p, bit>>]],
             fields' = [fields EXCEPT !.used = @ + 1],
             ui' = [NoBirth EXCEPT !.pc = "field_word", !.address = a, !.field = f,
                                   !.word = at, !.index = fields.used + 1]
      PROVE  PlacesInv'
  <2>1. spare = {} /\ fields.used # Cells
    BY <1>7 DEF spare, full
  <2>2. o \in 1 .. OwnerSlots
    BY <1>7, Kinds, OwnerFound DEF alive, o
  <2>3. Takes(fields, p, CellsAt(cell, p), CellAt(p), {}, at)
    BY <1>4, <1>7, <2>1
  <2>4. p = Property(a, native[a])
    BY DEF p
  <2> QED BY <1>1, <1>7, <2>1, <2>2, <2>3, <2>4, FreshCellPlaces
<1>8. ASSUME alive, places # {}, full, NEW bit \in Bits,
             ui' = [NoBirth EXCEPT !.pc = "pick", !.address = a, !.field = f,
                                   !.word = at, !.bit = bit,
                                   !.index = IF id \in spare THEN id ELSE 0],
             cell' = cell, fields' = fields
      PROVE  PlacesInv'
  <2> DEFINE x == IF id \in spare THEN id ELSE 0
  <2>1. x # 0 => x \in spare
    OBVIOUS
  <2>2. ui' = [NoBirth EXCEPT !.pc = "pick", !.address = a, !.field = f,
                              !.word = at, !.bit = bit, !.index = x]
    BY <1>8
  <2>3. /\ Takes(fields, p, CellsAt(cell, p), CellAt(p), spare, at) /\ p = Property(a, native[a])
        /\ spare \subseteq {n \in 1 .. Cells : Gone(owner, cell, n)}
    BY <1>4, <1>5, <1>8 DEF p
  <2>4. cell' = cell /\ fields' = fields
    BY <1>8
  <2> HIDE DEF x
  <2> QED BY <1>1, <2>1, <2>2, <2>3, <2>4, SeekPlaces, ZenonT(30)
<1> QED BY <1>2, <1>6, <1>7, <1>8

\* The cell that is renamed was nobody's, and no living object has the new name.
LEMMA RenamePlaces ==
    ASSUME TypeInv, PlacesInv, RenameCell
    PROVE  PlacesInv'
<1> DEFINE x == ui.index
           p == Property(ui.address, ui.field)
<1>1. /\ ui.pc = "claimed" /\ ui' = [ui EXCEPT !.pc = "named"]
      /\ cell' = [cell EXCEPT ![x].live = FALSE, ![x].property = p]
      /\ owner' = owner /\ owners' = owners /\ native' = native /\ enrolled' = enrolled
      /\ built' = built /\ fields' = fields
  BY DEF RenameCell, FillFrame, FieldFrame, Goto
<1>2. /\ cell \in [1 .. Cells -> CellWords] /\ x \in 1 .. Cells /\ ui \in UiWords
      /\ native \in [Addresses -> Fields \cup {"none"}] /\ enrolled \subseteq Addresses
      /\ ui.address \in Addresses /\ ui.field \in Fields
      /\ OwnersStand(owner, owners, ui) /\ OwnerPlacesInv /\ TokensInv
      /\ Apart(native, enrolled) /\ EntriesAgree(fields, Cells)
      /\ CellsStand(owner, cell, fields, native, enrolled, built, ui)
      /\ FieldComes(owner, cell, fields, native, enrolled, built, ui)
  BY <1>1, Seeker, Types DEF TypeInv, Birthing
<1>3. /\ ui'.pc = "named" /\ ui'.index = x /\ ui'.address = ui.address /\ ui'.field = ui.field
      /\ ui'.word = ui.word
  BY <1>1, <1>2 DEF UiWords
<1> HIDE DEF RenameCell, x, p
<1>4. /\ cell'[x].property = p /\ \A n \in 1 .. Cells : n # x => cell'[n] = cell[n]
      /\ \A n \in 1 .. Cells : cell'[n].token = cell[n].token
  BY <1>1, <1>2 DEF CellWords
<1>5. TokensInv' /\ OwnerPlacesInv'
  BY <1>1, <1>2, <1>3, <1>4, OwnersKept DEF TokensInv, Storing
<1>6. /\ native[ui.address] = ui.field /\ ui.address \in built
      /\ Bound(fields, p, ui.word, CellsAt(cell, p), 0) /\ Gone(owner, cell, x)
      /\ \A a \in enrolled, n \in 1 .. Cells, k \in 1 .. OwnerSlots :
            Own(owner, cell, native, a, n, k) /\ n # x => a # ui.address /\ fields.entry[n] # ui.word + 1
  BY <1>1, <1>2 DEF FieldComes, Named, Entering, x, p
<1>7. \A q : /\ q # p => CellsAt(cell', q) \subseteq CellsAt(cell, q)
             /\ CellsAt(cell', q) \subseteq CellsAt(cell, q) \cup {x}
  BY <1>4 DEF CellsAt
<1>8. Gone(owner, cell', x)
  BY <1>2, <1>4, <1>6 DEF Gone
<1>9. ASSUME NEW a \in enrolled, NEW n \in 1 .. Cells, NEW k \in 1 .. OwnerSlots,
             Own(owner, cell', native, a, n, k)
      PROVE  /\ n # x /\ Own(owner, cell, native, a, n, k) /\ a # ui.address
             /\ fields.entry[n] # ui.word + 1 /\ Property(a, native[a]) # p
  <2>1. n # x
    BY <1>2, <1>8, <1>9, OwnIsNotGone
  <2>2. Own(owner, cell, native, a, n, k)
    BY <1>4, <1>9, <2>1 DEF Own
  <2>3. a # ui.address /\ fields.entry[n] # ui.word + 1
    BY <1>6, <2>1, <2>2
  <2>4. native[a] # "none" /\ native[ui.address] # "none" /\ a \in Addresses
    BY <1>2, <1>6, AddressAssumption DEF Apart
  <2>5. Property(a, native[a]) # p
    BY <1>2, <1>6, <2>3, <2>4, PropertiesApart DEF p
  <2> QED BY <2>1, <2>2, <2>3, <2>5
<1>10. CellsStand(owner, cell', fields, native, enrolled, built, ui')
  <2>1. ASSUME NEW a \in enrolled, NEW n \in 1 .. Cells, NEW k \in 1 .. OwnerSlots,
               Own(owner, cell', native, a, n, k)
        PROVE  a \in built /\ Placed(fields, Property(a, native[a]), CellsAt(cell', Property(a, native[a])), n)
    <3>1. Own(owner, cell, native, a, n, k) /\ Property(a, native[a]) # p
      BY <1>9, <2>1
    <3>2. a \in built /\ Placed(fields, Property(a, native[a]), CellsAt(cell, Property(a, native[a])), n)
      BY <1>1, <1>2, <3>1 DEF CellsStand, Entering
    <3>3. CellsAt(cell', Property(a, native[a])) \subseteq CellsAt(cell, Property(a, native[a]))
      BY <1>7, <3>1
    <3> QED BY <3>2, <3>3 DEF Placed, Bound
  <2> QED BY <2>1 DEF CellsStand
<1>11. FieldComes(owner, cell', fields, native, enrolled, built, ui')
  <2>1. Bound(fields, p, ui.word, CellsAt(cell', p), x)
    <3>1. CellsAt(cell', p) \subseteq CellsAt(cell, p) \cup {x} /\ 0 \notin CellsAt(cell, p)
      BY <1>7 DEF CellsAt
    <3> QED BY <1>6, <3>1 DEF Bound
  <2>2. /\ Property(ui'.address, ui'.field) = p /\ native[ui'.address] = ui'.field
        /\ ui'.address \in built /\ ui'.pc \in Named
        /\ cell'[ui'.index].property = p /\ Gone(owner, cell', ui'.index)
    BY <1>3, <1>4, <1>6, <1>8 DEF Named, p
  <2>3. \A a \in enrolled, n \in 1 .. Cells, k \in 1 .. OwnerSlots :
           Own(owner, cell', native, a, n, k) => a # ui'.address /\ fields.entry[n] # ui'.word + 1
    BY <1>3, <1>9
  <2> QED BY <1>3, <2>1, <2>2, <2>3 DEF FieldComes
<1> QED BY <1>1, <1>2, <1>5, <1>10, <1>11 DEF PlacesInv, CellPlacesInv

\* Filling a cell that keeps its name.
LEMMA FillingKeeps ==
    ASSUME TypeInv, PlacesInv, ui.pc \in Named, ui'.pc \in Entering, ui'.index = ui.index,
           ui'.address = ui.address, ui'.field = ui.field, ui'.word = ui.word,
           owner' = owner, owners' = owners, native' = native, enrolled' = enrolled,
           built' = built, fields' = fields,
           \A n \in 1 .. Cells : /\ cell'[n].property = cell[n].property
                                 /\ n # ui.index => cell'[n].token = cell[n].token,
           cell'[ui.index].token \in Given(owners.generation)
    PROVE  PlacesInv'
<1> DEFINE x == ui.index
           p == Property(ui.address, ui.field)
<1>0. ui.pc \in Birthing
  BY DEF Named, Birthing
<1>1. /\ x \in 1 .. Cells
      /\ native \in [Addresses -> Fields \cup {"none"}] /\ enrolled \subseteq Addresses
      /\ ui.address \in Addresses /\ ui.field \in Fields
      /\ OwnersStand(owner, owners, ui) /\ OwnerPlacesInv /\ TokensInv
      /\ Apart(native, enrolled) /\ EntriesAgree(fields, Cells)
      /\ CellsStand(owner, cell, fields, native, enrolled, built, ui)
      /\ FieldComes(owner, cell, fields, native, enrolled, built, ui)
  BY <1>0, Seeker DEF Named
<1> HIDE DEF x, p
<1>2. /\ native[ui.address] = ui.field /\ ui.address \in built /\ cell[x].property = p
      /\ Bound(fields, p, ui.word, CellsAt(cell, p), x)
      /\ \A a \in enrolled, n \in 1 .. Cells, k \in 1 .. OwnerSlots :
            Own(owner, cell, native, a, n, k) /\ n # x => a # ui.address /\ fields.entry[n] # ui.word + 1
  BY <1>1 DEF FieldComes, x, p
<1>3. TokensInv'
  BY <1>1 DEF TokensInv
<1>4. OwnerPlacesInv'
  BY <1>1, OwnersKept DEF Storing, Named, Entering
<1>5. \A q : CellsAt(cell', q) = CellsAt(cell, q)
  BY DEF CellsAt
<1>6. \A a \in enrolled, n \in 1 .. Cells, k \in 1 .. OwnerSlots :
         n # x /\ Own(owner, cell', native, a, n, k) => Own(owner, cell, native, a, n, k)
  BY DEF Own, x
<1>7. CellsStand(owner, cell', fields, native, enrolled, built, ui')
  <2>1. ASSUME NEW a \in enrolled, NEW n \in 1 .. Cells, NEW k \in 1 .. OwnerSlots,
               Own(owner, cell', native, a, n, k)
        PROVE  /\ a \in built
               /\ \/ n = x
                  \/ Placed(fields, Property(a, native[a]), CellsAt(cell', Property(a, native[a])), n)
    <3>1. CASE n = x
      <4>1. Property(a, native[a]) = p
        BY <1>1, <1>2, <2>1, <3>1 DEF Own
      <4>2. a \in Addresses /\ native[a] # "none" /\ native[ui.address] # "none"
        BY <1>1, <1>2, AddressAssumption DEF Apart
      <4>3. a = ui.address
        BY <1>1, <1>2, <4>1, <4>2, PropertiesApart DEF p
      <4> QED BY <1>2, <3>1, <4>3
    <3>2. CASE n # x
      <4>1. Own(owner, cell, native, a, n, k)
        BY <1>6, <2>1, <3>2
      <4> QED BY <1>1, <1>5, <3>2, <4>1 DEF CellsStand, x
    <3> QED BY <3>1, <3>2
  <2> QED BY <2>1 DEF CellsStand, x
<1>8. FieldComes(owner, cell', fields, native, enrolled, built, ui')
  <2>1. /\ Property(ui'.address, ui'.field) = p /\ native[ui'.address] = ui'.field
        /\ ui'.address \in built /\ ui'.pc \in Named /\ cell'[ui'.index].property = p
    BY <1>1, <1>2 DEF Named, Entering, x, p
  <2>2. Bound(fields, p, ui'.word, CellsAt(cell', p), ui'.index)
    BY <1>2, <1>5 DEF x
  <2>3. \A a \in enrolled, n \in 1 .. Cells, k \in 1 .. OwnerSlots :
           Own(owner, cell', native, a, n, k) /\ n # ui'.index =>
              a # ui'.address /\ fields.entry[n] # ui'.word + 1
    BY <1>2, <1>6 DEF x
  <2> QED BY <2>1, <2>2, <2>3 DEF FieldComes
<1> QED BY <1>1, <1>3, <1>4, <1>7, <1>8 DEF PlacesInv, CellPlacesInv

LEMMA FillPlaces ==
    ASSUME TypeInv, PlacesInv, ReidentifyCell \/ RefillCell \/ ReleaseCell
    PROVE  PlacesInv'
<1> DEFINE x == ui.index
<1>1. /\ owner' = owner /\ owners' = owners /\ native' = native /\ enrolled' = enrolled
      /\ built' = built /\ fields' = fields
  BY DEF ReidentifyCell, RefillCell, ReleaseCell, FillFrame, FieldFrame
<1>2. /\ ui.pc \in Named
      /\ \E pc \in Entering : ui' = [ui EXCEPT !.pc = pc]
  BY DEF ReidentifyCell, RefillCell, ReleaseCell, Goto, Named, Entering
<1>3. ui.pc \in Birthing
  BY <1>2 DEF Named, Birthing
<1>4. /\ cell \in [1 .. Cells -> CellWords] /\ x \in 1 .. Cells /\ ui \in UiWords /\ TokensInv
      /\ ui.address \in Addresses
  BY <1>2, <1>3, Seeker, Types DEF TypeInv, Named
<1>5. /\ ui'.pc \in Entering /\ ui'.index = ui.index
      /\ ui'.address = ui.address /\ ui'.field = ui.field /\ ui'.word = ui.word
  BY <1>2, <1>4 DEF UiWords, Entering
<1>6. /\ \A n \in 1 .. Cells : /\ cell'[n].property = cell[n].property
                               /\ n # ui.index => cell'[n].token = cell[n].token
      /\ cell'[ui.index].token \in Given(owners.generation)
  <2>1. CASE ReidentifyCell
    <3> DEFINE token == owner[OwnerAt(ui.address)].token
    <3>1. cell' = [cell EXCEPT ![x].token = token, ![x].field = ui.field]
      BY <2>1 DEF ReidentifyCell
    <3>2. token \in Given(owners.generation)
      <4>1. OwnerAt(ui.address) # 0
        BY <2>1, Kinds DEF ReidentifyCell, FieldsInv, Seeking
      <4>2. OwnerAt(ui.address) \in 1 .. OwnerSlots
        BY <1>4, <4>1, Kinds, OwnerFound
      <4> QED BY <1>4, <4>2 DEF TokensInv
    <3> HIDE DEF token
    <3> QED BY <1>4, <3>1, <3>2 DEF CellWords
  <2>2. CASE RefillCell
    <3>1. cell' = [cell EXCEPT ![x].bits = <<Property(ui.address, ui.field), ui.bit>>, ![x].live = TRUE]
      BY <2>2 DEF RefillCell
    <3> QED BY <1>4, <3>1 DEF CellWords, TokensInv
  <2>3. CASE ReleaseCell
    <3>1. cell' = [cell EXCEPT ![x].revision = ui.revision + 2]
      BY <2>3 DEF ReleaseCell
    <3> QED BY <1>4, <3>1 DEF CellWords, TokensInv
  <2> QED BY <2>1, <2>2, <2>3
<1> QED BY <1>1, <1>2, <1>5, <1>6, FillingKeeps

\* With its word a field has its place, and takes nobody's.
LEMMA FieldWordPlaces ==
    ASSUME TypeInv, PlacesInv, StoreFieldWord
    PROVE  PlacesInv'
<1> DEFINE x == ui.index
           p == Property(ui.address, ui.field)
           T == Enter(fields, ui.word, x)
<1>1. /\ ui.pc = "field_word" /\ ui' = NoBirth /\ fields' = T
      /\ owner' = owner /\ owners' = owners /\ native' = native /\ enrolled' = enrolled
      /\ built' = built /\ cell' = cell
  BY DEF StoreFieldWord, FieldFrame
<1>2. /\ cell \in [1 .. Cells -> CellWords] /\ x \in 1 .. Cells /\ fields \in Tables(Cells)
      /\ native \in [Addresses -> Fields \cup {"none"}] /\ enrolled \subseteq Addresses
      /\ ui.address \in Addresses /\ ui.field \in Fields /\ ui.word \in 0 .. Words - 1
      /\ OwnersStand(owner, owners, ui) /\ OwnerPlacesInv /\ TokensInv /\ Cells \in Nat
      /\ Apart(native, enrolled) /\ EntriesAgree(fields, Cells)
      /\ CellsStand(owner, cell, fields, native, enrolled, built, ui)
      /\ FieldComes(owner, cell, fields, native, enrolled, built, ui)
  BY <1>1, Seeker, Sizes DEF Birthing
<1>3. ui'.pc = "idle"
  BY <1>1 DEF NoBirth
<1>4. /\ EntriesAgree(T, Cells) /\ T.entry[x] = ui.word + 1
      /\ \A k \in 1 .. Cells : k # x /\ fields.entry[k] # ui.word + 1 => T.entry[k] = fields.entry[k]
  BY <1>2, EnterAgrees
<1> HIDE DEF StoreFieldWord, x, p, T
<1>5. /\ native[ui.address] = ui.field /\ ui.address \in built /\ cell[x].property = p
      /\ Bound(fields, p, ui.word, CellsAt(cell, p), x)
      /\ \A a \in enrolled, n \in 1 .. Cells, k \in 1 .. OwnerSlots :
            Own(owner, cell, native, a, n, k) /\ n # x => a # ui.address /\ fields.entry[n] # ui.word + 1
  BY <1>1, <1>2 DEF FieldComes, Named, x, p
<1>6. TokensInv' /\ OwnerPlacesInv'
  BY <1>1, <1>2, <1>3, OwnersKept DEF TokensInv, Storing
<1>7. native[ui.address] # "none" /\ p \in Keys
  BY <1>2, <1>5, AddressAssumption, PropertyType DEF p
<1>8. CellsStand(owner, cell, T, native, enrolled, built, ui')
  <2>1. ASSUME NEW a \in enrolled, NEW n \in 1 .. Cells, NEW k \in 1 .. OwnerSlots,
               Own(owner, cell, native, a, n, k)
        PROVE  a \in built /\ Placed(T, Property(a, native[a]), CellsAt(cell, Property(a, native[a])), n)
    <3> DEFINE q == Property(a, native[a])
    <3>1. a \in Addresses /\ native[a] # "none" /\ cell[n].property = q
      BY <1>2, <2>1 DEF Apart, Own
    <3>2. q \in Keys
      BY <1>2, <3>1, PropertyType
    <3>3. CASE n = x
      <4>1. q = p
        BY <1>5, <3>1, <3>3
      <4>2. Bound(T, p, ui.word, CellsAt(cell, p), x)
        BY <1>2, <1>5, <1>7, EnterBound DEF T
      <4>3. ui.word + 1 # 0 /\ (ui.word + 1) - 1 = ui.word
        BY <1>2, Sizes
      <4>4. a \in built
        BY <1>2, <2>1 DEF CellsStand
      <4> QED BY <1>4, <3>3, <4>1, <4>2, <4>3, <4>4 DEF Placed
    <3>4. CASE n # x
      <4>1. a # ui.address /\ fields.entry[n] # ui.word + 1
        BY <1>5, <2>1, <3>4
      <4>2. q # p
        BY <1>2, <1>5, <1>7, <3>1, <4>1, PropertiesApart DEF p
      <4>3. x \notin CellsAt(cell, q)
        BY <1>5, <4>2 DEF CellsAt
      <4>4. a \in built /\ Placed(fields, q, CellsAt(cell, q), n)
        BY <1>2, <2>1, <3>4 DEF CellsStand, x
      <4>5. Bound(T, q, fields.entry[n] - 1, CellsAt(cell, q), n)
        <5> HIDE DEF q
        <5> QED BY <1>2, <3>2, <4>3, <4>4, EnterBound DEF T, Placed
      <4>6. T.entry[n] = fields.entry[n] /\ fields.entry[n] # 0
        BY <1>4, <3>4, <4>1, <4>4 DEF Placed
      <4> QED BY <4>4, <4>5, <4>6 DEF Placed
    <3> QED BY <3>3, <3>4
  <2> QED BY <2>1 DEF CellsStand
<1> QED BY <1>1, <1>2, <1>3, <1>4, <1>6, <1>8 DEF PlacesInv, CellPlacesInv, Birthing

-----------------------------------------------------------------------------
(* The invariant and the theorem.                                           *)

\* A step that leaves the tables alone, and what the cells are, moves nothing.
LEMMA QuietPlaces ==
    ASSUME TypeInv, PlacesInv, owner' = owner, owners' = owners, fields' = fields,
           native' = native, built' = built, enrolled' = enrolled, ui' = ui,
           \A n \in 1 .. Cells : cell'[n].token = cell[n].token /\ cell'[n].property = cell[n].property
    PROVE  PlacesInv'
<1>1. TokensInv /\ OwnerPlacesInv /\ CellPlacesInv
  BY DEF PlacesInv
<1>2. TokensInv'
  BY <1>1 DEF TokensInv
<1>3. OwnerPlacesInv'
  BY <1>1, OwnersKept
<1>4. /\ ui.pc \in Birthing /\ ui.index # 0 => ui.index \in 1 .. Cells
      /\ ui.pc \in Named => ui.index \in 1 .. Cells
  <2>1. ui.pc \in Birthing => ui.index \in 0 .. Cells /\ (ui.pc # "pick" => ui.index \in 1 .. Cells)
    BY Seeker
  <2> QED BY <2>1, Sizes DEF Birthing, Named
<1>5. CellPlacesInv'
  BY <1>1, <1>4, CommitsKeep
<1> QED BY <1>2, <1>3, <1>5 DEF PlacesInv

\* A commit changes the words of a cell, and neither its name nor its lifetime.
LEMMA WritePlaces ==
    ASSUME TypeInv, PlacesInv, Writes
    PROVE  PlacesInv'
<1>1. PICK t \in Threads :
         \/ \E a \in Addresses, bit \in Bits, death \in BOOLEAN : Resolve(t, a, bit, death)
         \/ LoadRevision(t) \/ LockCell(t) \/ StorePayload(t) \/ UnlockCell(t)
  BY AddressAssumption, Choices DEF Writes
<1>2. UNCHANGED <<owner, owners, fields, native, built, enrolled, ui>>
  BY <1>1 DEF Resolve, LoadRevision, LockCell, StorePayload, UnlockCell, WriteFrame
<1> DEFINE c == wr[t].cell
           death == wr[t].death
           Even(C) == \A n \in 1 .. Cells : C[n].token = cell[n].token /\ C[n].property = cell[n].property
<1>3. cell \in [1 .. Cells -> CellWords]
  BY Kinds
<1>4. \/ cell' = cell
      \/ \E r : cell' = [cell EXCEPT ![c].revision = r]
      \/ cell' = [cell EXCEPT ![c] = [@ EXCEPT !.live = FALSE]]
      \/ cell' = [cell EXCEPT ![c] = [@ EXCEPT !.bits = wr[t].bits]]
  <2>1. CASE LockCell(t)
    BY <2>1 DEF LockCell
  <2>2. CASE UnlockCell(t)
    BY <2>2 DEF UnlockCell
  <2>3. CASE StorePayload(t)
    BY <2>3 DEF StorePayload
  <2> QED BY <1>1, <2>1, <2>2, <2>3 DEF Resolve, LoadRevision
<1>5. \A n \in 1 .. Cells : cell'[n].token = cell[n].token /\ cell'[n].property = cell[n].property
  <2>1. ASSUME NEW r, cell' = [cell EXCEPT ![c].revision = r] PROVE Even(cell')
    BY <1>3, <2>1 DEF CellWords
  <2>2. CASE cell' = [cell EXCEPT ![c] = [@ EXCEPT !.live = FALSE]]
    BY <1>3, <2>2 DEF CellWords
  <2>3. CASE cell' = [cell EXCEPT ![c] = [@ EXCEPT !.bits = wr[t].bits]]
    BY <1>3, <2>3 DEF CellWords
  <2> QED BY <1>4, <2>1, <2>2, <2>3
<1> QED BY <1>2, <1>5, QuietPlaces

LEMMA PlacesInit == Init => PlacesInv
<1> SUFFICES ASSUME Init PROVE PlacesInv
  OBVIOUS
<1>1. ui.pc = "idle" /\ enrolled = {} /\ owners.generation = 0
      /\ \A a \in Addresses : native[a] = "none"
  BY DEF Init, NoBirth, EmptyTable
<1>2. \A k \in 1 .. OwnerSlots : ~owner[k].live /\ owner[k].token = 0
  BY DEF Init
<1>3. \A n \in 1 .. Cells : cell[n].token = 0
  BY DEF Init
<1>4. EntriesAgree(owners, OwnerSlots) /\ EntriesAgree(fields, Cells)
  BY DEF Init, EmptyTable, EntriesAgree
<1>5. 0 \in Given(0)
  <2>1. 0 = TokenOf(0, 0)
    BY Sizes DEF TokenOf
  <2> QED BY <2>1, Sizes DEF Given
<1>6. TokensInv
  BY <1>1, <1>2, <1>3, <1>5 DEF TokensInv
<1>7. OwnerPlacesInv
  BY <1>1, <1>2, <1>4 DEF OwnerPlacesInv, OwnersStand, TokenIsNew, Storing
<1>8. CellPlacesInv
  BY <1>1, <1>4 DEF CellPlacesInv, Apart, CellsStand, Birthing
<1> QED BY <1>6, <1>7, <1>8 DEF PlacesInv

LEMMA PlacesStep == TypeInv /\ PlacesInv /\ [Next]_vars => PlacesInv'
<1> SUFFICES ASSUME TypeInv, PlacesInv, [Next]_vars PROVE PlacesInv'
  OBVIOUS
<1>1. CASE OwnerSide
  BY <1>1, OwnerDeathPlaces, OwnerBirthPlaces, StoreAddressPlaces, StoreTokenPlaces, StoreLivePlaces,
     StoreOwnerWordPlaces DEF OwnerSide
<1>2. CASE FieldSide
  BY <1>2, FieldBirthPlaces, PickPlaces, ClaimPlaces, RenamePlaces, FillPlaces, FieldWordPlaces
     DEF FieldSide
<1>3. CASE Writes
  BY <1>3, WritePlaces
<1>4. CASE Reads
  <2>1. UNCHANGED <<owner, owners, cell, fields, native, built, enrolled, ui>>
    BY <1>4 DEF Reads, ReadStart, ReadLive, ReadKind, ReadToken, ReadAddress, ReadProbe, ReadRevision,
         ReadIdentity, ReadPayload, ReadCheck, ReadFinal, ReadEnd, Load, ReadFrame
  <2> QED BY <2>1, QuietPlaces
<1>5. CASE UNCHANGED vars
  <2>1. UNCHANGED <<owner, owners, cell, fields, native, built, enrolled, ui>>
    BY <1>5 DEF vars
  <2> QED BY <2>1, QuietPlaces
<1> QED BY <1>1, <1>2, <1>3, <1>4, <1>5 DEF Next, Births, OwnerSide, FieldSide

LEMMA PlacesHold == Spec => [](TypeInv /\ PlacesInv)
<1>1. Init => TypeInv /\ PlacesInv
  BY ChannelInit, PlacesInit DEF ChannelInv
<1>2. ChannelInv => TypeInv
  BY DEF ChannelInv
<1>3. Spec => []TypeInv
  BY <1>2, ChannelHolds, PTL
<1>4. Spec => []PlacesInv
  BY <1>1, <1>3, PlacesStep, PTL DEF Spec
<1> QED BY <1>3, <1>4, PTL

\* channel_owner_birth, channel_birth: "A stale word is left occupied so no probe chain
\* through it breaks".  Whatever slots, cells and words are taken over, and however the hashes
\* collide, the cell of a living object's field is the one its probe finds.
THEOREM LiveFieldsAreFound == Spec => []LiveFieldsAreReachable
<1>1. TypeInv /\ PlacesInv => LiveFieldsAreReachable
  <2> SUFFICES ASSUME TypeInv, PlacesInv, NEW a \in enrolled, ui.pc = "idle",
                      NEW n \in 1 .. Cells, NEW k \in 1 .. OwnerSlots,
                      Own(owner, cell, native, a, n, k)
               PROVE  CellAt(Property(a, native[a])) = n
    BY DEF LiveFieldsAreReachable, Own
  <2> DEFINE p == Property(a, native[a])
  <2>1. /\ fields \in Tables(Cells) /\ native \in [Addresses -> Fields \cup {"none"}]
        /\ enrolled \subseteq Addresses /\ Cells \in Nat
    BY Kinds, Sizes
  <2>2. a \in Addresses /\ native[a] # "none" /\ EntriesAgree(fields, Cells)
    BY <2>1 DEF PlacesInv, CellPlacesInv, Apart
  <2>3. p \in Properties /\ p \in Keys
    BY <2>1, <2>2, PropertyType
  <2>4. n \in CellsAt(cell, p)
    BY DEF CellsAt, Own
  <2>5. Placed(fields, p, CellsAt(cell, p), n)
    BY DEF PlacesInv, CellPlacesInv, CellsStand, Entering
  <2> HIDE DEF p
  <2>6. FirstOf(fields.directory, p, CellsAt(cell, p)) = n
    BY <2>1, <2>2, <2>3, <2>4, <2>5, PlacedIsFound
  <2>7. CellAt(p) = n
    BY <2>1, <2>3, <2>6, CellAtIs
  <2> QED BY <2>7 DEF p
<1> QED BY <1>1, PlacesHold, PTL
=============================================================================
