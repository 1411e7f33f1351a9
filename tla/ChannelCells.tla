---------------------------- MODULE ChannelCells ----------------------------
(***************************************************************************)
(* The retained channel fields of the mirror file: channel-capture.inc,    *)
(* which allocates, rewrites and reclaims owner records and field cells,   *)
(* and copy_channel of mirror-read.c, with which the bridge process reads  *)
(* one field of one owner lifetime.  Nothing locks the table: cells carry  *)
(* a revision that is odd while their words change, owners carry a token   *)
(* naming one lifetime, and two directories are probed from a hash.        *)
(*                                                                         *)
(* Three threads run: the UI owner, which runs every constructor and       *)
(* destructor hook and commits values; one other thread of the application *)
(* that commits values; and the reader.  Each step is one store, or one    *)
(* load, that another thread can tell apart; stores are seen in the order  *)
(* they are made.  A comment that starts with "Fault" introduces a mistake *)
(* the properties are known to catch, not a part of the model.             *)
(***************************************************************************)
EXTENDS Integers

CONSTANTS
    Addresses,      \* where the application allocates owners
    Fields,         \* channel fields; each owner kind has exactly one
    Offset,         \* channel_offset
    OwnerOnly,      \* fields channel_write accepts from the UI owner only
    HashOf,         \* channel_hash of an address or a property
    OwnerSlots,     \* CHANNEL_OWNERS
    Cells,          \* CHANNEL_FIELDS
    Words,          \* CHANNEL_HASH, words of each directory
    Probes,         \* MIRROR_PROBES
    Budget,         \* CHANNEL_RECLAIM_BUDGET
    Tries,          \* CHANNEL_RECLAIM_TRIES
    Generations,    \* CHANNEL_OWNER_GENERATION_MAX
    LastRevision,   \* UINT32_MAX - 1, the largest even revision
    Retries,        \* 4 in copy_channel
    Bits,           \* contents a value can have
    Committers,     \* threads whose setters run
    Wanted          \* fields the reader asks for

ASSUME AddressAssumption ==
    /\ Addresses \subseteq Nat \ {0} /\ Offset \in [Fields -> Nat]
    /\ Addresses # {} /\ Fields # {} /\ "none" \notin Fields
    /\ OwnerOnly \subseteq Fields /\ Wanted \subseteq Fields
    /\ Committers \subseteq {"ui", "audio"} /\ Bits # {}

Property(a, f) == a + Offset[f]
Properties == {Property(a, f) : a \in Addresses, f \in Fields}
Keys       == Addresses \cup Properties

ASSUME TableAssumption ==
    /\ {OwnerSlots, Cells, Words, Probes, Budget, Tries, Retries} \subseteq Nat \ {0}
    /\ Probes <= Words
    /\ HashOf \in [Keys -> 0 .. Words - 1]
    /\ Generations \in Nat /\ Generations >= OwnerSlots
    /\ LastRevision \in Nat /\ LastRevision % 2 = 0 /\ LastRevision >= 2

VARIABLES
    owner,      \* ChannelOwner owners[]
    owners,     \* the owner table's directory and its allocator
    cell,       \* ChannelCell fields[]
    fields,     \* the field table's directory and its allocator
    error,      \* errors[]
    native,     \* the application: kind of the object living at an address
    built,      \* addresses whose constructor has run its field hook
    ui,         \* the UI owner inside channel_owner_birth or channel_birth
    wr,         \* each thread inside channel_write
    rd,         \* the reader inside copy_channel
    enrolled,   \* history: addresses whose living object's birth was recorded
    seen        \* history: values of the field being read, since the read began

vars == <<owner, owners, cell, fields, error, native, built, enrolled, ui, wr, rd, seen>>

Threads   == {"ui", "audio"}
Errors    == {"ok", "capacity", "owner", "lifetime", "wrap"}
Faulty(e) == e \notin {"ok", "capacity"}          \* channel_fault

\* A token carries its slot; slots count from 1 and no token is 0.
TokenOf(slot, generation) == slot + generation * (OwnerSlots + 1)
SlotOf(token) == token % (OwnerSlots + 1)
Tokens == {TokenOf(s, g) : s \in 0 .. OwnerSlots, g \in 0 .. Generations}

\* A value remembers the property it was committed to, and one bit of content.
Values == (Properties \cup {0}) \X Bits

OwnerWords == [address : Addresses \cup {0}, kind : Fields, live : BOOLEAN, token : Tokens]
CellWords  == [property : Properties \cup {0}, token : Tokens, field : Fields,
               revision : 0 .. LastRevision, live : BOOLEAN, bits : Values]
Tables(n)  == [used : 0 .. n, directory : [0 .. Words - 1 -> 0 .. n],
               entry : [1 .. n -> 0 .. Words], stale : SUBSET (0 .. Words - 1),
               cursor : 0 .. n - 1, generation : 0 .. Generations]

UiPcs == {"idle", "retired", "addressed", "tokened", "owner_word", "pick", "cas",
          "claimed", "named", "identified", "filled", "field_word"}
WrPcs == {"idle", "resolved", "loaded", "locked", "stored"}
RdPcs == {"idle", "live", "kind", "token", "address", "probe", "window",
          "identity", "payload", "check", "final", "done"}

TypeOK ==
    /\ owner \in [1 .. OwnerSlots -> OwnerWords] /\ owners \in Tables(OwnerSlots)
    /\ cell \in [1 .. Cells -> CellWords] /\ fields \in Tables(Cells)
    /\ error \in [Fields -> Errors]
    /\ native \in [Addresses -> Fields \cup {"none"}] /\ {built, enrolled} \subseteq SUBSET Addresses
    /\ ui \in [pc : UiPcs, address : Addresses, field : Fields, word : 0 .. Words - 1,
               index : 0 .. OwnerSlots + Cells, revision : 0 .. LastRevision, tries : 0 .. Tries,
               bit : Bits]
    /\ wr \in [Threads -> [pc : WrPcs, cell : 1 .. Cells, bits : Values, death : BOOLEAN,
                           revision : 0 .. LastRevision]]
    /\ rd \in [pc : RdPcs, token : Tokens, field : Fields, property : Properties \cup {0},
               probe : 0 .. Probes, cell : 1 .. Cells, revision : 0 .. LastRevision,
               retry : 0 .. Retries, bits : Values, live : BOOLEAN, available : BOOLEAN]
    /\ seen \subseteq Values

AnyAddress == CHOOSE a \in Addresses : TRUE
AnyBit     == CHOOSE b \in Bits : TRUE
AnyField   == CHOOSE f \in Fields : TRUE
EmptyTable(n) == [used |-> 0, directory |-> [at \in 0 .. Words - 1 |-> 0],
                  entry |-> [k \in 1 .. n |-> 0], stale |-> {}, cursor |-> 0,
                  generation |-> 0]
NoBirth == [pc |-> "idle", address |-> AnyAddress, field |-> AnyField, word |-> 0,
            index |-> 0, revision |-> 0, tries |-> 0, bit |-> AnyBit]
NoWrite == [pc |-> "idle", cell |-> 1, bits |-> <<0, AnyBit>>, death |-> FALSE, revision |-> 0]
NoRead  == [pc |-> "idle", token |-> 0, field |-> AnyField, property |-> 0, probe |-> 0,
            cell |-> 1, revision |-> 0, retry |-> 0, bits |-> <<0, AnyBit>>, live |-> FALSE,
            available |-> FALSE]

Init ==
    /\ owner = [k \in 1 .. OwnerSlots |->
                  [address |-> 0, kind |-> AnyField, live |-> FALSE, token |-> 0]]
    /\ owners = EmptyTable(OwnerSlots)
    /\ cell = [n \in 1 .. Cells |-> [property |-> 0, token |-> 0, field |-> AnyField,
                                     revision |-> 0, live |-> FALSE, bits |-> <<0, AnyBit>>]]
    /\ fields = EmptyTable(Cells)
    /\ error = [f \in Fields |-> "ok"]
    /\ native = [a \in Addresses |-> "none"] /\ built = {} /\ enrolled = {}
    /\ ui = NoBirth /\ wr = [t \in Threads |-> NoWrite] /\ rd = NoRead /\ seen = {}

-----------------------------------------------------------------------------
(* Probing.  A chain is walked until its first empty word.                  *)

Least(S) == CHOOSE i \in S : \A j \in S : i <= j
At(key, i) == (HashOf[key] + i) % Words
Steps == 0 .. Probes - 1

Reached(directory, key) ==
    {i \in Steps : \A j \in 0 .. i : directory[At(key, j)] # 0}

\* channel_owner and channel_cell: the first word of the chain that names a
\* record with this key, live or not; 0 when there is none.
OwnerAt(a) ==
    LET hits == {i \in Reached(owners.directory, a) :
                    owner[owners.directory[At(a, i)]].address = a}
    IN  IF hits = {} THEN 0 ELSE owners.directory[At(a, Least(hits))]
CellAt(p) ==
    LET hits == {i \in Reached(fields.directory, p) :
                    cell[fields.directory[At(p, i)]].property = p}
    IN  IF hits = {} THEN 0 ELSE fields.directory[At(p, Least(hits))]

\* channel_owner_spendable; channel_owner_gone and channel_spendable.
OwnerSpendable(k) == ~owner[k].live

OwnerGone(n) ==
    LET s == SlotOf(cell[n].token)
    IN  s = 0 \/ ~owner[s].live \/ owner[s].token # cell[n].token

\* Fault: the revision may wrap.
IdleWhenEven(revision) == revision % 2 = 0

Idle(revision) == revision % 2 = 0 /\ revision <= LastRevision - 2

CellSpendable(n) == OwnerGone(n) /\ Idle(cell[n].revision)

\* The first acceptable word of a key's chain, or none: an empty one, one naming
\* a spendable record once the table is full, the key's own, or a stale one.
Acceptable(table, key, keep, spendable) ==
    {i \in Steps : LET at == At(key, i)
                       id == table.directory[at]
                   IN  \/ id = 0 \/ id \in spendable
                       \/ keep # 0 /\ id = keep
                       \/ at \in table.stale}

\* channel_victim and channel_owner_victim: a scan of at most Budget records
\* from the cursor, which stays behind the record found.
Scan(table, n, spendable) ==
    LET hits == {k \in 0 .. Budget - 1 : ((table.cursor + k) % n) + 1 \in spendable}
    IN  IF hits = {} THEN [found |-> 0, cursor |-> (table.cursor + Budget) % n]
        ELSE [found |-> ((table.cursor + Least(hits)) % n) + 1,
              cursor |-> (table.cursor + Least(hits) + 1) % n]

\* Fault: the word a record leaves is emptied.
EnterAndEmpty(table, at, index) ==
    LET left == table.entry[index]
    IN  [table EXCEPT
           !.directory = [w \in DOMAIN @ |-> IF w = at THEN index
                                             ELSE IF w = left - 1 THEN 0 ELSE @[w]],
           !.entry[index] = at + 1]

\* The directory's own bookkeeping when record `index' takes word `at': the word
\* the record had before turns stale, a record the word named before has none.
Enter(table, at, index) ==
    LET prev == table.directory[at]
        left == IF table.entry[index] \in {0, at + 1} THEN {} ELSE {table.entry[index] - 1}
    IN  [table EXCEPT
           !.directory[at] = index,
           !.stale = (@ \cup left) \ {at},
           !.entry = [k \in DOMAIN @ |->
                        IF k = index THEN at + 1
                        ELSE IF k = prev /\ @[k] = at + 1 THEN 0 ELSE @[k]]]

\* What the field being read holds at rest, and every such value since the start
\* of the copy: every action ends with Remember.
Current == {cell[n].bits : n \in {m \in 1 .. Cells :
              /\ cell[m].token = rd.token /\ cell[m].field = rd.field
              /\ cell[m].live /\ cell[m].revision % 2 = 0}}
Remember == seen' = IF rd'.pc = "idle" THEN {} ELSE seen \cup Current'

-----------------------------------------------------------------------------
(* Owner lifetimes, on the UI owner.                                        *)

UiFree == ui.pc = "idle" /\ wr["ui"].pc = "idle"
Goto(pc) == ui' = [ui EXCEPT !.pc = pc]
Span(a, f) == a .. Property(a, f)
BirthFrame == <<cell, fields, native, built, wr, rd>>

\* channel_owner_birth up to its first stores: an application constructor runs at
\* free memory; the table takes a new slot, the address's own, or a retired one.
OwnerBirth(a, f) ==
    /\ UiFree /\ native[a] = "none"
    /\ \A b \in Addresses : native[b] # "none" => Span(a, f) \cap Span(b, native[b]) = {}
    /\ native' = [native EXCEPT ![a] = f] /\ built' = built \ {a}
    /\ LET full   == owners.used = OwnerSlots
           keep   == OwnerAt(a)
           spare  == IF full THEN {k \in 1 .. OwnerSlots : OwnerSpendable(k)} ELSE {}
           places == Acceptable(owners, a, keep, spare)
           at     == At(a, Least(places))
           id     == owners.directory[at]
           handed == IF id \in spare \/ (full /\ keep # 0 /\ id = keep) THEN id ELSE 0
           scan   == Scan(owners, OwnerSlots, spare)
           index  == IF ~full THEN owners.used + 1 ELSE IF handed # 0 THEN handed ELSE scan.found
           refuse == (full /\ owners.generation >= Generations) \/ places = {}
           scans  == ~refuse /\ full /\ handed = 0
       IN  /\ owners' = IF scans THEN [owners EXCEPT !.cursor = scan.cursor] ELSE owners
           /\ IF refuse \/ index = 0
                 THEN /\ error' = [error EXCEPT ![f] = "capacity"]
                      /\ UNCHANGED <<owner, ui>>
                 ELSE /\ owner' = [k \in 1 .. OwnerSlots |->
                                     IF k \in {keep, index} THEN [owner[k] EXCEPT !.live = FALSE]
                                                            ELSE owner[k]]
                      /\ ui' = [NoBirth EXCEPT !.pc = "retired", !.address = a, !.field = f,
                                               !.word = at, !.index = index]
                      /\ UNCHANGED error
    /\ UNCHANGED <<cell, fields, enrolled, wr, rd>> /\ Remember

\* "incarnation is published LAST" of the three words, and live after it.
StoreAddress ==
    /\ ui.pc = "retired" /\ Goto("addressed")
    /\ owner' = [owner EXCEPT ![ui.index].address = ui.address, ![ui.index].kind = ui.field]
    /\ UNCHANGED <<BirthFrame, owners, error, enrolled>> /\ Remember
StoreToken ==
    /\ ui.pc = "addressed" /\ Goto("tokened")
    /\ owners' = [owners EXCEPT !.generation = @ + 1]
    /\ owner' = [owner EXCEPT ![ui.index].token = TokenOf(ui.index, owners'.generation)]
    /\ UNCHANGED <<BirthFrame, error, enrolled>> /\ Remember
StoreLive ==
    /\ ui.pc = "tokened" /\ Goto("owner_word")
    /\ owner' = [owner EXCEPT ![ui.index].live = TRUE]
    /\ owners' = [owners EXCEPT !.used = IF ui.index > @ THEN ui.index ELSE @]
    /\ UNCHANGED <<BirthFrame, error, enrolled>> /\ Remember
StoreOwnerWord ==
    /\ ui.pc = "owner_word" /\ ui' = NoBirth
    /\ owners' = Enter(owners, ui.word, ui.index) /\ enrolled' = enrolled \cup {ui.address}
    /\ UNCHANGED <<BirthFrame, owner, error>> /\ Remember

\* The application does not destroy a property while its own setter runs.
Unused(a) == wr["audio"].pc = "idle" \/ wr["audio"].bits[1] # Property(a, native[a])

\* channel_owner_death in a destructor; or a failed construction, which runs none.
OwnerDeath(a) ==
    /\ UiFree /\ native[a] # "none" /\ Unused(a)
    /\ native' = [native EXCEPT ![a] = "none"] /\ enrolled' = enrolled \ {a}
    /\ \/ owner' = [k \in 1 .. OwnerSlots |->
                       IF k = OwnerAt(a) THEN [owner[k] EXCEPT !.live = FALSE] ELSE owner[k]]
       \/ UNCHANGED owner
    /\ UNCHANGED <<owners, cell, fields, error, built, ui, wr, rd>> /\ Remember

-----------------------------------------------------------------------------
(* Field cells, on the UI owner: channel_birth.                             *)

FieldFrame == <<owner, owners, native, enrolled, wr, rd>>
Refuse == ui' = NoBirth /\ error' = [error EXCEPT ![ui.field] = "capacity"]
Again  == IF ui.tries + 1 < Tries
             THEN /\ ui' = [ui EXCEPT !.pc = "pick", !.index = 0, !.tries = @ + 1]
                  /\ UNCHANGED error
             ELSE Refuse

\* A constructor's field hook, once in a lifetime.  Until the table is full a
\* new cell is filled before any word leads to it.
FieldBirth(a) ==
    /\ UiFree /\ native[a] # "none" /\ a \notin built /\ built' = built \cup {a}
    /\ LET f == native[a]
           p == Property(a, f)
           o == OwnerAt(a)
           old   == CellAt(p)
           full  == fields.used = Cells
           spare == IF full THEN {n \in 1 .. Cells : CellSpendable(n)} ELSE {}
           places == Acceptable(fields, p, old, spare)
           at     == At(p, Least(places))
           id     == fields.directory[at]
           alive  == IF o = 0 THEN FALSE ELSE owner[o].live
           twice  == IF ~alive \/ old = 0 THEN FALSE
                     ELSE cell[old].live /\ cell[old].token = owner[o].token
       IN  \/ ~alive /\ UNCHANGED <<cell, fields, error, ui>>
           \/ /\ twice /\ error' = [error EXCEPT ![f] = "lifetime"]
              /\ UNCHANGED <<cell, fields, ui>>
           \/ /\ alive /\ ~twice
              /\ \/ /\ places = {}
                    /\ error' = [error EXCEPT ![f] = "capacity"] /\ UNCHANGED <<cell, fields, ui>>
                 \/ /\ places # {} /\ ~full
                    /\ \E bit \in Bits :
                          cell' = [cell EXCEPT ![fields.used + 1] =
                                     [property |-> p, token |-> owner[o].token, field |-> f,
                                      revision |-> 2, live |-> TRUE, bits |-> <<p, bit>>]]
                    /\ fields' = [fields EXCEPT !.used = @ + 1]
                    /\ ui' = [NoBirth EXCEPT !.pc = "field_word", !.address = a, !.field = f,
                                             !.word = at, !.index = fields.used + 1]
                    /\ UNCHANGED error
                 \/ /\ places # {} /\ full
                    /\ \E bit \in Bits :
                          ui' = [NoBirth EXCEPT !.pc = "pick", !.address = a, !.field = f,
                                               !.word = at, !.bit = bit,
                                               !.index = IF id \in spare THEN id ELSE 0]
                    /\ UNCHANGED <<cell, fields, error>>
    /\ UNCHANGED FieldFrame /\ Remember

\* Each try takes the handed cell or scans for one, then claims its revision.
PickVictim ==
    /\ ui.pc = "pick"
    /\ LET scan == Scan(fields, Cells, {n \in 1 .. Cells : CellSpendable(n)})
           v    == IF ui.index # 0 THEN ui.index ELSE scan.found
       IN  /\ fields' = IF ui.index # 0 THEN fields ELSE [fields EXCEPT !.cursor = scan.cursor]
           /\ \/ v = 0 /\ Refuse
              \/ v # 0 /\ ~Idle(cell[v].revision) /\ Again
              \/ /\ v # 0 /\ Idle(cell[v].revision) /\ UNCHANGED error
                 /\ ui' = [ui EXCEPT !.pc = "cas", !.index = v, !.revision = cell[v].revision]
    /\ UNCHANGED <<FieldFrame, cell, built>> /\ Remember

ClaimVictim ==
    /\ ui.pc = "cas"
    /\ IF cell[ui.index].revision = ui.revision
          THEN /\ cell' = [cell EXCEPT ![ui.index].revision = ui.revision + 1]
               /\ Goto("claimed") /\ UNCHANGED error
          ELSE Again /\ UNCHANGED cell
    /\ UNCHANGED <<FieldFrame, fields, built>> /\ Remember

\* "identity is republished inside the seqlock window".
FillFrame == <<FieldFrame, fields, error, built>>
RenameCell ==
    /\ ui.pc = "claimed" /\ Goto("named")
    /\ cell' = [cell EXCEPT ![ui.index].live = FALSE,
                            ![ui.index].property = Property(ui.address, ui.field)]
    /\ UNCHANGED FillFrame /\ Remember
ReidentifyCell ==
    /\ ui.pc = "named" /\ Goto("identified")
    /\ cell' = [cell EXCEPT ![ui.index].token = owner[OwnerAt(ui.address)].token,
                            ![ui.index].field = ui.field]
    /\ UNCHANGED FillFrame /\ Remember
RefillCell ==
    /\ ui.pc = "identified" /\ Goto("filled")
    /\ cell' = [cell EXCEPT ![ui.index].bits = <<Property(ui.address, ui.field), ui.bit>>,
                            ![ui.index].live = TRUE]
    /\ UNCHANGED FillFrame /\ Remember
ReleaseCell ==
    /\ ui.pc = "filled" /\ Goto("field_word")
    /\ cell' = [cell EXCEPT ![ui.index].revision = ui.revision + 2]
    /\ UNCHANGED FillFrame /\ Remember

StoreFieldWord ==
    /\ ui.pc = "field_word" /\ ui' = NoBirth
    /\ fields' = Enter(fields, ui.word, ui.index)
    /\ UNCHANGED <<FieldFrame, cell, error, built>> /\ Remember

-----------------------------------------------------------------------------
(* Commits: channel_hook and channel_write, on either thread.               *)

WriteFrame == <<owner, owners, fields, native, built, enrolled, ui, rd>>

\* A native setter of a constructed object, or a property's destructor: the hook
\* resolves the property's cell and asks for its life and its field.
Resolve(t, a, bit, death) ==
    /\ wr[t].pc = "idle" /\ a \in built /\ native[a] # "none"
    /\ IF t = "ui" THEN UiFree ELSE native[a] \notin OwnerOnly /\ ~death
    /\ LET p == Property(a, native[a]) IN
          /\ CellAt(p) # 0 /\ cell[CellAt(p)].live /\ cell[CellAt(p)].field = native[a]
          /\ wr' = [wr EXCEPT ![t] = [pc |-> "resolved", cell |-> CellAt(p), revision |-> 0,
                                       bits |-> <<p, bit>>, death |-> death]]
    /\ UNCHANGED <<WriteFrame, cell, error>> /\ Remember

Leave(t) == wr' = [wr EXCEPT ![t] = NoWrite]

\* An odd revision on entry is latched as a fault of whatever field the cell has.
LoadRevision(t) ==
    /\ wr[t].pc = "resolved"
    /\ LET v == cell[wr[t].cell] IN
          \/ ~v.live /\ Leave(t) /\ UNCHANGED error
          \/ /\ v.live /\ t # "ui" /\ v.field \in OwnerOnly
             /\ Leave(t) /\ error' = [error EXCEPT ![v.field] = "owner"]
          \/ /\ v.live /\ ~(t # "ui" /\ v.field \in OwnerOnly) /\ ~Idle(v.revision)
             /\ Leave(t) /\ error' = [error EXCEPT ![v.field] = "wrap"]
          \/ /\ v.live /\ ~(t # "ui" /\ v.field \in OwnerOnly) /\ Idle(v.revision)
             /\ wr' = [wr EXCEPT ![t].pc = "loaded", ![t].revision = v.revision]
             /\ UNCHANGED error
    /\ UNCHANGED <<WriteFrame, cell>> /\ Remember

Won(t) == cell[wr[t].cell].revision = wr[t].revision

\* "Only the acquire is a CAS, and only a lost CAS is silent".
LockCell(t) ==
    /\ wr[t].pc = "loaded"
    /\ IF Won(t)
          THEN /\ cell' = [cell EXCEPT ![wr[t].cell].revision = wr[t].revision + 1]
               /\ wr' = [wr EXCEPT ![t].pc = "locked"]
          ELSE Leave(t) /\ UNCHANGED cell
    /\ UNCHANGED <<WriteFrame, error>> /\ Remember

StorePayload(t) ==
    /\ wr[t].pc = "locked" /\ wr' = [wr EXCEPT ![t].pc = "stored"]
    /\ cell' = [cell EXCEPT ![wr[t].cell] =
                   IF wr[t].death THEN [@ EXCEPT !.live = FALSE] ELSE [@ EXCEPT !.bits = wr[t].bits]]
    /\ UNCHANGED <<WriteFrame, error>> /\ Remember

UnlockCell(t) ==
    /\ wr[t].pc = "stored" /\ Leave(t)
    /\ cell' = [cell EXCEPT ![wr[t].cell].revision = wr[t].revision + 2]
    /\ UNCHANGED <<WriteFrame, error>> /\ Remember

-----------------------------------------------------------------------------
(* The reader: copy_channel for one token and one field.                    *)

ReadFrame  == <<owner, owners, cell, fields, error, native, built, enrolled, ui, wr>>
Load(pc, next) == rd.pc = pc /\ rd' = next /\ UNCHANGED ReadFrame /\ Remember
Ahead(pc)  == [rd EXCEPT !.pc = pc]
GiveUp     == NoRead
Quoted     == owner[SlotOf(rd.token)]
Copied     == cell[rd.cell]

\* A consumer quotes any token it has ever been given.
ReadStart(token, f) ==
    /\ ~Faulty(error[f])
    /\ Load("idle", [NoRead EXCEPT !.pc = "live", !.token = token, !.field = f])

ReadLive  == Load("live", IF Quoted.live THEN Ahead("kind") ELSE GiveUp)
ReadKind  == Load("kind", IF Quoted.kind = rd.field THEN Ahead("token") ELSE GiveUp)
ReadToken == Load("token", IF Quoted.token = rd.token THEN Ahead("address") ELSE GiveUp)
ReadAddress ==
    Load("address", [Ahead("probe") EXCEPT !.property = Property(Quoted.address, rd.field)])

\* The chain's words one by one, then the copy's pre-filter of the cell found.
ReadProbe ==
    LET n == IF rd.probe = Probes THEN 0 ELSE fields.directory[At(rd.property, rd.probe)]
    IN  Load("probe", IF n = 0 THEN GiveUp
                      ELSE IF cell[n].property # rd.property THEN [rd EXCEPT !.probe = @ + 1]
                      ELSE IF cell[n].token = rd.token /\ cell[n].field = rd.field
                         THEN [Ahead("window") EXCEPT !.cell = n, !.probe = 0]
                      ELSE GiveUp)

\* Fault: the identity found by the probe is trusted inside the window.
Trusted == TRUE

\* "identity is re-established inside the window before anything is copied out".
Matches == /\ Copied.property = rd.property /\ Copied.field = rd.field
           /\ Copied.token = rd.token
NextRetry == IF rd.retry + 1 = Retries THEN GiveUp
             ELSE [Ahead("window") EXCEPT !.retry = @ + 1]

ReadRevision ==
    Load("window", IF Copied.revision % 2 = 1 THEN NextRetry
                   ELSE [Ahead("identity") EXCEPT !.revision = Copied.revision])
ReadIdentity == Load("identity", IF Matches THEN Ahead("payload") ELSE GiveUp)
ReadPayload ==
    Load("payload", [Ahead("check") EXCEPT !.bits = Copied.bits, !.live = Copied.live])
ReadCheck ==
    Load("check", IF Copied.revision # rd.revision THEN NextRetry ELSE Ahead("final"))
ReadFinal ==
    Load("final", [Ahead("done") EXCEPT
                     !.available = rd.live /\ Quoted.live /\ ~Faulty(error[rd.field])])
ReadEnd == Load("done", GiveUp)

-----------------------------------------------------------------------------

Births == \/ \E a \in Addresses : OwnerDeath(a) \/ FieldBirth(a) \/ \E f \in Fields : OwnerBirth(a, f)
          \/ StoreAddress \/ StoreToken \/ StoreLive \/ StoreOwnerWord
          \/ PickVictim \/ ClaimVictim 
          \/ RenameCell \/ ReidentifyCell \/ RefillCell \/ ReleaseCell \/ StoreFieldWord

Writes == \E t \in Committers :
             \/ \E a \in Addresses, bit \in Bits, death \in BOOLEAN : Resolve(t, a, bit, death)
             \/ LoadRevision(t) \/ LockCell(t) \/ StorePayload(t) \/ UnlockCell(t)

Reads == \/ \E k \in 1 .. OwnerSlots, f \in Wanted, g \in 1 .. owners.generation :
               ReadStart(TokenOf(k, g), f)
         \/ ReadLive \/ ReadKind \/ ReadToken \/ ReadAddress \/ ReadProbe
         \/ ReadRevision \/ ReadIdentity \/ ReadPayload \/ ReadCheck \/ ReadFinal \/ ReadEnd

Next == Births \/ Writes \/ Reads

Spec == Init /\ [][Next]_vars

-----------------------------------------------------------------------------
(* Safety *)

\* copy_channel: a copy it calls available is a value the asked-for field of the
\* asked-for lifetime really had, untorn, at some moment of that copy.
ReadIsCurrent == (rd.pc = "done" /\ rd.available) => rd.bits \in seen

\* The field a living object registered under a living lifetime is always found
\* by a probe: no reclaimed word, recycled word or moved key hides it.
LiveFieldsAreReachable ==
    \A a \in enrolled :
        ui.pc = "idle" =>
            \A n \in 1 .. Cells, k \in 1 .. OwnerSlots :
                (/\ owner[k].live /\ owner[k].address = a
                 /\ cell[n].live /\ cell[n].token = owner[k].token
                 /\ cell[n].property = Property(a, native[a]) /\ cell[n].field = native[a])
                    => CellAt(Property(a, native[a])) = n

\* channel_write: the CAS means "dropping one update is strictly better than the
\* mixed payload": a cell at rest holds a value committed to its own property.
CellHoldsOwnValue ==
    \A n \in 1 .. Cells :
        (cell[n].live /\ cell[n].revision % 2 = 0) => cell[n].bits[1] = cell[n].property

=============================================================================
