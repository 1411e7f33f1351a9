---------------------------- MODULE MirrorTopology ----------------------------
(* The topology of the mirror (mirror-capture.c, mirror-read.c): which Tracks the *)
(* open project has, in their order, with their Programs.                         *)
(*                                                                                *)
(* The application's hooks run on its own thread, inside the call they report, and *)
(* keep a working copy of the pool; what changes is exported word by word under a  *)
(* revision that is odd meanwhile, and read by another process.  The application   *)
(* is external: it opens and creates projects, and changes the pool by the methods *)
(* the hooks surround; `surprises` counts calls out of the order the hooks expect. *)
(* A Track here carries the number of its construction, which the hooks never see. *)
EXTENDS Naturals, Sequences, SequencesExt, FiniteSets

CONSTANTS Places,      \* addresses a Track may have
          Programs,
          Capacity,    \* MIRROR_CELLS: Tracks that can be retired in a session
          Births,      \* bound: Tracks constructed
          Calls,       \* bound: native calls
          Surprises    \* bound: unexpected ones among them

VARIABLES stage,     \* what the application is doing with the project
          pool,      \* its Tracks, in order
          born,      \* the construction of the Track at a place; 0, none
          program,   \* its Program
          call,      \* the native call in progress
          work,      \* the hooks' working copy
          type,      \* type_do: the retype the hooks follow
          alive,
          todo,      \* exports the hook in progress still has to make
          at,        \* the next word of the export in progress
          then,      \* what the native call does when its hook returns
          shared,    \* the exported words
          copy,      \* the reader
          births, calls, surprises

vars == <<stage, pool, born, program, call, work, type, alive, todo, at, then, shared, copy,
          births, calls, surprises>>
native == <<stage, pool, born, program, call, then, births, calls, surprises>>

-------------------------------------------------------------------------------
(* The working copy. *)

Track(a) == [track |-> a, born |-> born[a], program |-> program[a]]
Pool == [i \in DOMAIN pool |-> Track(pool[i])]

\* A row: what was copied of the Track, and how far a replacement of its Program
\* has come (1 announced, 2 stored, 3 notified).
NewRow(a) == Track(a) @@ [transition |-> 0, replacement |-> program[a]]
RowOf(w, a) == SelectSeq(w.rows, LAMBDA t : t.track = a)
Has(w, a) == RowOf(w, a) # <<>>
Update(w, a, F(_)) ==
    [w EXCEPT !.rows = [i \in DOMAIN @ |-> IF @[i].track = a THEN F(@[i]) ELSE @[i]]]

NoWork == [rows |-> <<>>, retired |-> {}, spent |-> 0, ready |-> FALSE, root |-> FALSE,
           reset |-> FALSE, loading |-> FALSE, returned |-> FALSE, creating |-> FALSE,
           depth |-> FALSE, method |-> "none", track |-> 0, committed |-> FALSE]

\* Retired Tracks are remembered until their destructor has been seen.
Retire(w, gone) == [w EXCEPT !.retired = @ \cup gone, !.spent = @ + Cardinality(gone)]
TracksOf(w) == {t.track : t \in ToSet(w.rows)}

\* Everything is retired; more than the table holds stops the mirror.
Invalid(w) == [Retire(w, TracksOf(w)) EXCEPT !.rows = <<>>, !.ready = FALSE]
Overrun(w) == w.spent > Capacity

unresolved(w, a) == a \in w.retired

\* A replacement in progress may only be met by the call that makes it.
Consumes(w, t, site) ==
    /\ t.transition = 3
    /\ \/ site = "commit" /\ w.method = "program" /\ w.track = t.track
       \/ site = "retyped" /\ ~w.depth /\ type.track = t.track /\ program[t.track] = t.replacement

Kept(t) == IF t.transition = 0 THEN t ELSE [t EXCEPT !.transition = 0, !.program = t.replacement]

\* The pool is copied: known Tracks keep their row, whose Program is the hooks' own
\* knowledge; an address retired and never destroyed must not come back.
Sound(w, site) ==
    \A i \in DOMAIN pool :
        IF Has(w, pool[i])
        THEN RowOf(w, pool[i])[1].transition # 0 => Consumes(w, RowOf(w, pool[i])[1], site)
        ELSE ~unresolved(w, pool[i])
Inventory(w) ==
    [Retire(w, TracksOf(w) \ ToSet(pool)) EXCEPT
        !.rows = [i \in DOMAIN pool |-> IF Has(w, pool[i]) THEN Kept(RowOf(w, pool[i])[1])
                                        ELSE NewRow(pool[i])]]

-------------------------------------------------------------------------------
(* The export. *)

Settled(w) == w.ready /\ ~w.depth /\ \A t \in ToSet(w.rows) : t.transition = 0
Row(t) == [track |-> t.track, born |-> t.born, program |-> t.program]

\* One word at a time: odd revision, head, each row, even revision.
Export ==
    /\ todo > 0
    /\ CASE at = 0 -> /\ shared' = [shared EXCEPT !.writing = TRUE]
                      /\ copy' = [copy EXCEPT !.moved = TRUE]
         [] at = 1 -> /\ shared' = [shared EXCEPT !.ready = Settled(work), !.count = Len(work.rows)]
                      /\ UNCHANGED copy
         [] at \in 2 .. Len(work.rows) + 1 ->
                      /\ shared' = [shared EXCEPT !.rows[at - 1] = Row(work.rows[at - 1])]
                      /\ UNCHANGED copy
         [] OTHER  -> shared' = [shared EXCEPT !.writing = FALSE] /\ UNCHANGED copy
    /\ IF at = Len(work.rows) + 2 THEN at' = 0 /\ todo' = todo - 1 ELSE at' = at + 1 /\ UNCHANGED todo
    /\ UNCHANGED <<native, work, type, alive>>

\* What a hook does: it exports its new copy n times, or stops the mirror, also when
\* the table of retired Tracks is full.
Hook(w, n) == work' = w /\ todo' = n /\ alive' = ~Overrun(w)
Stop == alive' = FALSE /\ UNCHANGED <<work, todo>>
Ignore == UNCHANGED <<work, todo, alive>>

-------------------------------------------------------------------------------
(* The application's calls.  Each action is a call up to its hook and the hook's   *)
(* logic; what the application then does itself waits for the exports in `then`.   *)

Free == alive /\ todo = 0 /\ then = "nothing"
Idle == call.method = "none"
Counted(expected) ==
    /\ calls < Calls /\ calls' = calls + 1
    /\ surprises' = IF expected THEN surprises ELSE surprises + 1
    /\ surprises' <= Surprises
Quiet == UNCHANGED <<type, at, shared, copy>>

\* M_RESET and M_CREATE_ENTER: the old project's Tracks are given up, with two exports.
Restart(next) ==
    /\ Free /\ Counted(Idle /\ stage \in {"down", "failed", "up"})
    /\ IF work.depth \/ work.loading \/ work.creating THEN Stop
       ELSE Hook([Invalid(work) EXCEPT !.root = TRUE, !.reset = next = "reset",
                                       !.creating = next = "creating"], 2)
    /\ stage' = next
    /\ UNCHANGED <<pool, born, program, call, then, births>> /\ Quiet

\* M_PROJECT_CLEAR and M_POOL_CLEAR, then the pool is emptied.
Clear ==
    /\ Free /\ Counted(Idle /\ stage \in {"reset", "creating"}) /\ stage # "down"
    /\ stage' = CASE stage = "reset" -> "cleared" [] stage = "creating" -> "blank" [] OTHER -> stage
    /\ IF work.depth THEN Stop
       ELSE Hook(Invalid(work), 2)
    /\ then' = "clear"
    /\ UNCHANGED <<pool, born, program, call, births>> /\ Quiet

\* M_ROOT_DESTROY, M_PROJECT_DESTROY and M_POOL_DESTROY.
Shutdown ==
    /\ Free /\ Counted(Idle) /\ stage # "down"
    /\ IF work.depth THEN Stop
       ELSE Hook([Invalid(work) EXCEPT !.root = FALSE, !.loading = FALSE, !.returned = FALSE,
                                       !.reset = FALSE, !.creating = FALSE], 2)
    /\ stage' = "down" /\ then' = "clear"
    /\ UNCHANGED <<pool, born, program, call, births>> /\ Quiet

LoadEnter ==
    /\ Free /\ Counted(Idle /\ stage = "cleared") /\ stage # "down"
    /\ IF work.loading \/ work.depth \/ ~work.reset THEN Stop
       ELSE Hook([work EXCEPT !.loading = TRUE, !.returned = FALSE, !.reset = FALSE], 1)
    /\ stage' = "loading"
    /\ UNCHANGED <<pool, born, program, call, then, births>> /\ Quiet

\* The load's result: 4 is success.
LoadReturn ==
    /\ Free /\ Idle /\ stage = "loading" /\ UNCHANGED <<calls, surprises>>
    /\ \E good \in BOOLEAN :
          /\ stage' = IF good THEN "returned" ELSE "failed"
          /\ IF ~work.loading \/ work.depth THEN Stop
             ELSE Hook([work EXCEPT !.returned = good, !.loading = good], 1)
    /\ UNCHANGED <<pool, born, program, call, then, births>> /\ Quiet

Ready(w) ==
    IF Sound(w, "ready") THEN Hook([Inventory(w) EXCEPT !.ready = TRUE], 1) ELSE Stop

LoadReady ==
    /\ Free /\ Idle /\ stage = "returned" /\ UNCHANGED <<calls, surprises>>
    /\ IF ~work.loading \/ ~work.returned \/ work.depth THEN Stop
       ELSE Ready([work EXCEPT !.loading = FALSE, !.returned = FALSE])
    /\ stage' = "up"
    /\ UNCHANGED <<pool, born, program, call, then, births>> /\ Quiet

CreateReady ==
    /\ Free /\ Idle /\ stage \in {"creating", "blank"}
    /\ surprises' = surprises + (IF stage = "creating" THEN 1 ELSE 0) /\ surprises' <= Surprises
    /\ UNCHANGED calls
    /\ IF ~work.creating THEN Ignore
       ELSE IF work.depth \/ work.loading THEN Stop
       ELSE Ready([work EXCEPT !.creating = FALSE])
    /\ stage' = "up"
    /\ UNCHANGED <<pool, born, program, call, then, births>> /\ Quiet

\* The tracks of the project being opened or created.
Fill ==
    /\ Free /\ Idle /\ stage \in {"loading", "blank"} /\ pool = <<>>
    /\ UNCHANGED <<calls, surprises>>
    /\ \E some \in SUBSET {a \in Places : born[a] = 0} \ {{}} :
       \E order \in SetToSeqs(some) :
       /\ births + Len(order) <= Births /\ births' = births + Len(order)
       /\ pool' = order
       /\ born' = [a \in Places |-> IF a \in some
                       THEN births + (CHOOSE i \in DOMAIN order : order[i] = a) ELSE born[a]]
       /\ \E p \in Programs : program' = [a \in Places |-> IF a \in some THEN p ELSE program[a]]
    /\ UNCHANGED <<stage, call, then>> /\ Ignore /\ Quiet

-------------------------------------------------------------------------------
(* The pool's methods: enter, native change, commit, exit. *)

\* Putting a removed Track back (an undo) is not expected.
Enter(method, a) ==
    /\ Free /\ Counted(Idle /\ (method = "add" => born[a] = 0))
    /\ stage \in {"up", "loading", "blank"}
    /\ CASE method = "add" -> a \notin ToSet(pool) /\ (born[a] = 0 => births < Births)
         [] OTHER -> a \in ToSet(pool)
    /\ call' = [method |-> method, track |-> a, step |-> "entered"]
    /\ IF work.depth THEN Stop
       ELSE Hook([work EXCEPT !.depth = TRUE, !.method = method, !.track = a,
                              !.committed = FALSE], 1)
    /\ UNCHANGED <<stage, pool, born, program, then, births>> /\ Quiet

Constructed(a) ==
    IF born[a] # 0 THEN UNCHANGED <<born, births, program>>
    ELSE /\ births' = births + 1 /\ born' = [born EXCEPT ![a] = births + 1]
         /\ \E p \in Programs : program' = [program EXCEPT ![a] = p]

\* The pool itself changes between the hooks.
Store ==
    /\ Free /\ call.step = "entered" /\ call.method \in {"add", "remove", "reorder"}
    /\ call' = [call EXCEPT !.step = "stored"]
    /\ CASE call.method = "add" -> /\ pool' \in {Append(pool, call.track), <<call.track>> \o pool}
                                   /\ Constructed(call.track)
         [] call.method = "remove" -> /\ pool' = SelectSeq(pool, LAMBDA t : t # call.track)
                                      /\ UNCHANGED <<born, births, program>>
         [] OTHER -> pool' = Reverse(pool) /\ UNCHANGED <<born, births, program>>
    /\ UNCHANGED <<stage, then, calls, surprises>> /\ Ignore /\ Quiet

Commit ==
    /\ Free /\ call.method \in {"add", "remove", "reorder", "program"}
    /\ call.step = IF call.method = "program" THEN "notified" ELSE "stored"
    /\ call' = [call EXCEPT !.step = "committed"]
    /\ IF ~work.depth THEN Hook(work, 1)
       ELSE IF work.committed \/ work.method # call.method \/ work.track # call.track THEN Stop
       ELSE LET w == [work EXCEPT !.committed = TRUE] IN
            IF ~w.ready THEN Hook(w, 1)
            ELSE IF Sound(w, "commit") THEN Hook(Inventory(w), 1) ELSE Stop
    /\ UNCHANGED <<stage, pool, born, program, then, births, calls, surprises>> /\ Quiet

Exit ==
    /\ Free /\ call.step = "committed"
    /\ call' = [method |-> "none", track |-> call.track, step |-> "none"]
    /\ Hook([work EXCEPT !.depth = FALSE], 1)
    /\ UNCHANGED <<stage, pool, born, program, then, births, calls, surprises>> /\ Quiet

-------------------------------------------------------------------------------
(* A Program is replaced: inside the method, by a retype, or where nothing expects *)
(* it.                                                                             *)

NoType == [phase |-> 0, track |-> 0]

\* Hook 292: the retype is followed when the copy agrees with the pool.
Retype(a) ==
    /\ Free /\ Idle /\ Counted(TRUE) /\ stage = "up" /\ a \in ToSet(pool)
    /\ call' = [method |-> "retype", track |-> a, step |-> "entered"]
    /\ type' = IF /\ work.ready /\ ~work.loading /\ ~work.reset /\ ~work.depth /\ Has(work, a)
                  /\ RowOf(work, a)[1].transition = 0 /\ RowOf(work, a)[1].program = program[a]
               THEN [phase |-> 1, track |-> a] ELSE NoType
    /\ Ignore /\ UNCHANGED <<stage, pool, born, program, then, births, at, shared, copy>>

Bare(a) ==
    /\ Free /\ Idle /\ Counted(FALSE) /\ a \in ToSet(pool)
    /\ call' = [method |-> "bare", track |-> a, step |-> "entered"]
    /\ Ignore /\ UNCHANGED <<stage, pool, born, program, then, births>> /\ Quiet

\* M_REPLACE_*_PRE: the Program about to be stored waits in `step`.
Announce(next) ==
    /\ Free /\ call.step = "entered" /\ call.method \in {"program", "retype", "bare"}
    /\ LET a == call.track IN
       IF ~Has(work, a) THEN Ignore
       ELSE LET t == RowOf(work, a)[1] IN
            IF t.transition # 0 \/ t.program # program[a] THEN Stop
            ELSE IF t.program = next THEN Hook(work, 1)
            ELSE Hook(Update(work, a, LAMBDA r : [r EXCEPT !.transition = 1, !.replacement = next]), 1)
    /\ call' = [call EXCEPT !.step = "announced"] /\ then' = next
    /\ UNCHANGED <<stage, pool, born, program, births, calls, surprises>> /\ Quiet

Advance(from) ==
    LET a == call.track IN
    IF ~Has(work, a) THEN Ignore
    ELSE LET t == RowOf(work, a)[1] IN
         IF t.transition = 0 THEN Hook(work, 1)
         ELSE IF t.transition # from THEN Stop
         ELSE Hook(Update(work, a, LAMBDA r : [r EXCEPT !.transition = from + 1]), 1)

\* M_REPLACE_*_STORE and M_REPLACE_NOTIFY.
Replace ==
    /\ Free /\ call.step = "replaced" /\ Advance(1)
    /\ call' = [call EXCEPT !.step = "told"]
    /\ UNCHANGED <<stage, pool, born, program, then, births, calls, surprises>> /\ Quiet
Notify ==
    /\ Free /\ call.step = "told" /\ Advance(2)
    /\ call' = IF call.method = "bare" THEN [call EXCEPT !.method = "none", !.step = "none"]
               ELSE [call EXCEPT !.step = "notified"]
    /\ UNCHANGED <<stage, pool, born, program, then, births, calls, surprises>> /\ Quiet

\* Hook 293: the retype is done, or failed natively before it stored anything.
Retyped ==
    /\ Free /\ call.method = "retype" /\ call.step = "notified"
    /\ call' = [call EXCEPT !.method = "none", !.step = "none"]
    /\ type' = NoType
    /\ LET a == call.track IN
       IF type.phase = 0 THEN Ignore
       ELSE IF ~work.ready \/ work.loading \/ work.reset \/ work.depth \/ ~Has(work, a) THEN Stop
       ELSE IF RowOf(work, a)[1].transition # 0
            THEN IF /\ Consumes(work, RowOf(work, a)[1], "retyped")
                    /\ Sound(work, "retyped")
                 THEN Hook(Inventory(work), 1) ELSE Stop
       ELSE IF RowOf(work, a)[1].program # program[a] THEN Stop
       ELSE Hook(work, 1)
    /\ UNCHANGED <<stage, pool, born, program, then, births, calls, surprises, at, shared, copy>>

-------------------------------------------------------------------------------
(* Destruction, and what follows a hook. *)

\* Fault: only Tracks in the copy are known.
DestroyPooled(a) ==
    /\ Free /\ born[a] # 0
    /\ surprises' = surprises + (IF a \in ToSet(pool) \/ Has(work, a) THEN 1 ELSE 0)
    /\ surprises' <= Surprises /\ UNCHANGED calls
    /\ IF ~Has(work, a) THEN Ignore
       ELSE Hook([Invalid(work) EXCEPT !.retired = @ \ {a}], 2)
    /\ then' = a
    /\ UNCHANGED <<stage, pool, born, program, call, births>> /\ Quiet

\* M_TRACK_DESTROY: the destructor of a Track the hooks know.
Destroy(a) ==
    /\ Free /\ born[a] # 0
    /\ surprises' = surprises + (IF a \in ToSet(pool) \/ Has(work, a) THEN 1 ELSE 0)
    /\ surprises' <= Surprises /\ UNCHANGED calls
    /\ IF ~Has(work, a) /\ a \notin work.retired THEN Ignore
       ELSE IF Has(work, a) THEN Hook([Invalid(work) EXCEPT !.retired = @ \ {a}], 2)
       ELSE Hook([work EXCEPT !.retired = @ \ {a}], 1)
    /\ then' = a
    /\ UNCHANGED <<stage, pool, born, program, call, births>> /\ Quiet

\* The call goes on natively.
Continue ==
    /\ todo = 0 /\ then # "nothing" /\ then' = "nothing"
    /\ CASE then = "clear" -> pool' = <<>> /\ UNCHANGED <<born, program, call>>
         [] then \in Programs -> /\ program' = [program EXCEPT ![call.track] = then]
                                 /\ call' = [call EXCEPT !.step = "replaced"]
                                 /\ UNCHANGED <<pool, born>>
         [] then \in Places -> /\ born' = [born EXCEPT ![then] = 0]
                               /\ pool' = SelectSeq(pool, LAMBDA t : t # then)
                               /\ UNCHANGED <<program, call>>
    /\ UNCHANGED <<stage, work, type, alive, todo, births, calls, surprises, at, shared, copy>>

\* A stopped mirror's hooks no longer run; the application goes on unseen.
Unseen ==
    /\ ~alive /\ todo = 0 /\ then = "nothing" /\ pool # <<>> /\ pool' = <<>>
    /\ UNCHANGED <<stage, born, program, call, work, type, alive, todo, at, then, shared, copy,
                   births, calls, surprises>>

-------------------------------------------------------------------------------
(* copy_mirror_view, in the reader's process; a view that fails is begun again. *)

NoView == [ready |-> FALSE, rows |-> <<>>, truth |-> <<>>]
NoCopy == [at |-> 0, moved |-> FALSE, ready |-> FALSE, count |-> 0, rows |-> <<>>, view |-> NoView]

Begin ==
    /\ copy.at = 0 /\ ~shared.writing
    /\ copy' = [NoCopy EXCEPT !.at = 1]
    /\ UNCHANGED <<native, work, type, alive, todo, at, shared>>
Head1 ==
    /\ copy.at = 1
    /\ copy' = [copy EXCEPT !.at = 2, !.ready = shared.ready, !.count = shared.count]
    /\ UNCHANGED <<native, work, type, alive, todo, at, shared>>
ReadRow ==
    /\ copy.at \in 2 .. copy.count + 1
    /\ copy' = [copy EXCEPT !.at = @ + 1, !.rows = Append(@, shared.rows[copy.at - 1])]
    /\ UNCHANGED <<native, work, type, alive, todo, at, shared>>

\* The revision must not have moved.  The view keeps what was true at that moment.
Check ==
    /\ copy.at >= 2 /\ copy.at = copy.count + 2
    /\ copy' = IF copy.moved \/ ~alive THEN NoCopy
               ELSE [NoCopy EXCEPT !.view = [ready |-> copy.ready, rows |-> copy.rows, truth |-> Pool]]
    /\ UNCHANGED <<native, work, type, alive, todo, at, shared>>

-------------------------------------------------------------------------------
Init ==
    /\ stage = "down" /\ pool = <<>> /\ born = [a \in Places |-> 0]
    /\ program = [a \in Places |-> CHOOSE p \in Programs : TRUE]
    /\ call = [method |-> "none", track |-> 0, step |-> "none"]
    /\ work = NoWork /\ type = NoType /\ alive = TRUE /\ todo = 0 /\ at = 0 /\ then = "nothing"
    /\ shared = [writing |-> FALSE, ready |-> FALSE, count |-> 0,
                 rows |-> [i \in 1 .. Cardinality(Places) |-> [track |-> 0, born |-> 0, program |-> 0]]]
    /\ copy = NoCopy /\ births = 0 /\ calls = 0 /\ surprises = 0

Project == \/ \E next \in {"reset", "creating"} : Restart(next)
           \/ Clear \/ Shutdown \/ LoadEnter \/ LoadReturn \/ LoadReady \/ CreateReady \/ Fill
Change == \/ \E a \in Places : \/ \E m \in {"add", "remove", "reorder", "program"} : Enter(m, a)
                               \/ Retype(a) \/ Bare(a) \/ Destroy(a)
          \/ \E p \in Programs : Announce(p)
          \/ Store \/ Commit \/ Exit \/ Replace \/ Notify \/ Retyped \/ Continue \/ Unseen
Reader == Begin \/ Head1 \/ ReadRow \/ Check
Next == Project \/ Change \/ Export \/ Reader

-------------------------------------------------------------------------------
TypeOK ==
    /\ stage \in {"down", "reset", "cleared", "loading", "returned", "failed", "creating", "blank", "up"}
    /\ ToSet(pool) \subseteq Places /\ Len(work.rows) <= Cardinality(Places)
    /\ work.retired \subseteq Places /\ alive \in BOOLEAN /\ todo \in 0..2
    /\ shared.count \in 0 .. Cardinality(Places) /\ copy.count \in 0 .. Cardinality(Places)
    /\ type.phase \in 0..1 /\ calls \in 0..Calls /\ surprises \in 0..Surprises

\* copy_mirror_view: a view accepted as ready shows the pool as it stood when its
\* revision was checked: the very Tracks, not others at their addresses, in order,
\* with their Programs, whatever hooks ran between the reader's words.
ReadyViewsAreTrue == copy.view.ready => copy.view.rows = copy.view.truth

\* topology: as long as the application calls in the order the hooks expect, the
\* mirror neither stops nor stays unready once a project is open and nothing is in
\* progress, for all its Tracks replaced, removed and built anew at old addresses.
ExpectedUseStaysReady ==
    surprises = 0 /\ ~Overrun(work) =>
        /\ alive
        /\ stage = "up" /\ Idle /\ Free => shared.ready /\ shared.count = Len(pool)
===============================================================================
