---------------------------- MODULE Screens_proofs -----------------------------
(* The three systems of the user interface, proved: the widget toolkit, the Global  *)
(* MIDI Learn editor and the controller choice, each for every value of its         *)
(* constants, and the three beside one another as the run composes them.            *)
EXTENDS MCScreens, FiniteSetTheorems, SequenceTheorems, TLAPS

-------------------------------------------------------------------------------
(* The widget toolkit, for any finite set of screens and any widgets, nesting of    *)
(* callbacks and number of native failures: its types, that nothing the native host *)
(* or a running callback still holds is freed, and that the consumer sees the       *)
(* screens it left shown.                                                           *)

\* What the adapter has made rests on what it is made of, and screens exist only
\* while the consumer is open in its host.
OwnersStand ==
    /\ "host" \in owned => "parent" \in owned
    /\ "parent" \in owned => "context" \in owned
    /\ app.registered => "host" \in owned
    /\ app.opened => app.registered
    /\ present # {} => app.opened

\* Memory outlives what holds it: the native host's pointers and running callbacks.
MemoryHeld ==
    /\ \A w \in made : Home[w] \in present
    /\ dragged \subseteq made /\ wired \subseteq made /\ attached \subseteq made
    /\ stack \in Seq(Widgets \cup {Tile})
    /\ \A i \in 1 .. Len(stack) : stack[i] \in made \cup {Tile}
    /\ stack # <<>> => "host" \in owned

\* While nothing was thrown: a suspended screen is remembered in resume, and a widget
\* is lit exactly when it is asked for on a screen that is shown.
LooksRight ==
    \A s \in present \ closing :
        /\ app.suspended => (s \in visible => s \in resume) /\ (s \in showing <=> s \in resume)
        /\ ~app.suspended => (s \in visible <=> s \in showing)
        /\ lit \cap On({s}) = IF s \in visible THEN Asked(s) ELSE {}

ToolkitInv == TypeOK /\ OwnersStand /\ MemoryHeld /\ (thrown = 0 => LooksRight)

-------------------------------------------------------------------------------
LEMMA InitToolkit == Init => ToolkitInv
<1> SUFFICES ASSUME Init PROVE ToolkitInv
  OBVIOUS
<1>1. OwnersStand /\ LooksRight
  BY DEF Init, Idle, OwnersStand, LooksRight
<1>2. MemoryHeld
  BY DEF Init, MemoryHeld
<1>3. TypeOK
  BY Bounds DEF Init, Idle, TypeOK, On, ToSet, Parts
<1> QED BY <1>1, <1>2, <1>3 DEF ToolkitInv

\* What is not touched: owners, callbacks, memory and looks, for the steps that
\* change the adapter's objects alone.
LEMMA OwnersStep ==
    ASSUME ToolkitInv,
           UNCHANGED <<screenVars, bindings, holds, looks, stack, thrown>>,
           OwnersStand', owned' \subseteq Parts,
           app' \in [registered : BOOLEAN, opened : BOOLEAN, asked : BOOLEAN, moving : BOOLEAN,
                     suspended : BOOLEAN],
           app'.suspended = app.suspended \/ present = {},
           stack # <<>> => "host" \in owned'
    PROVE  ToolkitInv'
<1>1. TypeOK'
  BY DEF ToolkitInv, TypeOK, screenVars, bindings, holds, looks, On
<1>2. MemoryHeld'
  BY DEF ToolkitInv, MemoryHeld, screenVars, bindings, holds, looks
<1>3. thrown' = 0 => LooksRight'
  BY DEF ToolkitInv, LooksRight, screenVars, bindings, holds, looks, On, Asked
<1> QED BY <1>1, <1>2, <1>3 DEF ToolkitInv

LEMMA CreateKeeps == ASSUME ToolkitInv, NEW piece \in Parts, Create(piece) PROVE ToolkitInv'
<1>1. OwnersStand'
  BY DEF ToolkitInv, OwnersStand, Create, screenVars, Parts
<1>2. owned' \subseteq Parts /\ UNCHANGED <<app, screenVars, bindings, holds, looks, stack, thrown>>
  BY DEF ToolkitInv, TypeOK, Create
<1>3. stack # <<>> => "host" \in owned'
  BY DEF ToolkitInv, MemoryHeld, Create
<1>4. app' \in [registered : BOOLEAN, opened : BOOLEAN, asked : BOOLEAN, moving : BOOLEAN,
                suspended : BOOLEAN]
  BY <1>2 DEF ToolkitInv, TypeOK
<1> QED BY <1>1, <1>2, <1>3, <1>4, OwnersStep


LEMMA ReleaseKeeps == ASSUME ToolkitInv, NEW piece \in Parts, Release(piece) PROVE ToolkitInv'
<1>1. owned' \subseteq Parts /\ UNCHANGED <<app, screenVars, bindings, holds, looks, stack, thrown>>
  BY DEF ToolkitInv, TypeOK, Release
<1>2. OwnersStand'
  BY DEF ToolkitInv, OwnersStand, Release, screenVars, Parts
<1>3. stack # <<>> => "host" \in owned'
  BY DEF ToolkitInv, MemoryHeld, Release
<1>4. app' \in [registered : BOOLEAN, opened : BOOLEAN, asked : BOOLEAN, moving : BOOLEAN,
                suspended : BOOLEAN]
  BY <1>1 DEF ToolkitInv, TypeOK
<1> QED BY <1>1, <1>2, <1>3, <1>4, OwnersStep

\* The consumer's registration, its opening, and the request to close it.
LEMMA AppKeeps ==
    ASSUME ToolkitInv, Register \/ Unregister \/ OpenBegins \/ RequestClose
    PROVE  ToolkitInv'
<1>1. UNCHANGED <<owned, screenVars, bindings, holds, looks, stack, thrown>>
  BY DEF Register, Unregister, OpenBegins, RequestClose
<1>2. owned' \subseteq Parts /\ (stack # <<>> => "host" \in owned')
  BY <1>1 DEF ToolkitInv, TypeOK, MemoryHeld
<1>3. /\ app' \in [registered : BOOLEAN, opened : BOOLEAN, asked : BOOLEAN, moving : BOOLEAN,
                   suspended : BOOLEAN]
      /\ app'.suspended = app.suspended
  BY DEF ToolkitInv, TypeOK, Register, Unregister, OpenBegins, RequestClose
<1>4. OwnersStand'
  BY <1>1 DEF ToolkitInv, TypeOK, OwnersStand, screenVars, Register, Unregister, OpenBegins,
              RequestClose
<1> QED BY <1>1, <1>2, <1>3, <1>4, OwnersStep

-------------------------------------------------------------------------------
LEMMA CreateScreenKeeps ==
    ASSUME ToolkitInv, NEW s \in Screens, CreateScreen(s) PROVE ToolkitInv'
<1> USE DEF CreateScreen, appVars, bindings, holds, looks
<1>1. \A w \in made : Home[w] # s
  BY DEF ToolkitInv, MemoryHeld
<1>2. TypeOK'
  <2>1. newer' \subseteq present' \X present'
    BY DEF ToolkitInv, TypeOK
  <2>2. ASSUME NEW t \in present', NEW u \in present'
        PROVE  (<<t, u>> \in newer)' <=> t # u /\ (<<u, t>> \notin newer)'
    <3>1. \A r \in present : <<r, s>> \notin newer /\ <<s, r>> \notin newer
      BY DEF ToolkitInv, TypeOK
    <3>2. <<s, s>> \notin newer
      BY DEF ToolkitInv, TypeOK
    <3> QED BY <3>1, <3>2 DEF ToolkitInv, TypeOK
  <2>3. On(present)' = made'
    BY DEF ToolkitInv, TypeOK, On
  <2> QED BY <2>1, <2>2, <2>3 DEF ToolkitInv, TypeOK
<1>3. OwnersStand' /\ MemoryHeld'
  BY DEF ToolkitInv, OwnersStand, MemoryHeld
<1>4. thrown = 0 => LooksRight'
  <2> SUFFICES ASSUME thrown = 0, NEW t \in (present \ closing)'
               PROVE  /\ app.suspended => (t \in visible => t \in resume)
                                          /\ (t \in showing <=> t \in resume)
                      /\ ~app.suspended => (t \in visible <=> t \in showing)
                      /\ lit \cap On({t}) = IF t \in visible THEN Asked(t) ELSE {}
    BY DEF LooksRight, On, Asked
  <2>1. CASE t = s
    <3>1. t \notin visible \cup resume \cup closing \cup showing
      BY <2>1 DEF ToolkitInv, TypeOK
    <3>2. On({t}) = {}
      BY <2>1, <1>1 DEF On
    <3> QED BY <3>1, <3>2
  <2>2. CASE t \in present
    BY <2>2 DEF ToolkitInv, LooksRight
  <2> QED BY <2>1, <2>2
<1> QED BY <1>2, <1>3, <1>4 DEF ToolkitInv

LEMMA CreateWidgetKeeps ==
    ASSUME ToolkitInv, NEW w \in Widgets, CreateWidget(w) PROVE ToolkitInv'
<1> USE DEF CreateWidget, appVars, screenVars, looks
<1>1. w \notin attached /\ w \notin lit
  BY DEF ToolkitInv, TypeOK, MemoryHeld
<1>2. TypeOK'
  <2>1. On(present)' = made'
    BY DEF ToolkitInv, TypeOK, On
  <2> QED BY <2>1 DEF ToolkitInv, TypeOK
<1>3. OwnersStand'
  BY DEF ToolkitInv, OwnersStand
<1>4. MemoryHeld'
  BY DEF ToolkitInv, MemoryHeld
<1>5. thrown = 0 => LooksRight'
  <2>1. \A s : Asked(s)' = Asked(s) /\ (lit \cap On({s}))' = lit \cap On({s})
    BY <1>1 DEF Asked, On
  <2> QED BY <2>1 DEF ToolkitInv, LooksRight
<1> QED BY <1>2, <1>3, <1>4, <1>5 DEF ToolkitInv

LEMMA PlaceKeeps ==
    ASSUME ToolkitInv, NEW w \in Widgets, Place(w) PROVE ToolkitInv'
<1> USE DEF Place, appVars, screenVars, bindings
<1>1. TypeOK'
  <2>1. thrown' \in 0 .. Throws
    BY Bounds DEF ToolkitInv, TypeOK, Reports
  <2>2. lit' \subseteq attached' /\ attached' \subseteq Widgets /\ wanted' \subseteq made'
    BY DEF ToolkitInv, TypeOK, looks
  <2> QED BY <2>1, <2>2 DEF ToolkitInv, TypeOK, On
<1>2. OwnersStand' /\ MemoryHeld'
  BY DEF ToolkitInv, OwnersStand, MemoryHeld
<1>3. thrown' = 0 => LooksRight'
  <2> SUFFICES ASSUME thrown' = 0 PROVE LooksRight'
    OBVIOUS
  <2>1. /\ thrown = 0 /\ attached' = attached \cup {w} /\ wanted' = wanted \cup {w}
        /\ lit' = IF Home[w] \in visible THEN lit \cup {w} ELSE lit \ {w}
    BY Bounds DEF ToolkitInv, TypeOK, Reports
  <2>2. w \in made
    OBVIOUS
  <2>3. ASSUME NEW s \in present \ closing
        PROVE  (lit \cap On({s}) = IF s \in visible THEN Asked(s) ELSE {})'
    <3>1. lit \cap On({s}) = IF s \in visible THEN Asked(s) ELSE {}
      BY <2>1 DEF ToolkitInv, LooksRight
    <3> QED BY <2>1, <2>2, <3>1 DEF On, Asked
  <2> QED BY <2>1, <2>3 DEF ToolkitInv, LooksRight
<1> QED BY <1>1, <1>2, <1>3 DEF ToolkitInv

LEMMA SetVisibleKeeps ==
    ASSUME ToolkitInv, NEW w \in Widgets, NEW on \in BOOLEAN, SetVisible(w, on) PROVE ToolkitInv'
<1> USE DEF SetVisible, appVars, screenVars, bindings, holds
<1>1. TypeOK'
  <2>1. thrown' \in 0 .. Throws
    BY Bounds DEF ToolkitInv, TypeOK, Reports
  <2>2. lit' \subseteq attached' /\ wanted' \subseteq made'
    BY DEF ToolkitInv, TypeOK, Lights
  <2> QED BY <2>1, <2>2 DEF ToolkitInv, TypeOK, On
<1>2. OwnersStand' /\ MemoryHeld'
  BY DEF ToolkitInv, OwnersStand, MemoryHeld
<1>3. thrown' = 0 => LooksRight'
  <2> SUFFICES ASSUME thrown' = 0 PROVE LooksRight'
    OBVIOUS
  <2>1. /\ thrown = 0 /\ wanted' = IF on THEN wanted \cup {w} ELSE wanted \ {w}
        /\ lit' = IF Lights(w, on) THEN lit \cup {w} ELSE lit \ {w}
    BY Bounds DEF ToolkitInv, TypeOK, Reports
  <2>2. w \in made /\ lit \subseteq attached
    BY DEF ToolkitInv, TypeOK
  <2>3. ASSUME NEW s \in present \ closing
        PROVE  (lit \cap On({s}) = IF s \in visible THEN Asked(s) ELSE {})'
    <3>1. lit \cap On({s}) = IF s \in visible THEN Asked(s) ELSE {}
      BY <2>1 DEF ToolkitInv, LooksRight
    <3> QED BY <2>1, <2>2, <3>1 DEF On, Asked, Lights
  <2> QED BY <2>1, <2>3 DEF ToolkitInv, LooksRight
<1> QED BY <1>1, <1>2, <1>3 DEF ToolkitInv

LEMMA DecorateKeeps == ASSUME ToolkitInv, NEW w \in Widgets, Decorate(w) PROVE ToolkitInv'
<1>1. thrown' \in 0 .. Throws /\ thrown' # 0
  BY Bounds DEF ToolkitInv, TypeOK, Decorate, Reports
<1> QED BY <1>1 DEF ToolkitInv, TypeOK, OwnersStand, MemoryHeld, Decorate, appVars, screenVars,
                    bindings, holds, looks, On

-------------------------------------------------------------------------------
\* What showing and hiding one screen leave lit when nothing is thrown.
LEMMA ShowLeaves ==
    ASSUME NEW s, NEW out \in ShowResults(s)
    PROVE  /\ out.ok \in BOOLEAN /\ out.throws \in {0, 1} /\ out.lit \subseteq Asked(s)
           /\ out.throws = 0 => out.lit = IF out.ok THEN Asked(s) ELSE {}
<1>1. \/ out = Result(TRUE, Asked(s), 0) \/ out = Result(FALSE, {}, 0)
      \/ \E on \in SUBSET Asked(s) : out = Result(FALSE, on, 1)
  BY DEF ShowResults
<1>2. ASSUME out = Result(TRUE, Asked(s), 0) PROVE out.ok = TRUE /\ out.lit = Asked(s) /\ out.throws = 0
  BY <1>2 DEF Result
<1>4. ASSUME out = Result(FALSE, {}, 0) PROVE out.ok = FALSE /\ out.lit = {} /\ out.throws = 0
  BY <1>4 DEF Result
<1>3. ASSUME NEW on \in SUBSET Asked(s), out = Result(FALSE, on, 1)
      PROVE  /\ out.ok = FALSE /\ out.throws = 1
             /\ out.lit \subseteq Asked(s)
  BY <1>3 DEF Result
<1>5. CASE out = Result(TRUE, Asked(s), 0)
  BY <1>5, <1>2
<1>6. CASE out = Result(FALSE, {}, 0)
  BY <1>6, <1>4
<1>7. CASE \E on \in SUBSET Asked(s) : out = Result(FALSE, on, 1)
  <2>1. PICK on \in SUBSET Asked(s) : out = Result(FALSE, on, 1)
    BY <1>7
  <2>2. out.ok = FALSE /\ out.throws = 1 /\ out.lit \subseteq Asked(s)
    BY <2>1, <1>3
  <2>3. out.throws # 0
    BY <2>2
  <2>4. out.throws \in {0, 1}
    BY <2>2
  <2>5. out.ok \in BOOLEAN
    BY <2>2
  <2> QED BY <2>2, <2>3, <2>4, <2>5
<1> QED BY <1>1, <1>5, <1>6, <1>7

LEMMA HideLeaves ==
    ASSUME NEW s, NEW out \in HideResults(s)
    PROVE  /\ out.ok \in BOOLEAN /\ out.throws \in {0, 1}
           /\ out.lit \subseteq Asked(s) \cup (lit \cap On({s}))
           /\ out.throws = 0 => out.lit = IF out.ok THEN {} ELSE Asked(s)
<1>1. \/ out = Result(TRUE, {}, 0) \/ out = Result(FALSE, Asked(s), 0)
      \/ \E on \in SUBSET (Asked(s) \cup (lit \cap On({s}))) : out = Result(FALSE, on, 1)
  BY DEF HideResults
<1>2. ASSUME out = Result(TRUE, {}, 0) PROVE out.ok = TRUE /\ out.lit = {} /\ out.throws = 0
  BY <1>2 DEF Result
<1>4. ASSUME out = Result(FALSE, Asked(s), 0) PROVE out.ok = FALSE /\ out.lit = Asked(s) /\ out.throws = 0
  BY <1>4 DEF Result
<1>3. ASSUME NEW on \in SUBSET (Asked(s) \cup (lit \cap On({s}))), out = Result(FALSE, on, 1)
      PROVE  /\ out.ok = FALSE /\ out.throws = 1
             /\ out.lit \subseteq (Asked(s) \cup (lit \cap On({s})))
  BY <1>3 DEF Result
<1>5. CASE out = Result(TRUE, {}, 0)
  BY <1>5, <1>2
<1>6. CASE out = Result(FALSE, Asked(s), 0)
  BY <1>6, <1>4
<1>7. CASE \E on \in SUBSET (Asked(s) \cup (lit \cap On({s}))) : out = Result(FALSE, on, 1)
  <2>1. PICK on \in SUBSET (Asked(s) \cup (lit \cap On({s}))) : out = Result(FALSE, on, 1)
    BY <1>7
  <2>2. out.ok = FALSE /\ out.throws = 1 /\ out.lit \subseteq (Asked(s) \cup (lit \cap On({s})))
    BY <2>1, <1>3
  <2>3. out.throws # 0
    BY <2>2
  <2>4. out.throws \in {0, 1}
    BY <2>2
  <2>5. out.ok \in BOOLEAN
    BY <2>2
  <2> QED BY <2>2, <2>3, <2>4, <2>5
<1> QED BY <1>1, <1>5, <1>6, <1>7

\* The count of native failures is exact: it stays zero only when nothing was thrown.
LEMMA ReportsCount ==
    ASSUME ToolkitInv, NEW n \in Nat, Reports(n)
    PROVE  thrown' \in 0 .. Throws /\ (thrown' = 0 => thrown = 0 /\ n = 0)
<1>1. thrown \in Nat
  BY DEF ToolkitInv, TypeOK
<1> QED BY <1>1, Bounds DEF Reports

\* Every widget is on one screen.
LEMMA ScreensApart ==
    ASSUME NEW s, NEW S, s \notin S PROVE On({s}) \cap On(S) = {} /\ Asked(s) \cap On(S) = {}
BY DEF On, Asked

\* A step that touches only which screens are shown, and what is lit on them.
LEMMA LooksStep ==
    ASSUME ToolkitInv, UNCHANGED <<owned, present, newer, closing, bindings, holds, wanted, stack>>,
           app' \in [registered : BOOLEAN, opened : BOOLEAN, asked : BOOLEAN, moving : BOOLEAN,
                     suspended : BOOLEAN],
           app'.registered = app.registered, app'.opened = app.opened,
           visible' \subseteq present, resume' \subseteq present, showing' \subseteq present,
           lit' \subseteq attached, thrown' \in 0 .. Throws, thrown' = 0 => LooksRight'
    PROVE  ToolkitInv'
<1>1. TypeOK'
  BY DEF ToolkitInv, TypeOK, bindings, holds, On
<1>2. OwnersStand' /\ MemoryHeld'
  BY DEF ToolkitInv, OwnersStand, MemoryHeld, bindings, holds
<1> QED BY <1>1, <1>2 DEF ToolkitInv

LEMMA ShowKeeps == ASSUME ToolkitInv, NEW s \in Screens, Show(s) PROVE ToolkitInv'
<1> USE DEF appVars, bindings, holds
<1>1. PICK out \in ShowResults(s) :
         /\ visible' = IF out.ok THEN visible \cup {s} ELSE visible
         /\ showing' = IF out.ok THEN showing \cup {s} ELSE showing
         /\ lit' = (lit \ On({s})) \cup out.lit
         /\ Reports(out.throws)
  BY DEF Show
<1>2. /\ s \in present \ closing /\ s \notin visible /\ ~app.suspended
      /\ UNCHANGED <<appVars, present, newer, resume, closing, bindings, holds, wanted, stack>>
  BY DEF Show
<1>3. thrown' \in 0 .. Throws /\ (thrown' = 0 => thrown = 0 /\ out.throws = 0)
  BY <1>1, ShowLeaves, ReportsCount
<1>4. lit' \subseteq attached
  <2>1. Asked(s) \subseteq attached /\ lit \subseteq attached
    BY DEF Asked, ToolkitInv, TypeOK
  <2> QED BY <2>1, <1>1, ShowLeaves
<1>5. thrown' = 0 => LooksRight'
  <2> SUFFICES ASSUME thrown' = 0, NEW t \in present \ closing
               PROVE  /\ (t \in visible <=> t \in showing)'
                      /\ (lit \cap On({t}) = IF t \in visible THEN Asked(t) ELSE {})'
    BY <1>2 DEF LooksRight
  <2>1. /\ t \in visible <=> t \in showing
        /\ lit \cap On({t}) = IF t \in visible THEN Asked(t) ELSE {}
    BY <1>2, <1>3 DEF ToolkitInv, LooksRight
  <2>2. On({t})' = On({t}) /\ Asked(t)' = Asked(t)
    BY <1>2 DEF On, Asked
  <2>3. Asked(t) \subseteq On({t}) /\ out.lit = IF out.ok THEN Asked(s) ELSE {}
    BY <1>3, ShowLeaves DEF Asked
  <2>4. CASE t = s
    BY <2>4, <2>1, <2>2, <2>3, <1>1, <1>2
  <2>5. CASE t # s
    <3>1. On({t}) \cap On({s}) = {} /\ Asked(s) \cap On({t}) = {}
      BY <2>5, ScreensApart
    <3>2. lit' = (lit \ On({s})) \cup out.lit /\ out.lit \cap On({t}) = {}
      BY <3>1, <2>3, <1>1
    <3>3. (t \in visible' <=> t \in visible) /\ (t \in showing' <=> t \in showing)
      BY <2>5, <1>1
    <3>4. lit' \cap On({t}) = lit \cap On({t})
      BY <3>1, <3>2
    <3> QED BY <3>3, <3>4, <2>1, <2>2
  <2> QED BY <2>4, <2>5
<1>6. visible' \subseteq present /\ showing' \subseteq present /\ resume' \subseteq present
  BY <1>1, <1>2 DEF ToolkitInv, TypeOK
<1>7. app' = app /\ app \in [registered : BOOLEAN, opened : BOOLEAN, asked : BOOLEAN,
                             moving : BOOLEAN, suspended : BOOLEAN]
  BY <1>2 DEF ToolkitInv, TypeOK
<1> QED BY <1>2, <1>3, <1>4, <1>5, <1>6, <1>7, LooksStep

LEMMA HideKeeps == ASSUME ToolkitInv, NEW s \in Screens, Hide(s) PROVE ToolkitInv'
<1> USE DEF appVars, bindings, holds
<1>1. PICK out \in HideResults(s) :
         /\ visible' = IF out.ok THEN visible \ {s} ELSE visible
         /\ showing' = IF out.ok THEN showing \ {s} ELSE showing
         /\ lit' = (lit \ On({s})) \cup out.lit
         /\ Reports(out.throws)
  BY DEF Hide
<1>2. /\ s \in present \cap visible /\ ~app.suspended
      /\ UNCHANGED <<appVars, present, newer, resume, closing, bindings, holds, wanted, stack>>
  BY DEF Hide
<1>3. thrown' \in 0 .. Throws /\ (thrown' = 0 => thrown = 0 /\ out.throws = 0)
  BY <1>1, HideLeaves, ReportsCount
<1>4. lit' \subseteq attached
  <2>1. Asked(s) \subseteq attached /\ lit \subseteq attached
    BY DEF Asked, ToolkitInv, TypeOK
  <2> QED BY <2>1, <1>1, HideLeaves
<1>5. thrown' = 0 => LooksRight'
  <2> SUFFICES ASSUME thrown' = 0, NEW t \in present \ closing
               PROVE  /\ (t \in visible <=> t \in showing)'
                      /\ (lit \cap On({t}) = IF t \in visible THEN Asked(t) ELSE {})'
    BY <1>2 DEF LooksRight
  <2>1. /\ t \in visible <=> t \in showing
        /\ lit \cap On({t}) = IF t \in visible THEN Asked(t) ELSE {}
    BY <1>2, <1>3 DEF ToolkitInv, LooksRight
  <2>2. On({t})' = On({t}) /\ Asked(t)' = Asked(t)
    BY <1>2 DEF On, Asked
  <2>3. Asked(t) \subseteq On({t}) /\ out.lit = IF out.ok THEN {} ELSE Asked(s)
    BY <1>3, HideLeaves DEF Asked
  <2>4. CASE t = s
    BY <2>4, <2>1, <2>2, <2>3, <1>1, <1>2
  <2>5. CASE t # s
    <3>1. On({t}) \cap On({s}) = {} /\ Asked(s) \cap On({t}) = {}
      BY <2>5, ScreensApart
    <3>2. lit' = (lit \ On({s})) \cup out.lit /\ out.lit \cap On({t}) = {}
      BY <3>1, <2>3, <1>1
    <3>3. (t \in visible' <=> t \in visible) /\ (t \in showing' <=> t \in showing)
      BY <2>5, <1>1
    <3>4. lit' \cap On({t}) = lit \cap On({t})
      BY <3>1, <3>2
    <3> QED BY <3>3, <3>4, <2>1, <2>2
  <2> QED BY <2>4, <2>5
<1>6. visible' \subseteq present /\ showing' \subseteq present /\ resume' \subseteq present
  BY <1>1, <1>2 DEF ToolkitInv, TypeOK
<1>7. app' = app /\ app \in [registered : BOOLEAN, opened : BOOLEAN, asked : BOOLEAN,
                             moving : BOOLEAN, suspended : BOOLEAN]
  BY <1>2 DEF ToolkitInv, TypeOK
<1> QED BY <1>2, <1>3, <1>4, <1>5, <1>6, <1>7, LooksStep

-------------------------------------------------------------------------------
\* Closing.  The screens that come off take their widgets with them, and by then the
\* native host has given back every list model, listener and child of theirs.
Off(S, ends) == {s \in S : ends[s].phase = "none"}

LEMMA DetachedWhere ==
    ASSUME NEW p, NEW ends, NEW S PROVE Detached(p, ends, S) \subseteq On(S)
BY DEF Detached, On

LEMMA AllComesOff ==
    ASSUME NEW p \in {"drag", "model", "listener", "child"}, NEW ends, NEW S
    PROVE  On(Off(S, ends)) \subseteq Detached(p, ends, S)
<1>1. Phase[p] < Phase["none"]
  BY DEF Phase
<1> SUFFICES ASSUME NEW w \in On(Off(S, ends)) PROVE w \in Detached(p, ends, S)
  OBVIOUS
<1>2. w \in made /\ Home[w] \in S /\ ends[Home[w]].phase = "none"
  BY DEF On, Off
<1>3. w \in On({Home[w]})
  BY <1>2 DEF On
<1> QED BY <1>1, <1>2, <1>3 DEF Detached

\* A close with no callback running keeps the invariant, whatever it does to the host.
LEMMA CloseKeeps ==
    ASSUME ToolkitInv, stack = <<>>, stack' = stack,
           NEW S \in SUBSET present, NEW ends, NEW I \in SUBSET present,
           CloseScreens(S, ends, I),
           owned' \subseteq Parts, OwnersStand',
           app' \in [registered : BOOLEAN, opened : BOOLEAN, asked : BOOLEAN, moving : BOOLEAN,
                     suspended : BOOLEAN],
           app'.suspended = app.suspended \/ present' = {}
    PROVE  ToolkitInv'
<1> DEFINE freed == Off(S, ends)
           lists == {w \in Widgets : Drags(w)}
<1>1. PICK hidden \in {freed, freed \cup {s \in S : ends[s].phase = "child"}} :
        /\ present' = present \ freed
        /\ newer' = {pair \in newer : freed \cap {pair[1], pair[2]} = {}}
        /\ closing' = (closing \cup S \cup I) \ freed
        /\ visible' = visible \ hidden
        /\ resume' = resume \ freed /\ showing' = showing \ freed
        /\ made' = made \ On(freed) /\ live' = live \ On(S \cup I)
        /\ dragged' = dragged \ Detached("drag", ends, S)
        /\ wired' = wired \ ((Detached("model", ends, S) \cap lists)
                               \cup (Detached("listener", ends, S) \ lists))
        /\ attached' = attached \ Detached("child", ends, S)
        /\ wanted' = wanted \ On(freed)
        /\ lit' = lit \ (On(freed) \cup On(hidden) \cup Detached("child", ends, S))
        /\ Reports(Cardinality(S \ freed))
  BY DEF CloseScreens, Off
<1>2. hidden \in SUBSET S /\ freed \subseteq hidden
  BY DEF Off
<1>3. freed \subseteq S
  BY DEF Off
<1>4. IsFiniteSet(S \ freed)
  BY ScreensAreFinite, FS_Subset DEF ToolkitInv, TypeOK
<1>5. /\ On(freed) \subseteq On(S) /\ On(hidden) \subseteq On(S)
      /\ Detached("child", ends, S) \subseteq On(S)
      /\ On(freed) \subseteq Detached("drag", ends, S)
      /\ On(freed) \subseteq Detached("child", ends, S)
      /\ On(freed) \subseteq Detached("model", ends, S)
      /\ On(freed) \subseteq Detached("listener", ends, S)
  BY <1>2, <1>3, DetachedWhere, AllComesOff DEF On
<1>6. thrown' \in 0 .. Throws /\ (thrown' = 0 => thrown = 0 /\ Cardinality(S \ freed) = 0)
  BY <1>1, <1>4, ReportsCount, FS_CardinalityType
<1> HIDE DEF freed, lists
<1>7. MemoryHeld'
  <2>1. ASSUME NEW w \in made' PROVE Home[w] \in present'
    <3>1. w \in made /\ Home[w] \in present /\ w \notin On(freed)
      BY <1>1, <2>1 DEF ToolkitInv, MemoryHeld
    <3> QED BY <1>1, <3>1 DEF On
  <2>2. dragged' \subseteq made' /\ wired' \subseteq made' /\ attached' \subseteq made'
    BY <1>1, <1>5 DEF ToolkitInv, MemoryHeld
  <2> QED BY <2>1, <2>2 DEF ToolkitInv, MemoryHeld
<1>8. TypeOK'
  <2>1. /\ present' \subseteq Screens
        /\ newer' \subseteq present' \X present'
    BY <1>1 DEF ToolkitInv, TypeOK
  <2>2. ASSUME NEW s \in present', NEW t \in present'
        PROVE  (<<s, t>> \in newer)' <=> s # t /\ (<<t, s>> \notin newer)'
    <3>1. <<s, t>> \in newer <=> s # t /\ <<t, s>> \notin newer
      BY <1>1 DEF ToolkitInv, TypeOK
    <3>2. s \notin freed /\ t \notin freed
      BY <1>1
    <3> QED BY <1>1, <3>1, <3>2
  <2>3. visible' \subseteq present' /\ resume' \subseteq present'
        /\ closing' \subseteq present' /\ showing' \subseteq present'
    BY <1>1, <1>2 DEF ToolkitInv, TypeOK
  <2>4. made' \subseteq Widgets /\ On(present)' = made'
    BY <1>1, <1>7 DEF ToolkitInv, TypeOK, MemoryHeld, On
  <2>5. live' \subseteq made'
    BY <1>1, <1>3 DEF ToolkitInv, TypeOK, On
  <2>6. wanted' \subseteq made' /\ lit' \subseteq attached'
    BY <1>1, <1>2 DEF ToolkitInv, TypeOK
  <2>7. dragged' \cup wired' \cup attached' \subseteq Widgets
    BY <1>1 DEF ToolkitInv, TypeOK
  <2>8. (Len(stack) <= Nesting /\ ToSet(stack) \subseteq Widgets \cup {Tile})'
    BY DEF ToolkitInv, TypeOK
  <2> QED BY <2>1, <2>2, <2>3, <2>4, <2>5, <2>6, <2>7, <2>8, <1>6 DEF TypeOK
<1>9. thrown' = 0 => LooksRight'
  <2> SUFFICES ASSUME thrown' = 0, NEW s \in (present \ closing)'
               PROVE  /\ app'.suspended => (s \in visible' => s \in resume')
                                           /\ (s \in showing' <=> s \in resume')
                      /\ ~app'.suspended => (s \in visible' <=> s \in showing')
                      /\ (lit \cap On({s}) = IF s \in visible THEN Asked(s) ELSE {})'
    BY DEF LooksRight
  <2>1. S \ freed = {} /\ thrown = 0
    BY <1>4, <1>6, FS_EmptySet
  <2>2. s \in present /\ s \notin closing /\ s \notin S /\ s \notin freed /\ s \notin hidden
    BY <1>1, <1>2, <2>1
  <2>3. /\ app.suspended => (s \in visible => s \in resume) /\ (s \in showing <=> s \in resume)
        /\ ~app.suspended => (s \in visible <=> s \in showing)
        /\ lit \cap On({s}) = IF s \in visible THEN Asked(s) ELSE {}
    BY <2>1, <2>2 DEF ToolkitInv, LooksRight
  <2>4. On({s}) \cap On(S) = {}
    BY <2>2, ScreensApart
  <2>5. On({s})' = On({s}) /\ (lit \cap On({s}))' = lit \cap On({s})
    <3>1. On({s})' = {w \in made' : Home[w] = s} /\ On({s}) = {w \in made : Home[w] = s}
      BY DEF On
    <3> QED BY <3>1, <2>4, <1>1, <1>2, <1>5
  <2>6. Asked(s)' = Asked(s)
    BY <2>4, <2>5, <1>1, <1>5 DEF Asked
  <2>7. app'.suspended = app.suspended
    BY <2>2, <1>1
  <2> QED BY <2>2, <2>3, <2>5, <2>6, <2>7, <1>1, <1>2
<1> QED BY <1>6, <1>7, <1>8, <1>9 DEF ToolkitInv

LEMMA CloseShrinks ==
    ASSUME NEW S, NEW ends, NEW I, CloseScreens(S, ends, I) PROVE present' \subseteq present
BY DEF CloseScreens

LEMMA CloseScreenKeeps == ASSUME ToolkitInv, NEW s \in Screens, CloseScreen(s) PROVE ToolkitInv'
<1>1. PICK end \in Ends(s) : CloseScreens({s}, [t \in {s} |-> end], {})
  BY DEF CloseScreen
<1>2. s \in present /\ stack = <<>> /\ UNCHANGED <<appVars, stack>>
  BY DEF CloseScreen, MayClose
<1>3. OwnersStand'
  BY <1>1, <1>2, CloseShrinks DEF ToolkitInv, OwnersStand, appVars
<1>4. /\ owned' \subseteq Parts /\ app'.suspended = app.suspended
      /\ app' \in [registered : BOOLEAN, opened : BOOLEAN, asked : BOOLEAN, moving : BOOLEAN,
                   suspended : BOOLEAN]
  BY <1>2 DEF ToolkitInv, TypeOK, appVars
<1>5. {s} \in SUBSET present /\ {} \in SUBSET present
  BY <1>2
<1> QED BY <1>1, <1>2, <1>3, <1>4, <1>5, CloseKeeps

\* The consumer's closing, when it is asked to and when its opening failed.
LEMMA ConsumerShrinks ==
    ASSUME NEW I, ConsumerCloses(I) PROVE present' \subseteq present
<1>1. CASE ~MayClose \/ present = {}
  BY <1>1 DEF ConsumerCloses, screenVars
<1>2. CASE ~(~MayClose \/ present = {})
  BY <1>2, CloseShrinks DEF ConsumerCloses
<1> QED BY <1>1, <1>2

LEMMA ConsumerKeeps ==
    ASSUME ToolkitInv, NEW I \in SUBSET present, ConsumerCloses(I), stack' = stack,
           owned' \subseteq Parts, OwnersStand', stack # <<>> => "host" \in owned',
           app' \in [registered : BOOLEAN, opened : BOOLEAN, asked : BOOLEAN, moving : BOOLEAN,
                     suspended : BOOLEAN],
           app'.suspended = app.suspended \/ present' = {}
    PROVE  ToolkitInv'
<1>1. CASE ~MayClose \/ present = {}
  <2>1. UNCHANGED <<screenVars, bindings, holds, looks, stack, thrown>>
    BY <1>1 DEF ConsumerCloses
  <2>2. app'.suspended = app.suspended \/ present = {}
    BY <2>1 DEF screenVars
  <2> QED BY <2>1, <2>2, OwnersStep
<1>2. CASE ~(~MayClose \/ present = {})
  <2>1. stack = <<>>
    BY <1>2 DEF MayClose
  <2>2. PICK S \in SUBSET present : \E ends \in AllEnds(S) : CloseScreens(S, ends, I)
    BY <1>2 DEF ConsumerCloses
  <2>3. PICK ends \in AllEnds(S) : CloseScreens(S, ends, I)
    BY <2>2
  <2> QED BY <2>1, <2>3, CloseKeeps
<1> QED BY <1>1, <1>2

LEMMA OpenEndsKeeps == ASSUME ToolkitInv, OpenEnds PROVE ToolkitInv'
<1> DEFINE Flags == [registered : BOOLEAN, opened : BOOLEAN, asked : BOOLEAN, moving : BOOLEAN,
                     suspended : BOOLEAN]
<1>1. app \in Flags /\ owned' = owned /\ stack' = stack /\ owned \subseteq Parts
  BY DEF ToolkitInv, TypeOK, OpenEnds
<1>2. stack # <<>> => "host" \in owned'
  BY <1>1 DEF ToolkitInv, MemoryHeld
<1>3. CASE /\ app' = [app EXCEPT !.moving = FALSE]
           /\ UNCHANGED <<screenVars, bindings, holds, looks, thrown>>
  <2>1. app' \in Flags /\ app'.suspended = app.suspended
    BY <1>1, <1>3
  <2>2. OwnersStand'
    BY <1>1, <1>3 DEF ToolkitInv, OwnersStand, screenVars
  <2> QED BY <1>1, <1>2, <1>3, <2>1, <2>2, OwnersStep
<1>4. CASE /\ ConsumerCloses({})
           /\ app' = IF present' = {}
                     THEN [app EXCEPT !.moving = FALSE, !.opened = FALSE, !.asked = FALSE]
                     ELSE [app EXCEPT !.moving = FALSE]
  <2>1. app' \in Flags /\ app'.suspended = app.suspended
    BY <1>1, <1>4
  <2>2. OwnersStand'
    BY <1>1, <1>4, ConsumerShrinks DEF ToolkitInv, OwnersStand
  <2>3. {} \in SUBSET present
    OBVIOUS
  <2> QED BY <1>1, <1>2, <1>4, <2>1, <2>2, <2>3, ConsumerKeeps
<1> QED BY <1>3, <1>4 DEF OpenEnds

LEMMA DrainKeeps == ASSUME ToolkitInv, Drain PROVE ToolkitInv'
<1> DEFINE Flags == [registered : BOOLEAN, opened : BOOLEAN, asked : BOOLEAN, moving : BOOLEAN,
                     suspended : BOOLEAN]
<1>1. /\ app \in Flags /\ owned' = owned /\ stack' = stack /\ owned \subseteq Parts
      /\ stack = <<>> /\ ConsumerCloses({})
      /\ app' = IF present' = {} THEN Shut ELSE app
  BY DEF ToolkitInv, TypeOK, Drain, MayDrain, Drained
<1>2. app' \in Flags /\ (app'.suspended = app.suspended \/ present' = {})
  BY <1>1 DEF Shut
<1>3. OwnersStand'
  BY <1>1, ConsumerShrinks DEF ToolkitInv, OwnersStand, Shut
<1>4. {} \in SUBSET present
  OBVIOUS
<1> QED BY <1>1, <1>2, <1>3, <1>4, ConsumerKeeps

LEMMA InvalidatedKeeps ==
    ASSUME ToolkitInv, NEW S \in SUBSET present, Invalidated(S),
           UNCHANGED <<appVars, present, newer, visible, resume, showing, made, holds, looks,
                       stack, thrown>>
    PROVE  ToolkitInv'
<1> USE DEF appVars, holds, looks, Invalidated
<1>1. TypeOK'
  BY DEF ToolkitInv, TypeOK, On
<1>2. OwnersStand' /\ MemoryHeld'
  BY DEF ToolkitInv, OwnersStand, MemoryHeld
<1>3. thrown' = 0 => LooksRight'
  BY DEF ToolkitInv, LooksRight, On, Asked
<1> QED BY <1>1, <1>2, <1>3 DEF ToolkitInv

LEMMA DestroyKeeps == ASSUME ToolkitInv, Destroy PROVE ToolkitInv'
<1> DEFINE Flags == [registered : BOOLEAN, opened : BOOLEAN, asked : BOOLEAN, moving : BOOLEAN,
                     suspended : BOOLEAN]
<1>1. app \in Flags /\ stack' = stack /\ owned \subseteq Parts /\ present \in SUBSET present
  BY DEF ToolkitInv, TypeOK, Destroy
<1>2. CASE /\ app.moving \/ stack # <<>>
           /\ Invalidated(present)
           /\ UNCHANGED <<appVars, present, newer, visible, resume, showing, made, holds, looks,
                          thrown>>
  BY <1>1, <1>2, InvalidatedKeeps
<1>3. CASE /\ stack = <<>>
           /\ IF app.opened THEN ConsumerCloses(present)
              ELSE UNCHANGED <<screenVars, bindings, holds, looks, thrown>>
           /\ \/ present' = {} /\ app' = Idle /\ owned' = owned \ {"host"}
              \/ app.opened /\ app' = [app EXCEPT !.asked = TRUE] /\ UNCHANGED owned
  <2>1. /\ app' \in Flags /\ owned' \subseteq Parts
        /\ app'.suspended = app.suspended \/ present' = {}
    <3>1. CASE present' = {} /\ app' = Idle /\ owned' = owned \ {"host"}
      BY <3>1, <1>1 DEF Idle
    <3>2. CASE app' = [app EXCEPT !.asked = TRUE] /\ UNCHANGED owned
      BY <3>2, <1>1
    <3> QED BY <1>3, <3>1, <3>2
  <2>2. present' \subseteq present
    BY <1>3, ConsumerShrinks DEF screenVars
  <2>3. OwnersStand'
    <3>1. CASE present' = {} /\ app' = Idle /\ owned' = owned \ {"host"}
      BY <3>1 DEF ToolkitInv, OwnersStand, Idle
    <3>2. CASE app.opened /\ app' = [app EXCEPT !.asked = TRUE] /\ UNCHANGED owned
      BY <3>2, <2>2, <1>1 DEF ToolkitInv, OwnersStand
    <3> QED BY <1>3, <3>1, <3>2
  <2>4. CASE app.opened
    BY <1>1, <1>3, <2>1, <2>3, <2>4, ConsumerKeeps
  <2>5. CASE ~app.opened
    <3>1. UNCHANGED <<screenVars, bindings, holds, looks, stack, thrown>>
      BY <1>1, <1>3, <2>5
    <3>2. present = {}
      BY <2>5 DEF ToolkitInv, OwnersStand
    <3> QED BY <1>3, <2>1, <2>3, <3>1, <3>2, OwnersStep
  <2> QED BY <2>4, <2>5
<1> QED BY <1>2, <1>3 DEF Destroy

LEMMA InvalidateKeeps == ASSUME ToolkitInv, NEW s \in Screens, Invalidate(s) PROVE ToolkitInv'
<1>1. {s} \in SUBSET present
  BY DEF Invalidate
<1> QED BY <1>1, InvalidatedKeeps DEF Invalidate

-------------------------------------------------------------------------------
\* Several screens shown or hidden in one call, the last of them failing: each is
\* left lit as its own call left it, and the others as they were.
LeftLit(S, f, out, back) ==
    /\ f \notin S /\ out.lit \subseteq On({f})
    /\ \A s \in S : back[s].lit \subseteq On({s})
    /\ lit' = (lit \ On(S \cup {f})) \cup out.lit \cup UNION {back[s].lit : s \in S}

LEMMA LitAfter ==
    ASSUME NEW S, NEW f, NEW out, NEW back, LeftLit(S, f, out, back), NEW t
    PROVE  lit' \cap On({t}) = IF t = f THEN out.lit
                               ELSE IF t \in S THEN back[t].lit ELSE lit \cap On({t})
<1>0. /\ f \notin S /\ out.lit \subseteq On({f})
      /\ \A s \in S : back[s].lit \subseteq On({s})
      /\ \A w : w \in lit' <=> \/ w \in lit /\ w \notin On(S \cup {f})
                             \/ w \in out.lit
                             \/ \E s \in S : w \in back[s].lit
  BY DEF LeftLit
<1>1. \A s : s # t => On({s}) \cap On({t}) = {}
  BY DEF On
<1>2. t \in S \cup {f} => On({t}) \subseteq On(S \cup {f})
  BY DEF On
<1>3. t \notin S \cup {f} => On(S \cup {f}) \cap On({t}) = {}
  BY DEF On
<1>4. ASSUME NEW w \in On({t})
      PROVE  /\ w \in out.lit => t = f
             /\ \A s \in S : w \in back[s].lit => s = t
  BY <1>0, <1>1
<1>5. CASE t = f
  BY <1>0, <1>2, <1>4, <1>5
<1>6. CASE t # f /\ t \in S
  BY <1>0, <1>2, <1>4, <1>6
<1>7. CASE t # f /\ t \notin S
  BY <1>0, <1>3, <1>4, <1>7
<1> QED BY <1>5, <1>6, <1>7

\* Nothing is counted for several calls only when none of them threw.
LEMMA ToldNothing ==
    ASSUME NEW S, IsFiniteSet(S), NEW back, \A s \in S : back[s].throws \in {0, 1}
    PROVE  Told(S, back) \in Nat /\ (Told(S, back) = 0 => \A s \in S : back[s].throws = 0)
<1> DEFINE threw == {s \in S : back[s].throws > 0}
<1>1. IsFiniteSet(threw)
  BY FS_Subset
<1>2. Cardinality(threw) \in Nat /\ (Cardinality(threw) = 0 => threw = {})
  BY <1>1, FS_CardinalityType, FS_EmptySet
<1>3. threw = {} => \A s \in S : back[s].throws = 0
  OBVIOUS
<1> QED BY <1>2, <1>3 DEF Told

\* What is lit stays attached, and nothing is before itself in the list.
LEMMA Attached ==
    ASSUME ToolkitInv
    PROVE  /\ lit \subseteq attached /\ \A s : Asked(s) \subseteq attached \cap On({s})
           /\ \A s \in present : ~Before(s, s)
           /\ IsFiniteSet(present)
<1>1. IsFiniteSet(present)
  BY ScreensAreFinite, FS_Subset DEF ToolkitInv, TypeOK
<1>2. \A s \in present : ~Before(s, s)
  BY DEF ToolkitInv, TypeOK, Before
<1> QED BY <1>1, <1>2 DEF ToolkitInv, TypeOK, Asked

LEMMA SuspendKeeps == ASSUME ToolkitInv, Suspend PROVE ToolkitInv'
<1> DEFINE Flags == [registered : BOOLEAN, opened : BOOLEAN, asked : BOOLEAN, moving : BOOLEAN,
                     suspended : BOOLEAN]
<1>1. /\ UNCHANGED <<owned, present, newer, closing, showing, bindings, holds, wanted, stack>>
      /\ ~app.suspended /\ present \cap closing = {}
  BY DEF Suspend, MayMove
<1>2. /\ app \in Flags /\ lit \subseteq attached /\ thrown \in 0 .. Throws
      /\ visible \subseteq present /\ resume \subseteq present /\ showing \subseteq present
  BY DEF ToolkitInv, TypeOK
<1>3. \A t : On({t})' = On({t}) /\ Asked(t)' = Asked(t)
  BY <1>1 DEF bindings, holds, On, Asked
<1>4. ASSUME thrown = 0, NEW t \in present
      PROVE  /\ t \in visible <=> t \in showing
             /\ lit \cap On({t}) = IF t \in visible THEN Asked(t) ELSE {}
  BY <1>1, <1>4 DEF ToolkitInv, LooksRight
<1>5. CASE /\ visible' = {} /\ resume' = visible
           /\ lit' = lit \ On(visible)
           /\ app' = [app EXCEPT !.suspended = TRUE]
           /\ UNCHANGED thrown
  <2>1. app' \in Flags /\ app'.registered = app.registered /\ app'.opened = app.opened
        /\ app'.suspended = TRUE
    BY <1>2, <1>5
  <2>2. ASSUME thrown = 0, NEW t \in present PROVE lit' \cap On({t}) = {}
    BY <1>4, <1>5, <2>2 DEF On
  <2>3. thrown' = 0 => LooksRight'
    BY <1>1, <1>3, <1>4, <1>5, <2>1, <2>2 DEF LooksRight
  <2>4. /\ visible' \subseteq present /\ resume' \subseteq present /\ showing' \subseteq present
        /\ lit' \subseteq attached /\ thrown' \in 0 .. Throws
    BY <1>1, <1>2, <1>5
  <2> QED BY <1>1, <2>1, <2>3, <2>4, LooksStep
<1>6. CASE \E f \in visible : \E out \in {r \in HideResults(f) : ~r.ok} :
             LET hidden == {s \in visible : Before(s, f)} IN
             \E back \in [hidden -> UNION {ShowResults(s) : s \in hidden}] :
               /\ \A s \in hidden : back[s] \in ShowResults(s)
               /\ LET lost == {s \in hidden : ~back[s].ok} IN
                  /\ visible' = visible \ lost
                  /\ resume' = IF lost = {} THEN {} ELSE visible
                  /\ app' = [app EXCEPT !.suspended = lost # {}]
               /\ lit' = (lit \ On(hidden \cup {f})) \cup out.lit
                           \cup UNION {back[s].lit : s \in hidden}
               /\ Reports(out.throws + Told(hidden, back))
  <2>1. PICK f \in visible : \E out \in {r \in HideResults(f) : ~r.ok} :
             LET hidden == {s \in visible : Before(s, f)} IN
             \E back \in [hidden -> UNION {ShowResults(s) : s \in hidden}] :
               /\ \A s \in hidden : back[s] \in ShowResults(s)
               /\ LET lost == {s \in hidden : ~back[s].ok} IN
                  /\ visible' = visible \ lost
                  /\ resume' = IF lost = {} THEN {} ELSE visible
                  /\ app' = [app EXCEPT !.suspended = lost # {}]
               /\ lit' = (lit \ On(hidden \cup {f})) \cup out.lit
                           \cup UNION {back[s].lit : s \in hidden}
               /\ Reports(out.throws + Told(hidden, back))
    BY <1>6
  <2> DEFINE hidden == {s \in visible : Before(s, f)}
  <2>2. PICK out \in HideResults(f) :
             /\ ~out.ok
             /\ \E back \in [hidden -> UNION {ShowResults(s) : s \in hidden}] :
                  /\ \A s \in hidden : back[s] \in ShowResults(s)
                  /\ LET lost == {s \in hidden : ~back[s].ok} IN
                     /\ visible' = visible \ lost
                     /\ resume' = IF lost = {} THEN {} ELSE visible
                     /\ app' = [app EXCEPT !.suspended = lost # {}]
                  /\ lit' = (lit \ On(hidden \cup {f})) \cup out.lit
                              \cup UNION {back[s].lit : s \in hidden}
                  /\ Reports(out.throws + Told(hidden, back))
    BY <2>1
  <2>3. PICK back \in [hidden -> UNION {ShowResults(s) : s \in hidden}] :
             /\ \A s \in hidden : back[s] \in ShowResults(s)
             /\ LET lost == {s \in hidden : ~back[s].ok} IN
                /\ visible' = visible \ lost
                /\ resume' = IF lost = {} THEN {} ELSE visible
                /\ app' = [app EXCEPT !.suspended = lost # {}]
             /\ lit' = (lit \ On(hidden \cup {f})) \cup out.lit
                         \cup UNION {back[s].lit : s \in hidden}
             /\ Reports(out.throws + Told(hidden, back))
    BY <2>2
  <2> DEFINE lost == {s \in hidden : ~back[s].ok}
  <2>4. f \in present /\ hidden \subseteq visible /\ f \notin hidden /\ IsFiniteSet(hidden)
    BY <1>2, Attached, FS_Subset
  <2>5. /\ visible' = visible \ lost
        /\ resume' = IF lost = {} THEN {} ELSE visible
        /\ app' = [app EXCEPT !.suspended = lost # {}]
        /\ lost \subseteq hidden /\ \A s \in hidden : s \in lost <=> ~back[s].ok
    BY <2>3
  <2> HIDE DEF hidden, lost
  <2>6. /\ out.throws \in {0, 1}
        /\ out.lit \subseteq Asked(f) \cup (lit \cap On({f}))
        /\ out.throws = 0 => out.lit = Asked(f)
    BY <2>2, HideLeaves
  <2>7. \A s \in hidden : /\ back[s].throws \in {0, 1}
                          /\ back[s].lit \subseteq Asked(s)
                          /\ back[s].throws = 0 =>
                               back[s].lit = IF back[s].ok THEN Asked(s) ELSE {}
    BY <2>3, ShowLeaves
  <2>8. out.lit \subseteq attached \cap On({f})
        /\ \A s \in hidden : back[s].lit \subseteq attached \cap On({s})
    BY <2>6, <2>7, Attached
  <2>9. Told(hidden, back) \in Nat /\ (Told(hidden, back) = 0 => \A s \in hidden : back[s].throws = 0)
    <3>1. \A s \in hidden : back[s].throws \in {0, 1}
      BY <2>7
    <3> QED BY <2>4, <3>1, ToldNothing
  <2>10. /\ thrown' \in 0 .. Throws
         /\ thrown' = 0 => /\ thrown = 0 /\ out.throws = 0
                           /\ \A s \in hidden : back[s].throws = 0
    <3>1. out.throws + Told(hidden, back) \in Nat
          /\ (out.throws + Told(hidden, back) = 0 => out.throws = 0 /\ Told(hidden, back) = 0)
      BY <2>6, <2>9
    <3> QED BY <2>3, <2>9, <3>1, ReportsCount
  <2>11. lit' = (lit \ On(hidden \cup {f})) \cup out.lit \cup UNION {back[s].lit : s \in hidden}
    BY <2>3
  <2>12. ASSUME NEW t
         PROVE  lit' \cap On({t}) = IF t = f THEN out.lit
                                    ELSE IF t \in hidden THEN back[t].lit ELSE lit \cap On({t})
    <3>1. LeftLit(hidden, f, out, back)
      BY <2>4, <2>8, <2>11 DEF LeftLit
    <3> QED BY <3>1, LitAfter
  <2>13. lit' \subseteq attached
    <3>1. UNION {back[s].lit : s \in hidden} \subseteq attached
      BY <2>8
    <3> QED BY <1>2, <2>8, <2>11, <3>1
  <2>14. app' \in Flags /\ app'.registered = app.registered /\ app'.opened = app.opened
         /\ app'.suspended = (lost # {})
    BY <1>2, <2>5
  <2>15. ASSUME thrown' = 0, NEW t \in present
         PROVE  lit' \cap On({t}) = IF t \in visible' THEN Asked(t) ELSE {}
    <3>1. CASE t = f
      BY <3>1, <2>4, <2>5, <2>6, <2>10, <2>12, <2>15
    <3>2. CASE t \in hidden
      BY <3>2, <2>4, <2>5, <2>7, <2>10, <2>12, <2>15
    <3>3. CASE t # f /\ t \notin hidden
      BY <3>3, <1>4, <2>5, <2>10, <2>12, <2>15
    <3> QED BY <3>1, <3>2, <3>3
  <2>16. ASSUME thrown' = 0, NEW t \in present
         PROVE  /\ app'.suspended => (t \in visible' => t \in resume')
                                     /\ (t \in showing' <=> t \in resume')
                /\ ~app'.suspended => (t \in visible' <=> t \in showing')
    BY <1>1, <1>4, <2>5, <2>10, <2>14, <2>16
  <2>17. thrown' = 0 => LooksRight'
    BY <1>1, <1>3, <2>15, <2>16 DEF LooksRight
  <2>18. visible' \subseteq present /\ resume' \subseteq present /\ showing' \subseteq present
    BY <1>1, <1>2, <2>5
  <2> QED BY <1>1, <2>10, <2>13, <2>14, <2>17, <2>18, LooksStep
<1> QED BY <1>5, <1>6 DEF Suspend

LEMMA ResumeKeeps == ASSUME ToolkitInv, Resume PROVE ToolkitInv'
<1> DEFINE Flags == [registered : BOOLEAN, opened : BOOLEAN, asked : BOOLEAN, moving : BOOLEAN,
                     suspended : BOOLEAN]
           waiting == resume \ visible
<1>1. /\ UNCHANGED <<owned, present, newer, closing, showing, bindings, holds, wanted, stack>>
      /\ app.suspended /\ present \cap closing = {}
  BY DEF Resume, MayMove
<1>2. /\ app \in Flags /\ lit \subseteq attached /\ thrown \in 0 .. Throws
      /\ visible \subseteq present /\ resume \subseteq present /\ showing \subseteq present
  BY DEF ToolkitInv, TypeOK
<1>3. \A t : On({t})' = On({t}) /\ Asked(t)' = Asked(t)
  BY <1>1 DEF bindings, holds, On, Asked
<1>4. ASSUME thrown = 0, NEW t \in present
      PROVE  /\ t \in visible => t \in resume
             /\ t \in showing <=> t \in resume
             /\ lit \cap On({t}) = IF t \in visible THEN Asked(t) ELSE {}
  BY <1>1, <1>4 DEF ToolkitInv, LooksRight
<1>5. CASE /\ visible' = visible \cup waiting /\ resume' = {}
           /\ lit' = lit \cup UNION {Asked(s) : s \in waiting}
           /\ app' = [app EXCEPT !.suspended = FALSE]
           /\ UNCHANGED thrown
  <2>1. app' \in Flags /\ app'.registered = app.registered /\ app'.opened = app.opened
        /\ app'.suspended = FALSE
    BY <1>2, <1>5
  <2>2. \A w : w \in lit' <=> w \in lit \/ \E s \in waiting : w \in Asked(s)
    BY <1>5
  <2>3. ASSUME thrown = 0, NEW t \in present
        PROVE  lit' \cap On({t}) = IF t \in visible' THEN Asked(t) ELSE {}
    <3>1. \A s, w : w \in Asked(s) /\ w \in On({t}) => s = t
      BY DEF Asked, On
    <3>2. Asked(t) \subseteq On({t})
      BY DEF Asked
    <3>3. t \in visible' <=> t \in visible \/ t \in waiting
      BY <1>5
    <3> HIDE DEF waiting
    <3>4. lit' \cap On({t}) = (lit \cap On({t})) \cup (IF t \in waiting THEN Asked(t) ELSE {})
      BY <2>2, <3>1, <3>2
    <3>5. t \in visible => t \notin waiting
      BY DEF waiting
    <3>6. lit \cap On({t}) = IF t \in visible THEN Asked(t) ELSE {}
      BY <1>4, <2>3
    <3> QED BY <3>3, <3>4, <3>5, <3>6
  <2>4. ASSUME thrown = 0, NEW t \in present
        PROVE  t \in visible' <=> t \in showing'
    BY <1>1, <1>4, <1>5, <2>4
  <2>5. thrown' = 0 => LooksRight'
    BY <1>1, <1>3, <1>5, <2>1, <2>3, <2>4 DEF LooksRight
  <2>6. /\ visible' \subseteq present /\ resume' \subseteq present /\ showing' \subseteq present
        /\ thrown' \in 0 .. Throws
    BY <1>1, <1>2, <1>5
  <2>7. lit' \subseteq attached
    BY <1>2, <2>2, Attached
  <2> QED BY <1>1, <2>1, <2>5, <2>6, <2>7, LooksStep
<1>6. CASE \E f \in waiting : \E out \in {r \in ShowResults(f) : ~r.ok} :
             LET shown == (resume \cap visible) \cup {s \in waiting : Before(s, f)} IN
             \E back \in [shown -> UNION {HideResults(s) : s \in shown}] :
               /\ \A s \in shown : back[s] \in HideResults(s)
               /\ visible' = (visible \cup shown) \ {s \in shown : back[s].ok}
               /\ lit' = (lit \ On(shown \cup {f})) \cup out.lit
                           \cup UNION {back[s].lit : s \in shown}
               /\ Reports(out.throws + Told(shown, back))
               /\ UNCHANGED <<resume, app>>
  <2>1. PICK f \in waiting : \E out \in {r \in ShowResults(f) : ~r.ok} :
             LET shown == (resume \cap visible) \cup {s \in waiting : Before(s, f)} IN
             \E back \in [shown -> UNION {HideResults(s) : s \in shown}] :
               /\ \A s \in shown : back[s] \in HideResults(s)
               /\ visible' = (visible \cup shown) \ {s \in shown : back[s].ok}
               /\ lit' = (lit \ On(shown \cup {f})) \cup out.lit
                           \cup UNION {back[s].lit : s \in shown}
               /\ Reports(out.throws + Told(shown, back))
               /\ UNCHANGED <<resume, app>>
    BY <1>6
  <2> DEFINE shown == (resume \cap visible) \cup {s \in waiting : Before(s, f)}
  <2>2. PICK out \in ShowResults(f) :
             /\ ~out.ok
             /\ \E back \in [shown -> UNION {HideResults(s) : s \in shown}] :
                  /\ \A s \in shown : back[s] \in HideResults(s)
                  /\ visible' = (visible \cup shown) \ {s \in shown : back[s].ok}
                  /\ lit' = (lit \ On(shown \cup {f})) \cup out.lit
                              \cup UNION {back[s].lit : s \in shown}
                  /\ Reports(out.throws + Told(shown, back))
                  /\ UNCHANGED <<resume, app>>
    BY <2>1
  <2>3. PICK back \in [shown -> UNION {HideResults(s) : s \in shown}] :
             /\ \A s \in shown : back[s] \in HideResults(s)
             /\ visible' = (visible \cup shown) \ {s \in shown : back[s].ok}
             /\ lit' = (lit \ On(shown \cup {f})) \cup out.lit
                         \cup UNION {back[s].lit : s \in shown}
             /\ Reports(out.throws + Told(shown, back))
             /\ UNCHANGED <<resume, app>>
    BY <2>2
  <2>4. /\ f \in present /\ f \notin visible /\ f \in resume
        /\ shown \subseteq resume /\ f \notin shown /\ IsFiniteSet(shown)
    BY <1>2, Attached, FS_Subset
  <2>5. UNCHANGED <<resume, app>> /\ visible' = (visible \cup shown) \ {s \in shown : back[s].ok}
    BY <2>3
  <2> HIDE DEF shown, waiting
  <2>6. /\ out.throws \in {0, 1} /\ out.lit \subseteq Asked(f)
        /\ out.throws = 0 => out.lit = {}
    BY <2>2, ShowLeaves
  <2>7. \A s \in shown : /\ back[s].throws \in {0, 1}
                         /\ back[s].lit \subseteq Asked(s) \cup (lit \cap On({s}))
                         /\ back[s].throws = 0 =>
                              back[s].lit = IF back[s].ok THEN {} ELSE Asked(s)
    BY <2>3, HideLeaves
  <2>8. out.lit \subseteq attached \cap On({f})
        /\ \A s \in shown : back[s].lit \subseteq attached \cap On({s})
    BY <2>6, <2>7, Attached
  <2>9. Told(shown, back) \in Nat /\ (Told(shown, back) = 0 => \A s \in shown : back[s].throws = 0)
    <3>1. \A s \in shown : back[s].throws \in {0, 1}
      BY <2>7
    <3> QED BY <2>4, <3>1, ToldNothing
  <2>10. /\ thrown' \in 0 .. Throws
         /\ thrown' = 0 => /\ thrown = 0 /\ out.throws = 0
                           /\ \A s \in shown : back[s].throws = 0
    <3>1. out.throws + Told(shown, back) \in Nat
          /\ (out.throws + Told(shown, back) = 0 => out.throws = 0 /\ Told(shown, back) = 0)
      BY <2>6, <2>9
    <3> QED BY <2>3, <2>9, <3>1, ReportsCount
  <2>11. lit' = (lit \ On(shown \cup {f})) \cup out.lit \cup UNION {back[s].lit : s \in shown}
    BY <2>3
  <2>12. ASSUME NEW t
         PROVE  lit' \cap On({t}) = IF t = f THEN out.lit
                                    ELSE IF t \in shown THEN back[t].lit ELSE lit \cap On({t})
    <3>1. LeftLit(shown, f, out, back)
      BY <2>4, <2>8, <2>11 DEF LeftLit
    <3> QED BY <3>1, LitAfter
  <2>13. lit' \subseteq attached
    <3>1. UNION {back[s].lit : s \in shown} \subseteq attached
      BY <2>8
    <3> QED BY <1>2, <2>8, <2>11, <3>1
  <2>15. ASSUME thrown' = 0, NEW t \in present
         PROVE  lit' \cap On({t}) = IF t \in visible' THEN Asked(t) ELSE {}
    <3>1. CASE t = f
      BY <3>1, <2>4, <2>5, <2>6, <2>10, <2>12, <2>15
    <3>2. CASE t \in shown
      BY <3>2, <2>4, <2>5, <2>7, <2>10, <2>12, <2>15
    <3>3. CASE t # f /\ t \notin shown
      BY <3>3, <1>4, <2>5, <2>10, <2>12, <2>15
    <3> QED BY <3>1, <3>2, <3>3
  <2>16. ASSUME thrown' = 0, NEW t \in present
         PROVE  (t \in visible' => t \in resume') /\ (t \in showing' <=> t \in resume')
    BY <1>1, <1>4, <2>4, <2>5, <2>10, <2>16
  <2>17. thrown' = 0 => LooksRight'
    BY <1>1, <1>3, <2>5, <2>15, <2>16 DEF LooksRight
  <2>18. visible' \subseteq present /\ resume' \subseteq present /\ showing' \subseteq present
    BY <1>1, <1>2, <2>4, <2>5
  <2>19. app' \in Flags /\ app'.registered = app.registered /\ app'.opened = app.opened
    BY <1>2, <2>5
  <2> QED BY <1>1, <2>10, <2>13, <2>17, <2>18, <2>19, LooksStep
<1> QED BY <1>5, <1>6 DEF Resume

-------------------------------------------------------------------------------
\* A callback starts only at a widget the host still holds, and ends innermost first.
LEMMA StackStep ==
    ASSUME ToolkitInv, UNCHANGED <<appVars, screenVars, bindings, holds, looks, thrown>>,
           stack' \in Seq(Widgets \cup {Tile}), Len(stack') <= Nesting,
           \A i \in 1 .. Len(stack') : stack'[i] \in made \cup {Tile},
           stack' # <<>> => "host" \in owned
    PROVE  ToolkitInv'
<1> USE DEF appVars, screenVars, bindings, holds, looks
<1>1. ToSet(stack') \subseteq Widgets \cup {Tile}
  BY DEF ToSet
<1>2. TypeOK'
  BY <1>1 DEF ToolkitInv, TypeOK, On
<1>3. OwnersStand' /\ MemoryHeld'
  BY DEF ToolkitInv, OwnersStand, MemoryHeld
<1>4. thrown' = 0 => LooksRight'
  BY DEF ToolkitInv, LooksRight, On, Asked
<1> QED BY <1>2, <1>3, <1>4 DEF ToolkitInv

LEMMA EventKeeps == ASSUME ToolkitInv, NEW w \in Widgets, Event(w) PROVE ToolkitInv'
<1>1. w \in made /\ "host" \in owned
  BY DEF ToolkitInv, OwnersStand, MemoryHeld, Event
<1>2. /\ stack \in Seq(Widgets \cup {Tile}) /\ Len(stack) < Nesting /\ stack' = Append(stack, w)
      /\ \A i \in 1 .. Len(stack) : stack[i] \in made \cup {Tile}
  BY DEF ToolkitInv, MemoryHeld, Event
<1>3. /\ stack' \in Seq(Widgets \cup {Tile}) /\ Len(stack') <= Nesting
      /\ \A i \in 1 .. Len(stack') : stack'[i] \in made \cup {Tile}
  BY <1>1, <1>2, Bounds
<1> QED BY <1>1, <1>3, StackStep DEF Event

LEMMA TileKeeps == ASSUME ToolkitInv, TilePressed PROVE ToolkitInv'
<1>1. /\ stack \in Seq(Widgets \cup {Tile}) /\ Len(stack) < Nesting /\ stack' = Append(stack, Tile)
      /\ \A i \in 1 .. Len(stack) : stack[i] \in made \cup {Tile}
  BY DEF ToolkitInv, MemoryHeld, TilePressed
<1>2. /\ stack' \in Seq(Widgets \cup {Tile}) /\ Len(stack') <= Nesting
      /\ \A i \in 1 .. Len(stack') : stack'[i] \in made \cup {Tile}
  BY <1>1, Bounds
<1> QED BY <1>2, StackStep DEF TilePressed

LEMMA ReturnKeeps == ASSUME ToolkitInv, CallbackReturns PROVE ToolkitInv'
<1>1. /\ stack \in Seq(Widgets \cup {Tile}) /\ Len(stack) <= Nesting /\ stack # <<>>
      /\ stack' = SubSeq(stack, 1, Len(stack) - 1) /\ "host" \in owned
      /\ \A i \in 1 .. Len(stack) : stack[i] \in made \cup {Tile}
  BY DEF ToolkitInv, TypeOK, MemoryHeld, CallbackReturns, Front
<1>2. Len(stack) \in Nat /\ Len(stack) >= 1
  BY <1>1
<1>3. /\ stack' \in Seq(Widgets \cup {Tile})
      /\ Len(stack') = Len(stack) - 1
      /\ \A i \in 1 .. Len(stack) - 1 : stack'[i] = stack[i]
  <2> DEFINE n == Len(stack) - 1
  <2>1. n \in Int /\ 1 \in Int /\ \A i \in 1 .. n : stack[i] \in Widgets \cup {Tile}
    BY <1>1, <1>2
  <2>2. /\ n - 1 + 1 = n /\ (IF 1 <= n THEN n - 1 + 1 ELSE 0) = n
        /\ \A i \in 1 .. n : 1 + i - 1 = i
    <3>1. n \in Nat
      BY <1>2
    <3> HIDE DEF n
    <3> QED BY <3>1
  <2> HIDE DEF n
  <2>3. /\ SubSeq(stack, 1, n) \in Seq(Widgets \cup {Tile})
        /\ Len(SubSeq(stack, 1, n)) = (IF 1 <= n THEN n - 1 + 1 ELSE 0)
        /\ \A i \in 1 .. n - 1 + 1 : SubSeq(stack, 1, n)[i] = stack[1 + i - 1]
    BY <2>1, SubSeqProperties
  <2>4. stack' = SubSeq(stack, 1, n)
    BY <1>1 DEF n
  <2>5. stack' \in Seq(Widgets \cup {Tile}) /\ Len(stack') = n /\ \A i \in 1 .. n : stack'[i] = stack[i]
    BY <2>2, <2>3, <2>4
  <2> QED BY <2>5 DEF n
<1>4. /\ Len(stack') <= Nesting
      /\ \A i \in 1 .. Len(stack') : stack'[i] \in made \cup {Tile}
  BY <1>1, <1>2, <1>3, Bounds
<1> QED BY <1>1, <1>3, <1>4, StackStep DEF CallbackReturns

-------------------------------------------------------------------------------
LEMMA NextKeeps == ASSUME ToolkitInv, [Next]_vars PROVE ToolkitInv'
<1>1. CASE UNCHANGED vars
  BY <1>1 DEF vars, appVars, screenVars, bindings, holds, looks, ToolkitInv, TypeOK, OwnersStand,
              MemoryHeld, LooksRight, On, Asked
<1>2. CASE \E piece \in Parts : Create(piece) \/ Release(piece)
  BY <1>2, CreateKeeps, ReleaseKeeps
<1>3. CASE Register \/ Unregister \/ OpenBegins \/ RequestClose
  BY <1>3, AppKeeps
<1>4. CASE OpenEnds \/ Drain \/ Destroy \/ Suspend \/ Resume
  BY <1>4, OpenEndsKeeps, DrainKeeps, DestroyKeeps, SuspendKeeps, ResumeKeeps
<1>5. CASE \E s \in Screens : CreateScreen(s) \/ Show(s) \/ Hide(s) \/ CloseScreen(s) \/ Invalidate(s)
  BY <1>5, CreateScreenKeeps, ShowKeeps, HideKeeps, CloseScreenKeeps, InvalidateKeeps
<1>6. CASE \E w \in Widgets : \/ CreateWidget(w) \/ Place(w) \/ Decorate(w) \/ Event(w)
                              \/ \E on \in BOOLEAN : SetVisible(w, on)
  BY <1>6, CreateWidgetKeeps, PlaceKeeps, DecorateKeeps, EventKeeps, SetVisibleKeeps
<1>7. CASE TilePressed \/ CallbackReturns
  BY <1>7, TileKeeps, ReturnKeeps
<1> QED BY <1>1, <1>2, <1>3, <1>4, <1>5, <1>6, <1>7 DEF Next

\* Every state of the toolkit is well typed, stands on its owners, holds memory only
\* of what exists and, until a native call throws, looks as the consumer left it.
THEOREM ToolkitHolds == Spec => []ToolkitInv
<1>1. Init => ToolkitInv
  BY InitToolkit
<1>2. ToolkitInv /\ [Next]_vars => ToolkitInv'
  BY NextKeeps
<1> QED BY <1>1, <1>2, PTL DEF Spec

\* The types of the toolkit's state: screens in one strict order, and a widget lit
\* only while it is attached, in every state.
THEOREM ToolkitTypes == Spec => []TypeOK
<1>1. ToolkitInv => TypeOK
  BY DEF ToolkitInv
<1> QED BY <1>1, ToolkitHolds, PTL

\* "it never frees a child still owned by the parent": neither the native host nor a
\* running callback is left with memory the toolkit freed.
THEOREM MemoryIsKept == Spec => []NothingInUseIsFreed
<1>1. ToolkitInv => NothingInUseIsFreed
  BY DEF ToolkitInv, MemoryHeld, OwnersStand, NothingInUseIsFreed, ToSet
<1> QED BY <1>1, ToolkitHolds, PTL

\* Suspension and refused focus are invisible to the consumer: the screens it left
\* shown are the ones shown, with exactly the widgets it asked for.
THEOREM ScreensAreAsLeft == Spec => []ConsumerSeesItsScreens
<1>1. ToolkitInv => ConsumerSeesItsScreens
  BY DEF ToolkitInv, LooksRight, ConsumerSeesItsScreens
<1> QED BY <1>1, ToolkitHolds, PTL

-------------------------------------------------------------------------------
(* The Global MIDI Learn editor, for any number of launcher slots, targets, files,  *)
(* waiting closures, overlays and faults: its types, that a learned gesture and a   *)
(* draft land in the target and the file they were made for, and that learning ends *)
(* with its editor.                                                                 *)
(*                                                                                  *)
(* The editor never knows what the owner's queue holds; it only locks itself.  The  *)
(* invariant says what that is worth: an editor that is not locked has an owner     *)
(* that neither listens nor will, one that has asked to cancel is the last who      *)
(* asked, and a target that is chosen is the owner's.                               *)

DraftSet == [file : Files \cup {None}, target : Targets \cup {None}, dirty : BOOLEAN]
SlotSet == [orphaned : BOOLEAN, tile : BOOLEAN, open : BOOLEAN, closing : BOOLEAN,
            suspended : BOOLEAN, resume : BOOLEAN,
            learn : {"idle", "arming", "armed", "canceling", "unsettled"},
            intent : {"none", "arm", "cancel"}, waits : 0 .. WaitLimit,
            action : {"none", "import", "export"}, target : Targets \cup {None},
            draft : DraftSet, made : DraftSet, common : SUBSET Files]
NativeSet == [queue : Seq(BOOLEAN), mirrors : Seq(BOOLEAN), owner : BOOLEAN,
              mirror : BOOLEAN, target : Targets \cup {None}, file : Files]
ChooserSet == [slot : Slots, action : {"import", "export"}]

\* An edited draft is known to have been made for the file and target it is kept for.
MadeFor(i) == i.draft.dirty => i.made.file = i.draft.file /\ i.made.target = i.draft.target
SlotOK(i) == i \in SlotSet /\ MadeFor(i) /\ (i.closing \/ i.suspended => i.open)

\* The owner listens or will; the owner listens when every closure has run.
OwnerListens(n) == n.owner \/ Contains(n.queue, TRUE)
Will(n) == IF n.queue = <<>> THEN n.owner ELSE Last(n.queue)

\* What an open editor that belongs to the overlay is worth.
Editor(i, n) ==
  i.open => /\ ~Locked(i) => ~OwnerListens(n)
            /\ i.intent = "cancel" => ~Will(n)
            /\ i.target # None => n.target = i.target

KindsOK ==
  /\ slot \in [Slots -> SlotSet] /\ \A s \in Slots : SlotOK(slot[s]) /\ slot[s].common \subseteq files
  /\ native \in NativeSet /\ native.file \in files /\ files \subseteq Files
  /\ overlay \in Slots \cup {None}
Choosing(c, q) == c # NoChooser => c \in ChooserSet /\ Busy(q[c.slot])
EditorOK == overlay # None => Editor(slot[overlay], native)
Lands == (OwnerListens(native) => native.target = asked) /\ misplaced = FALSE
LearnEnds == Will(native) => \E s \in Slots : slot[s].open
LearnInv == KindsOK /\ Choosing(chooser, slot) /\ EditorOK /\ Lands /\ LearnEnds

-----------------------------------------------------------------------------
\* The owner's queue.
LEMMA Appended ==
    ASSUME NEW n \in NativeSet, NEW b \in BOOLEAN, NEW m, m = [n EXCEPT !.queue = Append(@, b)]
    PROVE  /\ m \in NativeSet /\ m.owner = n.owner /\ m.target = n.target /\ m.file = n.file
           /\ m.mirror = n.mirror
           /\ Will(m) = b /\ (OwnerListens(m) <=> OwnerListens(n) \/ b)
<1> DEFINE q == Append(n.queue, b)
<1>1. n.queue \in Seq(BOOLEAN) /\ Len(n.queue) \in Nat
  BY DEF NativeSet
<1>2. /\ q \in Seq(BOOLEAN) /\ Len(q) = Len(n.queue) + 1 /\ q[Len(n.queue) + 1] = b
      /\ \A i \in 1 .. Len(n.queue) : q[i] = n.queue[i]
  BY <1>1, AppendProperties
<1>3. q # <<>> /\ Last(q) = b
  <2> HIDE DEF q
  <2>1. Len(q) # 0 /\ q[Len(q)] = b
    BY <1>1, <1>2
  <2> QED
    BY <1>2, <2>1, EmptySeq DEF Last
<1>4. Contains(q, TRUE) <=> Contains(n.queue, TRUE) \/ b = TRUE
  <2>1. \A i \in 1 .. Len(q) : i \in 1 .. Len(n.queue) \/ i = Len(n.queue) + 1
    BY <1>1, <1>2
  <2>2. \A i \in 1 .. Len(n.queue) : i \in 1 .. Len(q)
    BY <1>1, <1>2
  <2>3. Len(n.queue) + 1 \in 1 .. Len(q)
    BY <1>1, <1>2
  <2> QED
    BY <1>2, <2>1, <2>2, <2>3 DEF Contains
<1> HIDE DEF q
<1>5. /\ m.queue = q /\ m \in NativeSet /\ m.owner = n.owner /\ m.target = n.target
      /\ m.file = n.file /\ m.mirror = n.mirror
  BY <1>2 DEF NativeSet, q
<1> QED
  BY <1>3, <1>4, <1>5 DEF Will, OwnerListens

LEMMA Taken ==
    ASSUME NEW n \in NativeSet, n.queue # <<>>
    PROVE  /\ Head(n.queue) \in BOOLEAN /\ Tail(n.queue) \in Seq(BOOLEAN)
           /\ Head(n.queue) \/ Contains(Tail(n.queue), TRUE) => Contains(n.queue, TRUE)
           /\ (IF Tail(n.queue) = <<>> THEN Head(n.queue) ELSE Last(Tail(n.queue))) = Last(n.queue)
<1> DEFINE q == n.queue
           t == Tail(q)
<1>1. q \in Seq(BOOLEAN) /\ q # <<>>
  BY DEF NativeSet
<1> HIDE DEF q
<1>2. /\ Head(q) \in BOOLEAN /\ t \in Seq(BOOLEAN) /\ Len(t) = Len(q) - 1 /\ Len(q) \in Nat
      /\ Len(q) >= 1 /\ Head(q) = q[1] /\ \A i \in 1 .. Len(t) : t[i] = q[i + 1]
  BY <1>1, HeadTailProperties, LenProperties, EmptySeq
<1> HIDE DEF t
<1>3. Head(q) \/ Contains(t, TRUE) => Contains(q, TRUE)
  <2>1. \A i \in 1 .. Len(t) : i + 1 \in 1 .. Len(q)
    BY <1>2
  <2>2. 1 \in 1 .. Len(q)
    BY <1>2
  <2> QED
    BY <1>2, <2>1, <2>2 DEF Contains
<1>4. (IF t = <<>> THEN Head(q) ELSE Last(t)) = Last(q)
  <2>1. CASE t = <<>>
    <3>1. Len(q) = 1
      BY <1>2, <2>1
    <3> QED
      BY <1>2, <2>1, <3>1 DEF Last
  <2>2. CASE t # <<>>
    <3>1. Len(t) \in Nat /\ Len(t) # 0
      BY <1>2, <2>2, EmptySeq, LenProperties
    <3>2. Len(t) \in 1 .. Len(t) /\ Len(t) + 1 = Len(q)
      BY <1>2, <3>1
    <3>3. t[Len(t)] = q[Len(q)]
      BY <1>2, <3>2
    <3> QED
      BY <2>2, <3>3 DEF Last
  <2> QED
    BY <2>1, <2>2
<1> QED
  BY <1>2, <1>3, <1>4 DEF q, t

LEMMA NothingWaits ==
    ASSUME NEW n \in NativeSet, n.queue = <<>>
    PROVE  Will(n) = n.owner /\ (OwnerListens(n) <=> n.owner)
BY DEF Will, OwnerListens, Contains

\* What the owner will do does not depend on the file, nor on the target.
LEMMA SameEars ==
    ASSUME NEW n, NEW m, m.queue = n.queue, m.owner = n.owner
    PROVE  (OwnerListens(m) <=> OwnerListens(n)) /\ Will(m) = Will(n)
BY DEF OwnerListens, Will
LEMMA SameEditor ==
    ASSUME NEW n, NEW m, NEW i, m.queue = n.queue, m.owner = n.owner, m.target = n.target,
           Editor(i, n)
    PROVE  Editor(i, m)
BY SameEars DEF Editor

-----------------------------------------------------------------------------
\* The editor's own functions.  Alike: what none of them touches.
Alike(i, j) ==
  /\ j.orphaned = i.orphaned /\ j.tile = i.tile /\ j.open = i.open /\ j.closing = i.closing
  /\ j.suspended = i.suspended /\ j.resume = i.resume /\ j.action = i.action
  /\ j.target = i.target /\ j.common = i.common
Heard(i, j) == /\ ~Locked(j) => ~OwnerListens(native)
               /\ j.intent = "cancel" => i.intent = "cancel"

LEMMA Limits == WaitLimit \in Nat /\ WaitLimit >= 1 /\ 0 \in 0 .. WaitLimit /\ 1 \in 0 .. WaitLimit
                /\ WaitLimit \in 0 .. WaitLimit /\ None \notin Slots
BY LearnAssumption
LEMMA NoDraftOK == NoDraft \in DraftSet
BY DEF NoDraft, DraftSet

LEMMA SettleOK ==
    ASSUME native \in NativeSet, NEW i \in SlotSet
    PROVE  /\ Settle(i) \in SlotSet /\ Alike(i, Settle(i)) /\ Heard(i, Settle(i))
           /\ Settle(i).draft = i.draft /\ Settle(i).made = i.made
<1> DEFINE l == IF native.owner THEN "armed" ELSE "idle"
           zero == 0
           next == i.waits + 1
           follow == [i EXCEPT !.learn = l, !.waits = zero]
           done == [i EXCEPT !.learn = l, !.waits = zero, !.intent = "none"]
           lost == [i EXCEPT !.learn = "unsettled", !.intent = "none", !.waits = WaitLimit]
           wait == [i EXCEPT !.waits = next]
           stray == [i EXCEPT !.learn = "unsettled"]
           j == Settle(i)
<1>1. zero \in 0 .. WaitLimit /\ WaitLimit \in 0 .. WaitLimit
      /\ (~(next >= WaitLimit) => next \in 0 .. WaitLimit)
  BY Limits DEF SlotSet
<1>2. \/ (j = follow /\ i.intent = "none" /\ Quiet)
      \/ (j = done /\ Quiet)
      \/ j = lost
      \/ (j = wait /\ i.intent # "none" /\ ~(next >= WaitLimit))
      \/ j = stray
      \/ (j = i /\ i.learn # "idle")
  <2>1. Follow(i) = follow
    BY DEF Follow
  <2>2. [Follow(i) EXCEPT !.intent = "none"] = done
    BY <2>1
  <2>3. [i EXCEPT !.waits = @ + 1] = wait
    BY DEF SlotSet
  <2> HIDE DEF follow, done, lost, wait, stray, next
  <2>4. next = i.waits + 1
    BY DEF next
  <2>5. lost = [i EXCEPT !.learn = "unsettled", !.intent = "none", !.waits = WaitLimit]
        /\ stray = [i EXCEPT !.learn = "unsettled"]
    BY DEF lost, stray
  <2> QED
    BY <2>1, <2>2, <2>3, <2>4, <2>5 DEF Settle
<1>3. l \in {"armed", "idle"} /\ (l = "idle" => ~native.owner)
  OBVIOUS
<1>4. Quiet => (OwnerListens(native) <=> native.owner)
  BY NothingWaits DEF Quiet
<1> HIDE DEF l, zero, next, j
<1>5. CASE j = follow /\ i.intent = "none" /\ Quiet
  <2>1. /\ follow \in SlotSet /\ Alike(i, follow) /\ follow.draft = i.draft
        /\ follow.made = i.made /\ follow.learn = l /\ follow.intent = i.intent
    BY <1>1, <1>3 DEF SlotSet, Alike
  <2> HIDE DEF follow
  <2> QED
    BY <1>3, <1>4, <1>5, <2>1 DEF j, Heard, Locked
<1>6. CASE j = done /\ Quiet
  <2>1. /\ done \in SlotSet /\ Alike(i, done) /\ done.draft = i.draft
        /\ done.made = i.made /\ done.learn = l /\ done.intent = "none"
    BY <1>1, <1>3 DEF SlotSet, Alike
  <2> HIDE DEF done
  <2> QED
    BY <1>3, <1>4, <1>6, <2>1 DEF j, Heard, Locked
<1>7. CASE j = lost
  <2>1. /\ lost \in SlotSet /\ Alike(i, lost) /\ lost.draft = i.draft
        /\ lost.made = i.made /\ lost.learn = "unsettled" /\ lost.intent = "none"
    BY <1>1 DEF SlotSet, Alike
  <2> HIDE DEF lost
  <2> QED
    BY <1>7, <2>1 DEF j, Heard, Locked
<1>8. CASE j = wait /\ i.intent # "none" /\ ~(next >= WaitLimit)
  <2>1. /\ wait \in SlotSet /\ Alike(i, wait) /\ wait.draft = i.draft
        /\ wait.made = i.made /\ wait.intent = i.intent
    BY <1>1, <1>8 DEF SlotSet, Alike
  <2> HIDE DEF wait
  <2> QED
    BY <1>8, <2>1 DEF j, Heard, Locked
<1>9. CASE j = stray
  <2>1. /\ stray \in SlotSet /\ Alike(i, stray) /\ stray.draft = i.draft
        /\ stray.made = i.made /\ stray.learn = "unsettled" /\ stray.intent = i.intent
    BY DEF SlotSet, Alike
  <2> HIDE DEF stray
  <2> QED
    BY <1>9, <2>1 DEF j, Heard, Locked
<1>10. CASE j = i /\ i.learn # "idle"
  BY <1>10 DEF j, Heard, Locked, Alike
<1> QED
  BY <1>2, <1>5, <1>6, <1>7, <1>8, <1>9, <1>10

LEMMA ShowsOK ==
    ASSUME NEW i \in SlotSet, MadeFor(i), NEW f \in Files
    PROVE  /\ Shows(i, f) \in SlotSet /\ MadeFor(Shows(i, f)) /\ Alike(i, Shows(i, f))
           /\ Shows(i, f).learn = i.learn /\ Shows(i, f).intent = i.intent
           /\ Shows(i, f).waits = i.waits
<1> DEFINE dirty == i.draft.file = f /\ i.draft.target = i.target /\ i.draft.dirty
           d == [file |-> f, target |-> i.target, dirty |-> dirty]
           m == IF dirty THEN i.made ELSE NoDraft
           j == [i EXCEPT !.draft = d, !.made = m]
<1>1. i.draft \in DraftSet /\ i.made \in DraftSet /\ i.target \in Targets \cup {None}
  BY DEF SlotSet
<1>2. dirty \in BOOLEAN
  BY <1>1 DEF DraftSet
<1>3. dirty => i.made.file = f /\ i.made.target = i.target
  BY DEF MadeFor
<1>4. Shows(i, f) = j
  BY DEF Shows, Keeps, SlotSet
<1>5. m \in DraftSet /\ (dirty => m = i.made)
  BY <1>1, NoDraftOK
<1> HIDE DEF dirty, m
<1>6. d \in DraftSet /\ d.file = f /\ d.target = i.target /\ d.dirty = dirty
  BY <1>1, <1>2 DEF DraftSet
<1> HIDE DEF d
<1>7. /\ j \in SlotSet /\ j.draft = d /\ j.made = m /\ Alike(i, j) /\ j.learn = i.learn
      /\ j.intent = i.intent /\ j.waits = i.waits
  BY <1>5, <1>6 DEF SlotSet, Alike
<1> HIDE DEF j
<1>8. MadeFor(j)
  BY <1>3, <1>5, <1>6, <1>7 DEF MadeFor
<1> QED
  BY <1>4, <1>7, <1>8

LEMMA RedrawnOK ==
    ASSUME native \in NativeSet, NEW i, SlotOK(i), NEW f \in Files
    PROVE  SlotOK(Redrawn(i, f)) /\ Alike(i, Redrawn(i, f)) /\ Heard(i, Redrawn(i, f))
<1> DEFINE j == Settle(i)
           k == Shows(j, f)
<1>1. i \in SlotSet /\ MadeFor(i) /\ (i.closing \/ i.suspended => i.open)
  BY DEF SlotOK
<1>2. j \in SlotSet /\ Alike(i, j) /\ Heard(i, j) /\ j.draft = i.draft /\ j.made = i.made
  BY <1>1, SettleOK
<1> HIDE DEF j
<1>3. MadeFor(j)
  BY <1>1, <1>2 DEF MadeFor
<1>4. k \in SlotSet /\ MadeFor(k) /\ Alike(j, k) /\ k.learn = j.learn /\ k.intent = j.intent
  BY <1>2, <1>3, ShowsOK
<1>5. Redrawn(i, f) = k
  BY DEF Redrawn, j
<1> HIDE DEF k
<1> QED
  BY <1>1, <1>2, <1>4, <1>5 DEF SlotOK, Alike, Heard, Locked

\* A redrawn editor is worth no less, whatever it was redrawn from.
LEMMA StaysEditor ==
    ASSUME NEW i, NEW j, Alike(i, j), Heard(i, j), Editor(i, native)
    PROVE  Editor(j, native)
BY DEF Alike, Heard, Editor

-----------------------------------------------------------------------------
\* What a callback for one slot has to leave behind.
NativeOK(n, fs) == n \in NativeSet /\ n.file \in fs
Chooses(c, d, s, j) == \/ d = NoChooser
                       \/ d = c /\ (c.slot = s => Busy(j))
                       \/ d \in ChooserSet /\ d.slot = s /\ Busy(j)
LEMMA SlotMoves ==
    ASSUME LearnInv, NEW s \in Slots, NEW j, SlotOK(j), j.common \subseteq files',
           slot' = [slot EXCEPT ![s] = j], NativeOK(native', files'),
           files \subseteq files', files' \subseteq Files,
           overlay' \in Slots \cup {None},
           overlay' = s => Editor(j, native'),
           overlay' \notin {s, None} =>
               /\ overlay' = overlay /\ native'.queue = native.queue
               /\ native'.owner = native.owner /\ native'.target = native.target,
           Chooses(chooser, chooser', s, j),
           OwnerListens(native') => native'.target = asked', misplaced' = FALSE,
           Will(native') => j.open \/ (Will(native) /\ ~slot[s].open)
    PROVE  LearnInv'
<1>1. /\ slot \in [Slots -> SlotSet] /\ j \in SlotSet /\ slot' \in [Slots -> SlotSet]
      /\ slot'[s] = j /\ \A t \in Slots : t # s => slot'[t] = slot[t]
  BY DEF LearnInv, KindsOK, SlotOK
<1>2. KindsOK'
  <2>1. \A t \in Slots : SlotOK(slot'[t]) /\ slot'[t].common \subseteq files'
    BY <1>1 DEF LearnInv, KindsOK
  <2> QED
    BY <1>1, <2>1 DEF KindsOK, NativeOK
<1>3. Choosing(chooser', slot')
  <2>1. CASE chooser' = NoChooser
    BY <2>1 DEF Choosing
  <2>2. CASE chooser' = chooser /\ chooser # NoChooser
    <3>1. chooser \in ChooserSet /\ Busy(slot[chooser.slot]) /\ chooser.slot \in Slots
      BY <2>2 DEF LearnInv, Choosing, ChooserSet
    <3>2. chooser.slot = s => Busy(j)
      BY <2>2, <3>1 DEF Chooses
    <3> QED
      BY <1>1, <2>2, <3>1, <3>2 DEF Choosing
  <2>3. CASE chooser' \in ChooserSet /\ chooser'.slot = s /\ Busy(j)
    BY <1>1, <2>3 DEF Choosing
  <2> QED
    BY <2>1, <2>2, <2>3 DEF Chooses
<1>4. EditorOK'
  <2>1. CASE overlay' = s
    BY <1>1, <2>1 DEF EditorOK
  <2>2. CASE overlay' \notin {s, None}
    <3>1. Editor(slot[overlay'], native) /\ slot'[overlay'] = slot[overlay']
      BY <1>1, <2>2 DEF LearnInv, EditorOK
    <3>2. Editor(slot[overlay'], native')
      BY <2>2, <3>1, SameEditor
    <3> QED
      BY <3>1, <3>2 DEF EditorOK
  <2> QED
    BY <2>1, <2>2 DEF EditorOK
<1>5. LearnEnds'
  <2>1. CASE j.open
    BY <1>1, <2>1 DEF LearnEnds
  <2>2. CASE Will(native) /\ ~slot[s].open
    <3>1. PICK t \in Slots : slot[t].open
      BY <2>2 DEF LearnInv, LearnEnds
    <3>2. slot'[t] = slot[t]
      BY <1>1, <2>2, <3>1
    <3> QED
      BY <3>1, <3>2 DEF LearnEnds
  <2> QED
    BY <2>1, <2>2 DEF LearnEnds
<1> QED
  BY <1>2, <1>3, <1>4, <1>5 DEF LearnInv, Lands

\* The same of a step that leaves every slot alone.
LEMMA SlotsStay ==
    ASSUME LearnInv, slot' = slot, overlay' = overlay, files' = files, chooser' = chooser,
           misplaced' = misplaced, asked' = asked, NativeOK(native', files),
           native'.target = native.target,
           OwnerListens(native') => OwnerListens(native), Will(native') = Will(native)
    PROVE  LearnInv'
<1>1. KindsOK' /\ Choosing(chooser', slot')
  BY DEF LearnInv, KindsOK, NativeOK
<1>2. overlay # None => Editor(slot[overlay], native')
  BY DEF LearnInv, EditorOK, Editor
<1>3. EditorOK'
  BY <1>2 DEF EditorOK
<1> QED
  BY <1>1, <1>3 DEF LearnInv, Lands, LearnEnds

LEMMA OwnerRunsOK == ASSUME LearnInv, OwnerRuns PROVE LearnInv'
<1> DEFINE q == native.queue
           ms == IF native.owner = Head(q) THEN native.mirrors ELSE Append(native.mirrors, Head(q))
<1>1. native \in NativeSet /\ native.file \in files /\ q # <<>>
  BY DEF LearnInv, KindsOK, OwnerRuns
<1>2. /\ Head(q) \in BOOLEAN /\ Tail(q) \in Seq(BOOLEAN)
      /\ (Head(q) \/ Contains(Tail(q), TRUE) => Contains(q, TRUE))
      /\ (IF Tail(q) = <<>> THEN Head(q) ELSE Last(Tail(q))) = Last(q)
  BY <1>1, Taken
<1>3. ms \in Seq(BOOLEAN)
  BY <1>1, <1>2, AppendProperties DEF NativeSet
<1>4. native' = [native EXCEPT !.queue = Tail(q), !.owner = Head(q), !.mirrors = ms]
  BY DEF OwnerRuns
<1> HIDE DEF ms
<1>5. /\ native' \in NativeSet /\ native'.file = native.file /\ native'.target = native.target
      /\ native'.queue = Tail(q) /\ native'.owner = Head(q)
  BY <1>1, <1>2, <1>3, <1>4 DEF NativeSet
<1>6. OwnerListens(native') => OwnerListens(native)
  BY <1>2, <1>5 DEF OwnerListens
<1>7. Will(native') = Will(native)
  BY <1>1, <1>2, <1>5 DEF Will
<1> QED
  BY <1>1, <1>5, <1>6, <1>7, SlotsStay DEF OwnerRuns, NativeOK

LEMMA MirrorRunsOK == ASSUME LearnInv, MirrorRuns PROVE LearnInv'
<1>1. native \in NativeSet /\ native.file \in files /\ native.mirrors # <<>>
  BY DEF LearnInv, KindsOK, MirrorRuns
<1>2. Head(native.mirrors) \in BOOLEAN /\ Tail(native.mirrors) \in Seq(BOOLEAN)
  BY <1>1, HeadTailProperties DEF NativeSet
<1>3. /\ native' \in NativeSet /\ native'.file = native.file /\ native'.target = native.target
      /\ native'.queue = native.queue /\ native'.owner = native.owner
  BY <1>1, <1>2 DEF NativeSet, MirrorRuns
<1> QED
  BY <1>1, <1>3, SameEars, SlotsStay DEF MirrorRuns, NativeOK

LEMMA StockSelectsFileOK ==
    ASSUME LearnInv, NEW f \in Files, StockSelectsFile(f)
    PROVE  LearnInv'
<1>1. native \in NativeSet /\ f \in files
  BY DEF LearnInv, KindsOK, StockSelectsFile
<1>2. /\ native' \in NativeSet /\ native'.file = f /\ native'.target = native.target
      /\ native'.queue = native.queue /\ native'.owner = native.owner
  BY <1>1 DEF NativeSet, StockSelectsFile
<1> QED
  BY <1>1, <1>2, SameEars, SlotsStay DEF StockSelectsFile, NativeOK

-----------------------------------------------------------------------------
\* What a callback finds.
LEMMA Found ==
    ASSUME LearnInv, NEW s \in Slots
    PROVE  /\ SlotOK(slot[s]) /\ slot[s].common \subseteq files /\ slot[s] \in SlotSet
           /\ overlay = s => Editor(slot[s], native)
           /\ NativeOK(native, files) /\ native \in NativeSet /\ native.file \in Files
           /\ files \subseteq Files /\ misplaced = FALSE /\ overlay \in Slots \cup {None}
           /\ OwnerListens(native) => native.target = asked
           /\ s # None
BY Limits DEF LearnInv, KindsOK, EditorOK, Lands, NativeOK, SlotOK

\* The callback that ends in a refresh of the open editor.
LEMMA Redraws ==
    ASSUME LearnInv, NEW s \in Slots, overlay' = overlay, overlay \in {s} \/ overlay # s,
           NEW i, SlotOK(i), i.common \subseteq files', i.open,
           overlay = s => (i.intent = "cancel" => ~Will(native)),
           overlay = s => (i.target # None => native'.target = i.target),
           overlay # s => native'.target = native.target,
           NEW f \in Files, slot' = [slot EXCEPT ![s] = Redrawn(i, f)],
           NativeOK(native', files'), native'.queue = native.queue, native'.owner = native.owner,
           files \subseteq files', files' \subseteq Files, Chooses(chooser, chooser', s, i),
           OwnerListens(native) => native'.target = asked', misplaced' = FALSE
    PROVE  LearnInv'
<1> DEFINE j == Redrawn(i, f)
<1>1. SlotOK(j) /\ Alike(i, j) /\ Heard(i, j)
  BY Found, RedrawnOK
<1>2. (OwnerListens(native') <=> OwnerListens(native)) /\ Will(native') = Will(native)
  BY SameEars
<1> HIDE DEF j
<1>3. j.open /\ j.common \subseteq files' /\ j.target = i.target /\ (Busy(i) => Busy(j))
  BY <1>1 DEF Alike, Busy
<1>4. overlay' = s => Editor(j, native')
  BY <1>1, <1>2, <1>3 DEF Heard, Editor
<1>5. Chooses(chooser, chooser', s, j)
  BY <1>3 DEF Chooses
<1>6. slot' = [slot EXCEPT ![s] = j]
  BY DEF j
<1>7. overlay' \in Slots \cup {None}
  BY Found
<1>8. overlay' \notin {s, None} =>
        /\ overlay' = overlay /\ native'.queue = native.queue
        /\ native'.owner = native.owner /\ native'.target = native.target
  OBVIOUS
<1> QED
  BY <1>1, <1>2, <1>3, <1>4, <1>5, <1>6, <1>7, <1>8, SlotMoves

\* The callback that asks the owner, and then only redraws.
LEMMA AfterRequestOK ==
    ASSUME NEW i, SlotOK(i), NEW on \in BOOLEAN, native.file \in Files
    PROVE  /\ SlotOK(AfterRequest(i, on)) /\ Alike(i, AfterRequest(i, on))
           /\ AfterRequest(i, on).intent = IF on THEN "arm" ELSE "cancel"
<1> DEFINE intent == IF on THEN "arm" ELSE "cancel"
           learn == IF on THEN "arming" ELSE "canceling"
           one == 1
           r == [i EXCEPT !.intent = intent, !.learn = learn, !.waits = one]
<1>1. i \in SlotSet /\ MadeFor(i) /\ (i.closing \/ i.suspended => i.open)
  BY DEF SlotOK
<1>2. [Requested(i, on) EXCEPT !.waits = 1] = r
  BY <1>1 DEF Requested, SlotSet
<1>3. one \in 0 .. WaitLimit /\ intent \in {"arm", "cancel"} /\ learn \in {"arming", "canceling"}
  BY Limits
<1> HIDE DEF intent, learn, one
<1>4. /\ r \in SlotSet /\ Alike(i, r) /\ r.intent = intent /\ r.draft = i.draft /\ r.made = i.made
  BY <1>1, <1>3 DEF SlotSet, Alike
<1> HIDE DEF r
<1>5. MadeFor(r)
  BY <1>1, <1>4 DEF MadeFor
<1> DEFINE j == Shows(r, native.file)
<1>6. j \in SlotSet /\ MadeFor(j) /\ Alike(r, j) /\ j.intent = r.intent
  BY <1>4, <1>5, ShowsOK
<1>7. AfterRequest(i, on) = j
  BY <1>2 DEF AfterRequest
<1> HIDE DEF j
<1>8. SlotOK(j) /\ Alike(i, j)
  BY <1>1, <1>4, <1>6 DEF SlotOK, Alike
<1> QED
  BY <1>4, <1>6, <1>7, <1>8 DEF intent

LEMMA Asking ==
    ASSUME LearnInv, NEW s \in Slots, overlay = s, overlay' = overlay, files' = files,
           chooser' = chooser, misplaced' = misplaced, NEW on \in BOOLEAN, Queue(on),
           NEW i, SlotOK(i), i.open, i.common \subseteq files, i.action = slot[s].action,
           i.target = slot[s].target, slot[s].open, slot' = [slot EXCEPT ![s] = AfterRequest(i, on)],
           OwnerListens(native) \/ on => native.target = asked'
    PROVE  LearnInv'
<1> DEFINE j == AfterRequest(i, on)
<1>1. NativeOK(native, files) /\ native \in NativeSet /\ native.file \in Files
      /\ Editor(slot[s], native) /\ s # None /\ misplaced = FALSE
  BY Found
<1>2. SlotOK(j) /\ Alike(i, j) /\ j.intent = IF on THEN "arm" ELSE "cancel"
  BY <1>1, AfterRequestOK
<1>3. /\ native' \in NativeSet /\ native'.target = native.target /\ native'.file = native.file
      /\ Will(native') = on /\ (OwnerListens(native') <=> OwnerListens(native) \/ on)
  BY <1>1, Appended DEF Queue
<1> HIDE DEF j
<1>4. j.open /\ j.common \subseteq files /\ j.target = slot[s].target /\ j.action = slot[s].action
      /\ Locked(j)
  BY <1>2 DEF Alike, Locked
<1>5. Editor(j, native')
  BY <1>1, <1>2, <1>3, <1>4 DEF Editor
<1>6. Chooses(chooser, chooser', s, j)
  BY <1>1, <1>4 DEF Chooses, LearnInv, Choosing, Busy
<1>7. slot' = [slot EXCEPT ![s] = j] /\ NativeOK(native', files')
  BY <1>1, <1>3 DEF j, NativeOK
<1>8. files' \subseteq Files /\ files \subseteq files' /\ overlay' \in Slots \cup {None}
  BY Found
<1> QED
  BY <1>1, <1>2, <1>3, <1>4, <1>5, <1>6, <1>7, <1>8, SlotMoves

\* Preparing to close: what is ready leaves an owner that will not listen.
LEMMA PreparedOK ==
    ASSUME LearnInv, NEW i, SlotOK(i), i.open, Editor(i, native), NEW forced \in BOOLEAN,
           NEW p, p = PrepareClose(i, forced), CancelIf(p)
    PROVE  /\ SlotOK(p.i) /\ Alike(i, p.i) /\ Editor(p.i, native')
           /\ NativeOK(native', files) /\ native'.target = native.target
           /\ OwnerListens(native') => OwnerListens(native)
           /\ Will(native') => Will(native)
           /\ p.answer = "ready" => ~Will(native') /\ ~Busy(i)
           /\ p.answer \in {"ready", "failed", "pending"}
           /\ forced => p.answer # "pending"
<1> DEFINE j == Settle(i)
           k == IF j.intent = "cancel" THEN j ELSE Requested(j, FALSE)
           c == j.intent # "cancel"
<1>1. /\ native \in NativeSet /\ native.file \in files /\ i \in SlotSet /\ MadeFor(i)
      /\ (i.closing \/ i.suspended => i.open) /\ NativeOK(native, files)
  BY DEF LearnInv, KindsOK, SlotOK, NativeOK
<1>2. j \in SlotSet /\ Alike(i, j) /\ Heard(i, j) /\ j.draft = i.draft /\ j.made = i.made
  BY <1>1, SettleOK
<1> HIDE DEF j
<1>3. SlotOK(j) /\ Editor(j, native)
  BY <1>1, <1>2, StaysEditor DEF SlotOK, MadeFor, Alike
<1>4. SlotOK(k) /\ Alike(i, k) /\ k.intent = "cancel"
  <2> DEFINE zero == 0
             r == [j EXCEPT !.intent = "cancel", !.learn = "canceling", !.waits = zero]
  <2>1. Requested(j, FALSE) = r
    BY DEF Requested
  <2>2. zero \in 0 .. WaitLimit
    BY Limits
  <2> HIDE DEF zero
  <2>3. r \in SlotSet /\ Alike(i, r) /\ r.intent = "cancel" /\ r.draft = j.draft /\ r.made = j.made
        /\ r.closing = j.closing /\ r.suspended = j.suspended /\ r.open = j.open
    BY <1>2, <2>2 DEF SlotSet, Alike
  <2> HIDE DEF r
  <2>4. SlotOK(r)
    BY <1>3, <2>3 DEF SlotOK, MadeFor
  <2> QED
    BY <1>2, <1>3, <2>1, <2>3, <2>4
<1> HIDE DEF k
<1>5. \/ (p = Prepared("failed", i, FALSE) /\ Busy(i))
      \/ (p = Prepared("ready", j, FALSE) /\ Quiet /\ ~native.owner /\ ~Busy(i))
      \/ p = Prepared("failed", j, FALSE)
      \/ (p = Prepared(IF forced THEN "ready" ELSE "pending", k, c) /\ ~Busy(i))
  BY DEF PrepareClose, j, k, c
<1>6. CASE p = Prepared("failed", i, FALSE) /\ Busy(i)
  <2>1. p.answer = "failed" /\ p.i = i /\ native' = native
    BY <1>6 DEF Prepared, CancelIf
  <2>2. Alike(i, i)
    BY DEF Alike
  <2> QED
    BY <1>1, <2>1, <2>2
<1>7. CASE p = Prepared("ready", j, FALSE) /\ Quiet /\ ~native.owner /\ ~Busy(i)
  <2>1. p.answer = "ready" /\ p.i = j /\ native' = native
    BY <1>7 DEF Prepared, CancelIf
  <2>2. ~Will(native)
    BY <1>1, <1>7, NothingWaits DEF Quiet
  <2> QED
    BY <1>1, <1>2, <1>3, <1>7, <2>1, <2>2
<1>8. CASE p = Prepared("failed", j, FALSE)
  <2>1. p.answer = "failed" /\ p.i = j /\ native' = native
    BY <1>8 DEF Prepared, CancelIf
  <2> QED
    BY <1>1, <1>2, <1>3, <2>1
<1>9. CASE p = Prepared(IF forced THEN "ready" ELSE "pending", k, c) /\ ~Busy(i)
  <2>1. p.answer = (IF forced THEN "ready" ELSE "pending") /\ p.i = k /\ p.cancels = c
    BY <1>9 DEF Prepared
  <2>2. CASE c
    <3>1. native' = [native EXCEPT !.queue = Append(@, FALSE)]
      BY <2>1, <2>2 DEF CancelIf, Queue
    <3>2. /\ native' \in NativeSet /\ native'.target = native.target /\ native'.file = native.file
          /\ Will(native') = FALSE /\ (OwnerListens(native') <=> OwnerListens(native))
      <4> DEFINE b == FALSE
      <4>1. b \in BOOLEAN /\ native' = [native EXCEPT !.queue = Append(@, b)]
        BY <3>1
      <4> HIDE DEF b
      <4>2. /\ native' \in NativeSet /\ native'.target = native.target
            /\ native'.file = native.file
            /\ Will(native') = b /\ (OwnerListens(native') <=> OwnerListens(native) \/ b)
        BY <1>1, <4>1, Appended
      <4> QED
        BY <4>2 DEF b
    <3>3. Editor(k, native')
      BY <1>4, <3>2 DEF Editor, Locked, Alike
    <3> QED
      BY <1>1, <1>4, <1>9, <2>1, <3>2, <3>3 DEF NativeOK
  <2>3. CASE ~c
    <3>1. native' = native /\ k = j /\ j.intent = "cancel"
      BY <2>1, <2>3 DEF CancelIf, k
    <3>2. ~Will(native)
      BY <1>2, <1>3, <3>1 DEF Editor, Alike
    <3> QED
      BY <1>1, <1>2, <1>3, <1>9, <2>1, <3>1, <3>2
  <2> QED
    BY <2>2, <2>3
<1> QED
  BY <1>5, <1>6, <1>7, <1>8, <1>9

-----------------------------------------------------------------------------
\* The overlay and the tile.
LEMMA BindOK == ASSUME LearnInv, NEW s \in Slots, Bind(s) PROVE LearnInv'
<1> DEFINE j == [slot[s] EXCEPT !.tile = TRUE]
<1>1. /\ SlotOK(slot[s]) /\ slot[s].common \subseteq files /\ slot[s] \in SlotSet
      /\ NativeOK(native, files) /\ files \subseteq Files /\ misplaced = FALSE /\ s # None
      /\ (OwnerListens(native) => native.target = asked)
  BY Found
<1>2. slot[s] = Free /\ overlay' = s
  BY DEF Bind
<1>3. slot[s].open = FALSE /\ slot[s].action = "none"
  BY <1>2 DEF Free
<1>4. slot' = [slot EXCEPT ![s] = j]
  BY DEF Bind
<1>5. /\ j \in SlotSet /\ j.open = slot[s].open /\ j.closing = slot[s].closing
      /\ j.suspended = slot[s].suspended /\ j.draft = slot[s].draft /\ j.made = slot[s].made
      /\ j.common = slot[s].common /\ j.action = slot[s].action
  BY <1>1 DEF SlotSet
<1> HIDE DEF j
<1>6. SlotOK(j) /\ Editor(j, native)
  BY <1>1, <1>3, <1>5 DEF SlotOK, MadeFor, Editor
<1>7. Chooses(chooser, chooser', s, j)
  BY <1>5 DEF Bind, Chooses, LearnInv, Choosing, Busy
<1>8. /\ native' = native /\ files' = files /\ asked' = asked /\ misplaced' = misplaced
  BY DEF Bind
<1> QED
  BY <1>1, <1>2, <1>3, <1>4, <1>5, <1>6, <1>7, <1>8, SlotMoves

LEMMA TapTileOK == ASSUME LearnInv, NEW s \in Slots, TapTile(s) PROVE LearnInv'
<1> DEFINE i == slot[s]
           r == Reset(i)
           o == [r EXCEPT !.open = TRUE]
           w == [i EXCEPT !.resume = TRUE]
<1>1. /\ SlotOK(i) /\ i.common \subseteq files /\ i \in SlotSet
      /\ NativeOK(native, files) /\ native.file \in Files /\ files \subseteq Files
      /\ misplaced = FALSE /\ (OwnerListens(native) => native.target = asked)
      /\ Editor(i, native) /\ s # None
  BY Found DEF TapTile
<1>2. /\ native' = native /\ files' = files /\ asked' = asked /\ misplaced' = misplaced
      /\ overlay' = overlay /\ overlay = s /\ chooser' = chooser /\ chooser.slot # s
  BY DEF TapTile, OnStack
<1>3. \A j : Chooses(chooser, chooser', s, j)
  BY <1>2 DEF Chooses
<1>4. ~i.open => /\ r \in SlotSet /\ o \in SlotSet /\ SlotOK(r) /\ SlotOK(o)
                 /\ r.open = FALSE /\ o.open = TRUE /\ o.target = None /\ o.intent = "none"
                 /\ r.common = i.common /\ o.common = i.common
  <2> DEFINE zero == 0
             d == NoDraft
             rr == [i EXCEPT !.target = None, !.learn = "idle", !.intent = "none",
                             !.waits = zero, !.action = "none", !.draft = d]
  <2>1. zero \in 0 .. WaitLimit /\ d \in DraftSet /\ d.dirty = FALSE
    BY Limits, NoDraftOK DEF NoDraft
  <2>2. r = rr
    BY DEF Reset
  <2> HIDE DEF zero, d
  <2>3. /\ rr \in SlotSet /\ rr.open = i.open /\ rr.closing = i.closing /\ rr.draft = d
        /\ rr.suspended = i.suspended /\ rr.common = i.common /\ rr.target = None
        /\ rr.intent = "none"
    BY <1>1, <2>1 DEF SlotSet
  <2> HIDE DEF rr, r
  <2>4. /\ o \in SlotSet /\ o.open = TRUE /\ o.closing = r.closing /\ o.draft = r.draft
        /\ o.suspended = r.suspended /\ o.common = r.common /\ o.target = r.target
        /\ o.intent = r.intent
    BY <2>2, <2>3 DEF SlotSet
  <2>5. i.open \in BOOLEAN
    BY <1>1 DEF SlotSet
  <2> HIDE DEF o
  <2> QED
    BY <1>1, <2>1, <2>2, <2>3, <2>4, <2>5 DEF SlotOK, MadeFor
<1>5. CASE ~i.open /\ slot' = [slot EXCEPT ![s] = Opened(i)]
  <2>1. Opened(i) = Redrawn(o, native.file)
    BY DEF Opened, Refresh
  <2> HIDE DEF o, r
  <2> QED
    BY <1>1, <1>2, <1>3, <1>4, <1>5, <2>1, Redraws
<1>6. CASE ~i.open /\ slot' = [slot EXCEPT ![s] = r]
  <2> HIDE DEF r, o
  <2>1. Editor(r, native)
    BY <1>4, <1>6 DEF Editor
  <2> QED
    BY <1>1, <1>2, <1>3, <1>4, <1>6, <2>1, SlotMoves
<1>7. CASE i.open /\ slot' = [slot EXCEPT ![s].resume = TRUE]
  <2>1. /\ w \in SlotSet /\ w.open = i.open /\ w.closing = i.closing /\ w.suspended = i.suspended
        /\ w.draft = i.draft /\ w.made = i.made /\ w.common = i.common /\ w.learn = i.learn
        /\ w.intent = i.intent /\ w.target = i.target
    BY <1>1 DEF SlotSet
  <2>2. slot' = [slot EXCEPT ![s] = w]
    BY <1>7
  <2> HIDE DEF w
  <2>3. SlotOK(w) /\ Editor(w, native)
    BY <1>1, <2>1 DEF SlotOK, MadeFor, Editor, Locked
  <2> QED
    BY <1>1, <1>2, <1>3, <1>7, <2>1, <2>2, <2>3, SlotMoves
<1> QED
  BY <1>5, <1>6, <1>7 DEF TapTile

LEMMA LayoutOK == ASSUME LearnInv, NEW s \in Slots, Layout(s) PROVE LearnInv'
<1> DEFINE i == slot[s]
           w == [i EXCEPT !.suspended = TRUE]
<1>1. /\ SlotOK(i) /\ i.common \subseteq files /\ i \in SlotSet
      /\ NativeOK(native, files) /\ files \subseteq Files
      /\ misplaced = FALSE /\ (OwnerListens(native) => native.target = asked)
      /\ Editor(i, native) /\ s # None
  BY Found DEF Layout
<1>2. /\ native' = native /\ files' = files /\ asked' = asked /\ misplaced' = misplaced
      /\ overlay' = overlay /\ overlay = s /\ chooser' = chooser /\ i.open
      /\ slot' = [slot EXCEPT ![s] = w]
  BY DEF Layout, SuspendSafe
<1>3. /\ w \in SlotSet /\ w.open = i.open /\ w.draft = i.draft /\ w.made = i.made
      /\ w.common = i.common /\ w.learn = i.learn /\ w.intent = i.intent /\ w.target = i.target
      /\ w.action = i.action
  BY <1>1 DEF SlotSet
<1> HIDE DEF w
<1>4. SlotOK(w) /\ Editor(w, native)
  BY <1>1, <1>2, <1>3 DEF SlotOK, MadeFor, Editor, Locked
<1>5. Chooses(chooser, chooser', s, w)
  BY <1>2, <1>3 DEF Chooses, LearnInv, Choosing, Busy
<1> QED
  BY <1>1, <1>2, <1>3, <1>4, <1>5, SlotMoves

-----------------------------------------------------------------------------
\* The drain, and the end of the overlay.
LEMMA RefreshOK ==
    ASSUME LearnInv, NEW i, SlotOK(i), Editor(i, native)
    PROVE  SlotOK(Refresh(i)) /\ Alike(i, Refresh(i)) /\ Editor(Refresh(i), native)
<1>1. native \in NativeSet /\ native.file \in Files
  BY DEF LearnInv, KindsOK
<1>2. /\ SlotOK(Redrawn(i, native.file)) /\ Alike(i, Redrawn(i, native.file))
      /\ Heard(i, Redrawn(i, native.file))
  BY <1>1, RedrawnOK
<1> QED
  BY <1>2, StaysEditor DEF Refresh

LEMMA PolledOK ==
    ASSUME LearnInv, NEW i, SlotOK(i), Editor(i, native), NEW glance \in BOOLEAN
    PROVE  SlotOK(Polled(i, glance)) /\ Alike(i, Polled(i, glance))
           /\ Editor(Polled(i, glance), native)
<1> DEFINE j == IF i.intent # "none" THEN Refresh(i) ELSE i
           k == Polled(i, glance)
<1>1. SlotOK(j) /\ Alike(i, j) /\ Editor(j, native)
  BY RefreshOK DEF Alike
<1>2. k = Refresh(j) \/ k = j
  BY DEF Polled
<1> HIDE DEF j, k
<1>3. SlotOK(k) /\ Alike(j, k) /\ Editor(k, native)
  BY <1>1, <1>2, RefreshOK DEF Alike
<1> QED
  BY <1>1, <1>3 DEF Alike, k

LEMMA TickOK == ASSUME LearnInv, NEW s \in Slots, Tick(s) PROVE LearnInv'
<1>0. PICK glance \in BOOLEAN :
        LET i == IF Busy(slot[s]) THEN slot[s] ELSE Polled(slot[s], glance)
            j == [i EXCEPT !.resume = FALSE,
                           !.suspended = @ /\ ~(i.resume /\ ~i.closing /\ ~OnStack(s))]
            p == PrepareClose(j, FALSE) IN
        IF ~j.closing \/ OnStack(s)
        THEN slot' = [slot EXCEPT ![s] = j] /\ UNCHANGED <<native, faults>>
        ELSE /\ CancelIf(p)
             /\ \/ p.answer = "ready" /\ slot' = [slot EXCEPT ![s] = Closed(p.i)] /\ UNCHANGED faults
                \/ p.answer = "ready" /\ Fault /\ slot' = [slot EXCEPT ![s] = p.i]
                \/ p.answer # "ready" /\ slot' = [slot EXCEPT ![s] = p.i] /\ UNCHANGED faults
  BY DEF Tick
<1> DEFINE i0 == slot[s]
           i == IF Busy(i0) THEN i0 ELSE Polled(i0, glance)
           sus == i.suspended /\ ~(i.resume /\ ~i.closing /\ ~OnStack(s))
           j == [i EXCEPT !.resume = FALSE, !.suspended = sus]
           forced == FALSE
           p == PrepareClose(j, forced)
<1>1. /\ SlotOK(i0) /\ i0.common \subseteq files /\ i0 \in SlotSet
      /\ NativeOK(native, files) /\ files \subseteq Files
      /\ misplaced = FALSE /\ (OwnerListens(native) => native.target = asked)
      /\ Editor(i0, native) /\ s # None
  BY Found DEF Tick
<1>2. /\ files' = files /\ asked' = asked /\ misplaced' = misplaced
      /\ overlay' = overlay /\ overlay = s /\ chooser' = chooser /\ i0.open
  BY DEF Tick
<1>3. SlotOK(i) /\ Alike(i0, i) /\ Editor(i, native)
  BY <1>1, PolledOK DEF Alike
<1>4. \/ slot' = [slot EXCEPT ![s] = j] /\ native' = native
      \/ /\ CancelIf(p) /\ ~OnStack(s)
         /\ \/ p.answer = "ready" /\ slot' = [slot EXCEPT ![s] = Closed(p.i)]
            \/ slot' = [slot EXCEPT ![s] = p.i]
  BY <1>0
<1>5. sus \in BOOLEAN /\ (sus => i.suspended)
  OBVIOUS
<1> HIDE DEF i, sus
<1>6. /\ j \in SlotSet /\ j.open = i.open /\ j.draft = i.draft /\ j.made = i.made
      /\ j.common = i.common /\ j.learn = i.learn /\ j.intent = i.intent /\ j.target = i.target
      /\ j.action = i.action /\ j.closing = i.closing /\ j.suspended = sus
  BY <1>3, <1>5 DEF SlotOK, SlotSet
<1> HIDE DEF j
<1>7. /\ SlotOK(j) /\ Editor(j, native) /\ j.open /\ j.common \subseteq files
      /\ j.action = i0.action
  BY <1>1, <1>2, <1>3, <1>5, <1>6 DEF SlotOK, MadeFor, Editor, Locked, Alike
<1>8. \A x : x.action = i0.action => Chooses(chooser, chooser', s, x)
  BY <1>2 DEF Chooses, LearnInv, Choosing, Busy
<1>9. CASE slot' = [slot EXCEPT ![s] = j] /\ native' = native
  BY <1>1, <1>2, <1>7, <1>8, <1>9, SlotMoves
<1>10. CASE CancelIf(p) /\ ~OnStack(s)
  <2> HIDE DEF i0
  <2>1. forced \in BOOLEAN /\ p = PrepareClose(j, forced)
    OBVIOUS
  <2> HIDE DEF p, forced
  <2>2. /\ SlotOK(p.i) /\ Alike(j, p.i) /\ Editor(p.i, native')
        /\ NativeOK(native', files) /\ native'.target = native.target
        /\ (OwnerListens(native') => OwnerListens(native))
        /\ (p.answer = "ready" => ~Will(native'))
    BY <1>7, <1>10, <2>1, PreparedOK
  <2>3. p.i.open /\ p.i.common \subseteq files /\ Chooses(chooser, chooser', s, p.i)
    BY <1>7, <1>8, <2>2 DEF Alike
  <2>4. CASE slot' = [slot EXCEPT ![s] = p.i]
    BY <1>1, <1>2, <2>2, <2>3, <2>4, SlotMoves
  <2>5. CASE p.answer = "ready" /\ slot' = [slot EXCEPT ![s] = Closed(p.i)]
    <3> DEFINE c == Closed(p.i)
    <3>1. /\ c \in SlotSet /\ c.open = FALSE /\ c.closing = FALSE /\ c.suspended = FALSE
          /\ c.common = p.i.common /\ c.draft = NoDraft
      <4>1. p.i.common \in SUBSET Files /\ NoDraft \in DraftSet /\ 0 \in 0 .. WaitLimit
        BY <2>2, NoDraftOK, Limits DEF SlotOK, SlotSet
      <4> QED
        BY <4>1 DEF Closed, Free, SlotSet
    <3> HIDE DEF c
    <3>2. SlotOK(c) /\ Editor(c, native')
      BY <3>1 DEF SlotOK, MadeFor, Editor, NoDraft
    <3>3. Chooses(chooser, chooser', s, c)
      BY <1>2, <1>10 DEF Chooses, OnStack
    <3>4. slot' = [slot EXCEPT ![s] = c] /\ ~Will(native') /\ c.common \subseteq files
      BY <2>2, <2>3, <2>5, <3>1 DEF c
    <3> QED
      BY <1>1, <1>2, <2>2, <3>2, <3>3, <3>4, SlotMoves
  <2> QED
    BY <1>4, <1>9, <1>10, <2>4, <2>5
<1> QED
  BY <1>4, <1>9, <1>10

LEMMA DestroyOverlayOK == ASSUME LearnInv, NEW s \in Slots, DestroyOverlay(s) PROVE LearnInv'
<1> DEFINE i == slot[s]
           forced == TRUE
           p == PrepareClose(i, forced)
<1>1. /\ SlotOK(i) /\ i.common \subseteq files /\ i \in SlotSet
      /\ NativeOK(native, files) /\ files \subseteq Files
      /\ misplaced = FALSE /\ (OwnerListens(native) => native.target = asked)
      /\ Editor(i, native) /\ s # None
  BY Found DEF DestroyOverlay
<1>2. /\ files' = files /\ asked' = asked /\ misplaced' = misplaced
      /\ overlay' = None /\ overlay = s /\ chooser' = chooser
  BY DEF DestroyOverlay
<1>3. \/ slot' = [slot EXCEPT ![s] = Orphan(i)] /\ native' = native
      \/ ~OnStack(s) /\ ~i.open /\ slot' = [slot EXCEPT ![s] = Free] /\ native' = native
      \/ /\ CancelIf(p) /\ ~OnStack(s) /\ i.open
         /\ \/ p.answer = "ready" /\ slot' = [slot EXCEPT ![s] = Free]
            \/ slot' = [slot EXCEPT ![s] = Orphan(p.i)]
  BY DEF DestroyOverlay
<1>4. \A x : SlotOK(x) => /\ SlotOK(Orphan(x)) /\ Orphan(x).open = x.open
                          /\ Orphan(x).common = x.common /\ Orphan(x).action = x.action
  <2> SUFFICES ASSUME NEW x, SlotOK(x)
               PROVE  /\ SlotOK(Orphan(x)) /\ Orphan(x).open = x.open
                      /\ Orphan(x).common = x.common /\ Orphan(x).action = x.action
    OBVIOUS
  <2> DEFINE y == Orphan(x)
  <2>1. /\ y \in SlotSet /\ y.open = x.open /\ y.common = x.common /\ y.action = x.action
        /\ y.draft = x.draft /\ y.made = x.made /\ y.target = x.target
        /\ y.closing = x.closing /\ y.suspended = x.suspended
    BY DEF SlotOK, SlotSet, Orphan
  <2> HIDE DEF y
  <2>2. SlotOK(y)
    BY <2>1 DEF SlotOK, MadeFor
  <2> QED
    BY <2>1, <2>2 DEF y
<1>5. SlotOK(Free) /\ Free.common = {} /\ Free.open = FALSE
  <2>1. Free \in SlotSet
    BY NoDraftOK, Limits DEF Free, SlotSet
  <2> QED
    BY <2>1 DEF SlotOK, MadeFor, Free, NoDraft
<1>6. CASE slot' = [slot EXCEPT ![s] = Orphan(i)] /\ native' = native
  <2> DEFINE y == Orphan(i)
  <2>1. SlotOK(y) /\ y.open = i.open /\ y.common = i.common /\ y.action = i.action
    BY <1>1, <1>4
  <2> HIDE DEF y
  <2>2. Chooses(chooser, chooser', s, y)
    BY <1>2, <2>1 DEF Chooses, LearnInv, Choosing, Busy
  <2>3. Will(native) => y.open \/ (Will(native) /\ ~slot[s].open)
    BY <2>1
  <2>4. slot' = [slot EXCEPT ![s] = y]
    BY <1>6 DEF y
  <2> HIDE DEF i
  <2> QED
    BY <1>1, <1>2, <1>6, <2>1, <2>2, <2>3, <2>4, SlotMoves
<1>7. ~OnStack(s) => Chooses(chooser, chooser', s, Free)
  BY <1>2 DEF Chooses, OnStack
<1>8. CASE ~OnStack(s) /\ ~i.open /\ slot' = [slot EXCEPT ![s] = Free] /\ native' = native
  BY <1>1, <1>2, <1>5, <1>7, <1>8, SlotMoves
<1>9. CASE CancelIf(p) /\ ~OnStack(s) /\ i.open
  <2>1. forced \in BOOLEAN /\ p = PrepareClose(i, forced)
    OBVIOUS
  <2> HIDE DEF p, forced
  <2>2. /\ SlotOK(p.i) /\ Alike(i, p.i)
        /\ NativeOK(native', files) /\ native'.target = native.target
        /\ (OwnerListens(native') => OwnerListens(native))
        /\ (p.answer = "ready" => ~Will(native'))
    BY <1>1, <1>9, <2>1, PreparedOK
  <2>3. CASE p.answer = "ready" /\ slot' = [slot EXCEPT ![s] = Free]
    BY <1>1, <1>2, <1>5, <1>7, <1>9, <2>2, <2>3, SlotMoves
  <2>4. CASE slot' = [slot EXCEPT ![s] = Orphan(p.i)]
    <3> DEFINE y == Orphan(p.i)
    <3>1. SlotOK(y) /\ y.open /\ y.common \subseteq files
      BY <1>1, <1>4, <1>9, <2>2 DEF Alike
    <3> HIDE DEF y
    <3>2. Chooses(chooser, chooser', s, y)
      BY <1>2, <1>9 DEF Chooses, OnStack
    <3>3. slot' = [slot EXCEPT ![s] = y]
      BY <2>4 DEF y
    <3> QED
      BY <1>1, <1>2, <2>2, <3>1, <3>2, <3>3, SlotMoves
  <2> QED
    BY <1>3, <1>6, <1>8, <1>9, <2>3, <2>4
<1> QED
  BY <1>3, <1>6, <1>8, <1>9

-----------------------------------------------------------------------------
\* What the user taps.
\* An editor with its target, draft, action and known files set.
With(i, t, d, m, a, c) ==
    [i EXCEPT !.target = t, !.draft = d, !.made = m, !.action = a, !.common = c]
LEMMA Edited ==
    ASSUME NEW i, SlotOK(i), NEW t \in Targets \cup {None}, NEW d \in DraftSet, NEW m \in DraftSet,
           NEW a \in {"none", "import", "export"}, NEW c \in SUBSET Files,
           d.dirty => m.file = d.file /\ m.target = d.target,
           NEW j, j = With(i, t, d, m, a, c)
    PROVE  /\ SlotOK(j) /\ j.open = i.open /\ j.closing = i.closing /\ j.intent = i.intent
           /\ j.learn = i.learn /\ j.target = t /\ j.action = a /\ j.common = c /\ j.draft = d
           /\ j.made = m /\ j.orphaned = i.orphaned
<1>1. /\ j \in SlotSet /\ j.open = i.open /\ j.closing = i.closing /\ j.intent = i.intent
      /\ j.learn = i.learn /\ j.target = t /\ j.action = a /\ j.common = c /\ j.draft = d
      /\ j.made = m /\ j.suspended = i.suspended /\ j.orphaned = i.orphaned
  BY DEF SlotOK, SlotSet, With
<1> QED
  BY <1>1 DEF SlotOK, MadeFor

LEMMA Tapped ==
    ASSUME LearnInv, NEW s \in Slots, Live(s)
    PROVE  /\ SlotOK(slot[s]) /\ slot[s].common \subseteq files /\ slot[s] \in SlotSet
           /\ slot[s].open /\ overlay = s /\ s # None /\ Editor(slot[s], native)
           /\ slot[s].target \in Targets \cup {None} /\ slot[s].draft \in DraftSet
           /\ slot[s].made \in DraftSet /\ slot[s].action \in {"none", "import", "export"}
           /\ slot[s].common \in SUBSET Files
           /\ NativeOK(native, files) /\ native \in NativeSet /\ native.file \in Files
           /\ files \subseteq Files /\ misplaced = FALSE
           /\ OwnerListens(native) => native.target = asked
           /\ \A x : chooser' = chooser /\ x.action = slot[s].action =>
                        Chooses(chooser, chooser', s, x)
<1>1. /\ SlotOK(slot[s]) /\ slot[s].common \subseteq files /\ slot[s] \in SlotSet
      /\ NativeOK(native, files) /\ native \in NativeSet /\ native.file \in Files
      /\ files \subseteq Files /\ misplaced = FALSE /\ s # None
      /\ (OwnerListens(native) => native.target = asked)
      /\ (overlay = s => Editor(slot[s], native))
  BY Found
<1>2. slot[s].open /\ overlay = s
  BY DEF Live
<1>3. \A x : chooser' = chooser /\ x.action = slot[s].action => Chooses(chooser, chooser', s, x)
  BY DEF Chooses, LearnInv, Choosing, Busy
<1>4. /\ slot[s].target \in Targets \cup {None} /\ slot[s].draft \in DraftSet
      /\ slot[s].made \in DraftSet /\ slot[s].action \in {"none", "import", "export"}
      /\ slot[s].common \in SUBSET Files
  BY <1>1 DEF SlotSet
<1> QED
  BY <1>1, <1>2, <1>3, <1>4

\* A tap that only redraws an editor worth no less than the one that is there.
LEMMA Redrawing ==
    ASSUME LearnInv, NEW s \in Slots, Live(s), UNCHANGED <<overlay, native, files, chooser, asked>>,
           misplaced' = FALSE,
           NEW i, SlotOK(i), i.open, i.common = slot[s].common, i.action = slot[s].action,
           i.target = slot[s].target, i.intent = "cancel" => slot[s].intent = "cancel",
           slot' = [slot EXCEPT ![s] = Refresh(i)]
    PROVE  LearnInv'
<1>1. /\ slot[s].common \subseteq files /\ overlay = s /\ Editor(slot[s], native) /\ slot[s].open
      /\ NativeOK(native, files) /\ native.file \in Files /\ files \subseteq Files
      /\ (OwnerListens(native) => native.target = asked)
      /\ (\A x : chooser' = chooser /\ x.action = slot[s].action =>
                        Chooses(chooser, chooser', s, x))
  BY Tapped
<1>2. (i.intent = "cancel" => ~Will(native)) /\ (i.target # None => native.target = i.target)
  BY <1>1 DEF Editor
<1>3. slot' = [slot EXCEPT ![s] = Redrawn(i, native.file)]
  BY DEF Refresh
<1>4. Chooses(chooser, chooser', s, i)
  BY <1>1
<1> QED
  BY <1>1, <1>2, <1>3, <1>4, Redraws

LEMMA PickTargetOK ==
    ASSUME LearnInv, NEW s \in Slots, NEW t \in Targets \cup {None}, PickTarget(s, t)
    PROVE  LearnInv'
<1> DEFINE i == slot[s]
           j == [i EXCEPT !.target = t]
<1>1. Live(s) /\ overlay' = overlay /\ files' = files /\ chooser' = chooser
      /\ misplaced' = misplaced /\ asked' = asked
  BY DEF PickTarget
<1>2. /\ SlotOK(i) /\ i.common \subseteq files /\ i \in SlotSet
      /\ i.open /\ overlay = s /\ s # None /\ Editor(i, native)
      /\ i.draft \in DraftSet /\ i.made \in DraftSet /\ i.action \in {"none", "import", "export"}
      /\ i.common \in SUBSET Files
      /\ NativeOK(native, files) /\ native \in NativeSet /\ native.file \in Files
      /\ files \subseteq Files /\ misplaced = FALSE
      /\ (\A x : chooser' = chooser /\ x.action = i.action => Chooses(chooser, chooser', s, x))
  BY <1>1, Tapped
<1>3. CASE Locked(i) \/ Busy(i)
  <2>1. slot' = [slot EXCEPT ![s] = Refresh(i)] /\ native' = native
    BY <1>3 DEF PickTarget
  <2> QED
    BY <1>1, <1>2, <2>1, Redrawing
<1>4. CASE ~Locked(i) /\ ~Busy(i)
  <2>1. /\ native' = IF t = None THEN native ELSE [native EXCEPT !.target = t]
        /\ slot' = [slot EXCEPT ![s] = Refresh(j)]
    BY <1>4 DEF PickTarget
  <2>2. j = [i EXCEPT !.target = t, !.draft = i.draft, !.made = i.made, !.action = i.action,
                      !.common = i.common]
    BY <1>2 DEF SlotSet
  <2>3. i.draft.dirty => i.made.file = i.draft.file /\ i.made.target = i.draft.target
    BY <1>2 DEF SlotOK, MadeFor
  <2> HIDE DEF i, j
  <2>4. /\ SlotOK(j) /\ j.open = i.open /\ j.intent = i.intent /\ j.target = t
        /\ j.action = i.action /\ j.common = i.common
    <3> DEFINE d == i.draft
               m == i.made
               a == i.action
               c == i.common
    <3>1. /\ d \in DraftSet /\ m \in DraftSet /\ a \in {"none", "import", "export"}
          /\ c \in SUBSET Files /\ SlotOK(i)
          /\ (d.dirty => m.file = d.file /\ m.target = d.target)
          /\ j = With(i, t, d, m, a, c)
      BY <1>2, <2>2, <2>3 DEF With
    <3>2. a = i.action /\ c = i.common
      OBVIOUS
    <3> HIDE DEF d, m, a, c
    <3>3. /\ SlotOK(j) /\ j.open = i.open /\ j.intent = i.intent /\ j.target = t
          /\ j.action = a /\ j.common = c
      BY <3>1, Edited
    <3> QED
      BY <3>2, <3>3
  <2>5. /\ native' \in NativeSet /\ native'.file = native.file /\ native'.queue = native.queue
        /\ native'.owner = native.owner /\ (t # None => native'.target = t)
    BY <1>2, <2>1 DEF NativeSet
  <2>6. ~OwnerListens(native) /\ (i.intent = "cancel" => ~Will(native))
    BY <1>2, <1>4 DEF Editor
  <2>7. slot' = [slot EXCEPT ![s] = Redrawn(j, native.file)]
    BY <2>1 DEF Refresh
  <2>8. Chooses(chooser, chooser', s, j) /\ NativeOK(native', files')
    BY <1>1, <1>2, <2>4, <2>5 DEF NativeOK
  <2> QED
    BY <1>1, <1>2, <2>4, <2>5, <2>6, <2>7, <2>8, Redraws
<1> QED
  BY <1>3, <1>4

LEMMA LearnOK == ASSUME LearnInv, NEW s \in Slots, Learn(s) PROVE LearnInv'
<1>1. /\ Live(s) /\ slot[s].target # None /\ ~Locked(slot[s]) /\ asked' = slot[s].target
      /\ slot' = [slot EXCEPT ![s] = AfterRequest(slot[s], TRUE)] /\ Queue(TRUE)
      /\ overlay' = overlay /\ files' = files /\ chooser' = chooser /\ misplaced' = misplaced
  BY DEF Learn
<1>2. /\ SlotOK(slot[s]) /\ slot[s].common \subseteq files /\ slot[s].open /\ overlay = s
      /\ Editor(slot[s], native)
  BY <1>1, Tapped
<1>3. native.target = asked'
  BY <1>1, <1>2 DEF Editor
<1> QED
  BY <1>1, <1>2, <1>3, Asking

LEMMA CancelOK == ASSUME LearnInv, NEW s \in Slots, Cancel(s) PROVE LearnInv'
<1>1. /\ Live(s) /\ asked' = asked
      /\ slot' = [slot EXCEPT ![s] = AfterRequest(slot[s], FALSE)] /\ Queue(FALSE)
      /\ overlay' = overlay /\ files' = files /\ chooser' = chooser /\ misplaced' = misplaced
  BY DEF Cancel
<1>2. /\ SlotOK(slot[s]) /\ slot[s].common \subseteq files /\ slot[s].open /\ overlay = s
      /\ (OwnerListens(native) => native.target = asked)
  BY <1>1, Tapped
<1> DEFINE on == FALSE
<1>3. /\ on \in BOOLEAN /\ Queue(on) /\ slot' = [slot EXCEPT ![s] = AfterRequest(slot[s], on)]
      /\ (OwnerListens(native) \/ on => native.target = asked')
  BY <1>1, <1>2
<1> HIDE DEF on
<1> QED
  BY <1>1, <1>2, <1>3, Asking

LEMMA BackOK == ASSUME LearnInv, NEW s \in Slots, Back(s) PROVE LearnInv'
<1> DEFINE i == [slot[s] EXCEPT !.closing = TRUE]
           on == FALSE
<1>1. /\ Live(s) /\ asked' = asked /\ overlay' = overlay /\ files' = files
      /\ chooser' = chooser /\ misplaced' = misplaced
      /\ \/ Queue(FALSE) /\ slot' = [slot EXCEPT ![s] = AfterRequest(i, FALSE)]
         \/ slot' = [slot EXCEPT ![s] = i] /\ native' = native
  BY DEF Back
<1>2. /\ SlotOK(slot[s]) /\ slot[s].common \subseteq files /\ slot[s] \in SlotSet
      /\ slot[s].open /\ overlay = s /\ s # None /\ Editor(slot[s], native)
      /\ NativeOK(native, files) /\ files \subseteq Files /\ misplaced = FALSE
      /\ (OwnerListens(native) => native.target = asked)
      /\ (\A x : chooser' = chooser /\ x.action = slot[s].action =>
                        Chooses(chooser, chooser', s, x))
  BY <1>1, Tapped
<1>3. /\ i \in SlotSet /\ i.open = slot[s].open /\ i.common = slot[s].common
      /\ i.action = slot[s].action /\ i.target = slot[s].target /\ i.intent = slot[s].intent
      /\ i.learn = slot[s].learn /\ i.draft = slot[s].draft /\ i.made = slot[s].made
      /\ i.suspended = slot[s].suspended
  BY <1>2 DEF SlotSet
<1> HIDE DEF i
<1>4. SlotOK(i) /\ Editor(i, native) /\ Chooses(chooser, chooser', s, i)
  BY <1>1, <1>2, <1>3 DEF SlotOK, MadeFor, Editor, Locked
<1>5. CASE Queue(FALSE) /\ slot' = [slot EXCEPT ![s] = AfterRequest(i, FALSE)]
  <2>1. /\ on \in BOOLEAN /\ Queue(on) /\ slot' = [slot EXCEPT ![s] = AfterRequest(i, on)]
        /\ (OwnerListens(native) \/ on => native.target = asked')
    BY <1>1, <1>2, <1>5
  <2> HIDE DEF on
  <2> QED
    BY <1>1, <1>2, <1>3, <1>4, <2>1, Asking
<1>6. CASE slot' = [slot EXCEPT ![s] = i] /\ native' = native
  BY <1>1, <1>2, <1>3, <1>4, <1>6, SlotMoves
<1> QED
  BY <1>1, <1>5, <1>6

LEMMA EditOK == ASSUME LearnInv, NEW s \in Slots, Edit(s) PROVE LearnInv'
<1> DEFINE i == slot[s]
           m == [file |-> i.draft.file, target |-> i.target, dirty |-> TRUE]
           d == [i.draft EXCEPT !.dirty = TRUE]
           j == [i EXCEPT !.draft.dirty = TRUE, !.made = m]
           t == i.target
           a == i.action
           c == i.common
<1>1. /\ Live(s) /\ UNCHANGED <<overlay, native, files, chooser, asked>> /\ misplaced' = misplaced
      /\ slot' = [slot EXCEPT ![s] = IF MayEdit(i) THEN Refresh(j) ELSE Refresh(i)]
  BY DEF Edit
<1>2. /\ SlotOK(i) /\ i \in SlotSet /\ i.open /\ misplaced = FALSE
      /\ t \in Targets \cup {None} /\ i.draft \in DraftSet /\ a \in {"none", "import", "export"}
      /\ c \in SUBSET Files
  BY <1>1, Tapped
<1>3. CASE ~MayEdit(i)
  <2> HIDE DEF i
  <2>1. slot' = [slot EXCEPT ![s] = Refresh(i)] /\ i = slot[s]
    BY <1>1, <1>3 DEF i
  <2> QED
    BY <1>1, <1>2, <2>1, Redrawing
<1>4. CASE MayEdit(i)
  <2>1. m \in DraftSet /\ d \in DraftSet /\ (d.dirty => m.file = d.file /\ m.target = d.target)
    BY <1>2, <1>4 DEF DraftSet, MayEdit
  <2>2. j = With(i, t, d, m, a, c)
    BY <1>2 DEF With, SlotSet
  <2>3. t = i.target /\ a = i.action /\ c = i.common /\ i = slot[s]
    OBVIOUS
  <2>4. slot' = [slot EXCEPT ![s] = Refresh(j)]
    BY <1>1, <1>4
  <2>6. /\ SlotOK(i) /\ t \in Targets \cup {None} /\ d \in DraftSet /\ m \in DraftSet
        /\ a \in {"none", "import", "export"} /\ c \in SUBSET Files
        /\ (d.dirty => m.file = d.file /\ m.target = d.target)
        /\ j = With(i, t, d, m, a, c)
    BY <1>2, <2>1, <2>2
  <2> HIDE DEF i, j, t, d, m, a, c
  <2>5. /\ SlotOK(j) /\ j.open = i.open /\ j.intent = i.intent /\ j.target = t
        /\ j.action = a /\ j.common = c
    BY <2>6, Edited
  <2> QED
    BY <1>1, <1>2, <2>3, <2>4, <2>5, Redrawing
<1> QED
  BY <1>3, <1>4

\* An editor without its draft.
LEMMA Dropped ==
    ASSUME NEW i, SlotOK(i), NEW j, j = [i EXCEPT !.draft = NoDraft]
    PROVE  /\ SlotOK(j) /\ j.open = i.open /\ j.intent = i.intent /\ j.target = i.target
           /\ j.action = i.action /\ j.common = i.common
<1> DEFINE d == NoDraft
           k == [i EXCEPT !.draft = d]
<1>1. d \in DraftSet /\ d.dirty = FALSE
  BY NoDraftOK DEF NoDraft
<1>2. j = k
  OBVIOUS
<1> HIDE DEF d
<1>3. /\ k \in SlotSet /\ k.open = i.open /\ k.intent = i.intent /\ k.target = i.target
      /\ k.action = i.action /\ k.common = i.common /\ k.closing = i.closing
      /\ k.suspended = i.suspended /\ k.draft = d
  BY <1>1 DEF SlotOK, SlotSet
<1> HIDE DEF k
<1> QED
  BY <1>1, <1>2, <1>3 DEF SlotOK, MadeFor

LEMMA ApplyDraftOK == ASSUME LearnInv, NEW s \in Slots, ApplyDraft(s) PROVE LearnInv'
<1> DEFINE i == slot[s]
           j == [i EXCEPT !.draft = NoDraft]
<1>1. /\ Live(s) /\ UNCHANGED <<overlay, native, files, chooser, asked>>
      /\ \/ slot' = [slot EXCEPT ![s] = Refresh(i)] /\ misplaced' = misplaced
         \/ /\ MayEdit(i) /\ i.draft.dirty
            /\ misplaced' = (misplaced \/ i.made.file # native.file \/ i.made.target # i.target)
            /\ slot' = [slot EXCEPT ![s] = Refresh(j)]
  BY DEF ApplyDraft
<1>2. SlotOK(i) /\ i.open /\ misplaced = FALSE
  BY <1>1, Tapped
<1>3. MayEdit(i) /\ i.draft.dirty => i.made.file = native.file /\ i.made.target = i.target
  BY <1>2 DEF MayEdit, SlotOK, MadeFor
<1>4. /\ SlotOK(j) /\ j.open = i.open /\ j.intent = i.intent /\ j.target = i.target
      /\ j.action = i.action /\ j.common = i.common
  <2> HIDE DEF i
  <2> QED
    BY <1>2, Dropped
<1>5. misplaced' = FALSE
  BY <1>1, <1>2, <1>3
<1> HIDE DEF j
<1>6. CASE slot' = [slot EXCEPT ![s] = Refresh(i)]
  BY <1>1, <1>2, <1>5, <1>6, Redrawing
<1>7. CASE slot' = [slot EXCEPT ![s] = Refresh(j)]
  BY <1>1, <1>2, <1>4, <1>5, <1>7, Redrawing
<1> QED
  BY <1>1, <1>6, <1>7

LEMMA ClearTargetOK == ASSUME LearnInv, NEW s \in Slots, ClearTarget(s) PROVE LearnInv'
<1> DEFINE i == slot[s]
           j == Refresh(i)
           k == [j EXCEPT !.draft = NoDraft]
<1>1. /\ Live(s) /\ UNCHANGED <<overlay, native, files, chooser, asked>> /\ misplaced' = misplaced
      /\ slot' = [slot EXCEPT ![s] = Refresh(k)]
  BY DEF ClearTarget
<1>2. SlotOK(i) /\ i.open /\ misplaced = FALSE /\ native \in NativeSet /\ native.file \in Files
  BY <1>1, Tapped
<1>3. SlotOK(j) /\ Alike(i, j) /\ Heard(i, j)
  <2> HIDE DEF i
  <2> QED
    BY <1>2, RedrawnOK DEF Refresh
<1> HIDE DEF j
<1>4. /\ SlotOK(k) /\ k.open = j.open /\ k.intent = j.intent /\ k.target = j.target
      /\ k.action = j.action /\ k.common = j.common
  BY <1>3, Dropped
<1> HIDE DEF k
<1> QED
  BY <1>1, <1>2, <1>3, <1>4, Redrawing DEF Alike, Heard

-----------------------------------------------------------------------------
\* File actions.
LEMMA AddFileOK == ASSUME LearnInv, NEW s \in Slots, NEW f \in Files, AddFile(s, f) PROVE LearnInv'
<1> DEFINE i == slot[s]
           j == [i EXCEPT !.common = @ \cup {f}]
           t == i.target
           d == i.draft
           m == i.made
           a == i.action
           c == i.common \cup {f}
<1>1. /\ Live(s) /\ overlay' = overlay /\ chooser' = chooser /\ misplaced' = misplaced
      /\ asked' = asked /\ files' = files \cup {f} /\ native' = [native EXCEPT !.file = f]
      /\ slot' = [slot EXCEPT ![s] = Redrawn(j, f)]
  BY DEF AddFile
<1>2. /\ SlotOK(i) /\ i.common \subseteq files /\ i \in SlotSet
      /\ i.open /\ overlay = s /\ s # None /\ Editor(i, native)
      /\ t \in Targets \cup {None} /\ d \in DraftSet /\ m \in DraftSet
      /\ a \in {"none", "import", "export"} /\ i.common \in SUBSET Files
      /\ native \in NativeSet /\ files \subseteq Files /\ misplaced = FALSE
      /\ (OwnerListens(native) => native.target = asked)
      /\ (\A x : chooser' = chooser /\ x.action = i.action => Chooses(chooser, chooser', s, x))
  BY <1>1, Tapped
<1>3. d.dirty => m.file = d.file /\ m.target = d.target
  BY <1>2 DEF SlotOK, MadeFor
<1>4. j = With(i, t, d, m, a, c)
  BY <1>2 DEF With, SlotSet
<1>5. /\ native' \in NativeSet /\ native'.file = f /\ native'.queue = native.queue
      /\ native'.owner = native.owner /\ native'.target = native.target
  BY <1>1, <1>2 DEF NativeSet
<1>6. /\ c \in SUBSET Files /\ c \subseteq files' /\ files' \subseteq Files /\ files \subseteq files'
      /\ a = i.action /\ t = i.target
  BY <1>1, <1>2
<1>7. (i.intent = "cancel" => ~Will(native)) /\ (i.target # None => native.target = i.target)
  BY <1>2 DEF Editor
<1>10. /\ SlotOK(i) /\ t \in Targets \cup {None} /\ d \in DraftSet /\ m \in DraftSet
       /\ a \in {"none", "import", "export"} /\ c \in SUBSET Files
       /\ (d.dirty => m.file = d.file /\ m.target = d.target)
       /\ j = With(i, t, d, m, a, c)
  BY <1>2, <1>3, <1>4, <1>6
<1> HIDE DEF i, j, t, d, m, a, c
<1>8. /\ SlotOK(j) /\ j.open = i.open /\ j.intent = i.intent /\ j.target = t
      /\ j.action = a /\ j.common = c
  BY <1>10, Edited
<1>9. Chooses(chooser, chooser', s, j) /\ NativeOK(native', files')
  BY <1>1, <1>2, <1>5, <1>6, <1>8 DEF NativeOK
<1> QED
  BY <1>1, <1>2, <1>5, <1>6, <1>7, <1>8, <1>9, Redraws

LEMMA SelectFileOK ==
    ASSUME LearnInv, NEW s \in Slots, NEW f \in Files, SelectFile(s, f)
    PROVE  LearnInv'
<1> DEFINE i == slot[s]
<1>1. /\ Live(s) /\ overlay' = overlay /\ chooser' = chooser /\ misplaced' = misplaced
      /\ asked' = asked /\ files' = files /\ native' = [native EXCEPT !.file = f] /\ f \in files
      /\ slot' = [slot EXCEPT ![s] = Redrawn(i, f)]
  BY DEF SelectFile
<1>2. /\ SlotOK(i) /\ i.common \subseteq files
      /\ i.open /\ overlay = s /\ Editor(i, native)
      /\ native \in NativeSet /\ files \subseteq Files /\ misplaced = FALSE
      /\ (OwnerListens(native) => native.target = asked)
      /\ (\A x : chooser' = chooser /\ x.action = i.action => Chooses(chooser, chooser', s, x))
  BY <1>1, Tapped
<1>3. /\ native' \in NativeSet /\ native'.file = f /\ native'.queue = native.queue
      /\ native'.owner = native.owner /\ native'.target = native.target
  BY <1>1, <1>2 DEF NativeSet
<1>4. (i.intent = "cancel" => ~Will(native)) /\ (i.target # None => native.target = i.target)
  BY <1>2 DEF Editor
<1>5. Chooses(chooser, chooser', s, i) /\ NativeOK(native', files')
  BY <1>1, <1>2, <1>3 DEF NativeOK
<1> HIDE DEF i
<1> QED
  BY <1>1, <1>2, <1>3, <1>4, <1>5, Redraws

LEMMA OpenChooserOK ==
    ASSUME LearnInv, NEW s \in Slots, NEW action \in {"import", "export"}, OpenChooser(s, action)
    PROVE  LearnInv'
<1> DEFINE i == slot[s]
           j == [i EXCEPT !.action = action]
           t == i.target
           d == i.draft
           m == i.made
           c == i.common
           k == [slot |-> s, action |-> action]
<1>1. /\ Live(s) /\ overlay' = overlay /\ native' = native /\ files' = files
      /\ misplaced' = misplaced /\ asked' = asked
      /\ chooser' = k
      /\ slot' = [slot EXCEPT ![s] = Redrawn(j, native.file)]
  BY DEF OpenChooser, Refresh
<1>2. /\ SlotOK(i) /\ i.common \subseteq files /\ i \in SlotSet
      /\ i.open /\ overlay = s /\ s # None /\ Editor(i, native)
      /\ t \in Targets \cup {None} /\ d \in DraftSet /\ m \in DraftSet /\ c \in SUBSET Files
      /\ NativeOK(native, files) /\ native.file \in Files /\ files \subseteq Files
      /\ misplaced = FALSE /\ (OwnerListens(native) => native.target = asked)
  BY <1>1, Tapped
<1>3. d.dirty => m.file = d.file /\ m.target = d.target
  BY <1>2 DEF SlotOK, MadeFor
<1>4. j = With(i, t, d, m, action, c) /\ action \in {"none", "import", "export"}
  BY <1>2 DEF With, SlotSet
<1>5. (i.intent = "cancel" => ~Will(native)) /\ (i.target # None => native.target = i.target)
      /\ t = i.target /\ c = i.common
  BY <1>2 DEF Editor
<1>6. k \in ChooserSet /\ k.slot = s
  BY DEF ChooserSet
<1>9. /\ SlotOK(i) /\ t \in Targets \cup {None} /\ d \in DraftSet /\ m \in DraftSet
      /\ action \in {"none", "import", "export"} /\ c \in SUBSET Files
      /\ (d.dirty => m.file = d.file /\ m.target = d.target)
      /\ j = With(i, t, d, m, action, c)
  BY <1>2, <1>3, <1>4
<1> HIDE DEF i, j, t, d, m, c, k
<1>7. /\ SlotOK(j) /\ j.open = i.open /\ j.intent = i.intent /\ j.target = t
      /\ j.action = action /\ j.common = c
  BY <1>9, Edited
<1>8. Chooses(chooser, chooser', s, j)
  BY <1>1, <1>6, <1>7 DEF Chooses, Busy
<1> QED
  BY <1>1, <1>2, <1>5, <1>7, <1>8, Redraws

LEMMA ChooserReturnsOK ==
    ASSUME LearnInv, NEW f \in Files, ChooserReturns(f)
    PROVE  LearnInv'
<1> DEFINE s == chooser.slot
           i == slot[s]
           none == "none"
           j == [i EXCEPT !.action = none]
           t == i.target
           d == i.draft
           m == i.made
           c == i.common
<1>1. /\ chooser # NoChooser /\ files' = files \cup {f} /\ chooser' = NoChooser
      /\ overlay' = overlay /\ misplaced' = misplaced /\ asked' = asked
  BY DEF ChooserReturns
<1>2. PICK on \in {f, native.file} :
        /\ native' = [native EXCEPT !.file = on]
        /\ slot' = [slot EXCEPT ![s] = IF j.orphaned THEN j ELSE Redrawn(j, on)]
  BY DEF ChooserReturns
<1>3. s \in Slots /\ Busy(i)
  BY <1>1 DEF LearnInv, Choosing, ChooserSet
<1>4. /\ SlotOK(i) /\ i.common \subseteq files /\ i \in SlotSet
      /\ (overlay = s => Editor(i, native)) /\ s # None
      /\ native \in NativeSet /\ native.file \in files /\ files \subseteq Files
      /\ misplaced = FALSE /\ (OwnerListens(native) => native.target = asked)
      /\ overlay \in Slots \cup {None}
  BY <1>3, Found DEF NativeOK
<1>5. /\ t \in Targets \cup {None} /\ d \in DraftSet /\ m \in DraftSet /\ c \in SUBSET Files
      /\ none \in {"none", "import", "export"} /\ (d.dirty => m.file = d.file /\ m.target = d.target)
  BY <1>4 DEF SlotOK, SlotSet, MadeFor
<1>6. j = With(i, t, d, m, none, c)
  BY <1>4 DEF With, SlotSet
<1>7. /\ native' \in NativeSet /\ native'.file = on /\ native'.queue = native.queue
      /\ native'.owner = native.owner /\ native'.target = native.target
      /\ on \in Files /\ on \in files' /\ files \subseteq files' /\ files' \subseteq Files
  BY <1>1, <1>2, <1>4 DEF NativeSet
<1>8. Chooses(chooser, chooser', s, j) /\ NativeOK(native', files')
  BY <1>1, <1>7 DEF Chooses, NativeOK
<1>9. t = i.target /\ c = i.common /\ i = slot[s]
  OBVIOUS
<1> HIDE DEF i, j, t, d, m, c, none, s
<1>10. /\ SlotOK(j) /\ j.open = i.open /\ j.intent = i.intent /\ j.target = t
       /\ j.learn = i.learn /\ j.common = c
  BY <1>4, <1>5, <1>6, Edited
<1>11. (OwnerListens(native') <=> OwnerListens(native)) /\ Will(native') = Will(native)
  BY <1>7, SameEars
<1>12. CASE slot' = [slot EXCEPT ![s] = j]
  <2>1. overlay' = s => Editor(j, native')
    BY <1>1, <1>4, <1>7, <1>9, <1>10, <1>11 DEF Editor, Locked
  <2>2. Will(native') => j.open \/ (Will(native) /\ ~slot[s].open)
    BY <1>9, <1>10, <1>11
  <2>3. j.common \subseteq files' /\ (OwnerListens(native') => native'.target = asked')
        /\ misplaced' = FALSE
    BY <1>1, <1>4, <1>7, <1>9, <1>10, <1>11
  <2> QED
    BY <1>1, <1>3, <1>4, <1>7, <1>8, <1>10, <1>12, <2>1, <2>2, <2>3, SlotMoves
<1>13. CASE slot' = [slot EXCEPT ![s] = Redrawn(j, on)]
  <2> DEFINE k == Redrawn(j, on)
  <2>1. SlotOK(k) /\ Alike(j, k) /\ Heard(j, k)
    BY <1>4, <1>7, <1>10, RedrawnOK
  <2>2. slot' = [slot EXCEPT ![s] = k]
    BY <1>13
  <2> HIDE DEF k
  <2>3. k.open = i.open /\ k.target = i.target /\ k.common \subseteq files'
        /\ (k.intent = "cancel" => i.intent = "cancel") /\ (~Locked(k) => ~OwnerListens(native))
    BY <1>4, <1>7, <1>9, <1>10, <2>1 DEF Alike, Heard
  <2>4. overlay' = s => Editor(k, native')
    BY <1>1, <1>4, <1>7, <1>11, <2>3 DEF Editor
  <2>5. Will(native') => k.open \/ (Will(native) /\ ~slot[s].open)
    BY <1>9, <1>11, <2>3
  <2>6. (OwnerListens(native') => native'.target = asked') /\ misplaced' = FALSE
        /\ Chooses(chooser, chooser', s, k)
    BY <1>1, <1>4, <1>7, <1>11 DEF Chooses
  <2> QED
    BY <1>1, <1>3, <1>4, <1>7, <1>8, <2>1, <2>2, <2>3, <2>4, <2>5, <2>6, SlotMoves
<1> QED
  BY <1>2, <1>12, <1>13

-----------------------------------------------------------------------------
LEMMA LearnInitOK == LearnInit => LearnInv
<1> SUFFICES ASSUME LearnInit PROVE LearnInv
  OBVIOUS
<1> DEFINE f == CHOOSE f \in Files : TRUE
<1>1. f \in Files
  BY LearnAssumption
<1>2. /\ slot = [s \in Slots |-> Free] /\ overlay = None /\ chooser = NoChooser
      /\ misplaced = FALSE /\ files = {f}
      /\ native = [queue |-> <<>>, mirrors |-> <<>>, owner |-> FALSE, mirror |-> FALSE,
                   target |-> None, file |-> f]
  BY DEF LearnInit
<1> HIDE DEF f
<1>3. Free \in SlotSet /\ SlotOK(Free) /\ Free.common = {}
  <2>1. Free \in SlotSet
    BY NoDraftOK, Limits DEF Free, SlotSet
  <2> QED
    BY <2>1 DEF SlotOK, MadeFor, Free, NoDraft
<1>4. native \in NativeSet /\ native.queue = <<>> /\ ~native.owner /\ native.file = f
  <2>1. <<>> \in Seq(BOOLEAN)
    OBVIOUS
  <2> QED
    BY <1>1, <1>2, <2>1 DEF NativeSet
<1>5. ~OwnerListens(native) /\ ~Will(native)
  BY <1>4, NothingWaits
<1>6. KindsOK
  BY <1>1, <1>2, <1>3, <1>4 DEF KindsOK
<1> QED
  BY <1>2, <1>5, <1>6 DEF LearnInv, Choosing, EditorOK, Lands, LearnEnds

LEMMA LearnStepOK == ASSUME LearnInv, [LearnNext]_learnVars PROVE LearnInv'
<1>1. CASE UNCHANGED learnVars
  BY <1>1 DEF learnVars, LearnInv, KindsOK, EditorOK, Lands, LearnEnds
<1>2. CASE OwnerRuns
  BY <1>2, OwnerRunsOK
<1>3. CASE MirrorRuns
  BY <1>3, MirrorRunsOK
<1>4. ASSUME NEW f \in Files, StockSelectsFile(f) PROVE LearnInv'
  BY <1>4, StockSelectsFileOK
<1>5. ASSUME NEW f \in Files, ChooserReturns(f) PROVE LearnInv'
  BY <1>5, ChooserReturnsOK
<1>6. ASSUME NEW s \in Slots, Bind(s) PROVE LearnInv'
  BY <1>6, BindOK
<1>7. ASSUME NEW s \in Slots, TapTile(s) PROVE LearnInv'
  BY <1>7, TapTileOK
<1>8. ASSUME NEW s \in Slots, Layout(s) PROVE LearnInv'
  BY <1>8, LayoutOK
<1>9. ASSUME NEW s \in Slots, Tick(s) PROVE LearnInv'
  BY <1>9, TickOK
<1>10. ASSUME NEW s \in Slots, DestroyOverlay(s) PROVE LearnInv'
  BY <1>10, DestroyOverlayOK
<1>11. ASSUME NEW s \in Slots, Learn(s) PROVE LearnInv'
  BY <1>11, LearnOK
<1>12. ASSUME NEW s \in Slots, Cancel(s) PROVE LearnInv'
  BY <1>12, CancelOK
<1>13. ASSUME NEW s \in Slots, Back(s) PROVE LearnInv'
  BY <1>13, BackOK
<1>14. ASSUME NEW s \in Slots, Edit(s) PROVE LearnInv'
  BY <1>14, EditOK
<1>15. ASSUME NEW s \in Slots, ApplyDraft(s) PROVE LearnInv'
  BY <1>15, ApplyDraftOK
<1>16. ASSUME NEW s \in Slots, ClearTarget(s) PROVE LearnInv'
  BY <1>16, ClearTargetOK
<1>17. ASSUME NEW s \in Slots, NEW t \in Targets \cup {None}, PickTarget(s, t) PROVE LearnInv'
  BY <1>17, PickTargetOK
<1>18. ASSUME NEW s \in Slots, NEW f \in Files, AddFile(s, f) PROVE LearnInv'
  BY <1>18, AddFileOK
<1>19. ASSUME NEW s \in Slots, NEW f \in Files, SelectFile(s, f) PROVE LearnInv'
  BY <1>19, SelectFileOK
<1>20. ASSUME NEW s \in Slots, NEW a \in {"import", "export"}, OpenChooser(s, a) PROVE LearnInv'
  BY <1>20, OpenChooserOK
<1> QED
  BY <1>1, <1>2, <1>3, <1>4, <1>5, <1>6, <1>7, <1>8, <1>9, <1>10, <1>11, <1>12, <1>13, <1>14,
     <1>15, <1>16, <1>17, <1>18, <1>19, <1>20 DEF LearnNext

\* The inductive invariant of the editor: the types; an unlocked editor's owner
\* neither listens nor will, an editor that has asked to cancel is the last who
\* asked, and a chosen target is the owner's (settle_global_learn, global_screen_intent).
THEOREM LearnHolds == LearnSpec => []LearnInv
<1>1. LearnInv /\ [LearnNext]_learnVars => LearnInv'
  BY LearnStepOK
<1> QED
  BY <1>1, LearnInitOK, PTL DEF LearnSpec

\* Every slot, the owner and the chooser keep within their types, and only an open
\* editor is closing or suspended (native-preferences.cc).
THEOREM LearnTypes == LearnSpec => []LearnTypeOK
<1>1. LearnInv => LearnTypeOK
  BY DEF LearnInv, KindsOK, Choosing, SlotOK, SlotSet, LearnTypeOK
<1> QED
  BY <1>1, LearnHolds, PTL

\* A learned gesture lands in the target for which Learn was tapped, and a draft in
\* the file and target it was made for (apply_global_draft, request_global_learn).
THEOREM EditsLand == LearnSpec => []EditsLandWhereMade
<1>1. LearnInv => EditsLandWhereMade
  BY DEF LearnInv, Lands, OwnerListens, EditsLandWhereMade
<1> QED
  BY <1>1, LearnHolds, PTL

\* When every closure that waits has run, the owner listens only while an editor is
\* open that can end it (global_app_prepare_close, launcher_overlay_destructor).
THEOREM LearnEndsWithEditor == LearnSpec => []LearnEndsWithItsEditor
<1>1. LearnInv => LearnEndsWithItsEditor
  BY DEF LearnInv, LearnEnds, Will, WillLearn, Quiet, LearnEndsWithItsEditor
<1> QED
  BY <1>1, LearnHolds, PTL

-------------------------------------------------------------------------------
(* The controller choice, for every set of profiles and every number of presses,    *)
(* commands and applications.  The invariant follows one request through the page:  *)
(* the numbers that claim and complete it, the profile that travels with it, and    *)
(* what the owner's answer says of the file, the bridge and the tab.                *)

(* The invariant.                                                                *)

Selections == Profiles \cup {NoProfile}
Unclaimed == {"none", "read"}
Claimed == {"mark", "save", "restart", "active", "answer", "failed"}
Saved == {"restart", "active", "answer", "failed"}

\* The types, with those ChoiceTypeOK leaves to the other parts.
ChoiceKinds ==
  /\ page \in [request : 0 .. Clicks, profile : Selections, claimed : 0 .. Clicks,
               completed : 0 .. Clicks, status : Statuses, saved : Selections, active : Selections]
  /\ press \in [step : {"none", "status", "sequence"}, profile : Selections]
  /\ picked \in Buttons \cup {NoProfile}
  /\ tab \in [step : {"none", "noted", "open"}, seen : 0 .. Clicks, shown : Selections]
  /\ file \in Profiles /\ running \in Selections /\ option \in Selections
  /\ setup \in 0 .. 2 /\ pending \in BOOLEAN /\ outside \in BOOLEAN
  /\ apply \in [step : Unclaimed \cup {"claim"} \cup Claimed, request : 0 .. Clicks, profile : Selections]
  /\ watch \in [step : {"none", "read", "signal", "wait"}, seen : 0 .. Clicks,
                requested : 0 .. Clicks]
  /\ typed \in [step : {"none", "restart"}, profile : Selections]
  /\ generation \in 1 .. Apps /\ configured \in 0 .. Configures

\* A request is claimed once, by an apply that runs alone, and completed once.
Numbered ==
  /\ page.completed <= page.claimed /\ page.claimed <= page.request
  /\ tab.seen <= page.completed
  /\ setup = 0 => page.claimed = 0
  /\ apply.step # "none" => setup = 1 /\ typed.step = "none"
  /\ apply.step \in Unclaimed \cup {"claim"} => page.completed = page.claimed
  /\ apply.step = "claim" => page.claimed < apply.request /\ apply.request <= page.request
  /\ apply.step \in Claimed => apply.request = page.claimed /\ page.completed < page.claimed

\* The profile on the page is that of the press being stored, else of the last one.
Pressed ==
  /\ press.step # "none" =>
       press.profile \in Buttons /\ page.profile = press.profile /\ page.request < Clicks
  /\ press.step = "none" /\ page.request > 0 => page.profile = picked
  /\ page.request > 0 => picked \in Buttons /\ page.profile \in Buttons

\* The apply carries the profile of its request, unless one has begun since.
Carried ==
  /\ typed.step # "none" => typed.profile \in Profiles
  /\ apply.step \in Claimed =>
       /\ apply.profile \in Profiles
       /\ press.step = "none" /\ apply.request = page.request => apply.profile = page.profile
  /\ apply.step \in Saved => file = apply.profile /\ page.saved = apply.profile
  /\ apply.step \in {"active", "answer"} => outside \/ running = file
  /\ apply.step = "answer" => page.active = file

\* What ACTIVE on the page says once no apply is past its claim.
Confirmed ==
  apply.step \in Unclaimed /\ typed.step = "none" /\ setup = 1 /\ page.status = "ACTIVE" /\ ~outside
  => /\ page.active = running
     /\ page.claimed > 0 /\ press.step = "none" /\ page.claimed = page.request
        => page.active = picked /\ file = picked /\ page.saved = picked

Shown ==
  tab.step = "open" /\ tab.seen = page.completed /\ page.completed > 0 /\ apply.step # "answer"
  => tab.shown = page.active

ChoiceInv == ChoiceKinds /\ Numbered /\ Pressed /\ Carried /\ Confirmed /\ Shown

-------------------------------------------------------------------------------
(* Its beginning.                                                                *)

\* A parameter is one of its profiles or a number of its bound.
LEMMA ChoiceBounds ==
  /\ Buttons \subseteq Profiles /\ Default \in Profiles /\ NoProfile \notin Profiles
  /\ Clicks \in Nat /\ Configures \in Nat /\ Apps \in Nat /\ 1 <= Apps
<1> QED BY ChoiceAssumption

\* An application starts on a page that asks nothing.
LEMMA NewPageOK == NewPage \in [request : 0 .. Clicks, profile : Selections, claimed : 0 .. Clicks,
    completed : 0 .. Clicks, status : Statuses, saved : Selections, active : Selections]
<1> QED BY ChoiceBounds DEF NewPage, Selections, Statuses

LEMMA ChoiceInitOK == ChoiceInit => ChoiceInv
<1> SUFFICES ASSUME ChoiceInit PROVE ChoiceInv
  OBVIOUS
<1>1. ChoiceKinds
  <2>1. page \in [request : 0 .. Clicks, profile : Selections, claimed : 0 .. Clicks,
      completed : 0 .. Clicks, status : Statuses, saved : Selections, active : Selections]
    BY NewPageOK DEF ChoiceInit
  <2>2. /\ press \in [step : {"none", "status", "sequence"}, profile : Selections]
        /\ tab \in [step : {"none", "noted", "open"}, seen : 0 .. Clicks, shown : Selections]
        /\ typed \in [step : {"none", "restart"}, profile : Selections]
    BY ChoiceBounds DEF ChoiceInit, NoPress, NoTab, NoCommand, Selections
  <2>3. /\ apply \in [step : Unclaimed \cup {"claim"} \cup Claimed, request : 0 .. Clicks,
                      profile : Selections]
        /\ watch \in [step : {"none", "read", "signal", "wait"}, seen : 0 .. Clicks,
                      requested : 0 .. Clicks]
    BY ChoiceBounds DEF ChoiceInit, NoApply, NoWatch, Unclaimed, Selections
  <2>4. /\ file \in Profiles /\ running \in Selections /\ option \in Selections
        /\ picked \in Buttons \cup {NoProfile}
    BY ChoiceBounds DEF ChoiceInit, Selections
  <2>5. setup \in 0 .. 2 /\ generation \in 1 .. Apps /\ configured \in 0 .. Configures
    BY ChoiceBounds DEF ChoiceInit
  <2>6. pending \in BOOLEAN /\ outside \in BOOLEAN
    BY DEF ChoiceInit
  <2> QED BY <2>1, <2>2, <2>3, <2>4, <2>5, <2>6 DEF ChoiceKinds
<1>2. Numbered
  BY DEF ChoiceInit, Numbered, NewPage, NoTab, NoApply, Unclaimed, Claimed
<1>3. Pressed /\ Carried
  BY DEF ChoiceInit, Pressed, Carried, NewPage, NoPress, NoApply, NoCommand, Claimed, Saved
<1>4. Confirmed /\ Shown
  BY DEF ChoiceInit, Confirmed, Shown, NewPage, NoTab
<1> QED BY <1>1, <1>2, <1>3, <1>4 DEF ChoiceInv

-------------------------------------------------------------------------------
(* The application's steps.                                                      *)

LEMMA PressBeginsOK == ASSUME ChoiceInv, NEW p \in Buttons, PressBegins(p) PROVE ChoiceInv'
<1> USE ChoiceBounds DEF ChoiceInv, PressBegins, ownerVars, shellVars
<1>1. ChoiceKinds'
  BY DEF ChoiceKinds, Selections
<1>2. Numbered'
  BY DEF ChoiceKinds, Numbered
<1>3. Pressed'
  BY DEF ChoiceKinds, Pressed
<1>4. Carried'
  BY DEF ChoiceKinds, Carried
<1>5. Confirmed' /\ Shown'
  BY DEF ChoiceKinds, Confirmed, Shown
<1> QED BY <1>1, <1>2, <1>3, <1>4, <1>5

LEMMA PressMarksOK == ASSUME ChoiceInv, PressMarks PROVE ChoiceInv'
<1> USE ChoiceBounds DEF ChoiceInv, PressMarks, ownerVars, shellVars
<1>1. ChoiceKinds'
  BY DEF ChoiceKinds, Statuses
<1>2. Numbered'
  BY DEF ChoiceKinds, Numbered
<1>3. Pressed' /\ Carried'
  BY DEF ChoiceKinds, Pressed, Carried
<1>4. Confirmed' /\ Shown'
  BY DEF ChoiceKinds, Confirmed, Shown, Statuses
<1> QED BY <1>1, <1>2, <1>3, <1>4

\* A counted press makes every apply under way one of an older request.
LEMMA PressCountsOK == ASSUME ChoiceInv, PressCounts PROVE ChoiceInv'
<1> USE ChoiceBounds DEF ChoiceInv, PressCounts, ownerVars, shellVars
<1>1. ChoiceKinds'
  BY DEF ChoiceKinds, Pressed, NoPress, Selections
<1>2. Numbered'
  BY DEF ChoiceKinds, Numbered
<1>3. Pressed'
  BY DEF ChoiceKinds, Numbered, Pressed, NoPress
<1>4. Carried'
  BY DEF ChoiceKinds, Numbered, Carried
<1>5. Confirmed' /\ Shown'
  BY DEF ChoiceKinds, Numbered, Confirmed, Shown
<1> QED BY <1>1, <1>2, <1>3, <1>4, <1>5

\* A tab notes the completed request, shows the active profile, or goes.
LEMMA TabOK == ASSUME ChoiceInv, Tab PROVE ChoiceInv'
<1>1. TabChanges
  BY DEF Tab, TabOpens, TabShows, TabActive, TabRefreshes, TabCloses
<1>2. /\ tab' \in [step : {"none", "noted", "open"}, seen : 0 .. Clicks, shown : Selections]
      /\ tab'.seen <= page.completed
      /\ tab'.step = "open" => tab'.shown = page.active
  <2>0. /\ tab \in [step : {"none", "noted", "open"}, seen : 0 .. Clicks, shown : Selections]
        /\ page.completed \in 0 .. Clicks /\ page.active \in Selections
        /\ tab.seen <= page.completed /\ NoProfile \in Selections /\ Clicks \in Nat
    BY ChoiceBounds DEF ChoiceInv, ChoiceKinds, Numbered, Selections
  <2>1. CASE TabOpens
    <3>1. tab' = [step |-> "noted", seen |-> page.completed, shown |-> NoProfile]
      BY <2>1 DEF TabOpens, NoTab
    <3> QED BY <2>0, <3>1
  <2>2. CASE TabShows
    BY <2>0, <2>2 DEF TabShows, Highlighted
  <2>3. CASE TabActive
    BY <2>0, <2>3 DEF TabActive, Highlighted
  <2>4. CASE TabRefreshes
    <3>1. tab' = [step |-> "noted", seen |-> page.completed, shown |-> tab.shown]
      BY <2>0, <2>4 DEF TabRefreshes
    <3> QED BY <2>0, <3>1
  <2>5. CASE TabCloses
    BY <2>0, <2>5 DEF TabCloses, NoTab
  <2> QED BY <2>1, <2>2, <2>3, <2>4, <2>5 DEF Tab
<1> USE <1>1, <1>2 DEF ChoiceInv, TabChanges, ownerVars, shellVars
<1>3. ChoiceKinds' /\ Numbered'
  BY DEF ChoiceKinds, Numbered
<1>4. Pressed' /\ Carried'
  BY DEF Pressed, Carried
<1>5. Confirmed' /\ Shown'
  BY DEF Confirmed, Shown
<1> QED BY <1>3, <1>4, <1>5

-------------------------------------------------------------------------------
(* The watch's and the shell's steps leave the page and the apply as they are.   *)

LEMMA WatchOK == ASSUME ChoiceInv, Watch PROVE ChoiceInv'
<1>1. /\ UNCHANGED <<pageVars, file, running, option, setup, apply, shellVars, generation>>
      /\ pending' \in BOOLEAN
      /\ watch' \in [step : {"none", "read", "signal", "wait"}, seen : 0 .. Clicks,
                     requested : 0 .. Clicks]
  <2>0. /\ watch \in [step : {"none", "read", "signal", "wait"}, seen : 0 .. Clicks,
                      requested : 0 .. Clicks]
        /\ page.request \in 0 .. Clicks /\ pending \in BOOLEAN
    BY DEF ChoiceInv, ChoiceKinds
  <2>1. CASE WatchReads
    BY <2>0, <2>1 DEF WatchReads, ownerVars
  <2>2. CASE WatchSignals
    <3>1. pending' \in BOOLEAN
      BY <2>0, <2>2 DEF WatchSignals
    <3> QED BY <2>0, <2>2, <3>1 DEF WatchSignals
  <2>3. CASE WatchWakes
    BY <2>0, <2>3 DEF WatchWakes, ownerVars
  <2> QED BY <2>1, <2>2, <2>3 DEF Watch
<1> USE <1>1 DEF ChoiceInv, pageVars, shellVars
<1>2. ChoiceKinds'
  BY DEF ChoiceKinds
<1>3. Numbered' /\ Pressed' /\ Carried'
  BY DEF Numbered, Pressed, Carried
<1>4. Confirmed' /\ Shown'
  BY DEF Confirmed, Shown
<1> QED BY <1>2, <1>3, <1>4

\* The command is alone with the preference it saves.
LEMMA ConfigureSavesOK == ASSUME ChoiceInv, NEW p \in Profiles, ConfigureSaves(p) PROVE ChoiceInv'
<1> USE ChoiceBounds DEF ChoiceInv, ConfigureSaves, Unlocked, pageVars, ownerVars
<1>1. ChoiceKinds'
  BY DEF ChoiceKinds, Selections
<1>2. Numbered' /\ Pressed'
  BY DEF Numbered, Pressed
<1>3. Carried'
  BY DEF Carried, Claimed, Saved
<1>4. Confirmed' /\ Shown'
  BY DEF Confirmed, Shown
<1> QED BY <1>1, <1>2, <1>3, <1>4

LEMMA ConfigureRestartsOK == ASSUME ChoiceInv, ConfigureRestarts PROVE ChoiceInv'
<1> USE ChoiceBounds DEF ChoiceInv, ConfigureRestarts, pageVars, ownerVars
<1>1. ChoiceKinds'
  BY DEF ChoiceKinds, NoCommand, Selections
<1>2. Numbered' /\ Pressed'
  BY DEF Numbered, Pressed, NoCommand
<1>3. Carried'
  BY DEF Carried, NoCommand
<1>4. Confirmed' /\ Shown'
  BY DEF Confirmed, Shown
<1> QED BY <1>1, <1>2, <1>3, <1>4

\* The bridge changes and the page is not told: outside says so.
LEMMA OutsideOK ==
  ASSUME ChoiceInv, BridgeEnds \/ \E p \in Profiles : BridgeStart(p)
  PROVE  ChoiceInv'
<1>1. /\ running' \in Selections /\ outside' = TRUE
      /\ UNCHANGED <<pageVars, file, ownerVars, watch, typed, configured, generation>>
  BY DEF BridgeEnds, BridgeStart, Selections
<1> USE <1>1 DEF ChoiceInv, pageVars, ownerVars
<1>2. ChoiceKinds'
  BY DEF ChoiceKinds
<1>3. Numbered' /\ Pressed' /\ Carried'
  BY DEF Numbered, Pressed, Carried
<1>4. Confirmed' /\ Shown'
  BY DEF Confirmed, Shown
<1> QED BY <1>2, <1>3, <1>4

-------------------------------------------------------------------------------
(* The owner's steps before a request has been claimed.                          *)

LEMMA SelectedOK == ASSUME ChoiceInv PROVE Selected \in Profiles
<1> QED BY DEF ChoiceInv, ChoiceKinds, Selected, Selections

\* The startup answers no request: none has been claimed before it.
LEMMA StartupOK == ASSUME ChoiceInv, Startup PROVE ChoiceInv'
<1>1. /\ setup = 0 /\ typed.step = "none" /\ apply.step = "none" /\ setup' \in {1, 2}
      /\ UNCHANGED <<press, picked, tab, file, option, pending, apply, typed, configured, generation>>
      /\ running' \in Selections /\ page.claimed = 0 /\ page.completed = 0
  <2>1. page.claimed = 0 /\ page.completed = 0 /\ apply.step = "none"
    BY DEF ChoiceInv, ChoiceKinds, Numbered, Startup
  <2> QED BY <2>1, SelectedOK DEF Startup, Unlocked, ChoiceInv, ChoiceKinds, Selections
<1>2. CASE setup' = 1
  <2>1. page' = Synced /\ running' = Selected /\ outside' = FALSE
    BY <1>2 DEF Startup
  <2>2. watch' = [step |-> "read", seen |-> page.completed, requested |-> 0]
    BY <1>2 DEF Startup
  <2> USE <1>1, <1>2, <2>1, ChoiceBounds, SelectedOK DEF ChoiceInv, Synced
  <2>3. ChoiceKinds'
    <3>1. outside' \in BOOLEAN
      BY <2>1
    <3>2. page' \in [request : 0 .. Clicks, profile : Selections, claimed : 0 .. Clicks,
        completed : 0 .. Clicks, status : Statuses, saved : Selections, active : Selections]
      BY DEF ChoiceKinds, Selections, Statuses
    <3>3. watch' \in [step : {"none", "read", "signal", "wait"}, seen : 0 .. Clicks,
                      requested : 0 .. Clicks]
      BY <2>2 DEF ChoiceKinds
    <3> QED BY <3>1, <3>2, <3>3 DEF ChoiceKinds
  <2>4. Numbered' /\ Pressed'
    BY DEF ChoiceKinds, Numbered, Pressed
  <2>5. Carried'
    BY DEF ChoiceKinds, Carried, Claimed, Saved
  <2>6. Confirmed' /\ Shown'
    BY DEF ChoiceKinds, Confirmed, Shown
  <2> QED BY <2>3, <2>4, <2>5, <2>6
<1>3. CASE setup' = 2
  <2>1. UNCHANGED <<page, watch, outside>>
    BY <1>3 DEF Startup
  <2> USE <1>1, <1>3, <2>1, ChoiceBounds DEF ChoiceInv
  <2>2. ChoiceKinds'
    BY DEF ChoiceKinds
  <2>3. Numbered' /\ Pressed'
    BY DEF Numbered, Pressed
  <2>4. Carried' /\ Confirmed' /\ Shown'
    BY DEF Carried, Claimed, Saved, Confirmed, Shown
  <2> QED BY <2>2, <2>3, <2>4
<1> QED BY <1>1, <1>2, <1>3

LEMMA ApplyBeginsOK == ASSUME ChoiceInv, ApplyBegins PROVE ChoiceInv'
<1>1. /\ setup = 1 /\ typed.step = "none" /\ apply.step = "none"
      /\ apply' = [step |-> "read", request |-> 0, profile |-> NoProfile]
      /\ UNCHANGED <<pageVars, file, running, option, setup, watch, shellVars, generation>>
  BY DEF ApplyBegins, Unlocked, NoApply
<1>2. pending' \in BOOLEAN
  BY DEF ApplyBegins
<1> USE <1>1, ChoiceBounds DEF ChoiceInv, pageVars, shellVars
<1>3. ChoiceKinds'
  BY <1>2 DEF ChoiceKinds, Unclaimed, Selections
<1>4. Numbered' /\ Pressed'
  BY DEF Numbered, Pressed, Unclaimed, Claimed
<1>5. Carried'
  BY DEF Carried, Claimed, Saved
<1>6. Confirmed' /\ Shown'
  BY DEF Confirmed, Unclaimed, Shown
<1> QED BY <1>3, <1>4, <1>5, <1>6

\* A number other than the claimed one is a newer one.
LEMMA ApplyReadsOK == ASSUME ChoiceInv, ApplyReads PROVE ChoiceInv'
<1>1. /\ apply.step = "read" /\ apply \in [step : Unclaimed \cup {"claim"} \cup Claimed,
                                           request : 0 .. Clicks, profile : Selections]
      /\ page.request \in 0 .. Clicks /\ page.claimed \in 0 .. Clicks /\ page.claimed <= page.request
      /\ UNCHANGED <<pageVars, file, running, option, setup, pending, watch, shellVars, generation>>
  BY DEF ApplyReads, ChoiceInv, ChoiceKinds, Numbered
<1> USE ChoiceBounds DEF ChoiceInv, pageVars, shellVars
<1>2. CASE page.request \in {0, page.claimed}
  <2>1. apply' = [step |-> "none", request |-> 0, profile |-> NoProfile]
    BY <1>2 DEF ApplyReads, NoApply
  <2>2. ChoiceKinds'
    BY <1>1, <2>1 DEF ChoiceKinds, Unclaimed, Selections
  <2>3. Numbered' /\ Pressed'
    BY <1>1, <2>1 DEF Numbered, Pressed, Unclaimed, Claimed
  <2>4. Carried'
    BY <1>1, <2>1 DEF Carried, Claimed, Saved
  <2>5. Confirmed' /\ Shown'
    BY <1>1, <2>1 DEF Confirmed, Unclaimed, Shown
  <2> QED BY <2>2, <2>3, <2>4, <2>5
<1>3. CASE page.request \notin {0, page.claimed}
  <2>1. apply' = [step |-> "claim", request |-> page.request, profile |-> apply.profile]
    BY <1>1, <1>3 DEF ApplyReads
  <2>2. page.claimed < page.request
    BY <1>1, <1>3
  <2>3. ChoiceKinds'
    BY <1>1, <2>1 DEF ChoiceKinds, Unclaimed, Selections
  <2>4. Numbered' /\ Pressed'
    BY <1>1, <2>1, <2>2 DEF Numbered, Pressed, Unclaimed, Claimed
  <2>5. Carried'
    BY <1>1, <2>1 DEF Carried, Claimed, Saved
  <2>6. Confirmed' /\ Shown'
    BY <1>1, <2>1 DEF Confirmed, Unclaimed, Shown
  <2> QED BY <2>3, <2>4, <2>5, <2>6
<1> QED BY <1>2, <1>3

-------------------------------------------------------------------------------
(* The owner's steps with a claimed request.                                     *)

\* The profile is read after the number: it is that of the claimed request unless
\* another press has begun.
LEMMA ApplyClaimsOK == ASSUME ChoiceInv, ApplyClaims PROVE ChoiceInv'
<1>1. /\ apply' = [step |-> "mark", request |-> apply.request, profile |-> page.profile]
      /\ page' = [page EXCEPT !.claimed = apply.request]
  BY DEF ApplyClaims, ChoiceInv, ChoiceKinds
<1> USE ChoiceBounds DEF ChoiceInv, ApplyClaims, shellVars
<1>2. page.claimed < apply.request /\ apply.request <= page.request /\ page.completed = page.claimed
  BY DEF Numbered
<1>3. page.profile \in Profiles
  BY <1>2 DEF ChoiceKinds, Pressed
<1>4. ChoiceKinds'
  BY <1>1 DEF ChoiceKinds, Claimed
<1>5. Numbered' /\ Pressed'
  BY <1>1, <1>2 DEF ChoiceKinds, Numbered, Pressed, Unclaimed, Claimed
<1>6. Carried'
  BY <1>1, <1>3 DEF ChoiceKinds, Carried, Claimed, Saved
<1>7. Confirmed' /\ Shown'
  BY <1>1 DEF ChoiceKinds, Confirmed, Shown, Unclaimed
<1> QED BY <1>4, <1>5, <1>6, <1>7

LEMMA ApplyMarksOK == ASSUME ChoiceInv, ApplyMarks PROVE ChoiceInv'
<1>1. apply' = [step |-> "save", request |-> apply.request, profile |-> apply.profile]
  BY DEF ApplyMarks, ChoiceInv, ChoiceKinds
<1> USE <1>1, ChoiceBounds DEF ChoiceInv, ApplyMarks, shellVars
<1>2. ChoiceKinds'
  BY DEF ChoiceKinds, Claimed, Statuses
<1>3. Numbered' /\ Pressed'
  BY DEF ChoiceKinds, Numbered, Pressed, Unclaimed, Claimed
<1>4. Carried'
  BY DEF ChoiceKinds, Carried, Claimed, Saved
<1>5. Confirmed' /\ Shown'
  BY DEF ChoiceKinds, Confirmed, Shown, Unclaimed
<1> QED BY <1>2, <1>3, <1>4, <1>5

\* Whatever ends a claimed request raises the completed number past every number
\* the tab has noted.
LEMMA CompletionRises ==
  ASSUME ChoiceInv, apply.step \in Claimed, NEW status \in Statuses,
         page' = Completed(status), apply' = NoApply,
         UNCHANGED <<press, picked, tab, file, running, option, pending, watch, shellVars, generation>>,
         setup' \in {1, 2}, setup' = 1 => setup = 1
  PROVE  ChoiceKinds' /\ Numbered' /\ Pressed' /\ Carried' /\ Shown'
<1>1. apply' = [step |-> "none", request |-> 0, profile |-> NoProfile]
  BY DEF NoApply
<1> USE <1>1, ChoiceBounds DEF ChoiceInv, Completed, shellVars
<1>2. page.completed < page.claimed /\ tab.seen < page'.completed /\ page'.completed = page.claimed
  BY DEF ChoiceKinds, Numbered, Claimed
<1>3. ChoiceKinds'
  <2>1. page' \in [request : 0 .. Clicks, profile : Selections, claimed : 0 .. Clicks,
      completed : 0 .. Clicks, status : Statuses, saved : Selections, active : Selections]
    BY DEF ChoiceKinds
  <2>2. apply' \in [step : Unclaimed \cup {"claim"} \cup Claimed, request : 0 .. Clicks,
                    profile : Selections]
    BY DEF Unclaimed, Selections
  <2> QED BY <2>1, <2>2 DEF ChoiceKinds
<1>4. Numbered'
  BY <1>2 DEF ChoiceKinds, Numbered, Unclaimed, Claimed
<1>5. Pressed' /\ Carried'
  BY DEF ChoiceKinds, Pressed, Carried, Claimed, Saved
<1>6. Shown'
  BY <1>2 DEF ChoiceKinds, Shown
<1> QED BY <1>3, <1>4, <1>5, <1>6

\* A refusal says nothing of the bridge.
LEMMA ApplyRefusedOK ==
  ASSUME ChoiceInv, NEW status \in Refusals, ApplyRefused(status) PROVE ChoiceInv'
<1>1. /\ apply.step \in Claimed /\ status \in Statuses /\ status # "ACTIVE" /\ setup = 1
  BY DEF ApplyRefused, Claimed, Refusals, Statuses, ChoiceInv, Numbered
<1>2. ChoiceKinds' /\ Numbered' /\ Pressed' /\ Carried' /\ Shown'
  BY <1>1, CompletionRises DEF ApplyRefused
<1>3. Confirmed'
  BY <1>1 DEF ApplyRefused, Completed, Confirmed, ChoiceInv, ChoiceKinds
<1> QED BY <1>2, <1>3 DEF ChoiceInv

LEMMA ApplySavesOK == ASSUME ChoiceInv, ApplySaves PROVE ChoiceInv'
<1>1. /\ apply' = [step |-> "restart", request |-> apply.request, profile |-> apply.profile]
      /\ page' = [page EXCEPT !.saved = apply.profile]
  BY DEF ApplySaves, ChoiceInv, ChoiceKinds
<1> USE ChoiceBounds DEF ChoiceInv, ApplySaves, shellVars
<1>2. apply.profile \in Profiles
  BY DEF Carried, Claimed
<1>3. ChoiceKinds'
  BY <1>1, <1>2 DEF ChoiceKinds, Claimed, Selections
<1>4. Numbered' /\ Pressed'
  BY <1>1 DEF ChoiceKinds, Numbered, Pressed, Unclaimed, Claimed
<1>5. Carried'
  BY <1>1, <1>2 DEF ChoiceKinds, Carried, Claimed, Saved
<1>6. Confirmed' /\ Shown'
  BY <1>1 DEF ChoiceKinds, Confirmed, Shown, Unclaimed
<1> QED BY <1>3, <1>4, <1>5, <1>6

\* Only a start that succeeded makes the owner's view of the bridge fresh.
LEMMA ApplyRestartsOK == ASSUME ChoiceInv, ApplyRestarts PROVE ChoiceInv'
<1>1. /\ apply.step = "restart"
      /\ UNCHANGED <<pageVars, file, setup, pending, watch, typed, configured, generation>>
  BY DEF ApplyRestarts
<1>2. \E step \in {"active", "failed"} :
         /\ apply' = [step |-> step, request |-> apply.request, profile |-> apply.profile]
         /\ option' \in Selections /\ running' \in Selections /\ outside' \in BOOLEAN
         /\ step = "active" => running' = file
  <2>0. /\ file \in Profiles /\ running \in Selections /\ option \in Selections /\ outside \in BOOLEAN
        /\ apply \in [step : Unclaimed \cup {"claim"} \cup Claimed,
                      request : 0 .. Clicks, profile : Selections]
    BY DEF ChoiceInv, ChoiceKinds
  <2>1. CASE /\ option' = NoProfile /\ running' = file /\ outside' = FALSE
             /\ apply' = [apply EXCEPT !.step = "active"]
    <3>1. outside' \in BOOLEAN
      BY <2>1
    <3>2. /\ apply' = [step |-> "active", request |-> apply.request, profile |-> apply.profile]
          /\ option' \in Selections /\ running' \in Selections /\ running' = file
      BY <2>0, <2>1 DEF Selections
    <3> QED BY <3>1, <3>2
  <2>2. CASE /\ outside' = outside /\ apply' = [apply EXCEPT !.step = "failed"]
             /\ option' \in {option, NoProfile} /\ running' \in {running, NoProfile, file}
    <3>1. outside' \in BOOLEAN
      BY <2>0, <2>2
    <3>2. /\ apply' = [step |-> "failed", request |-> apply.request, profile |-> apply.profile]
          /\ option' \in Selections /\ running' \in Selections
      BY <2>0, <2>2 DEF Selections
    <3> QED BY <3>1, <3>2
  <2> QED BY <2>1, <2>2 DEF ApplyRestarts
<1>3. PICK step \in {"active", "failed"} :
         /\ apply' = [step |-> step, request |-> apply.request, profile |-> apply.profile]
         /\ option' \in Selections /\ running' \in Selections /\ outside' \in BOOLEAN
         /\ step = "active" => running' = file
  BY <1>2
<1> USE <1>1, ChoiceBounds DEF ChoiceInv, pageVars
<1>4. ChoiceKinds'
  BY <1>3 DEF ChoiceKinds, Claimed
<1>5. Numbered' /\ Pressed'
  BY <1>3 DEF ChoiceKinds, Numbered, Pressed, Unclaimed, Claimed
<1>6. Carried'
  BY <1>3 DEF ChoiceKinds, Carried, Claimed, Saved
<1>7. Confirmed' /\ Shown'
  BY <1>3 DEF ChoiceKinds, Confirmed, Shown, Unclaimed
<1> QED BY <1>4, <1>5, <1>6, <1>7

\* The page names the saved profile active before it answers, or the owner gives
\* the controller up.
LEMMA ApplyFinishesOK == ASSUME ChoiceInv, ApplyFinishes PROVE ChoiceInv'
<1>1. /\ apply.step \in {"active", "failed"} /\ apply.step \in Claimed /\ setup = 1
      /\ UNCHANGED <<press, picked, tab, file, running, option, pending, watch, shellVars, generation>>
  BY DEF ApplyFinishes, Claimed, ChoiceInv, Numbered
<1>2. CASE apply.step = "active"
  <2>1. /\ apply' = [step |-> "answer", request |-> apply.request, profile |-> apply.profile]
        /\ page' = [page EXCEPT !.active = page.saved] /\ setup' = setup
    BY <1>2 DEF ApplyFinishes, ChoiceInv, ChoiceKinds
  <2> USE <1>1, <1>2, ChoiceBounds DEF ChoiceInv, shellVars
  <2>2. ChoiceKinds'
    BY <2>1 DEF ChoiceKinds, Claimed, Selections
  <2>3. Numbered' /\ Pressed'
    BY <2>1 DEF ChoiceKinds, Numbered, Pressed, Unclaimed, Claimed
  <2>4. Carried'
    BY <2>1 DEF ChoiceKinds, Carried, Claimed, Saved
  <2>5. Confirmed' /\ Shown'
    BY <2>1 DEF ChoiceKinds, Confirmed, Shown, Unclaimed
  <2> QED BY <2>2, <2>3, <2>4, <2>5
<1>3. CASE apply.step # "active"
  <2>1. page' = Completed("RESTART_FAILED") /\ apply' = NoApply /\ setup' = 2
    BY <1>3 DEF ApplyFinishes
  <2>2. "RESTART_FAILED" \in Statuses
    BY DEF Statuses
  <2>3. ChoiceKinds' /\ Numbered' /\ Pressed' /\ Carried' /\ Shown'
    BY <1>1, <2>1, <2>2, CompletionRises
  <2>4. Confirmed'
    BY <2>1 DEF Confirmed
  <2> QED BY <2>3, <2>4 DEF ChoiceInv
<1> QED BY <1>2, <1>3

\* ACTIVE: the request claimed is answered with the profile that was applied, which
\* is that of the last press when no newer one has begun.
LEMMA ApplyAnswersOK == ASSUME ChoiceInv, ApplyAnswers PROVE ChoiceInv'
<1>1. /\ apply.step = "answer" /\ apply.step \in Claimed /\ setup = 1 /\ "ACTIVE" \in Statuses
  BY DEF ApplyAnswers, Claimed, Statuses, ChoiceInv, Numbered
<1>2. ChoiceKinds' /\ Numbered' /\ Pressed' /\ Carried' /\ Shown'
  BY <1>1, CompletionRises DEF ApplyAnswers
<1>3. /\ outside \/ running = file
      /\ page.active = file /\ page.saved = file /\ apply.profile = file
      /\ page.claimed > 0 /\ page.claimed <= page.request /\ apply.request = page.claimed
      /\ press.step = "none" /\ apply.request = page.request => apply.profile = page.profile
      /\ press.step = "none" /\ page.request > 0 => page.profile = picked
  BY <1>1, ChoiceBounds DEF ChoiceInv, ChoiceKinds, Numbered, Pressed, Carried, Claimed, Saved
<1>4. page' = [page EXCEPT !.status = "ACTIVE", !.completed = page.claimed]
  BY DEF ApplyAnswers, Completed
<1>5. Confirmed'
  BY <1>3, <1>4 DEF ApplyAnswers, shellVars, Confirmed, ChoiceInv, ChoiceKinds
<1> QED BY <1>2, <1>5 DEF ChoiceInv

\* A new page starts from nothing; the preference and the options outlive the old.
LEMMA NextAppOK == ASSUME ChoiceInv, NextApp PROVE ChoiceInv'
<1>1. /\ setup' = 0 /\ running' = NoProfile /\ page' = NewPage
      /\ press' = NoPress /\ picked' = NoProfile /\ tab' = NoTab /\ watch' = NoWatch
      /\ generation' \in 1 .. Apps /\ apply.step = "none" /\ typed.step = "none"
      /\ UNCHANGED <<file, option, pending, apply, typed, outside, configured>>
  BY ChoiceBounds DEF NextApp, Unlocked, shellVars, ChoiceInv, ChoiceKinds
<1> USE <1>1, ChoiceBounds DEF ChoiceInv
<1>2. ChoiceKinds'
  BY NewPageOK DEF ChoiceKinds, NoPress, NoTab, NoWatch, Selections
<1>3. Numbered' /\ Pressed'
  BY DEF Numbered, Pressed, NewPage, NoPress, NoTab, Unclaimed, Claimed
<1>4. Carried' /\ Confirmed' /\ Shown'
  BY DEF Carried, Claimed, Saved, Confirmed, Shown, NoTab
<1> QED BY <1>2, <1>3, <1>4

-------------------------------------------------------------------------------
(* Every step.                                                                   *)

LEMMA ApplyOK == ASSUME ChoiceInv, Apply PROVE ChoiceInv'
<1> QED BY ApplyBeginsOK, ApplyReadsOK, ApplyClaimsOK, ApplyMarksOK, ApplySavesOK,
           ApplyRestartsOK, ApplyFinishesOK, ApplyAnswersOK, ApplyRefusedOK DEF Apply

LEMMA ChoiceStepOK == ASSUME ChoiceInv, [ChoiceNext]_choiceVars PROVE ChoiceInv'
<1>1. CASE UNCHANGED choiceVars
  <2> USE <1>1 DEF choiceVars, pageVars, ownerVars, shellVars
  <2>1. ChoiceKinds' /\ Numbered' /\ Pressed'
    BY DEF ChoiceInv, ChoiceKinds, Numbered, Pressed
  <2>2. Carried' /\ Confirmed' /\ Shown'
    BY DEF ChoiceInv, Carried, Confirmed, Shown
  <2> QED BY <2>1, <2>2 DEF ChoiceInv
<1>2. CASE (\E p \in Buttons : PressBegins(p)) \/ PressMarks \/ PressCounts \/ Tab
  BY <1>2, PressBeginsOK, PressMarksOK, PressCountsOK, TabOK
<1>3. CASE Watch \/ Startup \/ Apply \/ NextApp
  BY <1>3, WatchOK, StartupOK, ApplyOK, NextAppOK
<1>4. CASE (\E p \in Profiles : ConfigureSaves(p)) \/ ConfigureRestarts
  BY <1>4, ConfigureSavesOK, ConfigureRestartsOK
<1>5. CASE BridgeEnds \/ \E p \in Profiles : BridgeStart(p)
  BY <1>5, OutsideOK
<1> QED BY <1>1, <1>2, <1>3, <1>4, <1>5 DEF ChoiceNext

\* The types hold of the invariant's states.
LEMMA ChoiceTyped == ChoiceInv => ChoiceTypeOK
<1> SUFFICES ASSUME ChoiceInv PROVE ChoiceTypeOK
  OBVIOUS
<1> USE ChoiceBounds DEF ChoiceInv
<1>1. page \in [request : 0 .. Clicks, profile : Profiles \cup {NoProfile}, claimed : 0 .. Clicks,
                completed : 0 .. Clicks, status : Statuses,
                saved : Profiles \cup {NoProfile}, active : Profiles \cup {NoProfile}]
  BY DEF ChoiceKinds, Selections
<1>2. /\ press.step \in {"none", "status", "sequence"} /\ picked \in Buttons \cup {NoProfile}
      /\ {file, running, option} \subseteq Profiles \cup {NoProfile} /\ file # NoProfile
      /\ setup \in 0 .. 2
  BY DEF ChoiceKinds, Selections
<1>3. pending \in BOOLEAN /\ outside \in BOOLEAN
  BY DEF ChoiceKinds
<1>4. /\ apply.step \in {"none", "read", "claim", "mark", "save", "restart", "active", "answer", "failed"}
      /\ tab.step \in {"none", "noted", "open"} /\ watch.step \in {"none", "read", "signal", "wait"}
      /\ generation \in 1 .. Apps /\ configured \in 0 .. Configures
  BY DEF ChoiceKinds, Unclaimed, Claimed
<1>5. /\ tab.seen <= page.completed
      /\ page.completed <= page.claimed /\ page.claimed <= page.request
  BY DEF Numbered
<1> QED BY <1>1, <1>2, <1>3, <1>4, <1>5 DEF ChoiceTypeOK

-------------------------------------------------------------------------------
(* The theorems.                                                                 *)

\* The inductive invariant: a request is claimed once and completed once, its profile
\* travels with its number, and ACTIVE is said only of the bridge that runs
\* (controller_intent, native_preferences_apply).
THEOREM ChoiceHolds == ChoiceSpec => []ChoiceInv
<1>1. ChoiceInv /\ [ChoiceNext]_choiceVars => ChoiceInv'
  BY ChoiceStepOK
<1> QED
  BY <1>1, ChoiceInitOK, PTL DEF ChoiceSpec

\* The state of the choice keeps its types and its numbers their order.
THEOREM ChoiceTypes == ChoiceSpec => []ChoiceTypeOK
<1> QED
  BY ChoiceTyped, ChoiceHolds, PTL

\* "the highlighted button reflects the session owner's confirmed active profile": the
\* last press wins, however presses overlapped their application, and an open tab
\* that has noted the newest answer shows it (native-preferences.cc, mcu-session.sh).
THEOREM TheLastPressWins == ChoiceSpec => []LastChoiceWins
<1>1. ChoiceInv => LastChoiceWins
  <2> SUFFICES ASSUME ChoiceInv PROVE LastChoiceWins
    OBVIOUS
  <2>1. Settled /\ page.status = "ACTIVE" /\ ~outside =>
          /\ page.active = running
          /\ page.claimed > 0 => page.active = picked /\ file = picked /\ page.saved = picked
    BY ChoiceBounds DEF Settled, ChoiceInv, ChoiceKinds, Numbered, Confirmed, Unclaimed
  <2>2. Shown
    BY DEF ChoiceInv
  <2> QED BY <2>1, <2>2 DEF LastChoiceWins, Shown
<1> QED
  BY <1>1, ChoiceHolds, PTL

\* The three systems of one user interface, as the run composes them: whichever
\* acts, the others' states stay where they were.
LEMMA EachPartRuns ==
  ToolkitInv /\ ChoiceInv /\ LearnInv /\ [ScreensNext]_screensVars
  => ToolkitInv' /\ ChoiceInv' /\ LearnInv'
<1> SUFFICES ASSUME ToolkitInv, ChoiceInv, LearnInv, [ScreensNext]_screensVars
             PROVE  ToolkitInv' /\ ChoiceInv' /\ LearnInv'
  OBVIOUS
<1>1. [Next]_vars /\ [ChoiceNext]_choiceVars /\ [LearnNext]_learnVars
  BY DEF ScreensNext, screensVars
<1> QED BY <1>1, NextKeeps, ChoiceStepOK, LearnStepOK

\* Every part of the user interface keeps its types, whichever of them runs.
THEOREM ScreensKeepTheirTypes == ScreensSpec => []ScreensTypeOK
<1>1. ScreensInit => ToolkitInv /\ ChoiceInv /\ LearnInv
  BY InitToolkit, ChoiceInitOK, LearnInitOK DEF ScreensInit
<1>2. ToolkitInv /\ ChoiceInv /\ LearnInv => ScreensTypeOK
  <2>1. ToolkitInv => TypeOK
    BY DEF ToolkitInv
  <2>2. LearnInv => LearnTypeOK
    BY DEF LearnInv, KindsOK, Choosing, SlotOK, SlotSet, LearnTypeOK
  <2> QED BY <2>1, <2>2, ChoiceTyped DEF ScreensTypeOK
<1> QED
  BY <1>1, <1>2, EachPartRuns, PTL DEF ScreensSpec
================================================================================
