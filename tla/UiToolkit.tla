------------------------------ MODULE UiToolkit -------------------------------
(* The host-widget toolkit of ui/mpclearn-ui.cc: one context on the UI thread,  *)
(* one app host with the consumer registered in it, the consumer's screens and  *)
(* their native widgets.  Everything runs on the UI thread, so an action is a    *)
(* whole call; what interleaves is who calls next: the consumer (from its open   *)
(* callback, from a widget's callback or from the adapter's drain), the native   *)
(* host delivering widget events, and the adapter suspending, resuming, closing  *)
(* or destroying the host.  Native calls throw and focus is refused at any call. *)
(* Allocation failures unwind inside the call they happen in and leave nothing.  *)
EXTENDS Naturals, FiniteSets, Sequences, SequencesExt

CONSTANTS Screens,   \* the screens the consumer may create
          Widgets,   \* their buttons, lists and sliders
          Home,      \* the screen of each widget
          Kind,      \* "button", "list" or "slider"
          Nesting,   \* bound on nested callbacks (a modal dialog inside a callback)
          Throws     \* bound on the calls in which the native host throws

ASSUME ScreensAreFinite == IsFiniteSet(Screens)
ASSUME Bounds == Nesting \in Nat /\ Throws \in Nat

VARIABLES
  owned,     \* what the adapter has made: the context, its parent, the app host
  app,       \* the app host's flags
  present, newer,             \* the parent's list of screens: its members and its order
  visible, resume, closing,   \* screens: shown, shown at suspension, being closed
  made, live,                 \* widgets: existing, and whose binding publishes
  dragged, wired, attached,   \* widgets: what the native host holds of each of them
  wanted, lit,                \* widgets: asked to be visible, and natively visible
  stack,     \* the callbacks that are running, innermost last (callback_depth)
  thrown,    \* calls in which the native host threw or refused a child
  showing    \* history: screens the consumer itself left shown

appVars == <<owned, app>>
screenVars == <<present, newer, visible, resume, closing, showing>>
bindings == <<made, live>>
holds == <<dragged, wired, attached>>
looks == <<wanted, lit>>
vars == <<appVars, screenVars, bindings, holds, looks, stack, thrown>>

Tile == "tile"   \* the launcher's own button: a screen of another parent
Parts == {"context", "parent", "host"}
Idle == [registered |-> FALSE, opened |-> FALSE, asked |-> FALSE,
         moving |-> FALSE, suspended |-> FALSE]

On(S) == {w \in made : Home[w] \in S}
Asked(s) == On({s}) \cap attached \cap wanted
Reports(n) == thrown + n <= Throws /\ thrown' = thrown + n
Before(s, t) == <<s, t>> \in newer   \* the list is walked from the newest screen on

Init ==
  /\ owned = {} /\ app = Idle
  /\ present = {} /\ newer = {} /\ visible = {} /\ resume = {} /\ closing = {} /\ showing = {}
  /\ made = {} /\ live = {}
  /\ dragged = {} /\ wired = {} /\ attached = {}
  /\ wanted = {} /\ lit = {}
  /\ stack = <<>> /\ thrown = 0

-------------------------------------------------------------------------------
(* What one native call leaves behind: whether it succeeded, the widgets of     *)
(* the screen that are lit afterwards, and what was reported.                    *)

Result(ok, on, n) == [ok |-> ok, lit |-> on, throws |-> n]

HideResultsDark(s) ==   \* as if a refused focus left the children hidden
  {Result(TRUE, {}, 0), Result(FALSE, {}, 0)}
    \cup {Result(FALSE, on, 1) : on \in SUBSET (Asked(s) \cup (lit \cap On({s})))}

\* A refused focus shows the children again; a call that throws stops midway.
HideResults(s) ==
  {Result(TRUE, {}, 0), Result(FALSE, Asked(s), 0)}
    \cup {Result(FALSE, on, 1) : on \in SUBSET (Asked(s) \cup (lit \cap On({s})))}

\* Focus comes first, so its refusal changes nothing; a call that throws hides
\* again what it can.
ShowResults(s) ==
  {Result(TRUE, Asked(s), 0), Result(FALSE, {}, 0)}
    \cup {Result(FALSE, on, 1) : on \in SUBSET Asked(s)}

Told(S, out) == Cardinality({s \in S : out[s].throws > 0})

-------------------------------------------------------------------------------
(* The adapter's objects.                                                        *)

\* A context, the parent with its attach, detach and focus, and the app host.
Create(part) ==
  /\ part \notin owned
  /\ part = "parent" => "context" \in owned
  /\ part = "host" => "parent" \in owned /\ present = {}
  /\ owned' = owned \cup {part}
  /\ UNCHANGED <<app, screenVars, bindings, holds, looks, stack, thrown>>

\* parent_destroy and context_destroy refuse while something of theirs is left.
Release(part) ==
  /\ part \in owned
  /\ \/ part = "parent" /\ "host" \notin owned /\ present = {}
     \/ part = "context" /\ owned = {"context"} /\ present = {} /\ stack = <<>>
  /\ owned' = owned \ {part}
  /\ UNCHANGED <<app, screenVars, bindings, holds, looks, stack, thrown>>

Register ==
  /\ "host" \in owned /\ ~app.registered /\ ~app.opened /\ ~app.moving
  /\ app' = [app EXCEPT !.registered = TRUE]
  /\ UNCHANGED <<owned, screenVars, bindings, holds, looks, stack, thrown>>

Unregister ==
  /\ app.registered /\ ~app.opened /\ ~app.asked /\ ~app.moving /\ present = {}
  /\ app' = [app EXCEPT !.registered = FALSE]
  /\ UNCHANGED <<owned, screenVars, bindings, holds, looks, stack, thrown>>

\* The consumer's open callback starts; what it does are actions of its own.
OpenBegins ==
  /\ app.registered /\ ~app.opened /\ ~app.asked /\ ~app.moving /\ present = {}
  /\ app' = [app EXCEPT !.opened = TRUE, !.moving = TRUE]
  /\ UNCHANGED <<owned, screenVars, bindings, holds, looks, stack, thrown>>

-------------------------------------------------------------------------------
(* Screens and widgets.                                                          *)

CreateScreen(s) ==
  /\ app.opened /\ s \notin present
  /\ present' = present \cup {s} /\ newer' = newer \cup {<<s, t>> : t \in present}
  /\ UNCHANGED <<appVars, visible, resume, closing, showing, bindings, holds, looks, stack, thrown>>

\* From its creation on the native host keeps memory of the toolkit for a widget: a
\* list's model and the drag mode of its viewport, a slider's listener.
Drags(w) == Kind[w] = "list"
Listens(w) == Kind[w] = "slider"

CreateWidget(w) ==
  /\ Home[w] \in present \ closing /\ w \notin made
  /\ made' = made \cup {w} /\ live' = live \cup {w}
  /\ wired' = IF Drags(w) \/ Listens(w) THEN wired \cup {w} ELSE wired
  /\ dragged' = IF Drags(w) THEN dragged \cup {w} ELSE dragged
  /\ UNCHANGED <<appVars, screenVars, attached, looks, stack, thrown>>

\* control_place, list_place and slider_place: the grid only computes bounds.
Place(w) ==
  /\ w \in made
  /\ \/ /\ attached' = attached \cup {w} /\ wanted' = wanted \cup {w}
        /\ lit' = IF Home[w] \in visible THEN lit \cup {w} ELSE lit \ {w}
        /\ UNCHANGED thrown
     \/ \* the attach was refused, or the bounds could not be set after it
        /\ attached' \in {attached, attached \cup {w}}
        /\ Reports(1) /\ UNCHANGED looks
  /\ UNCHANGED <<appVars, screenVars, bindings, dragged, wired, stack>>

LightsUnplaced(w, on) == on /\ Home[w] \in visible   \* as if every widget were placed

\* A widget is lit once it is placed, asked for, and its screen is shown.
Lights(w, on) == w \in attached /\ on /\ Home[w] \in visible

\* control_visible, list_visible and slider_visible.
SetVisible(w, on) ==
  /\ w \in made
  /\ wanted' = IF on THEN wanted \cup {w} ELSE wanted \ {w}
  /\ \/ /\ lit' = IF Lights(w, on) THEN lit \cup {w} ELSE lit \ {w}
        /\ UNCHANGED thrown
     \/ w \in attached /\ Reports(1) /\ UNCHANGED lit
  /\ UNCHANGED <<appVars, screenVars, bindings, holds, stack>>

\* Text, style, selection, row count and value change the native look alone.
Decorate(w) ==
  /\ w \in made /\ Reports(1)
  /\ UNCHANGED <<appVars, screenVars, bindings, holds, looks, stack>>

\* The consumer neither shows nor hides a screen while it is suspended.
Show(s) ==
  /\ s \in present \ closing /\ s \notin visible /\ ~app.suspended
  /\ \E out \in ShowResults(s) :
       /\ visible' = IF out.ok THEN visible \cup {s} ELSE visible
       /\ showing' = IF out.ok THEN showing \cup {s} ELSE showing
       /\ lit' = (lit \ On({s})) \cup out.lit
       /\ Reports(out.throws)
  /\ UNCHANGED <<appVars, present, newer, resume, closing, bindings, holds, wanted, stack>>

Hide(s) ==
  /\ s \in present \cap visible /\ ~app.suspended
  /\ \E out \in HideResults(s) :
       /\ visible' = IF out.ok THEN visible \ {s} ELSE visible
       /\ showing' = IF out.ok THEN showing \ {s} ELSE showing
       /\ lit' = (lit \ On({s})) \cup out.lit
       /\ Reports(out.throws)
  /\ UNCHANGED <<appVars, present, newer, resume, closing, bindings, holds, wanted, stack>>

-------------------------------------------------------------------------------
(* Closing.  A close invalidates, then ends the lists' drag, takes their models  *)
(* and the sliders' listeners back, hides, detaches, and frees only when every   *)
(* child came off.  Each phase covers all widgets of its kind, and a failure in  *)
(* it ends the close with the phases before it done.                             *)

Phase == [drag |-> 1, model |-> 2, listener |-> 3, child |-> 4, none |-> 5]
Holding(phase) ==
  CASE phase = "drag" -> dragged
    [] phase = "model" -> {w \in wired : Drags(w)}
    [] phase = "listener" -> {w \in wired : Listens(w)}
    [] phase = "child" -> attached
    [] OTHER -> {}
\* The phase the closing of s ends in, and the widgets whose call failed there.
Ends(s) == {[phase |-> "none", stuck |-> {}]} \cup
           UNION {{[phase |-> p, stuck |-> k] : k \in (SUBSET (Holding(p) \cap On({s}))) \ {{}}}
                  : p \in DOMAIN Phase \ {"none"}}
AllEnds(S) == {ends \in [S -> UNION {Ends(s) : s \in S}] : \A s \in S : ends[s] \in Ends(s)}
Detached(p, ends, S) ==   \* what phase p takes from the host, over the screens of S
  UNION {{w \in On({s}) : \/ Phase[p] < Phase[ends[s].phase]
                          \/ p = ends[s].phase /\ w \notin ends[s].stuck} : s \in S}

\* The screens of S are closed one after another, each with its own end, and the
\* bindings of the screens of I die with them.  The hiding may be refused too: a
\* screen whose children stay attached is then still lit.
CloseScreens(S, ends, I) ==
  LET freed == {s \in S : ends[s].phase = "none"}
      gone == On(freed)
      lists == {w \in Widgets : Drags(w)}
      stuck == {s \in S : ends[s].phase = "child"} IN
  \E hidden \in {freed, freed \cup stuck} :
    /\ present' = present \ freed
    /\ newer' = {pair \in newer : freed \cap {pair[1], pair[2]} = {}}
    /\ closing' = (closing \cup S \cup I) \ freed
    /\ visible' = visible \ hidden
    /\ resume' = resume \ freed /\ showing' = showing \ freed
    /\ made' = made \ gone /\ live' = live \ On(S \cup I)
    /\ dragged' = dragged \ Detached("drag", ends, S)
    /\ wired' = wired \ ((Detached("model", ends, S) \cap lists)
                           \cup (Detached("listener", ends, S) \ lists))
    /\ attached' = attached \ Detached("child", ends, S)
    /\ wanted' = wanted \ gone
    /\ lit' = lit \ (gone \cup On(hidden) \cup Detached("child", ends, S))
    /\ Reports(Cardinality(S \ freed))

MayCloseInCallback == TRUE   \* as if a callback could close its own screen

\* A close is refused while a callback of the context runs.
MayClose == stack = <<>>

\* mpc_ui_screen_close, by the consumer.
CloseScreen(s) ==
  /\ s \in present /\ MayClose
  /\ \E end \in Ends(s) : CloseScreens({s}, [t \in {s} |-> end], {})
  /\ UNCHANGED <<appVars, stack>>

\* A consumer's callback that closes its screens, all of them or up to one that
\* fails: with a callback on the stack the first one is refused.
ConsumerCloses(I) ==
  IF ~MayClose \/ present = {}
  THEN UNCHANGED <<screenVars, bindings, holds, looks, thrown>>
  ELSE \E S \in SUBSET present : \E ends \in AllEnds(S) :
         /\ S = present \/ I # {} \/ \E s \in S : ends[s].phase # "none"
         /\ CloseScreens(S, ends, I)

\* The open callback returns.  A failed one is unwound by the consumer's close;
\* what could not be unwound stays open.
OpenEnds ==
  /\ app.moving
  /\ \/ /\ present # {}
        /\ app' = [app EXCEPT !.moving = FALSE]
        /\ UNCHANGED <<screenVars, bindings, holds, looks, thrown>>
     \/ /\ ConsumerCloses({})
        /\ app' = IF present' = {} THEN [app EXCEPT !.moving = FALSE, !.opened = FALSE, !.asked = FALSE]
                  ELSE [app EXCEPT !.moving = FALSE]
  /\ UNCHANGED <<owned, stack>>

RequestClose ==
  /\ app.registered /\ app.opened /\ ~app.asked
  /\ app' = [app EXCEPT !.asked = TRUE]
  /\ UNCHANGED <<owned, screenVars, bindings, holds, looks, stack, thrown>>

Shut == [app EXCEPT !.opened = FALSE, !.asked = FALSE, !.suspended = FALSE]


\* The request is kept until the consumer's last screen is gone.
Drained == IF present' = {} THEN Shut ELSE app

\* A drain whose prepare_close answers READY.  PENDING and FAILED keep the request.
MayDrain == "host" \in owned /\ ~app.moving /\ stack = <<>> /\ app.asked /\ app.opened
Drain ==
  /\ MayDrain
  /\ ConsumerCloses({})
  /\ app' = Drained
  /\ UNCHANGED <<owned, stack>>

\* Destruction by the owner of the native parent.  On a callback's stack it only
\* invalidates; otherwise prepare_close(forced) and close run first, and a failure
\* of either invalidates what is left and keeps the host.
Invalidated(S) == closing' = closing \cup S /\ live' = live \ On(S)

Destroy ==
  /\ "host" \in owned
  /\ \/ /\ app.moving \/ stack # <<>>
        /\ Invalidated(present)
        /\ UNCHANGED <<appVars, present, newer, visible, resume, showing, made, holds, looks, thrown>>
     \/ /\ ~app.moving /\ stack = <<>>
        /\ IF app.opened THEN ConsumerCloses(present)
           ELSE UNCHANGED <<screenVars, bindings, holds, looks, thrown>>
        /\ \/ present' = {} /\ app' = Idle /\ owned' = owned \ {"host"}
           \/ app.opened /\ app' = [app EXCEPT !.asked = TRUE] /\ UNCHANGED owned
  /\ UNCHANGED stack

\* The adapter invalidates a screen it will close later.
Invalidate(s) ==
  /\ s \in present /\ Invalidated({s})
  /\ UNCHANGED <<appVars, present, newer, visible, resume, showing, made, holds, looks, stack, thrown>>

-------------------------------------------------------------------------------
(* Suspension: the native parent goes back to its stock screen for a while.      *)

MayMove == /\ app.registered /\ app.opened /\ ~app.asked /\ ~app.moving /\ stack = <<>>
           /\ present # {} /\ present \cap closing = {}

\* The first screen that will not hide ends it, and those already hidden are shown
\* again; when that fails too the host counts as suspended and resume finishes it.
Suspend ==
  /\ MayMove /\ ~app.suspended
  /\ \/ /\ visible' = {} /\ resume' = visible
        /\ lit' = lit \ On(visible)
        /\ app' = [app EXCEPT !.suspended = TRUE]
        /\ UNCHANGED thrown
     \/ \E f \in visible : \E out \in {r \in HideResults(f) : ~r.ok} :
        LET hidden == {s \in visible : Before(s, f)} IN
        \E back \in [hidden -> UNION {ShowResults(s) : s \in hidden}] :
          /\ \A s \in hidden : back[s] \in ShowResults(s)
          /\ LET lost == {s \in hidden : ~back[s].ok} IN
             /\ visible' = visible \ lost
             /\ resume' = IF lost = {} THEN {} ELSE visible
             /\ app' = [app EXCEPT !.suspended = lost # {}]
          /\ lit' = (lit \ On(hidden \cup {f})) \cup out.lit \cup UNION {back[s].lit : s \in hidden}
          /\ Reports(out.throws + Told(hidden, back))
  /\ UNCHANGED <<owned, present, newer, closing, showing, bindings, holds, wanted, stack>>

\* The first screen that will not show ends it, and what is shown is hidden again.
Resume ==
  /\ MayMove /\ app.suspended
  /\ LET waiting == resume \ visible IN
     \/ /\ visible' = visible \cup waiting /\ resume' = {}
        /\ lit' = lit \cup UNION {Asked(s) : s \in waiting}
        /\ app' = [app EXCEPT !.suspended = FALSE]
        /\ UNCHANGED thrown
     \/ \E f \in waiting : \E out \in {r \in ShowResults(f) : ~r.ok} :
        LET shown == (resume \cap visible) \cup {s \in waiting : Before(s, f)} IN
        \E back \in [shown -> UNION {HideResults(s) : s \in shown}] :
          /\ \A s \in shown : back[s] \in HideResults(s)
          /\ visible' = (visible \cup shown) \ {s \in shown : back[s].ok}
          /\ lit' = (lit \ On(shown \cup {f})) \cup out.lit \cup UNION {back[s].lit : s \in shown}
          /\ Reports(out.throws + Told(shown, back))
          /\ UNCHANGED <<resume, app>>
  /\ UNCHANGED <<owned, present, newer, closing, showing, bindings, holds, wanted, stack>>

-------------------------------------------------------------------------------
(* Callbacks.  The host delivers to a widget whose memory it still holds; the    *)
(* binding decides whether the consumer hears of it.                             *)

Event(w) ==
  /\ w \in attached \cup wired /\ ~app.moving /\ Len(stack) < Nesting
  /\ w \in live /\ Home[w] \notin closing
  /\ stack' = Append(stack, w)
  /\ UNCHANGED <<appVars, screenVars, bindings, holds, looks, thrown>>

\* The launcher's tile, a button of the same context: its callback may open the app.
TilePressed ==
  /\ "host" \in owned /\ ~app.moving /\ Len(stack) < Nesting
  /\ stack' = Append(stack, Tile)
  /\ UNCHANGED <<appVars, screenVars, bindings, holds, looks, thrown>>

CallbackReturns ==
  /\ stack # <<>> /\ ~app.moving
  /\ stack' = Front(stack)
  /\ UNCHANGED <<appVars, screenVars, bindings, holds, looks, thrown>>

Next ==
  \/ \E part \in Parts : Create(part) \/ Release(part)
  \/ Register \/ Unregister \/ OpenBegins \/ OpenEnds
  \/ RequestClose \/ Drain \/ Destroy \/ Suspend \/ Resume
  \/ \E s \in Screens : CreateScreen(s) \/ Show(s) \/ Hide(s) \/ CloseScreen(s) \/ Invalidate(s)
  \/ \E w \in Widgets : \/ CreateWidget(w) \/ Place(w) \/ Decorate(w) \/ Event(w)
                        \/ \E on \in BOOLEAN : SetVisible(w, on)
  \/ TilePressed \/ CallbackReturns

\* The outermost callback returns, an open callback ends, and the adapter goes on
\* draining: it comes to a drain whose prepare_close is ready and whose native
\* calls all succeed.
Closes == /\ MayDrain /\ app' = Shut
          /\ CloseScreens(present, [s \in present |-> [phase |-> "none", stuck |-> {}]], {})
          /\ UNCHANGED <<owned, stack>>
Fairness == /\ SF_vars(CallbackReturns /\ stack' = <<>>)
            /\ WF_vars(OpenEnds)
            /\ SF_vars(Closes)
Spec == Init /\ [][Next]_vars /\ Fairness

-------------------------------------------------------------------------------
TypeOK ==
  /\ owned \subseteq Parts
  /\ app \in [registered : BOOLEAN, opened : BOOLEAN, asked : BOOLEAN, moving : BOOLEAN,
              suspended : BOOLEAN]
  /\ present \subseteq Screens /\ newer \subseteq present \X present
  /\ \A s, t \in present : <<s, t>> \in newer <=> s # t /\ <<t, s>> \notin newer
  /\ UNION {visible, resume, closing, showing} \subseteq present
  /\ made \subseteq Widgets /\ On(present) = made
  /\ live \subseteq made /\ wanted \subseteq made /\ lit \subseteq attached
  /\ dragged \cup wired \cup attached \subseteq Widgets
  /\ Len(stack) <= Nesting /\ ToSet(stack) \subseteq Widgets \cup {Tile}
  /\ thrown \in 0 .. Throws

\* "it never frees a child still owned by the parent": the native host never keeps
\* a model, a listener, a drag target or a child whose memory the toolkit freed,
\* and nothing a running callback stands on is freed under it.
NothingInUseIsFreed ==
  /\ dragged \cup wired \cup attached \subseteq made
  /\ ToSet(stack) \subseteq made \cup {Tile}
  /\ stack # <<>> => {"context", "parent", "host"} \subseteq owned

\* Suspending and resuming are invisible to the consumer: whenever it is open and
\* not suspended, the screens it left shown are the ones shown, and on each of
\* them exactly the attached widgets it asked for are lit, whatever focus was
\* refused on the way.  A native call that throws is what may disturb this.
ConsumerSeesItsScreens ==
  app.opened /\ ~app.suspended /\ thrown = 0 =>
    \A s \in present \ closing :
      /\ s \in visible <=> s \in showing
      /\ lit \cap On({s}) = IF s \in visible THEN Asked(s) ELSE {}

===============================================================================
