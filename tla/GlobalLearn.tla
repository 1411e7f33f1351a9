----------------------------- MODULE GlobalLearn ------------------------------
(* The Global MIDI Learn editor of native-preferences.cc: one slot per launcher    *)
(* overlay with its learn intent, file action and assignment draft, and the        *)
(* application's own mapping owner, which is asked through a queue and read back.   *)
(* All of it runs on the UI thread, so an action is a whole callback; what          *)
(* interleaves is the user, the UI drain, the owner's queued closures, a gesture,   *)
(* the stock screens, the modal file chooser and the overlay's destruction.         *)
EXTENDS Naturals, Sequences, SequencesExt

CONSTANTS Slots,      \* launcher_instances, by number
          Targets,    \* assignment targets
          Files,      \* mapping files that may come to exist
          None,       \* no slot, target or file
          WaitLimit,  \* GLOBAL_LEARN_WAIT_LIMIT
          Waiting,    \* bound on the closures that wait when the user asks for another
          Overlays,   \* bound on launcher overlays
          Faults      \* bound on screens that fail to open or to detach

ASSUME LearnAssumption ==
  /\ Slots \subseteq Nat /\ Files # {} /\ WaitLimit \in Nat \ {0}
  /\ None \notin Slots /\ None \notin Targets /\ None \notin Files

VARIABLES
  slot,      \* the launcher instances
  overlay,   \* the slot of the live overlay, or None
  native,    \* the mapping owner: queue, value, mirror, selected target and file
  files,     \* the mapping files there are
  chooser,   \* the modal chooser: its slot and action
  misplaced, \* history: a draft went to another file or target than it was made for
  asked,     \* history: the target of the last Learn
  overlays, faults

bounds == <<overlays, faults>>
learnVars == <<slot, overlay, native, files, chooser, misplaced, asked, bounds>>

NoDraft == [file |-> None, target |-> None, dirty |-> FALSE]
Free == [orphaned |-> FALSE, tile |-> FALSE, open |-> FALSE, closing |-> FALSE,
         suspended |-> FALSE, resume |-> FALSE,
         learn |-> "idle", intent |-> "none", waits |-> 0, action |-> "none",
         target |-> None, draft |-> NoDraft, made |-> NoDraft, common |-> {}]
NoChooser == [slot |-> None, action |-> "none"]

LearnInit ==
  /\ slot = [s \in Slots |-> Free] /\ overlay = None
  /\ native = [queue |-> <<>>, mirrors |-> <<>>, owner |-> FALSE, mirror |-> FALSE,
               target |-> None, file |-> CHOOSE f \in Files : TRUE]
  /\ files = {native.file}
  /\ chooser = NoChooser /\ misplaced = FALSE /\ asked = None
  /\ overlays = 0 /\ faults = 0

-------------------------------------------------------------------------------
(* Learn: a request is queued to the owner and its settlement is read back.       *)

Quiet == native.queue = <<>>
Agree == native.owner = native.mirror
Follow(i) == [i EXCEPT !.learn = IF native.owner THEN "armed" ELSE "idle", !.waits = 0]

\* settle_global_learn.
Settle(i) ==
  IF i.intent # "none"
  THEN IF Quiet /\ Agree /\ native.owner = (i.intent = "arm")
       THEN [Follow(i) EXCEPT !.intent = "none"]
       ELSE IF i.waits + 1 >= WaitLimit
            THEN [i EXCEPT !.learn = "unsettled", !.intent = "none", !.waits = WaitLimit]
            ELSE [i EXCEPT !.waits = @ + 1]
  ELSE IF Quiet /\ Agree THEN Follow(i)
       ELSE IF i.learn = "idle" THEN [i EXCEPT !.learn = "unsettled"] ELSE i

\* request_global_learn.
Requested(i, on) == [i EXCEPT !.intent = IF on THEN "arm" ELSE "cancel",
                              !.learn = IF on THEN "arming" ELSE "canceling", !.waits = 0]
Queue(on) == native' = [native EXCEPT !.queue = Append(@, on)]
Asks == Len(native.queue) < Waiting /\ Len(native.mirrors) < Waiting

LockedWhileArmed(i) ==   \* as if a request that timed out locked nothing
  i.learn = "armed" \/ i.intent # "none"

Locked(i) == i.learn # "idle" \/ i.intent # "none"
Busy(i) == i.action # "none"

\* refresh_global_screen with file f selected: settle, show f, and keep the draft
\* only while it belongs to f and the selected target.
Keeps(i, f) == i.draft.file = f /\ i.draft.target = i.target
Shows(i, f) ==
  LET dirty == Keeps(i, f) /\ i.draft.dirty IN
  [i EXCEPT !.draft = [file |-> f, target |-> i.target, dirty |-> dirty],
            !.made = IF dirty THEN @ ELSE NoDraft]
Redrawn(i, f) == Shows(Settle(i), f)
Refresh(i) == Redrawn(i, native.file)

-------------------------------------------------------------------------------
(* The native owner, external: a queued closure sets the value, balances the      *)
(* pending word and queues the mirror's update when the value changed.            *)

OwnerRuns ==
  /\ native.queue # <<>>
  /\ LET on == Head(native.queue) IN
     native' = [native EXCEPT !.queue = Tail(@), !.owner = on,
                              !.mirrors = IF native.owner = on THEN @ ELSE Append(@, on)]
  /\ UNCHANGED <<slot, overlay, files, chooser, misplaced, asked, bounds>>

MirrorRuns ==
  /\ native.mirrors # <<>>
  /\ native' = [native EXCEPT !.mirrors = Tail(@), !.mirror = Head(native.mirrors)]
  /\ UNCHANGED <<slot, overlay, files, chooser, misplaced, asked, bounds>>

\* The stock screens select another file while the editor is not in front.
StockSelectsFile(f) ==
  /\ f \in files \ {native.file}
  /\ overlay # None => ~slot[overlay].open \/ slot[overlay].suspended
  /\ native' = [native EXCEPT !.file = f]
  /\ UNCHANGED <<slot, overlay, files, chooser, misplaced, asked, bounds>>

-------------------------------------------------------------------------------
(* The overlay and the launcher's tile.                                            *)

\* bind_launcher_overlay takes the first free slot; then the completed layout's
\* attach_launcher_entry.
Bind(s) ==
  /\ overlay = None /\ slot[s] = Free /\ overlays < Overlays
  /\ \A t \in Slots : t < s => slot[t] # Free
  /\ slot' = [slot EXCEPT ![s].tile = TRUE] /\ overlay' = s /\ overlays' = overlays + 1
  /\ UNCHANGED <<native, files, chooser, misplaced, asked, faults>>

OnStack(s) == chooser.slot = s
Fault == faults < Faults /\ faults' = faults + 1

\* global_app_open through the tile: the learn state is read back, not assumed.
Reset(i) == [i EXCEPT !.target = None, !.learn = "idle", !.intent = "none",
                      !.waits = 0, !.action = "none", !.draft = NoDraft]
\* mpclearn_global_learn_screen_open: every widget of the screen, or none of it.
Opened(i) == Refresh([Reset(i) EXCEPT !.open = TRUE])
TapTile(s) ==
  /\ overlay = s /\ ~OnStack(s)
  /\ \/ /\ ~slot[s].open /\ slot' = [slot EXCEPT ![s] = Opened(slot[s])]
        /\ UNCHANGED faults
     \/ /\ ~slot[s].open /\ Fault /\ slot' = [slot EXCEPT ![s] = Reset(slot[s])]
     \/ /\ slot[s].open /\ slot[s].suspended /\ ~slot[s].resume
        /\ slot' = [slot EXCEPT ![s].resume = TRUE] /\ UNCHANGED faults
  /\ UNCHANGED <<overlay, native, files, chooser, misplaced, asked, overlays>>

\* A repeated layout hook suspends an editor that is at rest.
SuspendSafe(i) == i.open /\ ~i.suspended /\ ~i.closing /\ ~Busy(i) /\ ~Locked(i)
Layout(s) ==
  /\ overlay = s /\ SuspendSafe(slot[s])
  /\ slot' = [slot EXCEPT ![s].suspended = TRUE]
  /\ UNCHANGED <<overlay, native, files, chooser, misplaced, asked, bounds>>

-------------------------------------------------------------------------------
(* Closing and the UI drain.                                                       *)

\* global_app_prepare_close: its answer, the instance, and whether it asks the
\* owner to cancel.
Prepared(answer, i, cancels) == [answer |-> answer, i |-> i, cancels |-> cancels]
PrepareClose(i, forced) ==
  LET j == Settle(i) IN
  IF Busy(i) THEN Prepared("failed", i, FALSE)
  ELSE IF Quiet /\ ~native.owner /\ ~native.mirror /\ ~Locked(j) THEN Prepared("ready", j, FALSE)
  ELSE IF j.learn = "unsettled" THEN Prepared("failed", j, FALSE)
  ELSE Prepared(IF forced THEN "ready" ELSE "pending",
                IF j.intent = "cancel" THEN j ELSE Requested(j, FALSE), j.intent # "cancel")
CancelIfRetained(p) ==   \* as if a forced destruction asked for nothing
  IF p.cancels /\ p.answer = "pending" THEN Queue(FALSE) ELSE UNCHANGED native

CancelIf(p) == IF p.cancels THEN Queue(FALSE) ELSE UNCHANGED native

\* The rest of a closed editor is dead until global_app_open sets it again.
Closed(i) == [Free EXCEPT !.tile = TRUE, !.common = i.common]

\* native_preferences_refresh: settle a pending intent, look whether the file
\* changed, resume, and drain a requested close.
Polled(i, looks) ==
  LET j == IF i.intent # "none" THEN Refresh(i) ELSE i
  IN IF looks /\ j.intent = "none" /\ native.file # j.draft.file THEN Refresh(j) ELSE j
Tick(s) ==
  /\ overlay = s /\ slot[s].open
  /\ \E looks \in BOOLEAN :
       LET i == IF Busy(slot[s]) THEN slot[s] ELSE Polled(slot[s], looks)
           j == [i EXCEPT !.resume = FALSE, !.suspended = @ /\ ~(i.resume /\ ~i.closing /\ ~OnStack(s))]
           p == PrepareClose(j, FALSE) IN
       IF ~j.closing \/ OnStack(s)
       THEN slot' = [slot EXCEPT ![s] = j] /\ UNCHANGED <<native, faults>>
       ELSE /\ CancelIf(p)
            /\ \/ p.answer = "ready" /\ slot' = [slot EXCEPT ![s] = Closed(p.i)] /\ UNCHANGED faults
               \/ p.answer = "ready" /\ Fault /\ slot' = [slot EXCEPT ![s] = p.i]
               \/ p.answer # "ready" /\ slot' = [slot EXCEPT ![s] = p.i] /\ UNCHANGED faults
  /\ UNCHANGED <<overlay, files, chooser, misplaced, asked, overlays>>

\* launcher_overlay_destructor: a forced close, and a slot that could not be
\* released is kept, terminal.  A slot under its own chooser never is released.
Orphan(i) == [i EXCEPT !.orphaned = TRUE, !.tile = FALSE]
DestroyOverlay(s) ==
  /\ overlay = s /\ overlay' = None
  /\ LET p == PrepareClose(slot[s], TRUE) IN
     IF OnStack(s) THEN /\ slot' = [slot EXCEPT ![s] = Orphan(slot[s])]
                        /\ UNCHANGED <<native, faults>>
     ELSE IF ~slot[s].open
          THEN slot' = [slot EXCEPT ![s] = Free] /\ UNCHANGED <<native, faults>>
     ELSE /\ CancelIf(p)
          /\ \/ p.answer = "ready" /\ slot' = [slot EXCEPT ![s] = Free] /\ UNCHANGED faults
             \/ p.answer = "ready" /\ Fault /\ slot' = [slot EXCEPT ![s] = Orphan(p.i)]
             \/ p.answer = "failed" /\ slot' = [slot EXCEPT ![s] = Orphan(p.i)] /\ UNCHANGED faults
  /\ UNCHANGED <<files, chooser, misplaced, asked, overlays>>

-------------------------------------------------------------------------------
(* global_screen_intent: what the user taps on the open editor.                    *)

Live(s) == overlay = s /\ slot[s].open /\ ~slot[s].suspended

\* Choosing another group clears the selection of the screen, not the owner's.
PickTarget(s, t) ==
  /\ Live(s)
  /\ LET i == slot[s] IN
     IF Locked(i) \/ Busy(i) THEN slot' = [slot EXCEPT ![s] = Refresh(i)] /\ UNCHANGED native
     ELSE /\ native' = IF t = None THEN native ELSE [native EXCEPT !.target = t]
          /\ slot' = [slot EXCEPT ![s] = Refresh([i EXCEPT !.target = t])]
  /\ UNCHANGED <<overlay, files, chooser, misplaced, asked, bounds>>

\* The request is queued before the refresh, which therefore settles nothing.
AfterRequest(i, on) ==
  Shows([Requested(i, on) EXCEPT !.waits = 1], native.file)

Learn(s) ==
  /\ Live(s)
  /\ slot[s].target # None /\ ~Locked(slot[s]) /\ ~Busy(slot[s])
  /\ slot' = [slot EXCEPT ![s] = AfterRequest(slot[s], TRUE)]
  /\ Queue(TRUE) /\ Asks /\ asked' = slot[s].target
  /\ UNCHANGED <<overlay, files, chooser, misplaced, bounds>>

Cancel(s) ==
  /\ Live(s) /\ Locked(slot[s]) /\ slot[s].intent # "cancel"
  /\ slot' = [slot EXCEPT ![s] = AfterRequest(slot[s], FALSE)]
  /\ Queue(FALSE) /\ Asks
  /\ UNCHANGED <<overlay, files, chooser, misplaced, asked, bounds>>

Back(s) ==
  /\ Live(s) /\ ~Busy(slot[s]) /\ ~slot[s].closing
  /\ LET i == [slot[s] EXCEPT !.closing = TRUE] IN
     IF Locked(i) /\ i.intent # "cancel"
     THEN Queue(FALSE) /\ slot' = [slot EXCEPT ![s] = AfterRequest(i, FALSE)]
     ELSE slot' = [slot EXCEPT ![s] = i] /\ UNCHANGED native
  /\ UNCHANGED <<overlay, files, chooser, misplaced, asked, bounds>>

\* update_global_draft: only in the file and for the target the draft belongs to.
MayEdit(i) == /\ ~Busy(i) /\ ~i.closing /\ ~Locked(i)
              /\ i.target # None /\ i.draft.target = i.target
              /\ native.file = i.draft.file /\ native.file \in i.common
Edit(s) ==
  /\ Live(s)
  /\ LET i == slot[s] IN
     slot' = [slot EXCEPT ![s] = IF MayEdit(i)
              THEN Refresh([i EXCEPT !.draft.dirty = TRUE,
                                     !.made = [file |-> i.draft.file, target |-> i.target, dirty |-> TRUE]])
              ELSE Refresh(i)]
  /\ UNCHANGED <<overlay, native, files, chooser, misplaced, asked, bounds>>

\* apply_global_draft: the mapping is committed in one callback, into the selected
\* file.  The owner's collection may refuse, and the draft then stays.
ApplyDraft(s) ==
  /\ Live(s)
  /\ LET i == slot[s] IN
     IF MayEdit(i) /\ i.draft.dirty
     THEN \/ /\ misplaced' = (misplaced \/ i.made.file # native.file \/ i.made.target # i.target)
             /\ slot' = [slot EXCEPT ![s] = Refresh([i EXCEPT !.draft = NoDraft])]
          \/ slot' = [slot EXCEPT ![s] = Refresh(i)] /\ UNCHANGED misplaced
     ELSE slot' = [slot EXCEPT ![s] = Refresh(i)] /\ UNCHANGED misplaced
  /\ UNCHANGED <<overlay, native, files, chooser, asked, bounds>>

-------------------------------------------------------------------------------
(* File actions.  New, Copy and the selection of a file end in the callback;       *)
(* Import and Export wait in a modal chooser, under which everything else goes on. *)

MayAct(i) == ~Busy(i) /\ ~Locked(i) /\ ~i.closing

\* create_file and duplicate_file add a file, select it, and the editor knows it
\* to be one it may edit.
AddFile(s, f) ==
  /\ Live(s) /\ MayAct(slot[s]) /\ f \in Files \ files
  /\ files' = files \cup {f} /\ native' = [native EXCEPT !.file = f]
  /\ slot' = [slot EXCEPT ![s] = Redrawn([slot[s] EXCEPT !.common = @ \cup {f}], f)]
  /\ UNCHANGED <<overlay, chooser, misplaced, asked, bounds>>

SelectFile(s, f) ==
  /\ Live(s) /\ MayAct(slot[s]) /\ f \in files \ {native.file}
  /\ native' = [native EXCEPT !.file = f]
  /\ slot' = [slot EXCEPT ![s] = Redrawn(slot[s], f)]
  /\ UNCHANGED <<overlay, files, chooser, misplaced, asked, bounds>>

\* clear_target takes the assignment of the selected target out of the selected file.
ClearTarget(s) ==
  /\ Live(s) /\ MayAct(slot[s]) /\ slot[s].target # None
  /\ slot' = [slot EXCEPT ![s] = Refresh([Refresh(slot[s]) EXCEPT !.draft = NoDraft])]
  /\ UNCHANGED <<overlay, native, files, chooser, misplaced, asked, bounds>>

OpenChooser(s, action) ==
  /\ Live(s) /\ MayAct(slot[s]) /\ chooser = NoChooser
  /\ action = "export" => native.file \in slot[s].common
  /\ chooser' = [slot |-> s, action |-> action]
  /\ slot' = [slot EXCEPT ![s] = Refresh([slot[s] EXCEPT !.action = action])]
  /\ UNCHANGED <<overlay, native, files, misplaced, asked, bounds>>

\* The chooser returns: an import may add and select a file, on the handler it was
\* opened for; an orphaned slot is left as it is.
ChooserReturns(f) ==
  /\ chooser # NoChooser
  /\ f = native.file \/ (chooser.action = "import" /\ f \in Files \ files)
  /\ files' = files \cup {f}
  /\ chooser' = NoChooser
  /\ \E on \in {f, native.file} :   \* a registered file may fail to be selected
       LET i == [slot[chooser.slot] EXCEPT !.action = "none"] IN
       /\ native' = [native EXCEPT !.file = on]
       /\ slot' = [slot EXCEPT ![chooser.slot] = IF i.orphaned THEN i ELSE Redrawn(i, on)]
  /\ UNCHANGED <<overlay, misplaced, asked, bounds>>

LearnNext ==
  \/ OwnerRuns \/ MirrorRuns
  \/ \E f \in Files : StockSelectsFile(f) \/ ChooserReturns(f)
  \/ \E s \in Slots : \/ Bind(s) \/ TapTile(s) \/ Layout(s) \/ Tick(s) \/ DestroyOverlay(s)
                      \/ Learn(s) \/ Cancel(s) \/ Back(s) \/ Edit(s) \/ ApplyDraft(s)
                      \/ ClearTarget(s)
                      \/ \E t \in Targets \cup {None} : PickTarget(s, t)
                      \/ \E f \in Files : AddFile(s, f) \/ SelectFile(s, f)
                      \/ \E action \in {"import", "export"} : OpenChooser(s, action)

LearnSpec == LearnInit /\ [][LearnNext]_learnVars

-------------------------------------------------------------------------------
LearnTypeOK ==
  /\ \A s \in Slots :
       /\ slot[s].learn \in {"idle", "arming", "armed", "canceling", "unsettled"}
       /\ slot[s].intent \in {"none", "arm", "cancel"} /\ slot[s].waits \in 0 .. WaitLimit
       /\ slot[s].common \subseteq files /\ slot[s].target \in Targets \cup {None}
       /\ slot[s].closing \/ slot[s].suspended => slot[s].open
  /\ overlay \in Slots \cup {None} /\ native.file \in files /\ files \subseteq Files
  /\ chooser # NoChooser => Busy(slot[chooser.slot])

\* "the adapter holds the selected target and page fixed" while pending or armed:
\* while the owner listens, or will, the target it will assign is the one for
\* which Learn was tapped; and a draft is committed to the file and the target it
\* was edited for, whatever the stock screens selected meanwhile.
EditsLandWhereMade ==
  /\ native.owner \/ Contains(native.queue, TRUE) => native.target = asked
  /\ ~misplaced

\* Forced destruction "queues the same owner-targeted false intent": once every
\* closure that waits has run, the owner listens only while an editor is open that
\* can end it, or a slot is retained over a request that never settled.
WillLearn == IF Quiet THEN native.owner ELSE Last(native.queue)
LearnEndsWithItsEditor == WillLearn => \E s \in Slots : slot[s].open
===============================================================================
