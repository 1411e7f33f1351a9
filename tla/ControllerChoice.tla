--------------------------- MODULE ControllerChoice ---------------------------
(* The choice of a control surface, across four processes: the CONTROLLERS tab   *)
(* in the application (native-preferences.cc) stores a request in the shared      *)
(* state page; the watch process (mirror-motor.c) sleeps on the request's futex   *)
(* and signals the session owner; the owner (mcu-session.sh) applies the request  *)
(* under session.lock, saves it and restarts the bridge; and a `configure` typed  *)
(* at a shell does the same without the page.  Failing devices, writes, drains    *)
(* and startups may happen at any apply.                                          *)
EXTENDS Naturals

CONSTANTS Buttons,     \* profiles that have a button in the tab
          Profiles,    \* those `configure` and a start option accept
          Default,     \* the selection of a missing preference file
          NoProfile,   \* no profile
          Clicks,      \* bound on presses in one application
          Configures,  \* bound on configure commands
          Apps         \* bound on applications in the session

ASSUME ChoiceAssumption ==
  /\ Buttons \subseteq Profiles /\ Default \in Profiles /\ NoProfile \notin Profiles
  /\ {Clicks, Configures} \subseteq Nat /\ Apps \in Nat \ {0}

VARIABLES
  page,     \* the shared page: request, profile, claimed, completed, status, saved, active
  press,    \* the press being stored: its profile, its step
  picked,   \* history: the profile of the last completed press
  tab,      \* the CONTROLLERS tab: its step, completed_sequence and highlighted button
  file,     \* the saved preference
  running,  \* profile of the running bridge
  option,   \* the owner's start option, None once selection_options is 0
  setup,    \* the owner's setup word
  pending,  \* the owner's preferences_pending word
  apply,    \* the owner's step within native_preferences_apply and its locals
  watch,    \* the watch: its step, seen and requested
  typed,    \* a configure command: its step and profile
  outside,  \* history: the bridge changed otherwise since the owner last started it
  generation, configured   \* applications started, configure commands run

pageVars == <<page, press, picked, tab>>
ownerVars == <<option, setup, pending, apply>>
shellVars == <<typed, outside, configured>>
choiceVars == <<pageVars, file, running, ownerVars, watch, shellVars, generation>>

\* IDLE, PENDING, APPLYING, ACTIVE; and the answers that leave the bridge alone.
Refusals == {"UNAVAILABLE", "AMBIGUOUS", "INVALID", "WRITE_FAILED"}
Statuses == {"IDLE", "PENDING", "APPLYING", "ACTIVE", "RESTART_FAILED"} \cup Refusals

NewPage == [request |-> 0, profile |-> NoProfile, claimed |-> 0, completed |-> 0,
            status |-> "IDLE", saved |-> NoProfile, active |-> NoProfile]
NoTab == [step |-> "none", seen |-> 0, shown |-> NoProfile]
NoPress == [step |-> "none", profile |-> NoProfile]
NoApply == [step |-> "none", request |-> 0, profile |-> NoProfile]
NoWatch == [step |-> "none", seen |-> 0, requested |-> 0]
NoCommand == [step |-> "none", profile |-> NoProfile]

ChoiceInit ==
  /\ page = NewPage /\ press = NoPress /\ picked = NoProfile /\ tab = NoTab
  /\ file = Default /\ running = NoProfile
  /\ option \in {NoProfile} \cup Profiles
  /\ setup = 0 /\ pending = FALSE /\ apply = NoApply
  /\ watch = NoWatch /\ typed = NoCommand /\ outside = FALSE
  /\ generation = 1 /\ configured = 0

-------------------------------------------------------------------------------
(* The application: controller_intent stores the profile, PENDING and then the   *)
(* sequence, each visible to the other processes at once.                         *)

PressBegins(p) ==
  /\ press.step = "none" /\ tab.step = "open" /\ page.request < Clicks
  /\ page' = [page EXCEPT !.profile = p]
  /\ press' = [step |-> "status", profile |-> p]
  /\ UNCHANGED <<picked, tab, file, running, ownerVars, watch, shellVars, generation>>

PressMarks ==
  /\ press.step = "status"
  /\ page' = [page EXCEPT !.status = "PENDING"]
  /\ press' = [press EXCEPT !.step = "sequence"]
  /\ UNCHANGED <<picked, tab, file, running, ownerVars, watch, shellVars, generation>>

PressCounts ==
  /\ press.step = "sequence"
  /\ page' = [page EXCEPT !.request = @ + 1]
  /\ press' = NoPress /\ picked' = press.profile
  /\ UNCHANGED <<tab, file, running, ownerVars, watch, shellVars, generation>>

\* The tab, on the same thread.  insert_tab notes the completed request before it
\* shows the selection; the thread may be overtaken by the owner in between.
Highlighted == [tab EXCEPT !.step = "open", !.shown = page.active]

TabChanges ==
  /\ press.step = "none"
  /\ UNCHANGED <<page, press, picked, file, running, ownerVars, watch, shellVars, generation>>

TabOpens ==
  /\ tab.step = "none"
  /\ tab' = [NoTab EXCEPT !.step = "noted", !.seen = page.completed]
  /\ TabChanges

TabShows ==
  /\ tab.step = "noted" /\ tab' = Highlighted
  /\ TabChanges

\* native_preferences_tab_active: the stock callback, then the selection.
TabActive ==
  /\ tab.step = "open" /\ tab' = Highlighted
  /\ TabChanges

\* native_preferences_refresh, from the periodic callback.
TabRefreshes ==
  /\ tab.step = "open" /\ tab.seen # page.completed
  /\ tab' = [tab EXCEPT !.step = "noted", !.seen = page.completed]
  /\ TabChanges

TabCloses ==
  /\ tab.step = "open" /\ tab' = NoTab
  /\ TabChanges

Tab == TabOpens \/ TabShows \/ TabActive \/ TabRefreshes \/ TabCloses

-------------------------------------------------------------------------------
(* The watch process: read, signal when new, and sleep on the word it read.       *)

WatchReads ==
  /\ watch.step = "read"
  /\ watch' = [watch EXCEPT !.step = "signal", !.requested = page.request]
  /\ UNCHANGED <<pageVars, file, running, ownerVars, shellVars, generation>>

\* SIGUSR2: the owner's trap sets the word after the command it is running.
WatchSignalsRereads ==   \* as if the word slept on were read after the signal
  /\ watch.step = "signal"
  /\ watch' = [step |-> "wait", seen |-> page.request, requested |-> page.request]
  /\ pending' = (pending \/ watch.requested # watch.seen)
  /\ UNCHANGED <<pageVars, file, running, option, setup, apply, shellVars, generation>>

WatchSignals ==
  /\ watch.step = "signal"
  /\ watch' = [watch EXCEPT !.step = "wait", !.seen = watch.requested]
  /\ pending' = (pending \/ watch.requested # watch.seen)
  /\ UNCHANGED <<pageVars, file, running, option, setup, apply, shellVars, generation>>

\* The kernel sleeps only while the word is the one that was read.
WatchWakes ==
  /\ watch.step = "wait" /\ page.request # watch.requested
  /\ watch' = [watch EXCEPT !.step = "read"]
  /\ UNCHANGED <<pageVars, file, running, ownerVars, shellVars, generation>>

-------------------------------------------------------------------------------
(* The owner.  Every step is under session.lock, which a command may hold.        *)

Unlocked == typed.step = "none"
Selected == IF option = NoProfile THEN file ELSE option

\* native_preferences_sync, after a bridge has started.
Synced == [page EXCEPT !.saved = file, !.active = Selected, !.status = "ACTIVE"]

\* Controller startup: the bridge, then native_preferences_watch_start, whose sync
\* completes no request.  It is tried once; a failure may leave the bridge it started.
Startup ==
  /\ setup = 0 /\ Unlocked
  /\ \/ /\ running = NoProfile /\ running' = Selected
        /\ page' = Synced
        /\ watch' = [step |-> "read", seen |-> page.completed, requested |-> 0]
        /\ setup' = 1 /\ outside' = FALSE
     \/ /\ running' = running \/ (running = NoProfile /\ running' = Selected)
        /\ setup' = 2 /\ UNCHANGED <<page, watch, outside>>
  /\ UNCHANGED <<press, picked, tab, file, option, pending, apply, typed, configured, generation>>

\* native_preferences_apply clears the word before it looks at the request.
ApplyBegins ==
  /\ setup = 1 /\ Unlocked /\ apply.step = "none" /\ pending
  /\ pending' = FALSE
  /\ apply' = [NoApply EXCEPT !.step = "read"]
  /\ UNCHANGED <<pageVars, file, running, option, setup, watch, shellVars, generation>>

ApplyReads ==
  /\ apply.step = "read"
  /\ IF page.request \in {0, page.claimed} THEN apply' = NoApply
     ELSE apply' = [apply EXCEPT !.step = "claim", !.request = page.request]
  /\ UNCHANGED <<pageVars, file, running, option, setup, pending, watch, shellVars, generation>>

\* Reading the profile after the sequence: a press that has begun since is taken
\* early and comes again under its own number.
ApplyClaims ==
  /\ apply.step = "claim"
  /\ apply' = [apply EXCEPT !.step = "mark", !.profile = page.profile]
  /\ page' = [page EXCEPT !.claimed = apply.request]
  /\ UNCHANGED <<press, picked, tab, file, running, option, setup, pending, watch, shellVars, generation>>

ApplyMarks ==
  /\ apply.step = "mark"
  /\ apply' = [apply EXCEPT !.step = "save"]
  /\ page' = [page EXCEPT !.status = "APPLYING"]
  /\ UNCHANGED <<press, picked, tab, file, running, option, setup, pending, watch, shellVars, generation>>

CompletedNewest(status) ==   \* as if the answer were for the newest request
  [page EXCEPT !.status = status, !.completed = page.request]

\* One status word ends a request: the bridge was left alone, or did not restart.
Completed(status) == [page EXCEPT !.status = status, !.completed = page.claimed]

\* GENERIC takes one external endpoint; another number of them, or a write that
\* fails, completes the request and changes nothing else.
ApplyRefused(status) ==
  /\ apply.step = "save"
  /\ status # "WRITE_FAILED" => apply.profile = "generic"
  /\ page' = Completed(status) /\ apply' = NoApply
  /\ UNCHANGED <<press, picked, tab, file, running, option, setup, pending, watch, shellVars, generation>>

\* The preference is durable before the bridge is touched.
ApplySaves ==
  /\ apply.step = "save"
  /\ file' = apply.profile
  /\ page' = [page EXCEPT !.saved = apply.profile]
  /\ apply' = [apply EXCEPT !.step = "restart"]
  /\ UNCHANGED <<press, picked, tab, running, option, setup, pending, watch, shellVars, generation>>

\* bridge_stop, then bridge_start with the saved selection.  A drain that times
\* out leaves the old bridge; a start that fails may leave either none or the new one.
ApplyRestarts ==
  /\ apply.step = "restart"
  /\ \/ /\ option' = NoProfile /\ running' = file /\ outside' = FALSE
        /\ apply' = [apply EXCEPT !.step = "active"]
     \/ /\ running' \in {running, NoProfile} /\ UNCHANGED <<option, outside>>
        /\ apply' = [apply EXCEPT !.step = "failed"]
     \/ /\ option' = NoProfile /\ running' \in {NoProfile, file} /\ UNCHANGED outside
        /\ apply' = [apply EXCEPT !.step = "failed"]
  /\ UNCHANGED <<pageVars, file, setup, pending, watch, typed, configured, generation>>

ApplyFinishes ==
  /\ apply.step \in {"active", "failed"}
  /\ IF apply.step = "active"
     THEN /\ page' = [page EXCEPT !.active = page.saved]
          /\ apply' = [apply EXCEPT !.step = "answer"] /\ UNCHANGED setup
     ELSE page' = Completed("RESTART_FAILED") /\ apply' = NoApply /\ setup' = 2
  /\ UNCHANGED <<press, picked, tab, file, running, option, pending, watch, shellVars, generation>>

ApplyAnswers ==
  /\ apply.step = "answer"
  /\ page' = Completed("ACTIVE") /\ apply' = NoApply
  /\ UNCHANGED <<press, picked, tab, file, running, option, setup, pending, watch, shellVars, generation>>

\* The application exits and the owner launches the next one on a new page; a
\* press that was being stored and the watch end with the old one.
NextApp ==
  /\ Unlocked /\ apply.step = "none" /\ generation < Apps
  /\ generation' = generation + 1 /\ setup' = 0 /\ running' = NoProfile
  /\ page' = NewPage /\ press' = NoPress /\ picked' = NoProfile
  /\ tab' = NoTab /\ watch' = NoWatch
  /\ UNCHANGED <<file, option, pending, apply, shellVars>>

-------------------------------------------------------------------------------
(* What changes the bridge outside the owner: `configure` and `bridge-start`,     *)
(* commands of their own that hold session.lock, and the bridge's own end.        *)

ConfigureSaves(p) ==
  /\ Unlocked /\ apply.step = "none" /\ configured < Configures
  /\ file' = p /\ typed' = [step |-> "restart", profile |-> p]
  /\ configured' = configured + 1
  /\ UNCHANGED <<pageVars, running, ownerVars, watch, outside, generation>>

\* A drain that fails ends the command; so does a start that fails.
ConfigureRestarts ==
  /\ typed.step = "restart"
  /\ typed' = NoCommand
  /\ running' \in {running, NoProfile, typed.profile}
  /\ outside' = TRUE
  /\ UNCHANGED <<pageVars, file, ownerVars, watch, configured, generation>>

\* bridge-start takes the saved selection or the profile of its own option.
BridgeStart(p) ==
  /\ running = NoProfile /\ Unlocked /\ apply.step = "none"
  /\ running' = p /\ outside' = TRUE
  /\ UNCHANGED <<pageVars, file, ownerVars, watch, typed, configured, generation>>

\* bridge-stop, an unplugged surface or a bridge that fails.
BridgeEnds ==
  /\ running # NoProfile
  /\ running' = NoProfile /\ outside' = TRUE
  /\ UNCHANGED <<pageVars, file, ownerVars, watch, typed, configured, generation>>

Apply == \/ ApplyBegins \/ ApplyReads \/ ApplyClaims \/ ApplyMarks
         \/ ApplySaves \/ ApplyRestarts \/ ApplyFinishes \/ ApplyAnswers
         \/ \E status \in Refusals : ApplyRefused(status)
Watch == WatchReads \/ WatchSignals \/ WatchWakes

ChoiceNext ==
  \/ \E p \in Buttons : PressBegins(p)
  \/ PressMarks \/ PressCounts \/ Tab
  \/ Watch \/ Startup \/ Apply \/ NextApp
  \/ \E p \in Profiles : ConfigureSaves(p)
  \/ ConfigureRestarts \/ BridgeEnds
  \/ \E p \in Profiles : BridgeStart(p)

\* The owner's loop and the watch go on; a configure command ends.
ChoiceFairness == /\ WF_choiceVars(Startup) /\ WF_choiceVars(Apply)
                  /\ WF_choiceVars(Watch) /\ WF_choiceVars(ConfigureRestarts)
ChoiceSpec == ChoiceInit /\ [][ChoiceNext]_choiceVars /\ ChoiceFairness

-------------------------------------------------------------------------------
ChoiceTypeOK ==
  /\ page \in [request : 0 .. Clicks, profile : Profiles \cup {NoProfile}, claimed : 0 .. Clicks,
               completed : 0 .. Clicks, status : Statuses,
               saved : Profiles \cup {NoProfile}, active : Profiles \cup {NoProfile}]
  /\ press.step \in {"none", "status", "sequence"} /\ picked \in Buttons \cup {NoProfile}
  /\ {file, running, option} \subseteq Profiles \cup {NoProfile} /\ file # NoProfile
  /\ setup \in 0 .. 2 /\ pending \in BOOLEAN /\ outside \in BOOLEAN
  /\ apply.step \in {"none", "read", "claim", "mark", "save", "restart", "active", "answer", "failed"}
  /\ tab.step \in {"none", "noted", "open"} /\ tab.seen <= page.completed
  /\ watch.step \in {"none", "read", "signal", "wait"}
  /\ page.completed <= page.claimed /\ page.claimed <= page.request
  /\ generation \in 1 .. Apps /\ configured \in 0 .. Configures

Settled == /\ press.step = "none" /\ apply.step = "none" /\ typed.step = "none"
           /\ setup = 1 /\ page.completed = page.request

\* "the highlighted button reflects the session owner's confirmed active profile":
\* when every press is answered and the last answer is ACTIVE, the profile of the
\* last press is the one saved, shown and running, however presses overlapped
\* their application; and an open tab that has noted the newest answer highlights
\* the confirmed profile.  What changed the bridge outside an apply since is not
\* reported to the page.
LastChoiceWins ==
  /\ Settled /\ page.status = "ACTIVE" /\ ~outside =>
       /\ page.active = running
       /\ page.claimed > 0 => page.active = picked /\ file = picked /\ page.saved = picked
  /\ /\ tab.step = "open" /\ tab.seen = page.completed
     /\ page.completed > 0 /\ apply.step # "answer"
     => tab.shown = page.active

\* The futex word and the signal never lose a press: it is answered, unless its
\* application ends or the owner has given the controller up.
Unanswered == press.step = "none" /\ page.request > page.completed
Answered == page.request = page.completed \/ setup = 2
EveryPressIsAnswered == Unanswered ~> Answered
===============================================================================
