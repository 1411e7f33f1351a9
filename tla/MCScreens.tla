------------------------------ MODULE MCScreens -------------------------------
(* The user interface inside the application, for TLC.  Three systems that share  *)
(* no state, each in its own part of the run: the widget toolkit with one host of *)
(* two screens; the controller choice across its processes, over two applications *)
(* and beside the shell's `configure`; and the Global MIDI Learn editor, with two *)
(* files in one overlay and with one file in two overlays.                        *)
EXTENDS UiToolkit, ControllerChoice, GlobalLearn

VARIABLE part   \* the system this behaviour belongs to

screensVars == <<vars, choiceVars, learnVars, part>>

\* The list stands on the first screen, the slider on the second.
TwoHomes == [list |-> "s1", knob |-> "s2"]
TwoKinds == [list |-> "list", knob |-> "slider"]

ScreensInit ==
  /\ part \in {"toolkit", "boots", "shell", "drafts", "heirs"}
  /\ Init /\ LearnInit
  /\ ChoiceInit /\ (part \notin {"boots", "shell"} => option = NoProfile)

In(p) == part = p /\ UNCHANGED part

\* The bounds of each part: no `configure` beside a second application, one overlay
\* for two files, one file for two overlays.
ScreensNext ==
  \/ In("toolkit") /\ Next /\ UNCHANGED <<choiceVars, learnVars>>
  \/ In("boots") /\ ChoiceNext /\ configured' = 0 /\ UNCHANGED <<vars, learnVars>>
  \/ In("shell") /\ ChoiceNext /\ generation' = 1 /\ UNCHANGED <<vars, learnVars>>
  \/ In("drafts") /\ LearnNext /\ overlays' <= 1 /\ UNCHANGED <<vars, choiceVars>>
  \/ In("heirs") /\ LearnNext /\ files' = files /\ UNCHANGED <<vars, choiceVars>>

\* The fairness of the choice, while it is the part that runs; that of the toolkit
\* asks nothing of the others, in which it never leaves its initial state.
Chosen == In("boots") \/ In("shell")
ChoiceGoesOn == /\ WF_choiceVars(Chosen /\ Startup)
                /\ WF_choiceVars(Chosen /\ Apply)
                /\ WF_choiceVars(Chosen /\ Watch)
                /\ WF_choiceVars(Chosen /\ ConfigureRestarts)
ScreensSpec == ScreensInit /\ [][ScreensNext]_screensVars /\ Fairness /\ ChoiceGoesOn

-------------------------------------------------------------------------------
\* The state of every part has its type, a lit widget is attached, a closing or
\* suspended editor is open, and requests are claimed and completed in order.
ScreensTypeOK == TypeOK /\ ChoiceTypeOK /\ LearnTypeOK
===============================================================================
