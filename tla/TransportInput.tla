---------------------------- MODULE TransportInput ----------------------------
(***************************************************************************)
(* The bridge's transport lane (mirror-input-core.h, mirror-motor.c): jog  *)
(* wheel, Rewind and Forward, Stop, Play and the return to the start, the  *)
(* data wheel with its push, and the other buttons that become one global  *)
(* request; and the order in which the application serves them.            *)
(*                                                                         *)
(* A drain of the surface hears events against a copy that may be old, the *)
(* pump publishes from one newer copy, and the application moves between   *)
(* any two steps.  A deadline (1 s of a jog, 2 s of a global and of the    *)
(* return, 100 ms of a repeat) is a choice.  A published request does not  *)
(* expire, the navigation watch does not fail, and an owner is its epoch.  *)
(* "told" is history: what the hand has done.  A comment that starts with  *)
(* "Fault" introduces a mistake the properties are known to catch.         *)
(***************************************************************************)
EXTENDS InputSlots, Integers, Sequences, FiniteSets, SequencesExt

CONSTANTS
    TransportScenes,  \* what the hand and the application may do: one is chosen
    Epochs,   \* projects
    Limit,    \* JOG_DELTA_LIMIT
    Banked,   \* INPUT_WHEEL_LIMIT
    Steps,    \* WHEEL_MAX_STEPS
    Ring      \* INPUT_JOG_EVENTS, within one batch of the pump

\* The keys and buttons that go down and up.  A turn is within what one request
\* may carry.
Held == {"shift", "forward", "rewind", "stop", "play", "relay"}
ASSUME LimitsAssumption == {Epochs, Limit, Banked, Steps, Ring} \subseteq Nat \ {0}
ASSUME ScenesAssumption ==
    \A s \in TransportScenes :
        /\ {s.hand, s.app, s.bar} \subseteq Nat /\ s.scrub \in BOOLEAN
        /\ \A e \in s.events :
            /\ e.kind \in Held => e.arg \in {0, 1}
            /\ e.kind = "turn" => e.arg \in -Limit .. Limit /\ e.arg # 0
            /\ e.kind = "cursor" => e.arg \in Int

VARIABLES
    table,    \* the scene of this behaviour
    project,  \* the application: its project and its transport
    request,  \* each slot: the request in it, and whether the bridge waits for it
    line,     \* the slots in use, oldest request first
    stage,    \* where the bridge is in its loop
    surface,  \* Surface: connected, and whether the wheel is the data wheel
    copy,     \* the copy a drain or a pump works on
    lane,     \* the jog part of MirrorInput
    budget,   \* what the hand and the application may still do
    told      \* history

laneVars == <<table, project, request, line, stage, surface, copy, lane, budget, told>>

Jog == {"beat", "pulse", "bar"}
Transport == {"play", "stop"}
Global == Transport \cup {"key"}
Focus == {"data", "note", "push"}
\* Who turned: the hand, the Forward and the Rewind key, the return to the start.
Hand == 0
Forward == 1
Rewind == 2
Home == 3

Size(n) == IF n < 0 THEN -n ELSE n
SignOf(n) == IF n < 0 THEN -1 ELSE 1
Clip(n, most) == IF Size(n) <= most THEN n ELSE SignOf(n) * most

NoLane == [epoch |-> 0, jogs |-> <<>>, globals |-> <<>>, shift |-> FALSE,
           forward |-> FALSE, rewind |-> FALSE, stopDown |-> FALSE, playDown |-> FALSE,
           played |-> FALSE, home |-> FALSE, stepped |-> FALSE, wait |-> FALSE,
           wheel |-> 0, unit |-> "data", push |-> FALSE, error |-> "none"]
NoRequest == [phase |-> "free", op |-> "key", amount |-> 0, epoch |-> 0, by |-> Hand,
              press |-> 0, playing |-> FALSE, undone |-> FALSE]
NoLaneCopy == [epoch |-> 0, ready |-> FALSE, known |-> FALSE, playing |-> FALSE, bar |-> 0,
               newer |-> FALSE]
\* fresh_copy_view; newer: the position has been sampled since the last step home.
LaneCopied(newer) == [epoch |-> project.epoch, ready |-> project.ready, known |-> project.known,
                      playing |-> project.playing, bar |-> project.bar, newer |-> newer]
Untold == [press |-> 0, home |-> 0, play |-> 0, last |-> 0, owed |-> <<>>, keys |-> {},
           wheel |-> 0, push |-> 0]

LaneInit ==
    /\ table \in TransportScenes
    /\ project = [epoch |-> 1, ready |-> TRUE, intent |-> FALSE, known |-> TRUE,
                  playing |-> FALSE, bar |-> table.bar, advanced |-> FALSE]
    /\ request = [n \in 1 .. Slots |-> NoRequest] /\ line = <<>>
    /\ stage = "drain" /\ surface = [on |-> TRUE, scrub |-> table.scrub]
    /\ copy = NoLaneCopy /\ lane = NoLane
    /\ budget = [hand |-> table.hand, app |-> table.app] /\ told = Untold

-----------------------------------------------------------------------------
\* The lane itself (mirror-input-core.h).

\* input_jog_discard, and input_jog_resync: Shift is a button, not work.
JogDiscarded(i) == [NoLane EXCEPT !.epoch = i.epoch, !.error = i.error]
Resynced(i, v) ==
    IF i.epoch = v.epoch THEN i
    ELSE [JogDiscarded(i) EXCEPT !.shift = i.shift, !.epoch = v.epoch]
\* What the hand is no longer owed when its work is discarded.
Forgiven == [told EXCEPT !.owed = <<>>, !.wheel = 0, !.push = 0]
Recalled(v) == IF lane.epoch = v.epoch THEN told ELSE Forgiven

\* Fault: opposite turns cancel.
JoinsAnySign(last, op, by, d) ==
    last.op = op /\ last.by = by /\ Size(last.d + d) <= Limit
\* Two packets become one only when they say the same thing.
Joins(last, op, by, d) ==
    /\ last.op = op /\ last.by = by /\ SignOf(last.d) = SignOf(d)
    /\ Size(last.d + d) <= Limit

\* Fault: the queue overruns its ring by one.
RoomForOneMore(queue) == Len(queue) <= Ring
Room(queue) == Len(queue) < Ring

\* input_jog_add_origin.
AddJog(i, v, op, by, d) ==
    LET r == Resynced(i, v) IN
    IF r.error # "none" THEN r
    ELSE IF r.jogs # <<>> /\ Joins(Last(r.jogs), op, by, d)
    THEN [r EXCEPT !.jogs[Len(r.jogs)].d = @ + d]
    ELSE IF ~Room(r.jogs) THEN [r EXCEPT !.error = "capacity"]
    ELSE [r EXCEPT !.jogs = Append(@, [op |-> op, by |-> by, d |-> d, epoch |-> v.epoch])]

\* input_global_add.
AddGlobal(i, v, op, press) ==
    LET r == Resynced(i, v) IN
    IF r.error # "none" THEN r
    ELSE IF ~Room(r.globals) THEN [r EXCEPT !.error = "capacity"]
    ELSE [r EXCEPT !.globals = Append(@, [op |-> op, epoch |-> v.epoch, press |-> press])]

\* input_counted_focus_add: another unit drops what was banked in the first.
AddWheel(i, v, unit, d) ==
    LET r == Resynced(i, v)
        b == IF r.unit = unit THEN r.wheel ELSE 0
    IN  IF r.error # "none" THEN r
        ELSE [r EXCEPT !.unit = unit, !.wheel = Clip(b + d, Banked)]
AddPush(i, v) ==
    LET r == Resynced(i, v) IN IF r.error # "none" THEN r ELSE [r EXCEPT !.push = TRUE]

\* input_jog_release.
Without(jogs, by) ==
    LET f[n \in 0 .. Len(jogs)] ==
            IF n = 0 THEN <<>>
            ELSE IF jogs[n].by = by THEN f[n - 1] ELSE Append(f[n - 1], jogs[n])
    IN  f[Len(jogs)]
Released(i, by) == [i EXCEPT !.jogs = Without(@, by)]

\* Fault: the return to the start goes on under Play.
PlayDownKeeps(i, v) ==
    LET r == [Released(i, Home) EXCEPT !.playDown = TRUE, !.played = TRUE]
    IN  AddGlobal(r, v, "play", told.press + 1)
\* input_stop_button.
PlayDown(i, v) ==
    LET r == [Released(i, Home) EXCEPT !.playDown = TRUE, !.played = TRUE, !.home = FALSE]
    IN  AddGlobal(r, v, "play", told.press + 1)
Asks(i, v) == v.known /\ ~v.playing /\ ~i.played
StopDown(i, v) ==
    LET r == [i EXCEPT !.stopDown = TRUE, !.played = FALSE] IN
    IF Asks(i, v)
    THEN [r EXCEPT !.home = TRUE, !.stepped = FALSE, !.jogs = <<>>, !.rewind = FALSE,
                   !.forward = FALSE]
    ELSE IF v.known THEN AddGlobal(r, v, "stop", told.press + 1) ELSE r

-----------------------------------------------------------------------------
\* The drain (mirror-motor.c).

Down(e) == e.arg = 1
\* A key goes down and up in turn.
Possible(e) == e.kind \in Held => (Down(e) <=> e.kind \notin told.keys)
Keys(e) == IF e.kind \notin Held THEN told.keys
           ELSE IF Down(e) THEN told.keys \cup {e.kind} ELSE told.keys \ {e.kind}
\* A drain reuses its copy while the project is the same; a copy may fail.
Views == IF copy.ready /\ project.ready /\ copy.epoch = project.epoch THEN {copy}
         ELSE {LaneCopied(TRUE), NoLaneCopy}
LaneDeaf(v) == ~v.ready \/ project.intent

\* surface_jog, one of the two keys: letting go forgets what it has not sent.
KeyMoved(i, e) ==
    IF e.kind = "forward"
    THEN [(IF Down(e) THEN i ELSE Released(i, Forward)) EXCEPT !.forward = Down(e)]
    ELSE [(IF Down(e) THEN i ELSE Released(i, Rewind)) EXCEPT !.rewind = Down(e)]

TurnedUnit == IF surface.scrub THEN (IF lane.shift THEN "note" ELSE "data")
              ELSE (IF lane.shift THEN "pulse" ELSE "beat")
Ones(op, d) == [k \in 1 .. Size(d) |-> [op |-> op, sign |-> SignOf(d)]]

\* surface_jog: the wheel.
Turn(v, d) ==
    /\ lane' = IF surface.scrub THEN AddWheel(lane, v, TurnedUnit, d)
               ELSE AddJog(lane, v, TurnedUnit, Hand, d)
    /\ told' = IF surface.scrub
               THEN [Recalled(v) EXCEPT !.wheel =
                        IF Resynced(lane, v).wheel = 0 THEN v.epoch ELSE @]
               ELSE [Recalled(v) EXCEPT !.owed = @ \o Ones(TurnedUnit, d)]
    /\ surface' = surface
Key(v, e) ==
    LET r == Resynced(lane, v) IN
    /\ lane' = IF e.kind = "shift" THEN [r EXCEPT !.shift = Down(e)] ELSE KeyMoved(r, e)
    /\ told' = [Recalled(v) EXCEPT !.keys = Keys(e)]
    /\ surface' = surface

\* input_stop_button.
Button(v, e) ==
    LET r == Resynced(lane, v)
        again == IF e.kind = "play" THEN r.playDown ELSE r.stopDown
        next == IF e.kind = "play"
                THEN (IF Down(e) THEN PlayDown(r, v) ELSE [r EXCEPT !.playDown = FALSE])
                ELSE (IF Down(e) THEN StopDown(r, v) ELSE [r EXCEPT !.stopDown = FALSE])
        homes == e.kind # "play" /\ Asks(r, v)
    IN  /\ lane' = IF Down(e) /\ again THEN r ELSE next
        /\ told' = IF Down(e) /\ ~again
                   THEN [Recalled(v) EXCEPT !.keys = Keys(e), !.press = @ + 1,
                            !.home = IF homes THEN told.press + 1 ELSE @,
                            !.play = IF e.kind = "play" THEN told.press + 1 ELSE @,
                            !.owed = IF homes THEN <<>> ELSE @]
                   ELSE [Recalled(v) EXCEPT !.keys = Keys(e)]
        /\ surface' = surface

\* surface_general: the buttons beside the wheel.
General(v, e) ==
    CASE e.kind = "scrub" -> /\ surface' = [surface EXCEPT !.scrub = ~@]
                             /\ UNCHANGED <<lane, told>>
      [] e.kind = "cursor" /\ surface.scrub ->
            /\ lane' = AddWheel(lane, v, "data", e.arg)
            /\ told' = [Recalled(v) EXCEPT !.wheel =
                    IF Resynced(lane, v).wheel = 0 \/ lane.unit # "data" THEN v.epoch ELSE @]
            /\ surface' = surface
      [] e.kind = "centre" /\ surface.scrub ->
            /\ lane' = AddPush(lane, v)
            /\ told' = [Recalled(v) EXCEPT !.push =
                            IF Resynced(lane, v).push THEN @ ELSE v.epoch]
            /\ surface' = surface
      [] OTHER -> /\ lane' = AddGlobal(lane, v, "key", 0)
                  /\ told' = Recalled(v) /\ surface' = surface

\* surface_drain: no project to work on.
LaneUnheard(e) ==
    /\ lane' = [JogDiscarded(lane) EXCEPT
                   !.shift = IF e.kind = "shift" THEN Down(e) ELSE lane.shift]
    /\ told' = [Forgiven EXCEPT !.keys = Keys(e)]
    /\ surface' = surface

\* surface_stop_relay: the adapter's Stop is decided on a copy of its own.
Relay(e) ==
    /\ e.kind = "relay"
    /\ \E v \in {LaneCopied(TRUE), NoLaneCopy} :
        IF Down(e) /\ lane.stopDown
        THEN /\ told' = [told EXCEPT !.keys = Keys(e)] /\ UNCHANGED <<lane, surface>>
        ELSE IF LaneDeaf(v)
        THEN /\ lane' = [Released(lane, Home) EXCEPT !.home = FALSE, !.stopDown = Down(e)]
             /\ told' = [told EXCEPT !.keys = Keys(e)] /\ surface' = surface
        ELSE Button(v, e)
    /\ copy' = copy

\* surface_drain, one event.
HearLane(e) ==
    /\ stage = "drain" /\ surface.on /\ budget.hand > 0 /\ Possible(e)
    /\ \/ Relay(e)
       \/ /\ e.kind # "relay"
          /\ \E v \in Views :
                /\ copy' = v
                /\ CASE LaneDeaf(v) -> LaneUnheard(e)
                     [] ~LaneDeaf(v) /\ e.kind = "turn" -> Turn(v, e.arg)
                     [] ~LaneDeaf(v) /\ e.kind \in {"shift", "forward", "rewind"} -> Key(v, e)
                     [] ~LaneDeaf(v) /\ e.kind \in {"stop", "play"} -> Button(v, e)
                     [] OTHER -> General(v, e)
    /\ budget' = [budget EXCEPT !.hand = @ - 1]
    /\ UNCHANGED <<table, project, request, line, stage>>

\* main: the copy the pump works on.  One that fails drops no jog.
TakeCopy(newer) ==
    /\ stage = "drain" /\ stage' = "settle" /\ copy' = LaneCopied(newer)
    /\ UNCHANGED <<table, project, request, line, surface, lane, budget, told>>
TakeCopyFails ==
    /\ stage = "drain" /\ copy' = NoLaneCopy
    /\ lane' = (IF surface.on THEN lane ELSE JogDiscarded(lane))
    /\ told' = (IF surface.on THEN told ELSE Forgiven)
    /\ UNCHANGED <<table, project, request, line, stage, surface, budget>>

-----------------------------------------------------------------------------
\* The pump (input_pump_mode).

Unfree == {n \in 1 .. Slots : request[n].phase \notin {"free", "returned"}}
FreeRequests == 1 .. Slots \ Unfree
Flying == {n \in 1 .. Slots : request[n].phase # "free"}
JogFlying == \E n \in Flying : request[n].op \in Jog

\* The flights: settled when done and a later heartbeat has come, forgotten when
\* given back.  A global or a step of the focus done in another project is an error.
Strange == \E n \in 1 .. Slots : /\ request[n].phase = "done" /\ request[n].op \notin Jog
                                 /\ request[n].epoch # copy.epoch
Settled(n, beat) ==
    CASE request[n].phase = "returned" -> [request[n] EXCEPT !.phase = "free"]
      [] request[n].phase = "done" /\ beat -> [request[n] EXCEPT !.phase = "settled"]
      [] OTHER -> request[n]
\* A jog while playing is not followed by another before the song has moved on.
Waits(beat) == lane.wait \/ (beat /\ \E n \in 1 .. Slots :
    request[n].phase = "done" /\ request[n].op \in Jog /\ request[n].playing)
Settle(beat) ==
    /\ stage = "settle"
    /\ IF lane.error # "none" \/ Strange
       THEN /\ stage' = "stopped" /\ UNCHANGED <<request, told>>
            /\ lane' = [lane EXCEPT !.error = IF @ = "none" THEN "identity" ELSE @]
       ELSE /\ request' = [n \in 1 .. Slots |-> Settled(n, beat)]
            /\ IF ~surface.on
               THEN /\ stage' = "drain" /\ lane' = [lane EXCEPT !.wait = Waits(beat)]
                    /\ told' = told
               ELSE IF ~copy.ready \/ project.intent
               THEN stage' = "drain" /\ lane' = JogDiscarded(lane) /\ told' = Forgiven
               ELSE /\ stage' = "globals" /\ told' = Recalled(copy)
                    /\ lane' = Resynced([lane EXCEPT !.wait = Waits(beat)], copy)
    /\ copy' = (IF stage' = "globals" THEN copy ELSE NoLaneCopy)
    /\ UNCHANGED <<table, project, line, surface, budget>>

\* command_conflict, between the requests of this lane.
Conflicts(op) ==
    \E n \in Unfree : \/ request[n].op \in Focus /\ op \in Focus
                      \/ request[n].op = op /\ op \in Global
\* command_publish_request_at: refused under an intent; a conflict stops the bridge.
LaneDone == stage' = "drain" /\ copy' = NoLaneCopy
LanePublish(op, amount, by, press, spent, heard) ==
    IF project.intent
    THEN LaneDone /\ UNCHANGED <<request, line, lane, told>>
    ELSE IF Conflicts(op)
    THEN /\ stage' = "stopped" /\ lane' = [lane EXCEPT !.error = "closed"]
         /\ UNCHANGED <<request, line, told, copy>>
    ELSE LET n == CHOOSE n \in FreeRequests : \A m \in FreeRequests : n <= m IN
         /\ request' = [request EXCEPT ![n] =
                   [phase |-> "sent", op |-> op, amount |-> amount, epoch |-> copy.epoch,
                    by |-> by, press |-> press, playing |-> copy.playing, undone |-> FALSE]]
         /\ line' = Append(line, n) /\ lane' = spent /\ told' = heard
         /\ UNCHANGED <<stage, copy>>
Pass(next) == stage' = next /\ UNCHANGED <<request, line, copy, told>>

GlobalOut(late) ==
    /\ stage = "globals"
    /\ LET g == Head(lane.globals)
           spent == [lane EXCEPT !.globals = Tail(@)]
       IN  IF lane.globals = <<>> THEN Pass("steps") /\ lane' = lane
           ELSE IF g.epoch # copy.epoch THEN Pass("globals") /\ lane' = spent
           ELSE IF late THEN Pass("stopped") /\ lane' = [lane EXCEPT !.error = "expired"]
           ELSE IF FreeRequests = {} \/ Conflicts(g.op) THEN Pass("steps") /\ lane' = lane
           ELSE LanePublish(g.op, 0, Hand, g.press, spent, told)
    /\ UNCHANGED <<table, project, surface, budget>>

\* input_stop_home.
Homeward(i, late) ==
    LET far == copy.bar >= Limit
        ready == /\ copy.known /\ ~copy.playing /\ ~JogFlying /\ i.jogs = <<>>
                 /\ i.stepped => copy.newer
        j == AddJog(i, copy, "bar", Home, -(IF far THEN Limit ELSE copy.bar + 1))
    IN  IF ~i.home THEN i
        ELSE IF late THEN [i EXCEPT !.home = FALSE]
        ELSE IF ~ready THEN i ELSE [j EXCEPT !.stepped = TRUE, !.home = far]
\* A held key repeats when nothing else is waiting.
Repeated(i, tick) ==
    IF i.jogs = <<>> /\ FreeRequests # {} /\ i.rewind # i.forward /\ tick
    THEN IF i.forward THEN AddJog(i, copy, "beat", Forward, 1)
         ELSE AddJog(i, copy, "beat", Rewind, -1)
    ELSE i
StepsDue(late, tick) ==
    /\ stage = "steps" /\ Pass("jog")
    /\ lane' = Repeated(Homeward([lane EXCEPT !.played = @ /\ ~(copy.known /\ copy.playing)],
                                 late), tick)
    /\ UNCHANGED <<table, project, surface, budget>>

\* input_jog_admit.
Admits == /\ ~JogFlying /\ copy.known
          /\ copy.playing /\ lane.wait => project.advanced
Admitted == [lane EXCEPT !.wait = @ /\ ~Admits]
\* At most one jog of a pump.
JogOut(late) ==
    /\ stage = "jog"
    /\ LET j == Head(lane.jogs)
           spent == [Admitted EXCEPT !.jogs = Tail(@)]
           heard == IF j.by = Hand
                    THEN [told EXCEPT !.owed = SubSeq(@, Size(j.d) + 1, Len(@))] ELSE told
       IN  IF lane.jogs = <<>> \/ ~Admits \/ (j.by = Home /\ copy.playing)
           THEN Pass("wheel") /\ lane' = (IF lane.jogs = <<>> THEN lane ELSE Admitted)
           ELSE IF late
           THEN /\ stage' = "wheel" /\ lane' = spent /\ told' = heard
                /\ UNCHANGED <<request, line, copy>>
           ELSE IF FreeRequests = {} THEN Pass("wheel") /\ lane' = Admitted
           ELSE IF project.intent
           THEN LaneDone /\ lane' = Admitted /\ UNCHANGED <<request, line, told>>
           ELSE LET n == CHOOSE n \in FreeRequests : \A m \in FreeRequests : n <= m IN
                /\ request' = [request EXCEPT ![n] =
                          [phase |-> "sent", op |-> j.op, amount |-> j.d, epoch |-> copy.epoch,
                           by |-> j.by, press |-> IF j.by = Home THEN told.home ELSE 0,
                           playing |-> copy.playing, undone |-> FALSE]]
                /\ line' = Append(line, n) /\ lane' = spent /\ told' = heard
                /\ stage' = "wheel" /\ copy' = copy
    /\ UNCHANGED <<table, project, surface, budget>>

\* Fault: a flight that has settled is taken for gone.
BusyUntilSettled == \E n \in Flying : request[n].op \in Focus /\ request[n].phase # "settled"
\* The application sees one step or push of the focus at a time.
Busy == \E n \in Flying : request[n].op \in Focus
WheelOut ==
    /\ stage = "wheel"
    /\ LET step == Clip(lane.wheel, Steps)
           spent == [lane EXCEPT !.wheel = @ - step]
       IN  IF lane.wheel = 0 \/ Busy \/ FreeRequests = {}
           THEN Pass("push") /\ lane' = lane
           ELSE LanePublish(lane.unit, step, Hand, 0, spent, told)
    /\ UNCHANGED <<table, project, surface, budget>>
PushOut ==
    /\ stage = "push"
    /\ IF ~lane.push \/ Busy \/ FreeRequests = {}
       THEN LaneDone /\ UNCHANGED <<request, line, lane, told>>
       ELSE LanePublish("push", 0, Hand, 0, [lane EXCEPT !.push = FALSE], told)
    /\ UNCHANGED <<table, project, surface, budget>>

\* surface_close, surface_open.
Unplug ==
    /\ surface.on /\ stage = "drain" /\ "unplug" \in table.moves /\ budget.app > 0
    /\ surface' = [on |-> FALSE, scrub |-> FALSE] /\ copy' = NoLaneCopy
    /\ lane' = JogDiscarded(lane) /\ told' = Forgiven
    /\ budget' = [budget EXCEPT !.app = @ - 1]
    /\ UNCHANGED <<table, project, request, line, stage>>
Plug ==
    /\ ~surface.on /\ stage = "drain" /\ surface' = [surface EXCEPT !.on = TRUE]
    /\ UNCHANGED <<table, project, request, line, stage, copy, lane, budget, told>>

LaneBridge ==
    \/ \E b \in BOOLEAN : TakeCopy(b) \/ Settle(b) \/ GlobalOut(b) \/ JogOut(b)
    \/ \E late, tick \in BOOLEAN : StepsDue(late, tick)
    \/ TakeCopyFails \/ WheelOut \/ PushOut \/ Unplug \/ Plug

-----------------------------------------------------------------------------
\* The application (command-capture.c, jog-capture.inc, general-capture.inc).

Older(n) == {line[k] : k \in {k \in DOMAIN line : \E j \in DOMAIN line : line[j] = n /\ k < j}}
\* service: relative and global requests in the order of their publication.
Turned(n) == request[n].op \in Jog \cup Global =>
    \A m \in Older(n) : request[m].phase = "sent" => request[m].op \notin Jog \cup Global
\* jog_service: every older jog has returned; global_service: so has every older
\* Play and Stop.  A refused jog never returns, and holds those behind it until
\* its slot is used again.
HeldBack(n) ==
    \/ request[n].op \in Jog /\ (\/ \E m \in 1 .. Slots : request[m].undone
                                 \/ \E m \in Older(n) : /\ request[m].op \in Jog
                                                        /\ request[m].phase \in {"sent", "active"})
    \/ request[n].op \in Transport /\ \E m \in Older(n) : /\ request[m].op \in Transport
                                                          /\ request[m].phase \in {"sent", "active"}
Serve(n) ==
    /\ request[n].phase = "sent"
    /\ project.ready /\ ~project.intent /\ request[n].epoch = project.epoch
    /\ Turned(n) /\ ~HeldBack(n)
    /\ request' = [request EXCEPT ![n].phase =
                       IF request[n].op \in Jog \cup Transport THEN "active" ELSE "done"]
    /\ told' = [told EXCEPT !.last = IF request[n].press > @ THEN request[n].press ELSE @]
    /\ UNCHANGED <<table, project, line, stage, surface, copy, lane, budget>>
LaneRefuse(n) ==
    /\ request[n].phase = "sent" /\ ~project.intent /\ Turned(n)
    /\ request[n].op \in Jog => ~HeldBack(n)
    /\ request' = [request EXCEPT ![n].phase = "refused", ![n].undone = request[n].op \in Jog]
    /\ UNCHANGED <<table, project, line, stage, surface, copy, lane, budget, told>>
\* The queued call returns; a Play or Stop of a departed project is canceled.
Return(n) ==
    /\ request[n].phase = "active"
    /\ LET gone == request[n].op \in Transport /\ request[n].epoch # project.epoch IN
       /\ request' = [request EXCEPT ![n].phase = IF gone THEN "lost" ELSE "done",
                                     ![n].playing = @ \/ project.playing]
       /\ project' = CASE gone -> project
                       [] request[n].op \in Jog ->
                           [project EXCEPT !.advanced = FALSE,
                               !.bar = IF request[n].op # "bar" \/ @ + request[n].amount < 0 THEN 0
                                       ELSE @ + request[n].amount]
                       [] OTHER -> [project EXCEPT !.playing = request[n].op = "play"]
    /\ UNCHANGED <<table, line, stage, surface, copy, lane, budget, told>>
LaneReclaim(n) ==
    /\ request[n].phase \in {"refused", "settled"}
    /\ request' = [request EXCEPT ![n].phase = "returned"]
    /\ \E k \in DOMAIN line : line[k] = n /\ line' = RemoveAt(line, k)
    /\ UNCHANGED <<table, project, stage, surface, copy, lane, budget, told>>

LaneOwn(move, now) ==
    /\ move \in table.moves /\ budget.app > 0 /\ budget' = [budget EXCEPT !.app = @ - 1]
    /\ project' = now
    /\ UNCHANGED <<table, request, line, stage, surface, copy, lane, told>>
LaneApplication ==
    \/ \E n \in 1 .. Slots : Serve(n) \/ LaneRefuse(n) \/ Return(n) \/ LaneReclaim(n)
    \/ LaneOwn("transport", [project EXCEPT !.playing = ~@, !.advanced = FALSE])
    \/ LaneOwn("known", [project EXCEPT !.known = ~@])
    \/ LaneOwn("intend", [project EXCEPT !.intent = TRUE])
    \/ project.ready /\ project.epoch < Epochs
        /\ LaneOwn("load", [project EXCEPT !.ready = FALSE, !.epoch = @ + 1, !.intent = FALSE,
                                           !.playing = FALSE])
    \/ /\ ~project.ready \/ (project.playing /\ ~project.advanced)
       /\ project' = [project EXCEPT !.ready = TRUE, !.advanced = @ \/ project.playing]
       /\ UNCHANGED <<table, request, line, stage, surface, copy, lane, budget, told>>

LaneNext == (\E e \in table.events : HearLane(e)) \/ LaneBridge \/ LaneApplication
LaneSpec == LaneInit /\ [][LaneNext]_laneVars

-----------------------------------------------------------------------------
LaneTypeOK ==
    /\ stage \in {"drain", "settle", "globals", "steps", "jog", "wheel", "push", "stopped"}
    /\ \A n \in 1 .. Slots :
        /\ request[n].phase \in {"free", "sent", "active", "done", "lost", "refused", "settled",
                                 "returned"}
        /\ request[n].op \in Jog \cup Global \cup Focus
    /\ ToSet(line) \subseteq 1 .. Slots /\ IsInjective(line)
    /\ Len(lane.jogs) <= Ring /\ Len(lane.globals) <= Ring
    /\ Size(lane.wheel) <= Banked
    /\ \A k \in DOMAIN lane.jogs : lane.jogs[k].d # 0 /\ Size(lane.jogs[k].d) <= Limit
    /\ lane.error \in {"none", "capacity", "identity", "expired", "closed"}

Turns(j) == IF j.by = Hand THEN Ones(j.op, j.d) ELSE <<>>
Unpacked(jogs) ==
    LET f[n \in 0 .. Len(jogs)] == IF n = 0 THEN <<>> ELSE f[n - 1] \o Turns(jogs[n])
    IN  f[Len(jogs)]
\* What the hand turned and has not been sent is what is waiting: in its order,
\* with its units and its size, however packets were joined (input_jog_add_origin).
TurnsArriveInOrder ==
    lane.error = "none" => Unpacked(lane.jogs) = told.owed

Published(n) == request[n].phase \in {"free", "returned"} /\ request'[n].phase = "sent"
\* What is sent was not taken back: a repeat only while its key is down, the
\* return to the start only for a Stop that no Play has followed, work of the wheel
\* only to the project it was turned in (surface_jog,
\* input_stop_button, input_stop_home, input_jog_release, input_jog_resync).
NothingStaleIsSent ==
    [][\A n \in 1 .. Slots : Published(n) =>
        /\ request'[n].by = Forward => "forward" \in told.keys
        /\ request'[n].by = Rewind => "rewind" \in told.keys
        /\ request'[n].by = Home => request'[n].press > told.play
        /\ request'[n].op \in {"data", "note"} => request'[n].epoch = told.wheel
        /\ request'[n].op = "push" => request'[n].epoch = told.push]_laneVars

\* The bridge's record of its flights and the mailbox's record of its slots never
\* disagree about what may be sent: a bridge that publishes into a conflict is
\* stopped for good with C_CLOSED (input_pump_mode, command_publish_request_at).
NoLaneConflict == lane.error # "closed"

\* mirror-input-core.h:587: "Play and Stop are serialized native intents. [...]
\* only an independently observed stopped state returns home."  What the
\* presses asked for reaches the application in the order of the presses.
IntentsInOrder ==
    [][\A n \in 1 .. Slots :
        /\ request[n].phase = "sent" /\ request[n].press > 0
        /\ request'[n].phase \in {"active", "done"}
        => request[n].press >= told.last]_laneVars
=============================================================================
