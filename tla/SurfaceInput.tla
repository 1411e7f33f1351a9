----------------------------- MODULE SurfaceInput -----------------------------
(***************************************************************************)
(* The bridge (mirror-motor.c, mirror-input-core.h, motor-follow.h): the   *)
(* loop that hears the control surface, copies the application's state,    *)
(* publishes what the hand asked for and drives the motors, between a hand *)
(* that never waits and an application that changes under it.              *)
(*                                                                         *)
(* Faders, Mute, Select, Bank and Channel buttons in the Track assignment. *)
(* A Track's identity is its serial; the epoch is the first serial of the  *)
(* project, so an identity belongs to the epoch when it is not below it.   *)
(* A slot of the mailbox is reduced to the phases CommandMailbox checks.   *)
(* A deadline of the motors (quiet, hold, 10 ms) is a send that may wait,  *)
(* and a heartbeat newer than an earlier tick is a choice of the copy.     *)
(* A request does not expire, and the copy a drain takes does not fail.    *)
(* A comment that starts with "Fault" introduces a mistake the properties  *)
(* are known to catch, not a part of the model.                            *)
(***************************************************************************)
EXTENDS InputSlots, Integers, Sequences, FiniteSets, SequencesExt

CONSTANTS
    Scenes,  \* what is on the table: one is chosen for each behaviour
    Serials,    \* Track serials that exist
    Top,     \* the highest fader position
    Edges    \* INPUT_EDGES

Event == [kind : {"touch", "pitch", "mute", "select", "bank", "channel"},
          strip : Nat, arg : Int]
Scene == [bank : Nat \ {0}, rows : Nat \ {0}, motors : BOOLEAN, servo : BOOLEAN,
          events : SUBSET Event, moves : SUBSET STRING, hand : Nat, app : Nat]

ASSUME SurfaceAssumption ==
    /\ {Serials, Top, Edges} \subseteq Nat \ {0}
    /\ \A s \in Scenes :
        /\ s.bank \in Nat \ {0} /\ s.rows \in 1 .. Serials /\ {s.hand, s.app} \subseteq Nat
        /\ {s.motors, s.servo} \subseteq BOOLEAN
        /\ \A e \in s.events :
            \/ e.kind \in {"touch", "mute", "select"} /\ e.strip \in 1 .. s.bank
            \/ e.kind = "pitch" /\ e.strip \in 1 .. s.bank /\ e.arg \in 0 .. Top
            \/ e.kind \in {"bank", "channel"}

VARIABLES
    scene,   \* the surface, the project's size and the bounds of this behaviour
    live,    \* the application: its project and its values
    slot,    \* each slot: the request in it, and the flight the bridge keeps of it
    pc,      \* where the bridge is in its loop
    on,      \* the surface is connected
    snap,    \* the copy the loop works on
    batch,   \* the copy one drain of the surface works on
    bank,    \* MirrorBank
    input,   \* MirrorInput
    follow,  \* MotorFollow of each strip
    at,      \* where each fader stands
    left,    \* what the hand and the application may still do
    asked    \* history: what the hand last asked for

vars == <<scene, live, slot, pc, on, snap, batch, bank, input, follow, at, left, asked>>

Strip == 1 .. scene.bank
Serial == 1 .. Serials
Position == 0 .. Top
None == 0          \* no Track
Empty == Serials + 1  \* a strip past the last Track
NoMove == [id |-> None, to |-> 0]
NoPick == [id |-> None, far |-> FALSE]
NoHold == [id |-> None, held |-> FALSE]
Free == [phase |-> "free", field |-> "volume", id |-> None, strip |-> 0, to |-> 0]

\* What the hand asked and nothing has overruled since: for a strip, the Track
\* the fader showed when it was taken and the last position accepted; for a
\* Track, its Mute (2: nothing); the Track to select.
Unasked == [meant |-> [s \in Strip |-> None], move |-> [s \in Strip |-> NoMove],
            mute |-> [t \in Serial |-> 2], pick |-> None]

\* copy_mirror_view: one instant of the application.
Copied == [epoch |-> live.epoch, ready |-> live.ready, rows |-> live.rows, sel |-> live.sel,
           volume |-> live.volume, mute |-> live.mute]
NoCopy == [Copied EXCEPT !.epoch = 0, !.ready = FALSE, !.rows = <<>>, !.sel = None,
           !.volume = [t \in Serial |-> 0], !.mute = [t \in Serial |-> 0]]
\* mirror_snapshot_current, mirror_selection_current.
Current(c) == /\ c.epoch = live.epoch /\ c.ready = live.ready
              /\ c.rows = live.rows /\ c.sel = live.sel
\* input_track.
Has(c, id) == c.ready /\ \E r \in DOMAIN c.rows : c.rows[r] = id
Row(c, id) == CHOOSE r \in DOMAIN c.rows : c.rows[r] = id

-----------------------------------------------------------------------------
\* The bank: which Track each strip shows (mirror-motor-core.h).

NoFader == [id |-> None, bits |-> 0, sent |-> -1, physical |-> -1, touch |-> "unknown",
            wait |-> FALSE]
NoBank == [ready |-> FALSE, epoch |-> 0, offset |-> 0, selected |-> None, count |-> 0,
           strips |-> [s \in Strip |-> None], fader |-> [s \in Strip |-> NoFader]]

\* bank_drop: the strips keep what they showed, the faders do not.
Dropped(b) ==
    [b EXCEPT !.ready = FALSE,
              !.fader = [s \in Strip |-> [b.fader[s] EXCEPT !.id = None, !.bits = 0,
                                                            !.sent = -1, !.wait = TRUE]]]
\* bank_disconnect.
Disconnected(b) == [NoBank EXCEPT !.offset = b.offset, !.epoch = b.epoch]

\* bank_apply's offset: a new selection brings its own bank, and the bank
\* stays inside the project.
Sought(b, c) ==
    IF c.sel # b.selected /\ Has(c, c.sel)
    THEN LET r == Row(c, c.sel) - 1
         IN  IF r \in b.offset .. b.offset + scene.bank - 1 THEN b.offset
             ELSE (r \div scene.bank) * scene.bank
    ELSE b.offset
Clamped(o, n) ==
    IF o < n THEN o ELSE IF n = 0 THEN 0 ELSE ((n - 1) \div scene.bank) * scene.bank

\* bank_apply.  beat: the copy's heartbeat is past every earlier barrier.
Applied(old, c, beat) ==
    LET b == IF old.epoch = c.epoch THEN old
             ELSE [Dropped(old) EXCEPT !.offset = 0, !.epoch = c.epoch]
        d == IF Sought(b, c) # b.offset THEN Dropped(b) ELSE b
        o == Clamped(Sought(b, c), Len(c.rows))
        shown == [s \in Strip |-> IF o + s <= Len(c.rows) THEN c.rows[o + s] ELSE None]
        Fader(s) ==
            LET f == d.fader[s]
                id == IF shown[s] = None THEN Empty ELSE shown[s]
                bits == IF shown[s] = None THEN 0 ELSE c.volume[shown[s]]
            IN  IF f.id = id THEN [f EXCEPT !.bits = bits, !.wait = @ /\ ~beat]
                ELSE [f EXCEPT !.id = id, !.bits = bits, !.sent = -1, !.wait = TRUE]
    IN  IF ~c.ready THEN Dropped(b)
        ELSE [d EXCEPT !.ready = TRUE, !.offset = o, !.count = Len(c.rows),
                       !.selected = IF Has(c, c.sel) THEN c.sel ELSE None,
                       !.strips = shown, !.fader = [s \in Strip |-> Fader(s)]]

-----------------------------------------------------------------------------
\* What the hand has asked and nobody has been told yet (mirror-input-core.h).

NoInput == [hold |-> [s \in Strip |-> NoHold], move |-> [s \in Strip |-> NoMove],
            pick |-> [s \in Strip |-> NoPick], edge |-> <<>>, error |-> "none"]

\* input_discard, and input_bank_discard, which keeps a navigation.
Discarded(i) == [NoInput EXCEPT !.error = i.error]
BankDiscarded(i) ==
    [Discarded(i) EXCEPT !.pick = [s \in Strip |-> IF i.pick[s].far THEN i.pick[s] ELSE NoPick]]

\* input_sync: what no longer fits the bank is forgotten.
Synced(i, b) ==
    [i EXCEPT
        !.hold = [s \in Strip |-> IF b.ready /\ b.fader[s].id = i.hold[s].id
                                  THEN i.hold[s] ELSE NoHold],
        !.move = [s \in Strip |-> IF b.ready /\ b.fader[s].id = i.move[s].id
                                  THEN i.move[s] ELSE NoMove],
        !.pick = [s \in Strip |-> IF b.ready /\ i.pick[s].id >= b.epoch
                                       /\ (i.pick[s].far \/ b.strips[s] = i.pick[s].id)
                                  THEN i.pick[s] ELSE NoPick]]

\* A selection is the project's, the other controls are a Track's.
Same(q, field, id) == q.field = field /\ (field = "select" \/ q.id = id)
\* Fault: a settled flight no longer counts, though its slot is not given back.
ExistingUnsettled(field, id) ==
    {n \in 1 .. Slots : slot[n].phase \in {"sent", "done", "shown"}
                        /\ Same(slot[n], field, id)}
\* input_existing: a flight for the control, until its slot is seen reclaimed.
Existing(field, id) ==
    {n \in 1 .. Slots : slot[n].phase # "free" /\ Same(slot[n], field, id)}

\* Fault: only what is unpublished holds the motor.
BlockedByDesire(i, s) == i.error # "none" \/ i.move[s].id # None
\* input_blocked_field.
Unsettled == {"sent", "done", "shown", "refused", "returned"}
Blocked(i, s) ==
    \/ i.error # "none" \/ i.move[s].id # None
    \/ \E n \in 1 .. Slots : /\ slot[n].phase \in Unsettled /\ slot[n].strip = s
                             /\ slot[n].field = "volume"

\* bank_target and motor_follow_target: the target of a motor.
Target(b, s) == IF b.fader[s].id = Empty THEN 0 ELSE b.fader[s].bits
Aimed(b, m, s) ==
    IF b.ready /\ b.fader[s].id # None /\ m.key # b.fader[s].id
    THEN [m EXCEPT !.key = b.fader[s].id, !.sync = TRUE] ELSE m

\* strip_motor_ready, less the deadlines: input_blocked_field, bank_due,
\* motor_follow_due.
MotorReady(s) ==
    LET f == bank.fader[s]
        m == Aimed(bank, follow[s], s)
    IN  /\ bank.ready /\ f.id # None /\ f.touch # "down" /\ ~f.wait
        /\ ~Blocked(input, s)
        /\ Target(bank, s) # f.sent
        /\ m.sync \/ Target(bank, s) # m.sent

-----------------------------------------------------------------------------
Init ==
    /\ scene \in Scenes
    /\ live = [epoch |-> 1, ready |-> TRUE, intent |-> FALSE, next |-> scene.rows + 1,
               rows |-> [r \in 1 .. scene.rows |-> r], sel |-> 1,
               volume |-> [t \in Serial |-> 0], mute |-> [t \in Serial |-> 0]]
    /\ slot = [n \in 1 .. Slots |-> Free]
    /\ pc = "events" /\ on = TRUE
    /\ snap = NoCopy /\ batch = NoCopy
    /\ bank = NoBank /\ input = NoInput
    /\ follow = [s \in Strip |-> [key |-> -1, sync |-> FALSE, sent |-> -1]]
    /\ at = [s \in Strip |-> 0]
    /\ left = [hand |-> scene.hand, app |-> scene.app]
    /\ asked = Unasked

\* What the hand asked, once the bank has changed to b and the input to i.
StillAsked(b, i) ==
    [asked EXCEPT
        !.move = [s \in Strip |-> IF b.fader[s].id = asked.move[s].id THEN asked.move[s]
                                  ELSE NoMove],
        !.pick = IF \A s \in Strip : input.pick[s].id # None => i.pick[s].id # None
                 THEN asked.pick ELSE None,
        !.mute = [t \in Serial |->
                     IF \E k \in DOMAIN input.edge : input.edge[k].id = t /\ i.edge = <<>>
                     THEN 2 ELSE asked.mute[t]]]

-----------------------------------------------------------------------------
\* surface_drain: one event.  A batch of events shares a copy while the
\* topology and the selection stand.

Seen == IF batch.epoch # 0 /\ Current(batch) THEN batch ELSE Copied
Bank0 == Applied(bank, Seen, FALSE)
Input0 == Synced(input, Bank0)
Deaf == ~Seen.ready \/ live.intent

\* input_health: an error stops the bridge at its next pump.
Failed == input.error # "none"

\* The drains: before the copy, and before each motor that is ready.
Draining == \/ pc = "events"
            \/ pc = "motors" /\ scene.motors
                              /\ (batch.epoch # 0 \/ \E s \in Strip : MotorReady(s))

Hear(kind, s, arg) ==
    /\ on /\ Draining
    /\ [kind |-> kind, strip |-> s, arg |-> arg] \in scene.events
    /\ left.hand > 0 /\ left' = [left EXCEPT !.hand = @ - 1]
    /\ batch' = Seen
    /\ UNCHANGED <<scene, live, slot, pc, on, snap, follow>>

Touched(b, s, down) ==
    [b EXCEPT !.fader[s].touch = IF down THEN "down" ELSE "up", !.fader[s].wait = TRUE]

\* input_touch: a press takes what the fader shows, once.
Touch(s, down) ==
    /\ Hear("touch", s, IF down THEN 1 ELSE 0) /\ ~Deaf
    /\ LET f == Bank0.fader[s]
           again == down /\ f.touch = "down"
           taken == IF f.id \in Serial /\ ~Failed THEN [id |-> f.id, held |-> TRUE] ELSE NoHold
       IN  /\ bank' = IF again THEN Bank0 ELSE Touched(Bank0, s, down)
           /\ input' = IF again THEN Input0
                       ELSE IF down THEN [Input0 EXCEPT !.hold[s] = taken]
                       ELSE [Input0 EXCEPT !.hold[s].held = FALSE]
           /\ asked' = IF down /\ ~again
                       THEN [StillAsked(Bank0, Input0) EXCEPT !.meant[s] = f.id]
                       ELSE StillAsked(Bank0, Input0)
    /\ UNCHANGED at

\* Fault: a position takes whatever Track the fader shows.
GestureRebinds(b, i, s) ==
    IF b.fader[s].id \notin Serial THEN NoHold
    ELSE IF i.hold[s].id = b.fader[s].id THEN i.hold[s]
    ELSE [id |-> b.fader[s].id, held |-> FALSE]
\* input_pitch: the gesture a position belongs to.  One the bank took away from
\* a held fader does not go to the Track that came instead.
Gesture(b, i, s) ==
    LET f == b.fader[s]
        h == i.hold[s]
    IN  IF f.id \notin Serial \/ i.error # "none" THEN NoHold
        ELSE IF h.id = f.id /\ (f.touch = "down" => h.held) THEN h
        ELSE IF f.touch # "down" THEN [id |-> f.id, held |-> FALSE]
        ELSE NoHold

\* surface_pitch, with surface_servo's echo.
Pitch(s, p) ==
    /\ Hear("pitch", s, p) /\ ~Deaf
    /\ LET f == Bank0.fader[s]
           g == Gesture(Bank0, Input0, s)
           taken == g.id # None
           moved == taken /\ p # f.physical
           was == StillAsked(Bank0, Input0)
       IN  /\ bank' = [Bank0 EXCEPT !.fader[s].physical = p,
                                    !.fader[s].sent = IF scene.servo THEN p ELSE @]
           /\ input' = [Input0 EXCEPT
                           !.hold[s] = IF taken THEN g ELSE @,
                           !.move[s] = IF moved THEN [id |-> g.id, to |-> p] ELSE @]
           /\ asked' = [was EXCEPT
                           !.meant[s] = IF f.touch # "down" THEN f.id ELSE @,
                           !.move[s] = IF moved THEN [id |-> f.id, to |-> p] ELSE @]
    /\ at' = [at EXCEPT ![s] = p]

\* Fault: the opposite of what the copy shows.
PriorShown(id) == Seen.mute[id]
\* input_control_bound, a toggle: the opposite of the latest edge, else of the
\* flight, else of the copy.
Prior(id) ==
    LET mine == {k \in DOMAIN Input0.edge : Input0.edge[k].id = id}
        flights == Existing("mute", id)
    IN  IF mine # {} THEN Input0.edge[CHOOSE k \in mine : \A j \in mine : j <= k].to
        ELSE IF flights # {} THEN slot[CHOOSE n \in flights : TRUE].to
        ELSE Seen.mute[id]
Pressed(id) ==
    IF Existing("mute", id) = {} /\ \A k \in DOMAIN Input0.edge : Input0.edge[k].id # id
    THEN 1 - Seen.mute[id]
    ELSE IF asked.mute[id] = 2 THEN 2 ELSE 1 - asked.mute[id]
\* Fault: one edge too many.
FullLate == Len(Input0.edge) > Edges
Full == Len(Input0.edge) = Edges

Mute(s) ==
    /\ Hear("mute", s, 0) /\ ~Deaf
    /\ LET id == Bank0.strips[s]
           was == StillAsked(Bank0, Input0)
       IN  /\ input' = IF id = None \/ Failed THEN Input0
                       ELSE IF Full THEN [Input0 EXCEPT !.error = "capacity"]
                       ELSE [Input0 EXCEPT !.edge = Append(@, [id |-> id, strip |-> s,
                                                               to |-> 1 - Prior(id)])]
           /\ asked' = IF id = None \/ Failed \/ Full THEN was
                       ELSE [was EXCEPT !.mute[id] = Pressed(id)]
    /\ bank' = Bank0 /\ UNCHANGED at

\* Fault: an earlier selection stays pending on another strip.
PickedBeside(i, s, id, far) == [i EXCEPT !.pick[s] = [id |-> id, far |-> far]]
\* input_control_bound, a selection: only the latest stays.
Picked(i, s, id, far) ==
    [i EXCEPT !.pick = [[t \in Strip |-> NoPick] EXCEPT ![s] = [id |-> id, far |-> far]]]
Select(s) ==
    /\ Hear("select", s, 0) /\ ~Deaf
    /\ LET id == Bank0.strips[s]
           was == StillAsked(Bank0, Input0)
       IN  /\ input' = IF id = None \/ Failed THEN Input0 ELSE Picked(Input0, s, id, FALSE)
           /\ asked' = IF id = None \/ Failed THEN was ELSE [was EXCEPT !.pick = id]
    /\ bank' = Bank0 /\ UNCHANGED at

\* input_channel: one step from where the steps before will end.
From ==
    LET going == {n \in Existing("select", None) : slot[n].phase \in Unsettled}
        unsent == {s \in Strip : Input0.pick[s].id # None}
    IN  IF unsent # {} THEN Input0.pick[CHOOSE s \in unsent : \A t \in unsent : t <= s].id
        ELSE IF going # {} THEN slot[CHOOSE n \in going : TRUE].id
        ELSE Bank0.selected
Channel(d) ==
    /\ Hear("channel", 0, d) /\ ~Deaf
    /\ LET r == IF Has(Seen, From) /\ ~Failed THEN Row(Seen, From) + d ELSE 0
           was == StillAsked(Bank0, Input0)
       IN  /\ input' = IF r \notin DOMAIN Seen.rows THEN Input0
                       ELSE Picked(Input0, 1, Seen.rows[r], TRUE)
           /\ asked' = IF r \notin DOMAIN Seen.rows THEN was
                       ELSE [was EXCEPT !.pick = Seen.rows[r]]
    /\ bank' = Bank0 /\ UNCHANGED at

\* bank_navigate, and what of the input does not move with the bank.
Bank(d) ==
    /\ Hear("bank", 0, d) /\ ~Deaf
    /\ LET b == Bank0
           o == IF d < 0 THEN IF b.offset >= scene.bank THEN b.offset - scene.bank ELSE 0
                ELSE IF b.offset + scene.bank < b.count THEN b.offset + scene.bank ELSE b.offset
           c == IF o = b.offset THEN b ELSE [Dropped(b) EXCEPT !.offset = o]
           i == IF o = b.offset THEN Input0 ELSE BankDiscarded(Input0)
       IN  bank' = c /\ input' = i /\ asked' = StillAsked(c, i)
    /\ UNCHANGED at

\* Nothing is asked of a project that is not there, or about to go; touch and
\* position are still known.
Unheard(kind, s, arg) ==
    /\ Hear(kind, s, arg) /\ Deaf
    /\ LET b == CASE kind = "touch" -> Touched(Bank0, s, arg = 1)
                  [] kind = "pitch" -> [Bank0 EXCEPT !.fader[s].physical = arg]
                  [] OTHER -> Bank0
       IN  bank' = b /\ input' = Discarded(input)
    /\ at' = IF kind = "pitch" THEN [at EXCEPT ![s] = arg] ELSE at
    /\ asked' = [Unasked EXCEPT !.meant = asked.meant]

HearAny == \E e \in scene.events :
    \/ e.kind = "touch" /\ Touch(e.strip, e.arg = 1)
    \/ e.kind = "pitch" /\ Pitch(e.strip, e.arg)
    \/ e.kind = "mute" /\ Mute(e.strip)
    \/ e.kind = "select" /\ Select(e.strip)
    \/ e.kind = "channel" /\ Channel(e.arg)
    \/ e.kind = "bank" /\ Bank(e.arg)
    \/ Unheard(e.kind, e.strip, e.arg)

-----------------------------------------------------------------------------
\* The loop, once the surface is drained.

\* fresh_copy_view, bank_apply, input_sync.
Copy(beat) ==
    /\ pc = "events" /\ pc' = "settle"
    /\ snap' = Copied /\ batch' = NoCopy
    /\ bank' = Applied(bank, Copied, beat)
    /\ input' = Synced(input, bank')
    /\ asked' = StillAsked(bank', input')
    /\ slot' = [n \in 1 .. Slots |-> IF slot[n].phase = "done" /\ beat
                                     THEN [slot[n] EXCEPT !.phase = "shown"] ELSE slot[n]]
    /\ UNCHANGED <<scene, live, on, follow, at, left>>

\* The copy gave up: the iteration ends.
CopyFails ==
    /\ pc = "events" /\ batch' = NoCopy
    /\ bank' = Dropped(bank) /\ input' = Discarded(input)
    /\ asked' = [Unasked EXCEPT !.meant = asked.meant]
    /\ UNCHANGED <<scene, live, slot, pc, on, snap, follow, at, left>>

\* input_pump_mode's first half.  A flight whose Track is gone stops the bridge.
Lost == \E n \in 1 .. Slots :
    slot[n].phase \in {"sent", "done", "shown"} /\ ~Has(snap, slot[n].id)
AfterFlights(n) ==
    CASE slot[n].phase \in {"reclaimed", "returned"} -> Free
      [] slot[n].phase = "shown" -> [slot[n] EXCEPT !.phase = "settled"]
      [] OTHER -> slot[n]
Landed(s) == \E n \in 1 .. Slots : /\ slot[n].phase = "shown" /\ slot[n].field = "volume"
                                   /\ slot[n].strip = s /\ slot[n].id = bank.fader[s].id
Dead == Failed \/ Lost
Flights ==
    IF Dead
    THEN /\ pc' = "stopped" /\ input' = [input EXCEPT !.error = IF Failed THEN @ ELSE "identity"]
         /\ UNCHANGED <<slot, bank>>
    ELSE /\ slot' = [n \in 1 .. Slots |-> AfterFlights(n)]
         /\ bank' = [bank EXCEPT !.fader = [s \in Strip |->
                        [bank.fader[s] EXCEPT !.wait = @ \/ Landed(s)]]]

\* input_drain: nothing new is published.
Drain ==
    /\ pc = "settle" /\ Flights
    /\ ~Dead => pc' = (IF on THEN "pump" ELSE "events") /\ input' = input
    /\ UNCHANGED <<scene, live, on, snap, batch, follow, at, left, asked>>

\* strip_motor_ready sees each target, whether or not it can be sent.
ToMotors ==
    /\ pc' = "motors"
    /\ follow' = [s \in Strip |-> Aimed(bank, follow[s], s)]

\* input_pump.
Pump ==
    /\ pc = "pump" /\ Flights
    /\ ~Dead =>
        IF ~snap.ready \/ live.intent
        THEN /\ ToMotors /\ input' = Discarded(input)
             /\ asked' = [Unasked EXCEPT !.meant = asked.meant]
        ELSE /\ pc' = "edges" /\ input' = Synced(input, bank)
             /\ asked' = StillAsked(bank, input') /\ UNCHANGED follow
    /\ Dead => UNCHANGED <<follow, asked>>
    /\ UNCHANGED <<scene, live, on, snap, batch, at, left>>

\* command_free and command_publish_request_at.
FreeSlots == {n \in 1 .. Slots : slot[n].phase \in {"free", "reclaimed", "returned"}}
Conflict(field, id) == \E n \in 1 .. Slots \ FreeSlots : Same(slot[n], field, id)
Publish(field, id, s, to, spent) ==
    IF live.intent THEN ToMotors /\ UNCHANGED <<slot, input>>
    ELSE IF Conflict(field, id)
    THEN /\ pc' = "stopped" /\ input' = [input EXCEPT !.error = "closed"]
         /\ UNCHANGED <<slot, follow>>
    ELSE \E n \in FreeSlots :
         /\ \A m \in FreeSlots : n <= m
         /\ slot' = [slot EXCEPT ![n] = [phase |-> "sent", field |-> field, id |-> id,
                                         strip |-> s, to |-> to]]
         /\ input' = spent /\ UNCHANGED <<pc, follow>>

\* What the copy says of a control; a selection is a number of its own.
Value(field, id) == CASE field = "volume" -> snap.volume[id]
                      [] field = "mute" -> snap.mute[id]
                      [] field = "select" -> IF snap.sel = id THEN 1 ELSE 0

\* One request that is not held up by an earlier one for the same control.
Offer(field, id, s, to, spent) ==
    IF ~Has(snap, id) \/ Value(field, id) = to
    THEN input' = spent /\ UNCHANGED <<slot, pc, follow>>
    ELSE IF FreeSlots = {} THEN ToMotors /\ UNCHANGED <<slot, input>>
    ELSE Publish(field, id, s, to, spent)

Stale(e) == ~bank.ready \/ bank.strips[e.strip] # e.id
Pending == {k \in DOMAIN input.edge :
                Stale(input.edge[k]) \/ Existing("mute", input.edge[k].id) = {}}
\* The edges, oldest first.
Edge ==
    /\ pc = "edges" /\ Pending # {}
    /\ LET k == CHOOSE k \in Pending : \A j \in Pending : k <= j
           e == input.edge[k]
           spent == [input EXCEPT !.edge = RemoveAt(@, k)]
       IN  IF Stale(e)
           THEN /\ input' = spent /\ asked' = [asked EXCEPT !.mute[e.id] = 2]
                /\ UNCHANGED <<slot, pc, follow>>
           ELSE Offer("mute", e.id, e.strip, e.to, spent) /\ UNCHANGED asked
    /\ UNCHANGED <<scene, live, on, snap, batch, bank, at, left>>
EdgesDone ==
    /\ pc = "edges" /\ Pending = {} /\ pc' = "desires"
    /\ UNCHANGED <<scene, live, slot, on, snap, batch, bank, input, follow, at, left, asked>>

\* Fault: a position the copy already shows is dropped before the flight for
\* the same fader is looked at.
MoveComparedFirst(s) ==
    /\ pc = "desires" /\ input.move[s].id # None
    /\ \/ Existing("volume", input.move[s].id) = {}
       \/ Value("volume", input.move[s].id) = input.move[s].to
    /\ Offer("volume", input.move[s].id, s, input.move[s].to,
             [input EXCEPT !.move[s] = NoMove])
    /\ UNCHANGED <<scene, live, on, snap, batch, bank, at, left, asked>>
\* The desires, in an order next_strip rotates.
Move(s) ==
    /\ pc = "desires" /\ input.move[s].id # None
    /\ Existing("volume", input.move[s].id) = {}
    /\ Offer("volume", input.move[s].id, s, input.move[s].to,
             [input EXCEPT !.move[s] = NoMove])
    /\ UNCHANGED <<scene, live, on, snap, batch, bank, at, left, asked>>
Pick(s) ==
    /\ pc = "desires" /\ input.pick[s].id # None
    /\ Existing("select", None) = {}
    /\ Offer("select", input.pick[s].id, s, 1, [input EXCEPT !.pick[s] = NoPick])
    /\ UNCHANGED <<scene, live, on, snap, batch, bank, at, left, asked>>
DesiresDone ==
    /\ pc = "desires"
    /\ \A s \in Strip :
        /\ input.move[s].id # None => Existing("volume", input.move[s].id) # {}
        /\ input.pick[s].id # None => Existing("select", None) # {}
    /\ ToMotors
    /\ UNCHANGED <<scene, live, slot, on, snap, batch, bank, input, at, left, asked>>

-----------------------------------------------------------------------------
\* The motors.

\* mirror_motor_current.
MotorCurrent(s) ==
    LET f == bank.fader[s]
    IN  /\ Current(snap)
        /\ f.id # Empty => Has(snap, f.id) /\ live.volume[f.id] = f.bits

\* strip_motor_output.
MotorSend(s) ==
    /\ pc = "motors" /\ on /\ scene.motors /\ MotorReady(s) /\ MotorCurrent(s)
    /\ at' = [at EXCEPT ![s] = Target(bank, s)]
    /\ bank' = [bank EXCEPT !.fader[s].sent = Target(bank, s), !.fader[s].physical = -1]
    /\ follow' = [follow EXCEPT ![s] = [key |-> bank.fader[s].id, sync |-> FALSE,
                                        sent |-> Target(bank, s)]]
    /\ UNCHANGED <<scene, live, slot, pc, on, snap, batch, input, left, asked>>
MotorsDone ==
    /\ pc = "motors" /\ pc' = "events" /\ batch' = NoCopy /\ snap' = NoCopy
    /\ UNCHANGED <<scene, live, slot, on, bank, input, follow, at, left, asked>>

\* surface_close and surface_open.  What was published stays published.
Disconnect ==
    /\ on /\ pc \in {"events", "motors"} /\ "unplug" \in scene.moves /\ left.app > 0
    /\ on' = FALSE /\ pc' = "events" /\ batch' = NoCopy /\ snap' = NoCopy
    /\ bank' = Disconnected(bank) /\ input' = Discarded(input)
    /\ follow' = [s \in Strip |-> [key |-> -1, sync |-> FALSE, sent |-> -1]]
    /\ asked' = Unasked
    /\ left' = [left EXCEPT !.app = @ - 1]
    /\ UNCHANGED <<scene, live, slot, at>>
Reconnect ==
    /\ ~on /\ pc = "events" /\ on' = TRUE /\ bank' = Disconnected(bank)
    /\ UNCHANGED <<scene, live, slot, pc, snap, batch, input, follow, at, left, asked>>

Bridge ==
    \/ \E beat \in BOOLEAN : Copy(beat)
    \/ CopyFails \/ Drain \/ Pump \/ Edge \/ EdgesDone \/ DesiresDone \/ MotorsDone
    \/ \E s \in Strip : Move(s) \/ Pick(s) \/ MotorSend(s)
    \/ Disconnect \/ Reconnect

-----------------------------------------------------------------------------
\* The application.

\* The consumer calls the native setter, or refuses; then it gives the slot back.
Execute(n) ==
    /\ slot[n].phase = "sent" /\ live.ready /\ ~live.intent
    /\ \E r \in DOMAIN live.rows : live.rows[r] = slot[n].id
    /\ live' = CASE slot[n].field = "volume" -> [live EXCEPT !.volume[slot[n].id] = slot[n].to]
                 [] slot[n].field = "mute" -> [live EXCEPT !.mute[slot[n].id] = slot[n].to]
                 [] slot[n].field = "select" -> [live EXCEPT !.sel = slot[n].id]
    /\ slot' = [slot EXCEPT ![n].phase = "done"]
    /\ UNCHANGED <<scene, pc, on, snap, batch, bank, input, follow, at, left, asked>>
\* A refusal overrules the hand, unless the hand has asked for more since.
Refuse(n) ==
    /\ slot[n].phase = "sent" /\ slot' = [slot EXCEPT ![n].phase = "refused"]
    /\ LET q == slot[n] IN
       asked' = [asked EXCEPT
           !.move = [s \in Strip |-> IF q.field = "volume" /\ asked.move[s].id = q.id
                                          /\ input.move[s].id = None
                                     THEN NoMove ELSE asked.move[s]],
           !.mute = IF q.field = "mute" THEN [asked.mute EXCEPT ![q.id] = 2] ELSE asked.mute,
           !.pick = IF q.field = "select" /\ \A s \in Strip : input.pick[s].id = None
                    THEN None ELSE asked.pick]
    /\ UNCHANGED <<scene, live, pc, on, snap, batch, bank, input, follow, at, left>>
Reclaim(n) ==
    /\ slot[n].phase \in {"refused", "settled"}
    /\ slot' = [slot EXCEPT ![n].phase = IF @ = "refused" THEN "returned" ELSE "reclaimed"]
    /\ UNCHANGED <<scene, live, pc, on, snap, batch, bank, input, follow, at, left, asked>>

\* What the application does of itself overrules the hand.
Own(move) ==
    /\ move \in scene.moves /\ left.app > 0 /\ left' = [left EXCEPT !.app = @ - 1]
    /\ UNCHANGED <<scene, slot, pc, on, snap, batch, bank, input, follow, at>>
SetVolume(t, p) ==
    /\ Own("volume") /\ t \in ToSet(live.rows) /\ live.volume[t] # p
    /\ live' = [live EXCEPT !.volume[t] = p]
    /\ asked' = [asked EXCEPT !.move = [s \in Strip |-> IF asked.move[s].id = t THEN NoMove
                                                        ELSE asked.move[s]]]
SetMute(t) ==
    /\ Own("mute") /\ t \in ToSet(live.rows)
    /\ live' = [live EXCEPT !.mute[t] = 1 - @] /\ asked' = [asked EXCEPT !.mute[t] = 2]
SetSelection(t) ==
    /\ Own("select") /\ t \in ToSet(live.rows) /\ live.sel # t
    /\ live' = [live EXCEPT !.sel = t] /\ asked' = [asked EXCEPT !.pick = None]
Replace(r) ==
    /\ Own("replace") /\ r \in DOMAIN live.rows /\ live.next <= Serials
    /\ live' = [live EXCEPT !.rows[r] = live.next, !.next = @ + 1,
                            !.sel = IF @ = live.rows[r] THEN live.next ELSE @]
    /\ asked' = [asked EXCEPT !.pick = None]
Load ==
    /\ Own("load") /\ live.ready /\ live.next + scene.rows - 1 <= Serials
    /\ live' = [live EXCEPT !.ready = FALSE, !.intent = FALSE, !.epoch = live.next,
                            !.rows = <<>>, !.sel = None]
    /\ asked' = [asked EXCEPT !.pick = None]
Loaded ==
    /\ ~live.ready
    /\ live' = [live EXCEPT !.ready = TRUE, !.next = @ + scene.rows, !.sel = live.next,
                            !.rows = [r \in 1 .. scene.rows |-> live.next + r - 1]]
    /\ UNCHANGED <<scene, slot, pc, on, snap, batch, bank, input, follow, at, left, asked>>
\* new_project_intent, given up or followed by a Load.
Intend == /\ Own("intend") /\ live.ready /\ ~live.intent
          /\ live' = [live EXCEPT !.intent = TRUE] /\ UNCHANGED asked
GiveUp == /\ live.intent /\ live' = [live EXCEPT !.intent = FALSE]
          /\ UNCHANGED <<scene, slot, pc, on, snap, batch, bank, input, follow, at, left, asked>>

Application ==
    \/ \E n \in 1 .. Slots : Execute(n) \/ Refuse(n) \/ Reclaim(n)
    \/ \E t \in Serial : SetMute(t) \/ SetSelection(t) \/ \E p \in Position : SetVolume(t, p)
    \/ \E r \in 1 .. scene.rows : Replace(r)
    \/ Load \/ Loaded \/ Intend \/ GiveUp

Next == HearAny \/ Bridge \/ Application
Spec == Init /\ [][Next]_vars

-----------------------------------------------------------------------------
TypeOK ==
    /\ scene \in Scenes
    /\ pc \in {"events", "settle", "pump", "edges", "desires", "motors", "stopped"}
    /\ slot \in [1 .. Slots -> [phase : Unsettled \cup {"free", "settled", "reclaimed"},
                                field : {"volume", "mute", "select"}, id : Serial \cup {None},
                                strip : 0 .. scene.bank, to : Position \cup {0, 1}]]
    /\ bank.offset \in Nat /\ bank.ready => bank.offset < bank.count
    /\ \A s \in Strip : bank.fader[s].id \in Serial \cup {None, Empty}
    /\ Len(input.edge) <= Edges
    /\ input.error \in {"none", "identity", "closed", "capacity"}
    /\ at \in [Strip -> Position]

Asking(s) == input.move[s].id # None
Going(field, id) == \E n \in 1 .. Slots : slot[n].phase = "sent" /\ Same(slot[n], field, id)

\* A position is only ever asked of the Track the fader showed when the hand
\* took it, however the bank changes under a held fader (input_touch,
\* input_pitch, input_sync).
MovesReachTheirTrack ==
    \A s \in Strip : Asking(s) => input.move[s].id = asked.meant[s]

\* The fader that was moved last stands in the application: an earlier
\* request still on its way is never taken for the answer to a later one
\* (input_pump_mode asks input_existing before it compares).
LastMoveWins ==
    \A s \in Strip : LET m == asked.move[s] IN
        m.id # None /\ ~Asking(s) /\ ~Going("volume", m.id) => live.volume[m.id] = m.to

\* Of several selections the last one holds, and steps of the Channel buttons add
\* up (input_control_bound, input_channel).
LastPickWins ==
    asked.pick # None /\ ~Going("select", None) /\ (\A s \in Strip : input.pick[s].id = None)
        => live.sel = asked.pick

\* Mute presses count, however fast: each is the opposite of the one before,
\* not of what the copy still shows (input_control_bound).
PressesCount ==
    \A t \in Serial :
        /\ asked.mute[t] # 2 /\ ~Going("mute", t)
        /\ \A k \in DOMAIN input.edge : input.edge[k].id # t
        => live.mute[t] = asked.mute[t]

\* What the hand asked last is what the application ends up with, on the faders,
\* the selection and, press by press, Mute.
LastRequestWins == LastMoveWins /\ LastPickWins /\ PressesCount

\* The bridge never publishes against itself, which would stop it (C_CLOSED).
NoSelfConflict == input.error # "closed"

\* A motor never takes a fader away from where the hand put it while that
\* stands: not before the request is published, nor while it is under way, nor
\* from a copy older than its answer (input_blocked_field, mirror_motor_current).
MotorsYield ==
    [][\A s \in Strip : asked.move[s].id # None /\ at'[s] # at[s] /\ left' = left
                            => at'[s] = asked.move[s].to]_vars

=============================================================================
