-------------------------------- MODULE MCInput --------------------------------
(* The bridge's two input lanes for TLC, each in its own part of the run: the    *)
(* strips of SurfaceInput and the transport of TransportInput.                   *)
EXTENDS SurfaceInput, TransportInput

VARIABLE part  \* the lane this behaviour belongs to

Ev(kind, strips, args) == [kind : {kind}, strip : strips, arg : args]
Tv(kind, args) == [kind : {kind}, arg : args]

\* A fader that is held, moved and let go, while its Track is replaced or the
\* surface unplugged.
Faders == [bank |-> 1, rows |-> 1, motors |-> TRUE, servo |-> TRUE, hand |-> 4, app |-> 1,
           events |-> Ev("touch", {1}, {0, 1}) \cup Ev("pitch", {1}, {0, 1}),
           moves |-> {"volume", "replace", "unplug"}]
\* One strip over two Tracks; the hand changes bank, the project is replaced.
Banks == [bank |-> 1, rows |-> 2, motors |-> TRUE, servo |-> FALSE, hand |-> 3, app |-> 1,
          events |-> Ev("touch", {1}, {1}) \cup Ev("pitch", {1}, {0, 1})
                         \cup Ev("bank", {0}, {-1, 1}),
          moves |-> {"load", "intend"}]
\* Mute, again and again.
Mutes == [bank |-> 1, rows |-> 1, motors |-> FALSE, servo |-> FALSE, hand |-> 4, app |-> 1,
          events |-> Ev("mute", {1}, {0}),
          moves |-> {"mute", "replace", "intend"}]
\* Two strips over three Tracks; selections from the strips and by steps.
Picks == [bank |-> 2, rows |-> 3, motors |-> FALSE, servo |-> FALSE, hand |-> 3, app |-> 1,
          events |-> Ev("select", {1, 2}, {0}) \cup Ev("channel", {0}, {-1, 1})
                         \cup Ev("bank", {0}, {1}),
          moves |-> {"select", "replace"}]
FlowScenes == {Faders, Banks, Mutes, Picks}

\* The jog wheel in both units, while projects and the transport change.
Wheels == [events |-> Tv("turn", {-1, 1, 2}) \cup Tv("shift", {0, 1}),
           moves |-> {"load", "transport"}, hand |-> 4, app |-> 1, bar |-> 0, scrub |-> FALSE]
\* Rewind and Forward held, crossed and let go.
Repeats == [events |-> Tv("forward", {0, 1}) \cup Tv("rewind", {0, 1}),
            moves |-> {"load", "unplug", "intend"}, hand |-> 4, app |-> 1, bar |-> 0,
            scrub |-> FALSE]
\* Presses of Stop and Play against their answers, on the way to the start, and a
\* turn of the wheel between them.
Presses == [events |-> Tv("stop", {0, 1}) \cup Tv("play", {0, 1}) \cup Tv("turn", {1}),
            moves |-> {}, hand |-> 4, app |-> 0, bar |-> 1, scrub |-> FALSE]
\* Stop, Play and the return to the start from further than one step.
Homes == [events |-> Tv("stop", {0, 1}) \cup Tv("play", {0, 1}),
          moves |-> {"transport", "known"}, hand |-> 3, app |-> 1, bar |-> 2, scrub |-> FALSE]
\* The adapter's Stop beside the surface's, and another global button.
Relays == [events |-> Tv("relay", {0, 1}) \cup Tv("stop", {0, 1}) \cup Tv("key", {1}),
           moves |-> {"unplug", "load"}, hand |-> 3, app |-> 1, bar |-> 0, scrub |-> FALSE]
\* The wheel as data wheel, with its push.
DataWheel == [events |-> Tv("turn", {-1, 2}) \cup Tv("centre", {1}) \cup Tv("cursor", {1})
                         \cup Tv("shift", {0, 1}) \cup Tv("scrub", {1}),
              moves |-> {"load", "intend"}, hand |-> 3, app |-> 1, bar |-> 0, scrub |-> TRUE]
LaneScenes == {Wheels, Repeats, Presses, Homes, Relays, DataWheel}

InputInit == part \in {"strips", "lane"} /\ Init /\ LaneInit
             /\ IF part = "strips" THEN table = Wheels ELSE scene = Mutes
InputNext ==
    /\ UNCHANGED part
    /\ \/ part = "strips" /\ Next /\ UNCHANGED laneVars
       \/ part = "lane" /\ LaneNext /\ UNCHANGED vars
InputSpec == InputInit /\ [][InputNext]_<<part, vars, laneVars>>

-------------------------------------------------------------------------------
\* Both lanes keep within their types: no ring, edge queue or banked turn exceeds
\* its bound, and no strip points past the bank.
InputTypeOK == TypeOK /\ LaneTypeOK

\* The bridge never publishes against itself in either lane, which would stop it
\* for good with C_CLOSED (command_publish_request_at).
NeverSentIntoConflict == NoSelfConflict /\ NoLaneConflict
===============================================================================
