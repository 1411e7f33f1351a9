------------------------------ MODULE MCTransport ------------------------------
(* Instances of TransportInput for TLC. *)
EXTENDS TransportInput

Ev(kind, args) == [kind : {kind}, arg : args]

\* Play, Stop, Play, Stop and Stop again, without waiting for an answer.
Rapid == [events |-> Ev("stop", {0, 1}) \cup Ev("play", {0, 1}),
          moves |-> {}, hand |-> 9, app |-> 0, bar |-> 0, scrub |-> FALSE]
OrderScenes == {Rapid}
=============================================================================
