----------------------------- MODULE MCSession ------------------------------
(* SessionOwner for TLC: one session that renews itself and is given every    *)
(* command, or two sessions with one application between them.                *)
EXTENDS SessionOwner

AllCommands == {"start", "stop", "bridge-start", "bridge-stop", "configure"}
StartStop   == {"start", "stop"}

\* A behaviour has one calamity: a power-off once the last application has been
\* started or, before that, a power-off or a killed script in the first session.
Calamities  == interrupts + (boot - 1)
Early       == app[Apps] = "unborn"
Simple      == bridge[Bridges].st = "unborn" /\ op.cmd \in {"none", "start", "stop"}
OneCalamity ==
    Calamities' # Calamities =>
        /\ Calamities = 0
        /\ IF Early THEN sessions < Sessions /\ Simple ELSE interrupts' = interrupts

\* After an early one, or with a second session, the rest is kept simple.
Struck  == Early /\ (Calamities # 0 \/ sessions = Sessions)
Bounded == /\ OneCalamity
           /\ sessions' = Sessions => Early'
           /\ Struck => Early'
           /\ Struck' => Simple'
MCSpec  == Init /\ [][Next /\ Bounded]_vars
=============================================================================
