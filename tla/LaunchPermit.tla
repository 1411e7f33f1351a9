---------------------------- MODULE LaunchPermit -----------------------------
(***************************************************************************)
(* What mcu-session.sh promises in its first lines: an explicit start      *)
(* permits one application; after it "only an exact consumed native New    *)
(* Project intent permits one next app", with "no blind application        *)
(* retry".  A permit lapses when it is revoked or its launch fails.        *)
(***************************************************************************)
EXTENDS Naturals

VARIABLES
    starts,     \* explicit starts so far
    life,       \* is an application permitted, or running?
    renewal     \* what the running, or departed, application left behind

vars == <<starts, life, renewal>>

TypeOK == /\ starts \in Nat
          /\ life \in {"down", "permitted", "running"}
          /\ renewal \in {"none", "asked", "earned"}

Init == starts = 0 /\ life = "down" /\ renewal = "none"

\* The operator starts a session.
Grant == /\ life = "down" /\ life' = "permitted"
         /\ starts' = starts + 1 /\ UNCHANGED renewal

\* A permit is good for one application.
Launch == life = "permitted" /\ life' = "running" /\ UNCHANGED <<starts, renewal>>

Lapse == life = "permitted" /\ life' = "down" /\ UNCHANGED <<starts, renewal>>

\* The running application accepts a New Project.
Ask == life = "running" /\ renewal' = "asked" /\ UNCHANGED <<starts, life>>

\* Only an exit with code 0 of an application that was asked earns a successor.
Depart == /\ life = "running" /\ life' = "down"
          /\ renewal' \in {"none"} \cup (IF renewal = "asked" THEN {"earned"} ELSE {})
          /\ UNCHANGED starts

Renew == /\ life = "down" /\ renewal = "earned"
         /\ life' = "permitted" /\ renewal' = "none" /\ UNCHANGED starts

Forget == renewal' = "none" /\ UNCHANGED <<starts, life>>

PowerOff == life' = "down" /\ renewal' = "none" /\ UNCHANGED starts

Next == Grant \/ Launch \/ Lapse \/ Ask \/ Depart \/ Renew \/ Forget \/ PowerOff

Spec == Init /\ [][Next]_vars
=============================================================================
