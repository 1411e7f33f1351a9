------------------------------ MODULE InputSlots ------------------------------
(* The command slots, which both lanes of the bridge publish into. *)
EXTENDS Integers

CONSTANT Slots  \* COMMAND_SLOTS

ASSUME SlotsAssumption == Slots \in Nat \ {0}
=============================================================================
