----------------------------- MODULE MCInventory -----------------------------
(* Inventory instantiated for TLC: two hotbar slots and a slot outside the *)
(* hotbar, two item ids, and counts at the edges of a stack.               *)
EXTENDS Inventory

MCSlots == {9, 36, 37}
MCItemIds == {1, 2}
MCCounts == {0, 1, 2}

=============================================================================
