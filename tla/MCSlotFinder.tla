----------------------------- MODULE MCSlotFinder -----------------------------
(* Days of four hours, weeks of three days; an hour is one slot of two     *)
(* ticks.                                                                  *)
EXTENDS SlotFinder, TLC

Symmetric == Permutations(Pipeline)
=============================================================================
