---------------------------- MODULE MCTakeBudget ----------------------------
(* Instance of TakeBudget: costs 1 and 3 against a cap of 4, so that the     *)
(* notional refuses some second takes and not others, two loops of two takes *)
(* with replies that may be lost, and a window of three cooldowns.           *)
EXTENDS TakeBudget

MCCost == {1, 3}
=============================================================================
