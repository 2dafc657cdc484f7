---------------------------- MODULE MCCostBudget ----------------------------
(* Small instance of the cost tracker, its budget and its files: one session *)
(* is persisted, the other runs prompts, and both are billed.                *)
EXTENDS CostBudget
CONSTANTS s1, s2
MCBillings == {[s \in Sessions |-> "USD"], [s \in Sessions |-> IF s = s2 THEN "EUR" ELSE "USD"]}
=============================================================================
