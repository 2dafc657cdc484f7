---------------------------- MODULE MCPromptTurn ----------------------------
(* PromptTurn for TLC: two Prompt calls and one Cancel call.                *)
EXTENDS PromptTurn, TLC

CONSTANTS p1, p2, c1

TwoPrompts == {p1, p2}
OneCancel  == {c1}
NoCancel   == {}
Symmetry   == Permutations(TwoPrompts)
=============================================================================
