-------------------------- MODULE MCSessionRouting --------------------------
(* SessionRouting for TLC: up to two session calls, with interchangeable    *)
(* handles, for an id the agent has on file and for one it still assigns.   *)
EXTENDS SessionRouting, TLC

CONSTANTS h1, h2, i1, i2

TwoHandles == {h1, h2}
TwoIds     == {i1, i2}
OneOnFile  == {i1}
Quota      == [i \in TwoIds |-> IF i = i2 THEN 3 ELSE 1]
Symmetry   == Permutations(TwoHandles)
=============================================================================
