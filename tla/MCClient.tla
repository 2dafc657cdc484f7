------------------------------ MODULE MCClient ------------------------------
(* Client for TLC: one session call, which makes a session of id i2 or      *)
(* loads i1, and two Close calls; the agent emits updates of i1 only.       *)
EXTENDS Client

CONSTANTS h1, i1, i2, k1, k2

OneHandle  == {h1}
TwoIds     == {i1, i2}
OneOnFile  == {i1}
TwoOnFile  == [i \in TwoIds |-> IF i \in OneOnFile THEN 2 ELSE 0]
TwoClosers == {k1, k2}
=============================================================================
