----------------------------- MODULE MCProcess -----------------------------
(* Process for TLC: three Close calls, one that does the work and two that  *)
(* find it busy or done.                                                    *)
EXTENDS Process

CONSTANTS k1, k2, k3

ThreeClosers == {k1, k2, k3}
=============================================================================
