-------------------------- MODULE MCResilientQuery --------------------------
(* Small instance of the one-shot calls and the retry loop around them.      *)
EXTENDS ResilientQuery

N(r, m, b) == [role |-> r, mid |-> m, blank |-> b]
MCNotifs == {N("assistant", 1, FALSE), N("assistant", 0, FALSE), N("none", 0, TRUE)}
MCReplayed == {N("assistant", 1, FALSE), N("assistant", 2, FALSE), N("user", 0, TRUE),
               N("user", 0, FALSE), N("none", 0, TRUE)}

E(s, c, m, h) == [is |-> s, deadline |-> FALSE, code |-> c, msg |-> m, hint |-> h]
MCErrors ==
  {E("", -32000, {}, 0), E("", -32800, {"conn"}, 0), E("capability", 0, {}, 0),
   E("cli", 0, {"conn"}, 0), E("", 403, {"rate"}, 0), E("", 500, {"conn"}, 0),
   E("", 429, {}, 6), E("", 429, {"long"}, 0), E("", 529, {}, 40),
   E("", 0, {"conn"}, 0), E("", 0, {"rate", "login"}, 3), E("", 0, {"login"}, 0),
   E("", 0, {"overload"}, 0), E("", 0, {}, 5),
   [E("", 429, {"rate"}, 0) EXCEPT !.deadline = TRUE]}

P(r, b, m, j) == [retries |-> r, base |-> b, max |-> m, jitter |-> j]
MCDefault  == P(1, 4, 5, 50)
MCPolicies == {P(0, 0, 0, 0), P(2, 20, 31, 50)}
=============================================================================
