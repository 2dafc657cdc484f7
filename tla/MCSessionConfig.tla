-------------------------- MODULE MCSessionConfig ---------------------------
(* Two calls that differ in every option, two setters, one model with a gap  *)
(* in its variants and one without any, versions around the minimum.         *)
EXTENDS SessionConfig

CONSTANTS call1, call2, u1, u2

MCVariants == [m |-> {"low", "high"}, n |-> {}]
MCServers  == {[name |-> "c", transport |-> "stdio"]}
MCVersions == {<<1, 13, 30>>, <<1, 14>>, <<2>>}
MCMinimum  == <<1, 14, 20>>

MCModel(base, v) == [base |-> base, variant |-> v]

Override(k, m, ag, e, ss, hs, l) ==
  [kind |-> k, model |-> m, agent |-> ag, effort |-> e, servers |-> ss, hooks |-> hs, login |-> l]

MCOverrides ==
  { Override("new", NoModel, "", "medium", {}, {"h2"}, FALSE),
    Override("load", MCModel("m", ""), "plan", "max", {}, {}, TRUE),
    Override("load", MCModel("m", "low"), "", "high", {[name |-> "d", transport |-> "stdio"]}, {}, FALSE),
    Override("new", NoModel, "", "", {[name |-> "s", transport |-> "sse"]}, {}, FALSE) }

MCTuiModels == {NoModel, MCModel("m", "high")}
=============================================================================
