---------------------------- MODULE MCDecisions -----------------------------
(* Two goroutines; a Once matcher, a filtered matcher with two callbacks,    *)
(* lists that overlap, and requests on both sides of every boundary.         *)
EXTENDS Decisions

CONSTANTS p1, p2

Opt(k, n) == [kind |-> k, named |-> n]
Usual     == <<Opt("allow_once", FALSE), Opt("allow_always", FALSE), Opt("reject_once", TRUE)>>
Misnamed  == <<Opt("reject_always", FALSE), Opt("allow_once", TRUE)>>
AllowOnly == <<Opt("allow_always", FALSE)>>

M(only, once, hooks) == [only |-> only, once |-> once, hooks |-> hooks]
NoHooks   == [e \in Events |-> <<>>]
SomeHooks == [NoHooks EXCEPT
  !["PermissionRequest"] = <<M({}, TRUE, 1), M({"bash"}, FALSE, 2)>>,
  !["PermissionDenied"]  = <<M({}, FALSE, 1)>>,
  !["FileChanged"]       = <<M({}, TRUE, 2)>>,
  !["PreToolUse"]        = <<M({}, FALSE, 1)>>]

Ask(t, o)   == [kind |-> "permission", tool |-> t, options |-> o]
Write(a, p) == [kind |-> "write", abs |-> a, path |-> p]
Tool(k, s)  == [kind |-> k, id |-> 1, title |-> "", status |-> s]
Read(a, l, n) == [kind |-> "read", abs |-> a, lines |-> 2, line |-> l, limit |-> n]
Q(ok, id)   == [ok |-> ok, id |-> id]

\* Values whose strings hold brackets and escapes, in prose, fenced or not.
Values == { <<"{", "}">>, <<"[", "{", "x", "}", "]">>, <<"{", "[", "]", "{", "}", "}">>,
            <<"{", "quote", "}", "quote", "}">>, <<"{", "quote", "backslash", "quote", "}", "quote", "}">>,
            <<"[", "quote", "backslash", "backslash", "quote", "newline", "]">> }
Before == { <<>>, <<"x", "quote", "backslash">>, <<"}", "newline">> }
After  == { <<>>, <<"quote", "}", "fence">>, <<"newline", "{", "x">> }
Fenced(tag, v) == <<"fence">> \o tag \o <<"newline", "space">> \o v \o <<"newline", "fence">>
Dec(f, m, t) == [kind |-> "decode", from |-> f, metas |-> m, text |-> t]
Texts(v) ==
  {Dec("query", <<"none">>, b \o v \o a) : b \in Before, a \in After}
  \cup {Dec("query", <<>>, b \o Fenced(tag, v) \o a) :
         b \in {<<>>, <<"{">>}, a \in {<<>>, <<"fence">>}, tag \in {<<>>, <<"json">>, <<"x">>}}
Payloads ==
  {Dec(f, m, <<"{", "}">>) :
     f \in {"query", "prompt"}, m \in {<<>>, <<"none", "fits">>, <<"none", "other", "fits">>}}
  \cup {Dec("query", <<>>, t) :
         t \in {<<>>, <<"x">>, <<"{", "quote", "}">>, <<"[", "}", "]">>}}

MCCwd == <<"w">>

Permissions == {Ask("bash", Usual), Ask("edit", Misnamed), Ask("edit", Usual)}
Writes      == {Write(TRUE, <<"w", "f">>), Write(TRUE, <<"w", "..", "f">>), Write(FALSE, <<"f">>)}
ToolCalls   == {Tool("toolcall", s) : s \in {"pending", "completed"}}
               \cup {Tool("toolupdate", s) : s \in {"pending", "failed"}}
               \cup {[kind |-> "call"]}
Pure        == {Read(TRUE, l, n) : l \in {0, 2, 4}, n \in {0, 1, MaxInt}}
               \cup {Read(FALSE, 0, 0), [kind |-> "elicit"]}
               \cup {[kind |-> "ask", raw |-> <<Q(FALSE, 0), Q(TRUE, 0), Q(TRUE, 1)>>]}

Config(h, a, d, u, s, rs) ==
  [hooks |-> h, allow |-> a, deny |-> d, user |-> u, strict |-> s, requests |-> rs]

MCConfigs ==
  {Config(NoHooks, {}, {}, FALSE, FALSE, rs) : rs \in {Texts(v) : v \in Values} \cup {Payloads}}
  \cup
  { Config(NoHooks, {}, {}, FALSE, FALSE, Permissions \cup Writes \cup {Ask("", AllowOnly), [kind |-> "elicit"]}),
    Config(NoHooks, {}, {}, TRUE, TRUE, Pure \cup Writes),
    Config(SomeHooks, {}, {}, FALSE, TRUE, {Ask("", AllowOnly), Ask("bash", Usual)} \cup Writes),
    Config(SomeHooks, {"bash", "edit"}, {"edit"}, FALSE, FALSE, Permissions),
    Config(SomeHooks, {}, {"edit"}, TRUE, TRUE, Permissions),
    Config(SomeHooks, {}, {}, TRUE, FALSE, ToolCalls \cup {Write(TRUE, <<"w", "f">>)}) }
=============================================================================
