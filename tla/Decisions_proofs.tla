-------------------------- MODULE Decisions_proofs --------------------------
(***************************************************************************)
(* For any options, hooks, requests and number of goroutines: what was     *)
(* refused does not happen, denials are reported, Once matchers run once,  *)
(* and the read window, the answered questions and what is decoded from a  *)
(* text are exact.                                                         *)
(***************************************************************************)
EXTENDS Decisions, SequenceTheorems, FiniteSetTheorems, WellFoundedInduction, TLAPS

-----------------------------------------------------------------------------
(* Answers to a permission request.                                        *)

\* A set of naturals that is not empty has a least element.
LEMMA LeastElement ==
  ASSUME NEW S, S \subseteq Nat, S # {}
  PROVE  \E m \in S : \A k \in S : m <= k
<1> DEFINE R == OpToRel(<, Nat)
<1>1. IsWellFoundedOn(R, Nat)
  BY NatLessThanWellFounded, Zenon
<1>2. \A k, m \in Nat : k < m => <<k, m>> \in R
  BY DEF OpToRel
<1> HIDE DEF R
<1>3. PICK m \in S : \A k \in S : ~ (<<k, m>> \in R)
  BY <1>1, WFMin
<1>4. \A k \in S : ~ (k < m)
  BY <1>2, <1>3
<1>5. QED
  BY <1>3, <1>4

\* An element of a sequence, at an index that is not 0.
LEMMA SeqElement ==
  ASSUME NEW T, NEW s \in Seq(T), NEW i \in 1..Len(s)
  PROVE  s[i] \in T /\ i # 0
  OBVIOUS

Options(r) == r.options \in Seq([kind : OptionKinds, named : BOOLEAN])

\* FirstOf finds an option of the kinds asked for when there is one.
LEMMA FirstOption ==
  ASSUME NEW r, Options(r), NEW ks, Kinds(r) \cap ks # {}
  PROVE  /\ FirstOf(r, ks) \in 1..Len(r.options)
         /\ r.options[FirstOf(r, ks)].kind \in ks
<1> DEFINE S == {i \in 1..Len(r.options) : r.options[i].kind \in ks}
<1>1. Len(r.options) \in Nat
  BY DEF Options
<1>2. S \subseteq Nat /\ S # {}
  BY <1>1 DEF Kinds
<1>3. PICK m \in S : \A k \in S : m <= k
  BY <1>2, LeastElement
<1>4. \A j \in 1..(m - 1) : r.options[j].kind \notin ks
  BY <1>1, <1>3
<1>5. QED
  BY <1>3, <1>4 DEF FirstOf

\* The agent names its options for their kinds.
Honest(r) == \A i \in 1..Len(r.options) :
  r.options[i].named <=> r.options[i].kind \in {"reject_once", "reject_always"}

\* The answer denies what was asked.
Denial(r, a) == a.out = "cancelled" \/ (a.out = "selected" /\ ~Allowed(r, a))

\* An answer that says no, or nothing.
Refusal(r, a) ==
  \/ a = Cancelled \/ a = Error
  \/ \E i \in 1..Len(r.options) :
       a = Select(i) /\ r.options[i].kind \in {"reject_once", "reject_always"}

\* A refusal allows nothing, and one that is no error is a denial.
LEMMA RefusalSound ==
  ASSUME NEW r, NEW a, Options(r), Refusal(r, a)
  PROVE  ~Allowed(r, a) /\ (a # Error => Denial(r, a))
  BY DEF Refusal, Allowed, Denial, Cancelled, Error, Select

\* RejectOnce, synthReject and pickByKind with a reject kind refuse.
LEMMA RejectsRefuse ==
  ASSUME NEW r, Options(r)
  PROVE  /\ Refusal(r, RejectOnce(r))
         /\ Refusal(r, synthReject(r)) /\ synthReject(r) # Error
<1>1. \A k : k \in Kinds(r) => /\ FirstOf(r, {k}) \in 1..Len(r.options)
                               /\ r.options[FirstOf(r, {k})].kind = k
  BY FirstOption
<1>2. "reject_once" \in Kinds(r) => /\ Refusal(r, pickByKind(r, "reject_once"))
                                    /\ pickByKind(r, "reject_once") # Error
  BY <1>1 DEF Refusal, pickByKind, Select, Error
<1>3. "reject_always" \in Kinds(r) => /\ Refusal(r, pickByKind(r, "reject_always"))
                                      /\ pickByKind(r, "reject_always") # Error
  BY <1>1 DEF Refusal, pickByKind, Select, Error
<1>4. Refusal(r, RejectOnce(r))
  <2>1. CASE "reject_once" \in Kinds(r) \/ "reject_always" \in Kinds(r)
    BY <1>2, <1>3, <2>1 DEF RejectOnce
  <2>2. CASE "reject_once" \notin Kinds(r) /\ "reject_always" \notin Kinds(r)
    BY <2>2 DEF RejectOnce, pickByKind, Refusal
  <2>3. QED
    BY <2>1, <2>2
<1>5. Refusal(r, synthReject(r)) /\ synthReject(r) # Error
  <2>1. CASE Kinds(r) \cap {"reject_once", "reject_always"} = {}
    BY <2>1 DEF synthReject, Refusal, Cancelled, Error
  <2>2. CASE Kinds(r) \cap {"reject_once", "reject_always"} # {}
    BY <1>2, <1>3, <2>2 DEF synthReject, RejectOnce
  <2>3. QED
    BY <2>1, <2>2
<1>6. QED
  BY <1>4, <1>5

\* What composeCanUseTool may answer: an option on offer or nothing, a refusal
\* for a tool on the deny list, and, to an honest agent, a rejection exactly
\* when it is a denial.
LEMMA ComposedSound ==
  ASSUME NEW r, Options(r), NEW a \in Composed(r)
  PROVE  /\ r.tool \in config.deny => ~Allowed(r, a)
         /\ Honest(r) => (isRejectOutcome(r, a) <=> Denial(r, a))
         /\ a.out # "payload"
<1> DEFINE Offered == a = Cancelled \/ a = Error \/ \E i \in 1..Len(r.options) : a = Select(i)
<1>1. Refusal(r, a) => Offered
  BY DEF Refusal
<1>2. AllowOnce(r) = a => Offered
  <2>1. "allow_once" \in Kinds(r) => FirstOf(r, {"allow_once"}) \in 1..Len(r.options)
    BY FirstOption
  <2>2. QED
    BY <2>1 DEF AllowOnce, pickByKind
<1>3. Offered
  BY <1>1, <1>2, RejectsRefuse DEF Composed
<1>4. r.tool \in config.deny => ~Allowed(r, a)
  BY RejectsRefuse, RefusalSound DEF Composed
<1>5. a.out # "payload"
  BY <1>3 DEF Cancelled, Error, Select
<1>6. ASSUME Honest(r) PROVE isRejectOutcome(r, a) <=> Denial(r, a)
  <2>1. CASE a = Cancelled \/ a = Error
    BY <2>1 DEF isRejectOutcome, Denial, Cancelled, Error
  <2>2. ASSUME NEW i \in 1..Len(r.options), a = Select(i)
        PROVE  isRejectOutcome(r, a) <=> Denial(r, a)
    <3>1. /\ r.options[i].kind \in OptionKinds /\ r.options[i].named \in BOOLEAN
          /\ i # 0
      <4> DEFINE os == r.options
      <4>1. os \in Seq([kind : OptionKinds, named : BOOLEAN]) /\ i \in 1..Len(os)
        BY <2>2 DEF Options
      <4> HIDE DEF os
      <4>2. os[i] \in [kind : OptionKinds, named : BOOLEAN] /\ i # 0
        BY <4>1, SeqElement
      <4>3. os[i].kind \in OptionKinds /\ os[i].named \in BOOLEAN
        BY <4>2
      <4>4. QED
        BY <4>2, <4>3 DEF os
    <3>2. r.options[i].named <=> r.options[i].kind \in {"reject_once", "reject_always"}
      BY <1>6 DEF Honest
    <3>3. a.out = "selected" /\ a.opt = i
      BY <2>2 DEF Select
    <3>4. QED
      BY <3>1, <3>2, <3>3 DEF isRejectOutcome, Denial, Allowed, OptionKinds
  <2>3. QED
    BY <1>3, <2>1, <2>2
<1>7. QED
  BY <1>4, <1>5, <1>6

-----------------------------------------------------------------------------
(* The goroutines.                                                         *)

\* The shape of the state the proofs need.
ServerTypeOK ==
  /\ config \in Configs
  /\ at \in [Handlers -> {"idle", "hooks", "decide", "wait", "done"}]
  /\ event \in [Handlers -> Events \cup {"none"}]
  /\ merged \in [Handlers -> {"allow", "block", "error"}]
  /\ objected \in [Handlers -> BOOLEAN]
  /\ denials \in [Handlers -> Nat]
  /\ DOMAIN req = Handlers /\ DOMAIN answer = Handlers
  /\ \A p \in Handlers : req[p] = NoRequest \/ req[p] \in config.requests

During(p, e) == at[p] = "hooks" /\ event[p] = e

\* The answer is known: it goes out, or the PermissionDenied hooks hear of it.
Decided(p) == at[p] = "done" \/ During(p, "PermissionDenied")

\* The event being dispatched fits the request, and what the hooks merged to is
\* what they objected; nothing was reported yet, and a write under the strict
\* boundary is inside.
Undecided(p) ==
  /\ During(p, "PermissionRequest") =>
       /\ req[p].kind = "permission" /\ denials[p] = 0
       /\ objected[p] <=> merged[p] # "allow"
  /\ During(p, "FileChanged") =>
       /\ req[p].kind = "write"
       /\ objected[p] <=> merged[p] # "allow"
       /\ config.strict => Under(Cwd, Clean(req[p].path))
  /\ During(p, "PermissionDenied") => req[p].kind = "permission"
  /\ During(p, "PreToolUse") \/ During(p, "PostToolUse") \/ During(p, "PostToolUseFailure")
       => req[p].kind \in {"toolcall", "toolupdate"}
  /\ at[p] = "hooks" => event[p] \in Events
  /\ at[p] = "decide" => req[p].kind = "permission" /\ ~objected[p] /\ denials[p] = 0
  /\ at[p] = "wait" => req[p].kind = "call"

\* The answers keep to the objections and the deny list, and the PermissionDenied
\* hooks were told of exactly the denials.
Sound(p) ==
  /\ Decided(p) /\ req[p].kind = "permission" =>
       /\ objected[p] \/ req[p].tool \in config.deny => ~Allowed(req[p], answer[p])
       /\ HooksOn /\ Honest(req[p]) =>
            denials[p] = IF Denial(req[p], answer[p]) \/ objected[p] THEN 1 ELSE 0
  /\ at[p] = "done" /\ req[p].kind = "write" /\ objected[p] => answer[p].out = "error"

DecisionInv ==
  /\ ServerTypeOK
  /\ \A p \in Handlers : Undecided(p) /\ Sound(p)
  /\ WritesStayInside

\* What a step of one goroutine leaves alone of another.
Apart(q) ==
  /\ at'[q] = at[q] /\ req'[q] = req[q] /\ event'[q] = event[q]
  /\ merged'[q] = merged[q] /\ answer'[q] = answer[q]
  /\ objected'[q] = objected[q] /\ denials'[q] = denials[q]

\* The options are fixed, and a goroutine writes only its own variables.
LEMMA ServerFrame ==
  ASSUME ServerTypeOK, NEW p \in Handlers, Receive(p) \/ Serve(p)
  PROVE  config' = config /\ \A q \in Handlers : q # p => Apart(q)
<1> USE DEF ServerTypeOK, Apart
<1>1. ASSUME NEW r \in config.requests,
             \/ RequestPermission(p, r) \/ WriteTextFile(p, r) \/ ReadTextFile(p, r)
             \/ UnstableCreateElicitation(p, r) \/ AskUserQuestion(p, r)
             \/ DecodeStructuredOutput(p, r)
             \/ ToolCall(p, r) \/ ToolCallUpdate(p, r) \/ LockCalled(p, r)
      PROVE  config' = config /\ \A q \in Handlers : q # p => Apart(q)
  <2>1. PICK a : Arrive(p, r, a)
    BY <1>1, Zenon DEF RequestPermission, WriteTextFile, ReadTextFile,
       UnstableCreateElicitation, AskUserQuestion, DecodeStructuredOutput,
       ToolCall, ToolCallUpdate, LockCalled, Answered
  <2>2. \/ UNCHANGED hookVars /\ \E l : Goto(p, l)
        \/ \E e : Dispatch(p, e)
    BY <1>1, Zenon DEF RequestPermission, WriteTextFile, ReadTextFile,
       UnstableCreateElicitation, AskUserQuestion, DecodeStructuredOutput,
       ToolCall, ToolCallUpdate, LockCalled, Answered
  <2>3. QED
    BY <2>1, <2>2 DEF Arrive, Goto, Dispatch, hookVars
<1>2. CASE EnterMatcher(p) \/ SkipMatcher(p)
  BY <1>2, Zenon DEF EnterMatcher, SkipMatcher
<1>3. ASSUME NEW out, RunHook(p, out)
      PROVE  config' = config /\ \A q \in Handlers : q # p => Apart(q)
  BY <1>3 DEF RunHook
<1>4. CASE HookDecides(p)
  BY <1>4 DEF HookDecides, Deny, Dispatch, Goto, hookVars
<1>5. CASE Decide(p)
  BY <1>5 DEF Decide, Deny, Dispatch, Goto, Finish
<1>6. CASE DeniedNotified(p)
  BY <1>6 DEF DeniedNotified, Finish, Goto
<1>7. CASE HookPermitsWrite(p)
  BY <1>7 DEF HookPermitsWrite, Finish, Goto
<1>8. CASE PreToolUseFired(p)
  BY <1>8 DEF PreToolUseFired, Dispatch, Finish, Goto
<1>9. CASE ToolCallEnds(p) \/ LockTaken(p)
  BY <1>9 DEF ToolCallEnds, LockTaken, Finish, Goto, hookVars
<1>10. QED
  BY <1>1, <1>2, <1>3, <1>4, <1>5, <1>6, <1>7, <1>8, <1>9, Zenon DEF Receive, Serve

\* A goroutine left alone keeps its invariant.
LEMMA ApartKeeps ==
  ASSUME NEW q \in Handlers, config' = config, Apart(q), Undecided(q), Sound(q)
  PROVE  Undecided(q)' /\ Sound(q)'
  BY DEF Apart, Undecided, Sound, During, Decided, HooksOn, Allowed, Honest, Denial

\* A request that arrives.
LEMMA ReceiveStep ==
  ASSUME DecisionInv, NEW p \in Handlers, config' = config, Receive(p)
  PROVE  ServerTypeOK' /\ Undecided(p)' /\ Sound(p)' /\ UNCHANGED disk
<1> USE DEF DecisionInv
<1>1. PICK r \in config.requests :
        \/ RequestPermission(p, r) \/ WriteTextFile(p, r) \/ ReadTextFile(p, r)
        \/ UnstableCreateElicitation(p, r) \/ AskUserQuestion(p, r)
        \/ DecodeStructuredOutput(p, r)
        \/ ToolCall(p, r) \/ ToolCallUpdate(p, r) \/ LockCalled(p, r)
  BY DEF Receive
<1>2. ASSUME NEW a, Arrive(p, r, a)
      PROVE  /\ req'[p] = r /\ answer'[p] = a /\ objected'[p] = FALSE /\ denials'[p] = 0
             /\ objected' \in [Handlers -> BOOLEAN] /\ denials' \in [Handlers -> Nat]
             /\ DOMAIN req' = Handlers /\ DOMAIN answer' = Handlers
             /\ \A q \in Handlers : req'[q] = NoRequest \/ req'[q] \in config'.requests
             /\ UNCHANGED disk
  BY <1>2 DEF Arrive, ServerTypeOK
<1>3. ASSUME NEW e \in Events, Dispatch(p, e)
      PROVE  /\ at'[p] = "hooks" /\ event'[p] = e /\ merged'[p] = "allow"
             /\ at' \in [Handlers -> {"idle", "hooks", "decide", "wait", "done"}]
             /\ event' \in [Handlers -> Events \cup {"none"}]
             /\ merged' \in [Handlers -> {"allow", "block", "error"}]
  BY <1>3 DEF Dispatch, Goto, ServerTypeOK
<1>4. ASSUME NEW l \in {"wait", "done"}, Goto(p, l), UNCHANGED hookVars
      PROVE  /\ at'[p] = l
             /\ at' \in [Handlers -> {"idle", "hooks", "decide", "wait", "done"}]
             /\ event' \in [Handlers -> Events \cup {"none"}]
             /\ merged' \in [Handlers -> {"allow", "block", "error"}]
  BY <1>4 DEF Goto, ServerTypeOK, hookVars
<1>5. ASSUME NEW a, Answered(p, r, a), r.kind \notin {"permission", "write"}
      PROVE  ServerTypeOK' /\ Undecided(p)' /\ Sound(p)' /\ UNCHANGED disk
  <2>1. Arrive(p, r, a) /\ Goto(p, "done") /\ UNCHANGED hookVars
    BY <1>5 DEF Answered
  <2>2. QED
    BY <1>2, <1>4, <1>5, <2>1 DEF ServerTypeOK, Undecided, Sound, During, Decided
<1>6. CASE RequestPermission(p, r)
  <2>1. r.kind = "permission"
    BY <1>6 DEF RequestPermission
  <2>2. CASE /\ ~HooksOn /\ ~config.user /\ config.allow \cup config.deny = {}
             /\ Answered(p, r, DefaultReject(r))
    <3>1. Arrive(p, r, DefaultReject(r)) /\ Goto(p, "done") /\ UNCHANGED hookVars
      BY <2>2 DEF Answered
    <3>2. ~HooksOn' /\ config'.deny = {}
      BY <2>2 DEF HooksOn
    <3>3. QED
      BY <1>2, <1>4, <2>1, <3>1, <3>2 DEF ServerTypeOK, Undecided, Sound, During, Decided
  <2>3. CASE Arrive(p, r, NoAnswer) /\ Dispatch(p, "PermissionRequest")
    BY <1>2, <1>3, <2>1, <2>3 DEF ServerTypeOK, Undecided, Sound, During, Decided, Events
  <2>4. QED
    BY <1>6, <2>2, <2>3 DEF RequestPermission
<1>7. CASE WriteTextFile(p, r)
  <2>1. r.kind = "write"
    BY <1>7 DEF WriteTextFile
  <2>2. CASE Answered(p, r, Error)
    <3>1. Arrive(p, r, Error) /\ Goto(p, "done") /\ UNCHANGED hookVars
      BY <2>2 DEF Answered
    <3>2. QED
      BY <1>2, <1>4, <2>1, <3>1 DEF ServerTypeOK, Undecided, Sound, During, Decided
  <2>3. CASE /\ config.strict => assertWithinCwd(r)
             /\ Arrive(p, r, NoAnswer) /\ Dispatch(p, "FileChanged")
    <3>1. config.strict => Under(Cwd, Clean(r.path))
      BY <2>3 DEF assertWithinCwd
    <3>2. QED
      BY <1>2, <1>3, <2>1, <2>3, <3>1
      DEF ServerTypeOK, Undecided, Sound, During, Decided, Events
  <2>4. QED
    BY <1>7, <2>2, <2>3 DEF WriteTextFile
<1>8. CASE \/ ReadTextFile(p, r) \/ UnstableCreateElicitation(p, r)
           \/ AskUserQuestion(p, r) \/ DecodeStructuredOutput(p, r)
  <2>1. r.kind \notin {"permission", "write"} /\ \E a : Answered(p, r, a)
    BY <1>8 DEF ReadTextFile, UnstableCreateElicitation, AskUserQuestion,
       DecodeStructuredOutput
  <2>2. QED
    BY <1>5, <2>1
<1>9. CASE ToolCall(p, r)
  <2>1. r.kind = "toolcall" /\ Arrive(p, r, NoAnswer) /\ Dispatch(p, "PreToolUse")
    BY <1>9 DEF ToolCall
  <2>2. QED
    BY <1>2, <1>3, <2>1 DEF ServerTypeOK, Undecided, Sound, During, Decided, Events
<1>10. CASE ToolCallUpdate(p, r)
  <2>1. r.kind = "toolupdate"
    BY <1>10 DEF ToolCallUpdate
  <2>2. CASE Answered(p, r, NoAnswer)
    BY <1>5, <2>1, <2>2
  <2>3. CASE Arrive(p, r, NoAnswer) /\ Dispatch(p, PostEvent(r))
    <3>1. PostEvent(r) \in {"PostToolUse", "PostToolUseFailure"}
      BY DEF PostEvent
    <3>2. QED
      BY <1>2, <1>3, <2>1, <2>3, <3>1
      DEF ServerTypeOK, Undecided, Sound, During, Decided, Events
  <2>4. QED
    BY <1>10, <2>2, <2>3 DEF ToolCallUpdate
<1>11. CASE LockCalled(p, r)
  <2>1. r.kind = "call" /\ Arrive(p, r, NoAnswer) /\ Goto(p, "wait") /\ UNCHANGED hookVars
    BY <1>11 DEF LockCalled
  <2>2. QED
    BY <1>2, <1>4, <2>1 DEF ServerTypeOK, Undecided, Sound, During, Decided
<1>12. QED
  BY <1>1, <1>6, <1>7, <1>8, <1>9, <1>10, <1>11

\* A permission request carries a sequence of options.
LEMMA HasOptions ==
  ASSUME ServerTypeOK, NEW p \in Handlers, req[p].kind = "permission"
  PROVE  Options(req[p])
<1>1. req[p] \in config.requests /\ config \in Configs
  BY DEF ServerTypeOK, NoRequest
<1>2. QED
  BY <1>1, RequestAssumption DEF Options

\* A request is served on.
LEMMA ServeStep ==
  ASSUME DecisionInv, NEW p \in Handlers, config' = config, Serve(p)
  PROVE  ServerTypeOK' /\ Undecided(p)' /\ Sound(p)' /\ WritesStayInside'
<1> USE DEF DecisionInv
<1>0. ServerTypeOK /\ Undecided(p) /\ Sound(p) /\ HooksOn' = HooksOn
  BY DEF HooksOn
<1>1. UNCHANGED disk => WritesStayInside'
  BY DEF WritesStayInside
<1>2. ASSUME NEW e \in Events, Dispatch(p, e)
      PROVE  /\ at'[p] = "hooks" /\ event'[p] = e /\ merged'[p] = "allow"
             /\ at' \in [Handlers -> {"idle", "hooks", "decide", "wait", "done"}]
             /\ event' \in [Handlers -> Events \cup {"none"}]
             /\ merged' \in [Handlers -> {"allow", "block", "error"}]
  BY <1>2 DEF Dispatch, Goto, ServerTypeOK
<1>3. ASSUME Finish(p)
      PROVE  /\ at'[p] = "done"
             /\ at' \in [Handlers -> {"idle", "hooks", "decide", "wait", "done"}]
             /\ event' \in [Handlers -> Events \cup {"none"}]
             /\ merged' \in [Handlers -> {"allow", "block", "error"}]
  BY <1>3 DEF Finish, Goto, ServerTypeOK
<1>4. CASE EnterMatcher(p) \/ SkipMatcher(p)
  <2>1. UNCHANGED <<at, req, event, merged, answer, objected, denials, disk>>
    BY <1>4, Zenon DEF EnterMatcher, SkipMatcher
  <2>2. QED
    BY <1>0, <1>1, <2>1 DEF ServerTypeOK, Undecided, Sound, During, Decided, Allowed,
       Honest, Denial
<1>5. ASSUME NEW out \in {"allow", "block", "error"}, RunHook(p, out)
      PROVE  ServerTypeOK' /\ Undecided(p)' /\ Sound(p)' /\ WritesStayInside'
  <2>1. /\ UNCHANGED <<at, req, event, answer, denials, disk>>
        /\ at[p] = "hooks"
        /\ merged' = [merged EXCEPT ![p] = IF out = "error" THEN out ELSE Merge(@, out)]
        /\ objected' = [objected EXCEPT ![p] =
             @ \/ (out # "allow" /\ event[p] \in {"PermissionRequest", "FileChanged"})]
    BY <1>5 DEF RunHook
  <2>2. /\ merged' \in [Handlers -> {"allow", "block", "error"}]
        /\ merged'[p] # "allow" <=> merged[p] # "allow" \/ out # "allow"
        /\ objected' \in [Handlers -> BOOLEAN]
        /\ objected'[p] <=> \/ objected[p]
                            \/ /\ out # "allow"
                               /\ event[p] \in {"PermissionRequest", "FileChanged"}
    BY <1>0, <2>1 DEF ServerTypeOK, Merge
  <2>3. event[p] = "PermissionDenied" => objected'[p] = objected[p]
    BY <1>0, <2>1, <2>2 DEF ServerTypeOK
  <2>4. Undecided(p)'
    BY <1>0, <2>1, <2>2 DEF Undecided, During
  <2>5. Sound(p)'
    BY <1>0, <2>1, <2>2, <2>3 DEF Sound, During, Decided, Allowed, Honest, Denial
  <2>6. QED
    BY <1>0, <1>1, <2>1, <2>2, <2>4, <2>5 DEF ServerTypeOK
<1>6. ASSUME NEW a, Deny(p, a), UNCHANGED <<req, objected, disk>>,
             req[p].kind = "permission", denials[p] = 0,
             objected[p] \/ req[p].tool \in config.deny => ~Allowed(req[p], a),
             Honest(req[p]) => Denial(req[p], a) \/ objected[p]
      PROVE  ServerTypeOK' /\ Undecided(p)' /\ Sound(p)' /\ WritesStayInside'
  <2>1. /\ answer'[p] = a /\ DOMAIN answer' = Handlers
        /\ denials' \in [Handlers -> Nat] /\ denials'[p] = 1
        /\ Dispatch(p, "PermissionDenied")
    BY <1>0, <1>6 DEF Deny, ServerTypeOK
  <2>2. /\ at'[p] = "hooks" /\ event'[p] = "PermissionDenied" /\ merged'[p] = "allow"
        /\ ServerTypeOK'
    BY <1>0, <1>2, <1>6, <2>1 DEF ServerTypeOK, Events
  <2>3. Undecided(p)'
    BY <1>6, <2>2 DEF Undecided, During, Events
  <2>4. Sound(p)'
    BY <1>0, <1>6, <2>1, <2>2 DEF Sound, During, Decided, Allowed, Honest, Denial
  <2>5. QED
    BY <1>1, <1>6, <2>2, <2>3, <2>4
<1>7. CASE HookDecides(p)
  <2>1. /\ During(p, "PermissionRequest") /\ UNCHANGED <<req, objected, disk>>
        /\ \/ merged[p] = "allow" /\ Goto(p, "decide") /\ UNCHANGED <<hookVars, answer, denials>>
           \/ merged[p] = "block" /\ Deny(p, synthReject(req[p]))
           \/ merged[p] = "error" /\ Deny(p, Error)
    BY <1>7 DEF HookDecides, Dispatched, During
  <2>2. req[p].kind = "permission" /\ denials[p] = 0 /\ (objected[p] <=> merged[p] # "allow")
    BY <1>0, <2>1 DEF Undecided
  <2>3. CASE merged[p] = "allow" /\ Goto(p, "decide") /\ UNCHANGED <<hookVars, answer, denials>>
    <3>1. /\ at' \in [Handlers -> {"idle", "hooks", "decide", "wait", "done"}]
          /\ at'[p] = "decide" /\ UNCHANGED <<event, merged>>
      BY <1>0, <2>3 DEF Goto, hookVars, ServerTypeOK
    <3>2. QED
      BY <1>0, <1>1, <2>1, <2>2, <2>3, <3>1 DEF ServerTypeOK, Undecided, Sound, During, Decided
  <2>4. CASE merged[p] = "block" /\ Deny(p, synthReject(req[p]))
    BY <1>0, <1>6, <2>1, <2>2, <2>4, HasOptions, RejectsRefuse, RefusalSound
  <2>5. CASE merged[p] = "error" /\ Deny(p, Error)
    <3>1. ~Allowed(req[p], Error)
      BY DEF Allowed, Error
    <3>2. QED
      BY <1>6, <2>1, <2>2, <2>5, <3>1
  <2>6. QED
    BY <2>1, <2>3, <2>4, <2>5
<1>8. CASE Decide(p)
  <2>1. PICK a \in Composed(req[p]) :
          \/ isRejectOutcome(req[p], a) /\ Deny(p, a)
          \/ /\ ~isRejectOutcome(req[p], a)
             /\ answer' = [answer EXCEPT ![p] = a] /\ Finish(p)
             /\ UNCHANGED denials
    BY <1>8 DEF Decide
  <2>2. at[p] = "decide" /\ UNCHANGED <<req, objected, disk>>
    BY <1>8 DEF Decide
  <2>3. req[p].kind = "permission" /\ denials[p] = 0 /\ ~objected[p]
    BY <1>0, <2>2 DEF Undecided
  <2>4. /\ req[p].tool \in config.deny => ~Allowed(req[p], a)
        /\ Honest(req[p]) => (isRejectOutcome(req[p], a) <=> Denial(req[p], a))
    BY <1>0, <2>1, <2>3, HasOptions, ComposedSound
  <2>5. CASE isRejectOutcome(req[p], a) /\ Deny(p, a)
    BY <1>6, <2>2, <2>3, <2>4, <2>5
  <2>6. CASE /\ ~isRejectOutcome(req[p], a)
             /\ answer' = [answer EXCEPT ![p] = a] /\ Finish(p)
             /\ UNCHANGED denials
    <3>1. answer'[p] = a /\ DOMAIN answer' = Handlers
      BY <1>0, <2>6 DEF ServerTypeOK
    <3>2. ServerTypeOK' /\ at'[p] = "done"
      BY <1>0, <1>3, <2>2, <2>6, <3>1 DEF ServerTypeOK
    <3>3. QED
      BY <1>0, <1>1, <2>2, <2>3, <2>4, <2>6, <3>1, <3>2
      DEF Undecided, Sound, During, Decided, Allowed, Honest, Denial
  <2>7. QED
    BY <2>1, <2>5, <2>6
<1>9. CASE DeniedNotified(p)
  <2>1. /\ During(p, "PermissionDenied") /\ Finish(p)
        /\ UNCHANGED <<req, answer, objected, denials, disk>>
    BY <1>9 DEF DeniedNotified, Dispatched, During
  <2>2. ServerTypeOK' /\ at'[p] = "done" /\ req[p].kind = "permission"
    BY <1>0, <1>3, <2>1 DEF ServerTypeOK, Undecided
  <2>3. QED
    BY <1>0, <1>1, <2>1, <2>2 DEF Undecided, Sound, During, Decided, Allowed, Honest, Denial
<1>10. CASE HookPermitsWrite(p)
  <2>1. /\ During(p, "FileChanged") /\ Finish(p) /\ UNCHANGED <<req, objected, denials>>
        /\ \/ /\ merged[p] = "allow" /\ disk' = disk \cup {Clean(req[p].path)}
              /\ answer' = [answer EXCEPT ![p] = [out |-> "written", opt |-> 0]]
           \/ /\ answer' = [answer EXCEPT ![p] = Error]
              /\ UNCHANGED disk
    BY <1>10 DEF HookPermitsWrite, Dispatched, During
  <2>2. /\ req[p].kind = "write" /\ (objected[p] <=> merged[p] # "allow")
        /\ config.strict => Under(Cwd, Clean(req[p].path))
    BY <1>0, <2>1 DEF Undecided
  <2>3. /\ DOMAIN answer' = Handlers /\ at'[p] = "done"
        /\ ServerTypeOK'
    BY <1>0, <1>3, <2>1 DEF ServerTypeOK
  <2>4. WritesStayInside'
    BY <2>1, <2>2 DEF WritesStayInside
  <2>5. merged[p] # "allow" => answer'[p].out = "error"
    BY <1>0, <2>1 DEF Error, ServerTypeOK
  <2>6. QED
    BY <2>1, <2>2, <2>3, <2>4, <2>5 DEF Undecided, Sound, During, Decided
<1>11. CASE PreToolUseFired(p) \/ ToolCallEnds(p)
  <2>1. /\ \/ During(p, "PreToolUse") \/ During(p, "PostToolUse")
           \/ During(p, "PostToolUseFailure")
        /\ UNCHANGED <<req, answer, objected, denials, disk>>
        /\ Finish(p) \/ Dispatch(p, PostEvent(req[p]))
    BY <1>11 DEF PreToolUseFired, ToolCallEnds, Dispatched, During
  <2>2. req[p].kind \in {"toolcall", "toolupdate"}
    BY <1>0, <2>1 DEF Undecided
  <2>3. PostEvent(req[p]) \in {"PostToolUse", "PostToolUseFailure"}
    BY DEF PostEvent
  <2>4. /\ \/ at'[p] = "done"
           \/ at'[p] = "hooks" /\ event'[p] \in {"PostToolUse", "PostToolUseFailure"}
        /\ ServerTypeOK'
    BY <1>0, <1>2, <1>3, <2>1, <2>3 DEF ServerTypeOK, Events
  <2>5. QED
    BY <1>0, <1>1, <2>1, <2>2, <2>4 DEF Undecided, Sound, During, Decided, Events
<1>12. CASE LockTaken(p)
  <2>1. /\ at[p] = "wait" /\ at' = [at EXCEPT ![p] = "done"]
        /\ UNCHANGED <<req, event, merged, answer, objected, denials, disk>>
    BY <1>12 DEF LockTaken, Goto, hookVars
  <2>2. req[p].kind = "call"
    BY <1>0, <2>1 DEF Undecided
  <2>3. QED
    BY <1>0, <1>1, <2>1, <2>2 DEF ServerTypeOK, Undecided, Sound, During, Decided
<1>13. QED
  BY <1>4, <1>5, <1>7, <1>8, <1>9, <1>10, <1>11, <1>12, Zenon DEF Serve

\* The invariant holds in every state.
LEMMA DecisionInvariant == Spec => []DecisionInv
<1>1. Init => DecisionInv
  BY DEF Init, DecisionInv, ServerTypeOK, Undecided, Sound, During, Decided,
     WritesStayInside, NoRequest
<1>2. DecisionInv /\ [Next]_vars => DecisionInv'
  <2> SUFFICES ASSUME DecisionInv, [Next]_vars PROVE DecisionInv'
    OBVIOUS
  <2>1. ASSUME NEW p \in Handlers, Receive(p) \/ Serve(p) PROVE DecisionInv'
    <3>1. config' = config /\ \A q \in Handlers : q # p => Apart(q)
      BY <2>1, ServerFrame DEF DecisionInv
    <3>2. ServerTypeOK' /\ Undecided(p)' /\ Sound(p)' /\ WritesStayInside'
      <4>1. CASE Receive(p)
        BY <3>1, <4>1, ReceiveStep DEF DecisionInv, WritesStayInside
      <4>2. CASE Serve(p)
        BY <3>1, <4>2, ServeStep
      <4>3. QED
        BY <2>1, <4>1, <4>2
    <3>3. ASSUME NEW q \in Handlers PROVE Undecided(q)' /\ Sound(q)'
      BY <3>1, <3>2, ApartKeeps DEF DecisionInv
    <3>4. QED
      BY <3>2, <3>3 DEF DecisionInv
  <2>2. CASE UNCHANGED vars
    <3>1. config' = config /\ UNCHANGED disk /\ \A q \in Handlers : Apart(q)
      BY <2>2 DEF vars, hookVars, Apart
    <3>2. ASSUME NEW q \in Handlers PROVE Undecided(q)' /\ Sound(q)'
      BY <3>1, ApartKeeps DEF DecisionInv
    <3>3. ServerTypeOK'
      BY <2>2 DEF DecisionInv, ServerTypeOK, vars, hookVars
    <3>4. QED
      BY <3>1, <3>2, <3>3 DEF DecisionInv, WritesStayInside
  <2>3. QED
    BY <2>1, <2>2 DEF Next
<1>3. QED
  BY <1>1, <1>2, PTL DEF Spec

\* What a PermissionRequest or FileChanged hook objected to, what is on the deny
\* list and, under WithStrictCwdBoundary, a write outside the working directory
\* does not happen, whatever hooks, callbacks and other requests do.
THEOREM RefusalsAreFinal == Spec => []RefusalsHold
<1>1. DecisionInv => RefusalsHold
  BY DEF DecisionInv, RefusalsHold, ObjectionHolds, DenyListWins, Sound, Decided
<1>2. QED
  BY <1>1, DecisionInvariant, PTL

\* fireHookPermissionDenied runs once for every denial, whichever layer denied,
\* and for nothing else, as long as the agent names its options for their kinds.
THEOREM DenialsAreReported == Spec => []DenialsReported
<1>1. DecisionInv => DenialsReported
  BY DEF DecisionInv, DenialsReported, Sound, Decided, Honest, Denial
<1>2. QED
  BY <1>1, DecisionInvariant, PTL

-----------------------------------------------------------------------------
(* Once matchers.                                                          *)

\* Every dispatch that entered a Once matcher found its flag clear and set it.
OnceInv == /\ \A x \in ran : x[1] \in fired
           /\ \A x, y \in ran : x[1] = y[1] => x = y

\* Only EnterMatcher touches the flags.
LEMMA FlagSteps ==
  ASSUME NEW p \in Handlers, Receive(p) \/ Serve(p)
  PROVE  UNCHANGED <<fired, ran>> \/ EnterMatcher(p)
<1>1. ASSUME NEW r \in config.requests,
             \/ RequestPermission(p, r) \/ WriteTextFile(p, r) \/ ReadTextFile(p, r)
             \/ UnstableCreateElicitation(p, r) \/ AskUserQuestion(p, r)
             \/ DecodeStructuredOutput(p, r)
             \/ ToolCall(p, r) \/ ToolCallUpdate(p, r) \/ LockCalled(p, r)
      PROVE  UNCHANGED <<fired, ran>>
  <2>1. PICK a : Arrive(p, r, a)
    BY <1>1, Zenon DEF RequestPermission, WriteTextFile, ReadTextFile,
       UnstableCreateElicitation, AskUserQuestion, DecodeStructuredOutput,
       ToolCall, ToolCallUpdate, LockCalled, Answered
  <2>2. QED
    BY <2>1 DEF Arrive
<1>2. ASSUME NEW out, RunHook(p, out) PROVE UNCHANGED <<fired, ran>>
  BY <1>2 DEF RunHook
<1>3. CASE \/ SkipMatcher(p) \/ HookDecides(p) \/ Decide(p) \/ DeniedNotified(p)
           \/ HookPermitsWrite(p) \/ PreToolUseFired(p) \/ ToolCallEnds(p) \/ LockTaken(p)
  BY <1>3, Zenon DEF SkipMatcher, HookDecides, Decide, DeniedNotified,
     HookPermitsWrite, PreToolUseFired, ToolCallEnds, LockTaken
<1>4. QED
  BY <1>1, <1>2, <1>3, Zenon DEF Receive, Serve

\* The CompareAndSwap on a matcher's flag lets one dispatch in, however many
\* goroutines serve requests at the same time.
THEOREM OnceMatchersRunOnce == Spec => []OnceIsOnce
<1>1. Init => OnceInv
  BY DEF Init, OnceInv
<1>2. OnceInv /\ [Next]_vars => OnceInv'
  <2> SUFFICES ASSUME OnceInv, [Next]_vars PROVE OnceInv'
    OBVIOUS
  <2>1. CASE UNCHANGED <<fired, ran>>
    BY <2>1 DEF OnceInv
  <2>2. ASSUME NEW p \in Handlers, EnterMatcher(p) PROVE OnceInv'
    <3> DEFINE f == Flag(p)
    <3>1. \/ /\ f \notin fired
             /\ fired' = fired \cup {f} /\ ran' = ran \cup {<<f, served>>}
          \/ UNCHANGED <<fired, ran>>
      BY <2>2 DEF EnterMatcher
    <3> HIDE DEF f
    <3>2. QED
      BY <3>1 DEF OnceInv
  <2>3. CASE UNCHANGED vars
    BY <2>1, <2>3 DEF vars
  <2>4. QED
    BY <2>1, <2>2, <2>3, FlagSteps DEF Next
<1>3. OnceInv => OnceIsOnce
  <2> SUFFICES ASSUME OnceInv, NEW x \in ran
               PROVE  Cardinality({y \in ran : y[1] = x[1]}) = 1
    BY DEF OnceIsOnce
  <2>1. {y \in ran : y[1] = x[1]} = {x}
    BY DEF OnceInv
  <2>2. QED
    BY <2>1, FS_Singleton
<1>4. QED
  BY <1>1, <1>2, <1>3, PTL DEF Spec

-----------------------------------------------------------------------------
(* The two loops over a text: the parser's and the scan's.                 *)

\* One turn: the parser's when first is 0, or that of the scan from first.
Turn(text, first, i, prev) ==
  IF first = 0 THEN IF i = 0 THEN <<>> ELSE Push(prev, text[i])
  ELSE IF i < first THEN [depth |-> 0, inString |-> FALSE, escape |-> FALSE, end |-> 0]
  ELSE Scan(prev, text[i], text[first], i)

Starts(text, first, lo) == \A x, y : Turn(text, first, lo, x) = Turn(text, first, lo, y)

Loops(text, first, lo, hi) == \E d : d = [i \in lo..hi |-> Turn(text, first, i, d[i - 1])]

\* A loop computes what its turns say: the recursion is well founded when the
\* first turn looks at nothing before it.
LEMMA LoopExists ==
  ASSUME NEW text, NEW first, NEW lo \in Int, NEW hi \in Int, lo <= hi, Starts(text, first, lo)
  PROVE  Loops(text, first, lo, hi)
<1> DEFINE Good(k) == \E d : d = [i \in lo..(lo + k) |-> Turn(text, first, i, d[i - 1])]
           S == {k \in Nat : ~Good(k)}
<1>1. S = {}
  <2> SUFFICES ASSUME S # {} PROVE FALSE
    OBVIOUS
  <2>1. PICK m \in S : \A k \in S : m <= k
    <3>1. S \subseteq Nat
      OBVIOUS
    <3> HIDE DEF S
    <3>2. QED
      BY <3>1, LeastElement
  <2>2. m # 0
    <3>1. Good(0)
      <4> DEFINE e == [i \in lo..(lo + 0) |-> Turn(text, first, lo, 0)]
      <4>1. \A i \in lo..(lo + 0) : i = lo
        OBVIOUS
      <4>2. \A i \in lo..(lo + 0) : e[i] = Turn(text, first, i, e[i - 1])
        BY <4>1 DEF Starts
      <4>3. e = [i \in lo..(lo + 0) |-> e[i]]
        OBVIOUS
      <4> HIDE DEF e
      <4>4. e = [i \in lo..(lo + 0) |-> Turn(text, first, i, e[i - 1])]
        BY <4>2, <4>3
      <4>5. QED
        BY <4>4
    <3>2. QED
      BY <2>1, <3>1
  <2>3. m \in Nat /\ m - 1 \in Nat /\ Good(m - 1)
    <3>1. m \in Nat /\ m - 1 \in Nat /\ ~(m <= m - 1)
      BY <2>1, <2>2
    <3> HIDE DEF Good
    <3>2. QED
      BY <2>1, <3>1
  <2>4. PICK d : d = [i \in lo..(lo + (m - 1)) |-> Turn(text, first, i, d[i - 1])]
    BY <2>3
  <2> DEFINE e == [i \in lo..(lo + m) |->
                     IF i <= lo + (m - 1) THEN d[i] ELSE Turn(text, first, i, d[i - 1])]
  <2>5. \A i \in lo..(lo + m) : e[i] = Turn(text, first, i, e[i - 1])
    <3> SUFFICES ASSUME NEW i \in lo..(lo + m) PROVE e[i] = Turn(text, first, i, e[i - 1])
      OBVIOUS
    <3>1. e[i] = Turn(text, first, i, d[i - 1])
      <4>1. CASE i <= lo + (m - 1)
        <5>1. d[i] = Turn(text, first, i, d[i - 1])
          BY <2>3, <2>4, <4>1
        <5>2. QED
          BY <4>1, <5>1
      <4>2. CASE ~(i <= lo + (m - 1))
        BY <4>2
      <4>3. QED
        BY <4>1, <4>2
    <3>2. CASE i = lo
      BY <3>1, <3>2 DEF Starts
    <3>3. CASE i # lo
      <4>1. i - 1 \in lo..(lo + m) /\ i - 1 <= lo + (m - 1)
        BY <2>3, <3>3
      <4>2. e[i - 1] = d[i - 1]
        BY <4>1
      <4> HIDE DEF e
      <4>3. QED
        BY <3>1, <4>2
    <3>4. QED
      BY <3>2, <3>3
  <2>6. e = [i \in lo..(lo + m) |-> Turn(text, first, i, e[i - 1])]
    <3>1. e = [i \in lo..(lo + m) |-> e[i]]
      OBVIOUS
    <3> HIDE DEF e
    <3>2. QED
      BY <2>5, <3>1
  <2>7. QED
    BY <2>1, <2>6
<1>2. hi - lo \in Nat /\ lo + (hi - lo) = hi
  OBVIOUS
<1>3. Good(hi - lo)
  <2> HIDE DEF Good
  <2>1. QED
    BY <1>1, <1>2
<1>4. QED
  BY <1>2, <1>3, Zenon DEF Loops

\* The parser, one character at a time.
LEMMA ParsedUnfolds ==
  ASSUME NEW raw, Len(raw) \in Nat
  PROVE  /\ Parsed(raw)[0] = <<>>
         /\ \A i \in 1..Len(raw) : Parsed(raw)[i] = Push(Parsed(raw)[i - 1], raw[i])
<1> DEFINE d == CHOOSE d : d = [i \in 0..Len(raw) |-> Turn(raw, 0, i, d[i - 1])]
<1>1. Starts(raw, 0, 0)
  BY Zenon DEF Turn, Starts
<1>2. 0 \in Int /\ Len(raw) \in Int /\ 0 <= Len(raw)
  OBVIOUS
<1>3. Loops(raw, 0, 0, Len(raw))
  BY <1>1, <1>2, LoopExists, Zenon
<1>4. d = [i \in 0..Len(raw) |-> Turn(raw, 0, i, d[i - 1])]
  BY <1>3, Zenon DEF Loops
<1>5. Parsed(raw) = d
  BY Zenon DEF Parsed, Turn
<1> HIDE DEF d
<1>6. \A i \in 0..Len(raw) : d[i] = Turn(raw, 0, i, d[i - 1])
  BY <1>4, Zenon
<1>7. 0 \in 0..Len(raw) /\ \A i \in 1..Len(raw) : i \in 0..Len(raw) /\ i # 0
  OBVIOUS
<1>8. QED
  BY <1>5, <1>6, <1>7, Zenon DEF Turn

\* The scan, one character at a time.
LEMMA ScannedUnfolds ==
  ASSUME NEW text, Len(text) \in Nat, NEW f \in 1..Len(text)
  PROVE  /\ Scanned(text, f)[f - 1]
              = [depth |-> 0, inString |-> FALSE, escape |-> FALSE, end |-> 0]
         /\ \A i \in f..Len(text) :
              Scanned(text, f)[i] = Scan(Scanned(text, f)[i - 1], text[i], text[f], i)
<1> DEFINE d == CHOOSE d : d = [i \in (f - 1)..Len(text) |-> Turn(text, f, i, d[i - 1])]
<1>1. f # 0 /\ f - 1 < f /\ f - 1 \in Int /\ Len(text) \in Int /\ f - 1 <= Len(text)
  OBVIOUS
<1>2. Starts(text, f, f - 1)
  BY <1>1, Zenon DEF Turn, Starts
<1>3. Loops(text, f, f - 1, Len(text))
  BY <1>1, <1>2, LoopExists, Zenon
<1>4. d = [i \in (f - 1)..Len(text) |-> Turn(text, f, i, d[i - 1])]
  BY <1>3, Zenon DEF Loops
<1>5. Scanned(text, f) = d
  <2> DEFINE z == [depth |-> 0, inString |-> FALSE, escape |-> FALSE, end |-> 0]
  <2>1. \A i, x : Turn(text, f, i, x) = IF i < f THEN z ELSE Scan(x, text[i], text[f], i)
    BY <1>1, Zenon DEF Turn
  <2>2. \A e : [i \in (f - 1)..Len(text) |-> Turn(text, f, i, e[i - 1])]
             = [i \in (f - 1)..Len(text) |-> IF i < f THEN z ELSE Scan(e[i - 1], text[i], text[f], i)]
    BY <2>1, Zenon
  <2>3. QED
    BY <2>2, Zenon DEF Scanned
<1> HIDE DEF d
<1>6. \A i \in (f - 1)..Len(text) : d[i] = Turn(text, f, i, d[i - 1])
  BY <1>4, Zenon
<1>7. f - 1 \in (f - 1)..Len(text) /\ \A i \in f..Len(text) : i \in (f - 1)..Len(text) /\ ~(i < f)
  OBVIOUS
<1>8. QED
  BY <1>1, <1>5, <1>6, <1>7, Zenon DEF Turn

-----------------------------------------------------------------------------
(* The parser's stack.                                                     *)

\* A slice of a sequence.
LEMMA Slice ==
  ASSUME NEW T, NEW s \in Seq(T), NEW i \in Int, NEW j \in Int, 1 <= i, j <= Len(s), i <= j + 1
  PROVE  /\ SubSeq(s, i, j) \in Seq(T)
         /\ Len(SubSeq(s, i, j)) = j - i + 1
         /\ \A k \in 1..(j - i + 1) : SubSeq(s, i, j)[k] = s[i + k - 1]
<1>1. \A k \in i..j : s[k] \in T
  OBVIOUS
<1>2. /\ SubSeq(s, i, j) \in Seq(T)
      /\ Len(SubSeq(s, i, j)) = IF i <= j THEN j - i + 1 ELSE 0
      /\ \A k \in 1..(j - i + 1) : SubSeq(s, i, j)[k] = s[i + k - 1]
  BY <1>1, SubSeqProperties
<1>3. (IF i <= j THEN j - i + 1 ELSE 0) = j - i + 1
  OBVIOUS
<1>4. QED
  BY <1>2, <1>3, Zenon

Cells == {"{", "[", "quote", "backslash"}
Empty == <<>>
Stacks == Seq(Cells)

Where(s, c) == {m \in 1..Len(s) : s[m] = c}
Count(s, c) == Cardinality(Where(s, c))

\* A stack that is not empty has a top, and is not the stack of a bad text.
LEMMA StackFacts ==
  ASSUME NEW s \in Stacks
  PROVE  /\ Len(s) \in Nat
         /\ s = Empty <=> Len(s) = 0
         /\ s # Bad
         /\ \A m \in 1..Len(s) : s[m] \in Cells
<1>1. Len(s) \in Nat /\ \A m \in 1..Len(s) : s[m] \in Cells
  BY DEF Stacks
<1>2. s = Empty <=> Len(s) = 0
  BY DEF Stacks, Empty
<1>3. Len(Bad) = 1 /\ Bad[1] = "bad"
  BY DEF Bad
<1>4. "bad" \notin Cells
  BY DEF Cells
<1>5. QED
  BY <1>1, <1>2, <1>3, <1>4

\* Pushing a cell.
LEMMA AppendStack ==
  ASSUME NEW s \in Stacks, NEW c \in Cells
  PROVE  /\ Append(s, c) \in Stacks
         /\ Len(Append(s, c)) = Len(s) + 1
         /\ Top(Append(s, c)) = c
         /\ \A m \in 1..Len(s) : Append(s, c)[m] = s[m]
  BY DEF Stacks, Top

\* Popping a cell.
LEMMA PopStack ==
  ASSUME NEW s \in Stacks, s # Empty
  PROVE  /\ Pop(s) \in Stacks
         /\ Len(Pop(s)) = Len(s) - 1
         /\ \A m \in 1..(Len(s) - 1) : Pop(s)[m] = s[m]
<1>1. Len(s) \in Nat /\ Len(s) # 0
  BY StackFacts
<1>2. 1 \in Int /\ Len(s) - 1 \in Int /\ 1 <= 1 /\ Len(s) - 1 <= Len(s)
      /\ 1 <= (Len(s) - 1) + 1 /\ Len(s) - 1 - 1 + 1 = Len(s) - 1
      /\ \A m \in 1..(Len(s) - 1) : 1 + m - 1 = m
  BY <1>1
<1>3. /\ Pop(s) \in Stacks
      /\ Len(Pop(s)) = Len(s) - 1 - 1 + 1
      /\ \A m \in 1..(Len(s) - 1 - 1 + 1) : Pop(s)[m] = s[1 + m - 1]
  BY <1>2, Slice DEF Stacks, Pop
<1>4. QED
  BY <1>2, <1>3, Zenon

\* Cells of a kind are finitely many.
LEMMA CountNat ==
  ASSUME NEW s \in Stacks, NEW x
  PROVE  IsFiniteSet(Where(s, x)) /\ Count(s, x) \in Nat
<1>1. IsFiniteSet(1..Len(s)) /\ Where(s, x) \subseteq 1..Len(s)
  BY StackFacts, FS_Interval DEF Where
<1>2. QED
  BY <1>1, FS_Subset, FS_CardinalityType DEF Count

\* A stack one cell longer counts one more of that cell, and as many of others.
LEMMA CountMore ==
  ASSUME NEW s \in Stacks, NEW t \in Stacks, NEW x, Len(t) = Len(s) + 1,
         \A m \in 1..Len(s) : t[m] = s[m]
  PROVE  Count(t, x) = IF Top(t) = x THEN Count(s, x) + 1 ELSE Count(s, x)
<1>1. Len(s) \in Nat /\ Top(t) = t[Len(s) + 1]
  BY StackFacts DEF Top
<1>2. CASE Top(t) = x
  <2>1. Where(t, x) = Where(s, x) \cup {Len(s) + 1} /\ Len(s) + 1 \notin Where(s, x)
    <3>1. 1..Len(t) = 1..Len(s) \cup {Len(s) + 1} /\ Len(s) + 1 \notin 1..Len(s)
      BY <1>1
    <3>2. \A m : m \in Where(t, x) <=> m \in Where(s, x) \cup {Len(s) + 1}
      BY <1>1, <1>2, <3>1, Zenon DEF Where
    <3>3. QED
      BY <3>1, <3>2 DEF Where
  <2>2. Cardinality(Where(s, x) \cup {Len(s) + 1}) = Cardinality(Where(s, x)) + 1
    BY <2>1, CountNat, FS_AddElement
  <2>3. QED
    BY <1>2, <2>1, <2>2 DEF Count
<1>3. CASE Top(t) # x
  <2>1. Where(t, x) = Where(s, x)
    BY <1>1, <1>3 DEF Where
  <2>2. QED
    BY <1>3, <2>1 DEF Count
<1>4. QED
  BY <1>2, <1>3

\* What the parser does with a character, by the cell on top.
LEMMA PushCases ==
  ASSUME NEW s \in Stacks, s # Empty, NEW c \in Characters, Push(s, c) # Bad
  PROVE  \/ Top(s) = "backslash" /\ Push(s, c) = Pop(s)
         \/ Top(s) = "quote" /\ c = "quote" /\ Push(s, c) = Pop(s)
         \/ Top(s) = "quote" /\ c = "backslash" /\ Push(s, c) = Append(s, c)
         \/ Top(s) = "quote" /\ c # "quote" /\ c # "backslash" /\ Push(s, c) = s
         \/ Top(s) \in Opens /\ c \in Opens \cup {"quote"} /\ Push(s, c) = Append(s, c)
         \/ Top(s) \in Opens /\ c \in {"}", "]"} /\ Closer(Top(s)) = c /\ Push(s, c) = Pop(s)
         \/ Top(s) \in Opens /\ c \notin Opens \cup {"quote", "backslash", "}", "]"} /\ Push(s, c) = s
<1>1. s # Bad /\ s # <<>> /\ Top(s) \in Cells
  BY StackFacts DEF Empty, Top
<1>2. Cells = Opens \cup {"quote", "backslash"}
  BY DEF Cells, Opens
<1>3. Top(s) \in Opens \/ Top(s) = "quote" \/ Top(s) = "backslash"
  BY <1>1, <1>2
<1>4. Top(s) \in Opens => Top(s) # "quote" /\ Top(s) # "backslash"
  BY DEF Opens
<1>5. QED
  BY <1>1, <1>3, <1>4, Zenon DEF Push

\* A stack of a value that starts with op: a string is open only at the top, and
\* an escape only in a string.
Nested(s, op) ==
  /\ s \in Stacks /\ s # Empty /\ s[1] = op
  /\ \A m \in 1..Len(s) :
       s[m] = "quote" => m = Len(s) \/ (m = Len(s) - 1 /\ s[Len(s)] = "backslash")
  /\ \A m \in 1..Len(s) : s[m] = "backslash" => m = Len(s) /\ m > 1 /\ s[m - 1] = "quote"

\* Neither is open when a bracket is on top.
LEMMA OnlyBrackets ==
  ASSUME NEW op \in Opens, NEW s, Nested(s, op), Top(s) \in Opens
  PROVE  \A m \in 1..Len(s) : s[m] # "quote" /\ s[m] # "backslash"
<1>1. s[Len(s)] # "quote" /\ s[Len(s)] # "backslash"
  BY DEF Top, Opens
<1>2. QED
  BY <1>1 DEF Nested

\* A character that is not the last keeps the stack nested.
LEMMA PushNests ==
  ASSUME NEW op \in Opens, NEW s, Nested(s, op), NEW c \in Characters,
         Push(s, c) # Bad, Push(s, c) # Empty
  PROVE  Nested(Push(s, c), op)
<1> DEFINE t == Push(s, c)
<1>1. s \in Stacks /\ s # Empty /\ Len(s) \in Nat \ {0} /\ s[1] = op
  BY StackFacts DEF Nested
<1>2. op # "quote" /\ op # "backslash"
  BY DEF Opens
<1>3. CASE t = Pop(s)
  <2>1. /\ t \in Stacks /\ Len(t) = Len(s) - 1
        /\ \A m \in 1..(Len(s) - 1) : t[m] = s[m]
    BY <1>1, <1>3, PopStack
  <2>2. t # Empty /\ Len(t) \in Nat \ {0}
    BY <2>1, StackFacts
  <2>3. Top(s) = s[Len(s)]
    BY DEF Top
  <2> HIDE DEF t
  <2>4. t[1] = op /\ 1..Len(t) \subseteq 1..Len(s) /\ Len(s) > 1 /\ Len(t) \in 1..Len(t)
    BY <1>1, <2>1, <2>2
  <2>5. \A m \in 1..Len(t) : t[m] # "backslash"
    BY <1>1, <2>1, <2>2, <2>4 DEF Nested
  <2>6. \A m \in 1..Len(t) : t[m] = "quote" => m = Len(t)
    BY <1>1, <2>1, <2>2, <2>4 DEF Nested
  <2>7. QED
    BY <2>1, <2>2, <2>4, <2>5, <2>6 DEF Nested, t
<1>4. CASE t = Append(s, c) /\ c \in Cells
           /\ \/ Top(s) = "quote" /\ c = "backslash"
              \/ Top(s) \in Opens /\ c \in Opens \cup {"quote"}
  <2>1. /\ t \in Stacks /\ Len(t) = Len(s) + 1 /\ t[Len(s) + 1] = c
        /\ \A m \in 1..Len(s) : t[m] = s[m]
    BY <1>1, <1>4, AppendStack DEF Top
  <2>2. t # Empty
    BY <1>1, <2>1, StackFacts
  <2> HIDE DEF t
  <2>3. t[1] = op
    BY <1>1, <2>1
  <2>4. CASE Top(s) = "quote" /\ c = "backslash"
    <3>1. \A m \in 1..Len(s) : /\ s[m] = "quote" => m = Len(s)
                               /\ s[m] # "backslash"
      BY <1>1, <2>4 DEF Nested, Top
    <3>2. \A m \in 1..Len(t) : t[m] = "quote" => m = Len(t) - 1 /\ t[Len(t)] = "backslash"
      BY <1>1, <2>1, <2>4, <3>1
    <3>3. Len(s) > 1 /\ t[Len(s)] = "quote"
      BY <1>1, <1>2, <2>1, <2>4 DEF Top
    <3>4. \A m \in 1..Len(t) : t[m] = "backslash" => m = Len(t) /\ m > 1 /\ t[m - 1] = "quote"
      BY <1>1, <2>1, <3>1, <3>3
    <3>5. QED
      BY <2>1, <2>2, <2>3, <3>2, <3>4 DEF Nested, t
  <2>5. CASE Top(s) \in Opens /\ c \in Opens \cup {"quote"}
    <3>1. \A m \in 1..Len(s) : s[m] # "quote" /\ s[m] # "backslash"
      BY <2>5, OnlyBrackets
    <3>2. c # "backslash"
      BY <2>5 DEF Opens
    <3>3. \A m \in 1..Len(t) : t[m] # "backslash" /\ (t[m] = "quote" => m = Len(t))
      BY <1>1, <2>1, <3>1, <3>2
    <3>4. QED
      BY <2>1, <2>2, <2>3, <3>3 DEF Nested, t
  <2>6. QED
    BY <1>4, <2>4, <2>5
<1>5. CASE t = s
  BY <1>5
<1>6. \A x : x \in Opens \cup {"quote"} \/ x = "backslash" => x \in Cells
  BY DEF Opens, Cells
<1>7. \/ t = Pop(s) \/ t = s
      \/ t = Append(s, c) /\ Top(s) = "quote" /\ c = "backslash"
      \/ t = Append(s, c) /\ Top(s) \in Opens /\ c \in Opens \cup {"quote"}
  BY <1>1, PushCases
<1> HIDE DEF t
<1>8. QED
  BY <1>3, <1>4, <1>5, <1>6, <1>7, Zenon DEF t

-----------------------------------------------------------------------------
(* The scan follows the parser.                                            *)

ScanStates == [depth : Int, inString : BOOLEAN, escape : BOOLEAN, end : Int]

\* What u says of the state st after the character c at i.
Scans(u, st, c, op, i) ==
  LET kept == u.depth = st.depth /\ u.end = 0
  IN /\ u \in ScanStates
     /\ st.escape => kept /\ ~u.escape /\ (u.inString <=> st.inString)
     /\ ~st.escape /\ c = "backslash" => kept /\ u.escape /\ (u.inString <=> st.inString)
     /\ ~st.escape /\ c = "quote" => kept /\ ~u.escape /\ (u.inString <=> ~st.inString)
     /\ /\ ~st.escape /\ c \notin {"quote", "backslash"}
        /\ st.inString \/ c \notin {op, Closer(op)}
        => u = st
     /\ ~st.escape /\ ~st.inString /\ c = op =>
          u.depth = st.depth + 1 /\ u.end = 0 /\ ~u.escape /\ ~u.inString
     /\ ~st.escape /\ ~st.inString /\ c = Closer(op) =>
          /\ u.depth = st.depth - 1 /\ ~u.escape /\ ~u.inString
          /\ u.end = IF st.depth = 1 THEN i ELSE 0

\* One character of the scan, field by field.
LEMMA ScanFields ==
  ASSUME NEW st \in ScanStates, st.end = 0, NEW op \in Opens, NEW c, NEW i \in Int
  PROVE  Scans(Scan(st, c, op, i), st, c, op, i)
<1> DEFINE u == Scan(st, c, op, i)
<1>1. /\ op # "quote" /\ op # "backslash" /\ op # Closer(op)
      /\ Closer(op) # "quote" /\ Closer(op) # "backslash"
  BY DEF Opens, Closer
<1>2. st.depth \in Int /\ st.inString \in BOOLEAN /\ st.escape \in BOOLEAN
  BY DEF ScanStates
<1>3. CASE st.escape
  <2>1. u = [st EXCEPT !.escape = FALSE]
    BY <1>3, Zenon DEF Scan
  <2> HIDE DEF u
  <2>2. Scans(u, st, c, op, i)
    BY <1>3, <2>1 DEF Scans, ScanStates
  <2>3. QED
    BY <2>2 DEF u
<1>4. CASE ~st.escape /\ c = "backslash"
  <2>1. u = [st EXCEPT !.escape = TRUE]
    BY <1>4, Zenon DEF Scan
  <2> HIDE DEF u
  <2>2. Scans(u, st, c, op, i)
    BY <1>1, <1>4, <2>1 DEF Scans, ScanStates
  <2>3. QED
    BY <2>2 DEF u
<1>5. CASE ~st.escape /\ c = "quote"
  <2>1. u = [st EXCEPT !.inString = ~@]
    BY <1>5 DEF Scan
  <2> HIDE DEF u
  <2>2. Scans(u, st, c, op, i)
    BY <1>1, <1>2, <1>5, <2>1 DEF Scans, ScanStates
  <2>3. QED
    BY <2>2 DEF u
<1>6. CASE /\ ~st.escape /\ c \notin {"quote", "backslash"}
           /\ st.inString \/ c \notin {op, Closer(op)}
  <2>1. u = st
    BY <1>6, Zenon DEF Scan
  <2> HIDE DEF u
  <2>2. Scans(u, st, c, op, i)
    BY <1>6, <2>1 DEF Scans, ScanStates
  <2>3. QED
    BY <2>2 DEF u
<1>7. CASE ~st.escape /\ ~st.inString /\ c = op
  <2>1. u = [st EXCEPT !.depth = @ + 1]
    BY <1>1, <1>7 DEF Scan
  <2> HIDE DEF u
  <2>2. Scans(u, st, c, op, i)
    BY <1>1, <1>2, <1>7, <2>1 DEF Scans, ScanStates
  <2>3. QED
    BY <2>2 DEF u
<1>8. CASE ~st.escape /\ ~st.inString /\ c = Closer(op)
  <2>1. u = [st EXCEPT !.depth = @ - 1, !.end = IF st.depth = 1 THEN i ELSE 0]
    BY <1>1, <1>8 DEF Scan
  <2> DEFINE x == IF st.depth = 1 THEN i ELSE 0
  <2>2. x \in Int /\ u = [st EXCEPT !.depth = @ - 1, !.end = x]
    BY <2>1
  <2> DEFINE v == [st EXCEPT !.depth = st.depth - 1]
  <2>3. u = [v EXCEPT !.end = x]
    BY <2>2
  <2> HIDE DEF x, u
  <2>4. v \in ScanStates /\ v.depth = st.depth - 1 /\ v.escape = st.escape /\ v.inString = st.inString
    BY <1>2 DEF ScanStates
  <2> HIDE DEF v
  <2>5. /\ u \in ScanStates /\ u.depth = st.depth - 1 /\ u.end = x
        /\ u.escape = st.escape /\ u.inString = st.inString
    BY <1>2, <2>2, <2>3, <2>4 DEF ScanStates
  <2>6. Scans(u, st, c, op, i)
    BY <1>1, <1>8, <2>5, Zenon DEF x, Scans
  <2>7. QED
    BY <2>6 DEF u
<1>9. QED
  BY <1>1, <1>2, <1>3, <1>4, <1>5, <1>6, <1>7, <1>8, Zenon

\* The scan knows of a stack whether a string or an escape is open, and how many
\* brackets of the first one's kind are.
Follows(st, s, op) ==
  /\ st \in ScanStates /\ st.end = 0
  /\ st.escape <=> Top(s) = "backslash"
  /\ st.inString <=> Top(s) \in {"quote", "backslash"}
  /\ st.depth = Count(s, op)

\* No cell of a kind, or some.
LEMMA CountZero ==
  ASSUME NEW s \in Stacks, NEW x
  PROVE  Count(s, x) = 0 <=> \A m \in 1..Len(s) : s[m] # x
<1>1. Count(s, x) = 0 <=> Where(s, x) = {}
  BY CountNat, FS_EmptySet DEF Count
<1>2. QED
  BY <1>1 DEF Where

\* What is below the top.
LEMMA BelowTop ==
  ASSUME NEW op \in Opens, NEW s, Nested(s, op)
  PROVE  /\ Pop(s) \in Stacks
         /\ Count(s, op) = IF Top(s) = op THEN Count(Pop(s), op) + 1 ELSE Count(Pop(s), op)
         /\ Pop(s) = Empty <=> Len(s) = 1
         /\ Pop(s) = Empty => Top(s) = op
         /\ Pop(s) # Empty => Top(Pop(s)) = s[Len(s) - 1] /\ Pop(s)[1] = op
         /\ Top(s) = "backslash" => Pop(s) # Empty /\ Top(Pop(s)) = "quote"
         /\ Top(s) = "quote" => Pop(s) # Empty /\ Top(Pop(s)) \in Opens
         /\ Top(s) \in Opens /\ Pop(s) # Empty => Top(Pop(s)) \in Opens
<1>1. s \in Stacks /\ s # Empty /\ s[1] = op
  BY DEF Nested
<1>2. Len(s) \in Nat \ {0} /\ \A m \in 1..Len(s) : s[m] \in Cells
  BY <1>1, StackFacts
<1>3. /\ Pop(s) \in Stacks /\ Len(Pop(s)) = Len(s) - 1
      /\ \A m \in 1..(Len(s) - 1) : Pop(s)[m] = s[m]
  BY <1>1, PopStack
<1>4. Count(s, op) = IF Top(s) = op THEN Count(Pop(s), op) + 1 ELSE Count(Pop(s), op)
  <2>1. Len(s) = Len(Pop(s)) + 1 /\ \A m \in 1..Len(Pop(s)) : s[m] = Pop(s)[m]
    BY <1>2, <1>3
  <2>2. QED
    BY <1>1, <1>3, <2>1, CountMore, Zenon
<1>5. Pop(s) = Empty <=> Len(s) = 1
  <2>1. Pop(s) = Empty <=> Len(Pop(s)) = 0
    BY <1>3, StackFacts
  <2>2. QED
    BY <1>2, <1>3, <2>1
<1>6. Top(s) = s[Len(s)] /\ Top(Pop(s)) = Pop(s)[Len(Pop(s))]
  BY DEF Top
<1>7. Pop(s) = Empty => Top(s) = op
  BY <1>1, <1>5, <1>6
<1>8. Pop(s) # Empty => Top(Pop(s)) = s[Len(s) - 1] /\ Pop(s)[1] = op /\ Len(s) - 1 \in 1..Len(s)
  BY <1>1, <1>2, <1>3, <1>5, <1>6
<1>9. op # "quote" /\ op # "backslash" /\ \A x \in Cells : x \notin {"quote", "backslash"} => x \in Opens
  BY DEF Opens, Cells
<1>10. Top(s) = "backslash" => Pop(s) # Empty /\ Top(Pop(s)) = "quote"
  <2>1. Top(s) = "backslash" => Pop(s) # Empty
    BY <1>7, <1>9, Zenon
  <2>2. Len(s) \in 1..Len(s)
    BY <1>2
  <2>3. Top(s) = "backslash" => s[Len(s) - 1] = "quote"
    BY <1>6, <2>2, Zenon DEF Nested
  <2>4. QED
    BY <1>8, <2>1, <2>3, Zenon
<1>11. Top(s) # "backslash" => \A m \in 1..(Len(s) - 1) : s[m] \notin {"quote", "backslash"}
  BY <1>2, <1>6 DEF Nested
<1>12. Top(s) # "backslash" /\ Pop(s) # Empty => Top(Pop(s)) \in Opens
  <2>1. Pop(s) # Empty => Len(s) - 1 \in 1..(Len(s) - 1)
    <3>1. Pop(s) # Empty => Len(s) # 1
      BY <1>5, Zenon
    <3>2. \A n \in Nat \ {0} : n # 1 => n - 1 \in 1..(n - 1)
      OBVIOUS
    <3>3. QED
      BY <1>2, <3>1, <3>2, Zenon
  <2>2. QED
    BY <1>2, <1>8, <1>9, <1>11, <2>1
<1>13. Top(s) = "quote" => Pop(s) # Empty
  BY <1>7, <1>9
<1>14. Top(s) \in Opens \/ Top(s) = "quote" => Top(s) # "backslash"
  BY DEF Opens
<1>15. QED
  BY <1>3, <1>4, <1>5, <1>7, <1>8, <1>10, <1>12, <1>13, <1>14, Zenon

\* A character that the parser accepts keeps the scan in step with it, and the
\* scan ends with the character that ends the value.
LEMMA ScanFollows ==
  ASSUME NEW op \in Opens, NEW s, Nested(s, op), NEW st, Follows(st, s, op),
         NEW c \in Characters, Push(s, c) # Bad, NEW i \in Int
  PROVE  IF Push(s, c) = Empty THEN Scan(st, c, op, i).end = i
         ELSE Follows(Scan(st, c, op, i), Push(s, c), op)
<1> DEFINE t == Push(s, c)
           u == Scan(st, c, op, i)
           kept == u.depth = st.depth /\ u.end = 0
           step == IF t = Empty THEN u.end = i ELSE Follows(u, t, op)
<1>1. s \in Stacks /\ s # Empty /\ s[1] = op
  BY DEF Nested
<1>2. /\ st \in ScanStates /\ st.end = 0 /\ st.depth = Count(s, op)
      /\ st.escape <=> Top(s) = "backslash"
      /\ st.inString <=> Top(s) \in {"quote", "backslash"}
  BY DEF Follows
<1>3. /\ u \in ScanStates
      /\ st.escape => kept /\ ~u.escape /\ (u.inString <=> st.inString)
      /\ ~st.escape /\ c = "backslash" => kept /\ u.escape /\ (u.inString <=> st.inString)
      /\ ~st.escape /\ c = "quote" => kept /\ ~u.escape /\ (u.inString <=> ~st.inString)
      /\ /\ ~st.escape /\ c \notin {"quote", "backslash"}
         /\ st.inString \/ c \notin {op, Closer(op)}
         => u = st
      /\ ~st.escape /\ ~st.inString /\ c = op =>
           u.depth = st.depth + 1 /\ u.end = 0 /\ ~u.escape /\ ~u.inString
      /\ ~st.escape /\ ~st.inString /\ c = Closer(op) =>
           /\ u.depth = st.depth - 1 /\ ~u.escape /\ ~u.inString
           /\ u.end = IF st.depth = 1 THEN i ELSE 0
  <2>1. Scans(u, st, c, op, i)
    BY <1>2, ScanFields
  <2> HIDE DEF u
  <2>2. QED
    BY <2>1, Zenon DEF Scans
<1>4. /\ op # "quote" /\ op # "backslash" /\ Closer(op) \in {"}", "]"}
      /\ op \notin {"}", "]"} /\ \A b \in Opens : Closer(b) = Closer(op) => b = op
      /\ \A b \in Opens : b # "quote" /\ b # "backslash" /\ b \notin {"}", "]"}
  BY DEF Opens, Closer
<1>5. \A x \in Cells :
        /\ Append(s, x) \in Stacks /\ Append(s, x) # Empty /\ Top(Append(s, x)) = x
        /\ Count(Append(s, x), op) = IF x = op THEN Count(s, op) + 1 ELSE Count(s, op)
  <2> SUFFICES ASSUME NEW x \in Cells
      PROVE  /\ Append(s, x) \in Stacks /\ Append(s, x) # Empty /\ Top(Append(s, x)) = x
             /\ Count(Append(s, x), op) = IF x = op THEN Count(s, op) + 1 ELSE Count(s, op)
    OBVIOUS
  <2> DEFINE a == Append(s, x)
  <2>1. /\ a \in Stacks /\ Len(a) = Len(s) + 1 /\ Top(a) = x
        /\ \A m \in 1..Len(s) : a[m] = s[m]
    BY <1>1, AppendStack
  <2>2. Len(s) \in Nat
    BY <1>1, StackFacts
  <2> HIDE DEF a
  <2>3. a # Empty
    BY <2>1, <2>2, StackFacts
  <2>4. Count(a, op) = IF Top(a) = op THEN Count(s, op) + 1 ELSE Count(s, op)
    BY <1>1, <2>1, CountMore, Zenon
  <2>5. QED
    BY <2>1, <2>3, <2>4, Zenon DEF a
<1>6. /\ Count(s, op) = IF Top(s) = op THEN Count(Pop(s), op) + 1 ELSE Count(Pop(s), op)
      /\ Pop(s) = Empty => Top(s) = op
      /\ Pop(s) \in Stacks
      /\ Pop(s) # Empty => Pop(s)[1] = op
      /\ Top(s) = "backslash" => Pop(s) # Empty /\ Top(Pop(s)) = "quote"
      /\ Top(s) = "quote" => Pop(s) # Empty /\ Top(Pop(s)) \in Opens
      /\ Top(s) \in Opens /\ Pop(s) # Empty => Top(Pop(s)) \in Opens
  BY BelowTop, Zenon
<1>7. \A x : x \in Opens \cup {"quote"} \/ x = "backslash" => x \in Cells
  BY DEF Opens, Cells
<1> HIDE DEF u
<1>8. ASSUME Top(s) = "backslash" /\ t = Pop(s) PROVE step
  <2>1. Count(t, op) = Count(s, op) /\ t # Empty /\ Top(t) = "quote"
    BY <1>4, <1>6, <1>8
  <2>2. Follows(u, t, op)
    BY <1>2, <1>3, <1>8, <2>1, Zenon DEF Follows
  <2>3. QED
    BY <2>1, <2>2, Zenon
<1>9. ASSUME Top(s) = "quote" /\ c = "quote" /\ t = Pop(s) PROVE step
  <2>1. Count(t, op) = Count(s, op) /\ t # Empty /\ Top(t) # "quote" /\ Top(t) # "backslash"
    BY <1>4, <1>6, <1>9
  <2>2. "quote" # "backslash"
    OBVIOUS
  <2>3. Follows(u, t, op)
    BY <1>2, <1>3, <1>9, <2>1, <2>2, Zenon DEF Follows
  <2>4. QED
    BY <2>1, <2>3, Zenon
<1>10. ASSUME Top(s) = "quote" /\ c = "backslash" /\ t = Append(s, c) PROVE step
  <2>1. Count(t, op) = Count(s, op) /\ t # Empty /\ Top(t) = "backslash"
    BY <1>4, <1>5, <1>7, <1>10
  <2>2. "quote" # "backslash"
    OBVIOUS
  <2>3. Follows(u, t, op)
    BY <1>2, <1>3, <1>10, <2>1, <2>2, Zenon DEF Follows
  <2>4. QED
    BY <2>1, <2>3, Zenon
<1>11. ASSUME Top(s) = "quote" /\ c # "quote" /\ c # "backslash" /\ t = s PROVE step
  <2>1. "quote" # "backslash"
    OBVIOUS
  <2>2. u = st
    BY <1>2, <1>3, <1>11, <2>1, Zenon
  <2>3. QED
    BY <1>1, <1>11, <2>2, Zenon
<1>12. ASSUME Top(s) \in Opens /\ c \in Opens \cup {"quote"} /\ t = Append(s, c) PROVE step
  <2>1. ~st.escape /\ ~st.inString
    BY <1>2, <1>4, <1>12, Zenon
  <2>2. /\ t # Empty /\ Top(t) = c
        /\ Count(t, op) = IF c = op THEN Count(s, op) + 1 ELSE Count(s, op)
    BY <1>5, <1>7, <1>12, Zenon
  <2>3. CASE c = "quote"
    <3>1. "quote" # "backslash" /\ Count(t, op) = Count(s, op)
      BY <1>4, <2>2, <2>3
    <3>2. Follows(u, t, op)
      BY <1>2, <1>3, <2>1, <2>2, <2>3, <3>1, Zenon DEF Follows
    <3>3. QED
      BY <2>2, <3>2, Zenon
  <2>4. CASE c = op
    <3>1. Top(t) # "quote" /\ Top(t) # "backslash" /\ Count(t, op) = Count(s, op) + 1
      BY <1>4, <2>2, <2>4
    <3>2. Follows(u, t, op)
      BY <1>2, <1>3, <2>1, <2>4, <3>1, Zenon DEF Follows
    <3>3. QED
      BY <2>2, <3>2, Zenon
  <2>5. CASE c \in Opens /\ c # op
    <3>1. c \notin {"quote", "backslash"} /\ c \notin {op, Closer(op)}
      BY <1>4, <2>5
    <3>2. u = st
      BY <1>3, <2>1, <3>1, Zenon
    <3>3. Top(t) # "quote" /\ Top(t) # "backslash" /\ Count(t, op) = Count(s, op)
      BY <2>2, <2>5, <3>1
    <3>4. Follows(u, t, op)
      BY <1>2, <2>1, <3>2, <3>3, Zenon DEF Follows
    <3>5. QED
      BY <2>2, <3>4, Zenon
  <2>6. QED
    BY <1>12, <2>3, <2>4, <2>5
<1>13. ASSUME Top(s) \in Opens /\ c \in {"}", "]"} /\ Closer(Top(s)) = c /\ t = Pop(s) PROVE step
  <2>1. ~st.escape /\ ~st.inString
    BY <1>2, <1>4, <1>13, Zenon
  <2>2. Count(t, op) \in Nat /\ t \in Stacks
    BY <1>6, <1>13, CountNat
  <2>3. t = Empty => Count(t, op) = 0
    <3>1. t = Empty => Len(t) = 0
      BY <2>2, StackFacts
    <3>2. Len(t) = 0 => \A m \in 1..Len(t) : t[m] # op
      OBVIOUS
    <3>3. QED
      BY <2>2, <3>1, <3>2, CountZero, Zenon
  <2>4. t # Empty => Count(t, op) # 0
    <3>1. t # Empty => 1 \in 1..Len(t)
      BY <2>2, StackFacts
    <3>2. t # Empty => t[1] = op
      BY <1>6, <1>13
    <3>3. QED
      BY <2>2, <3>1, <3>2, CountZero, Zenon
  <2>5. CASE Top(s) = op
    <3>1. u.depth = st.depth - 1 /\ ~u.escape /\ ~u.inString /\ u.end = IF st.depth = 1 THEN i ELSE 0
      BY <1>3, <1>13, <2>1, <2>5, Zenon
    <3>2. st.depth = Count(t, op) + 1
      BY <1>2, <1>6, <1>13, <2>5
    <3>3. u.depth = Count(t, op) /\ (st.depth = 1 <=> Count(t, op) = 0)
      BY <2>2, <3>1, <3>2
    <3>4. t # Empty => Top(t) # "quote" /\ Top(t) # "backslash"
      BY <1>4, <1>6, <1>13
    <3>5. t # Empty => Follows(u, t, op)
      BY <1>3, <2>4, <3>1, <3>3, <3>4, Zenon DEF Follows
    <3>6. t = Empty => u.end = i
      BY <2>3, <3>1, <3>3, Zenon
    <3>7. QED
      BY <3>5, <3>6, Zenon
  <2>6. CASE Top(s) # op
    <3>1. c # op /\ c # Closer(op) /\ c # "quote" /\ c # "backslash"
      BY <1>4, <1>13, <2>6
    <3>2. u = st
      BY <1>3, <2>1, <3>1, Zenon
    <3>3. t # Empty /\ Count(t, op) = Count(s, op)
      BY <1>6, <1>13, <2>6
    <3>4. Top(t) # "quote" /\ Top(t) # "backslash"
      BY <1>4, <1>6, <1>13, <3>3
    <3>5. Follows(u, t, op)
      BY <1>2, <2>1, <3>2, <3>3, <3>4, Zenon DEF Follows
    <3>6. QED
      BY <3>3, <3>5, Zenon
  <2>7. QED
    BY <2>5, <2>6
<1>14. ASSUME Top(s) \in Opens /\ c \notin Opens \cup {"quote", "backslash", "}", "]"} /\ t = s PROVE step
  <2>1. ~st.escape /\ ~st.inString
    BY <1>2, <1>4, <1>14, Zenon
  <2>2. c \notin {"quote", "backslash"} /\ c \notin {op, Closer(op)}
    BY <1>4, <1>14
  <2>3. u = st
    BY <1>3, <2>1, <2>2, Zenon
  <2>4. QED
    BY <1>1, <1>14, <2>3, Zenon
<1>15. step
  <2> HIDE DEF t, step
  <2>1. \/ Top(s) = "backslash" /\ t = Pop(s)
        \/ Top(s) = "quote" /\ c = "quote" /\ t = Pop(s)
        \/ Top(s) = "quote" /\ c = "backslash" /\ t = Append(s, c)
        \/ Top(s) = "quote" /\ c # "quote" /\ c # "backslash" /\ t = s
        \/ Top(s) \in Opens /\ c \in Opens \cup {"quote"} /\ t = Append(s, c)
        \/ Top(s) \in Opens /\ c \in {"}", "]"} /\ Closer(Top(s)) = c /\ t = Pop(s)
        \/ Top(s) \in Opens /\ c \notin Opens \cup {"quote", "backslash", "}", "]"} /\ t = s
    BY <1>1, PushCases, Zenon DEF t
  <2>2. QED
    BY <1>8, <1>9, <1>10, <1>11, <1>12, <1>13, <1>14, <2>1, Zenon
<1>16. QED
  BY <1>15, Zenon DEF u

Climbs(lo, hi, S) == lo \in S /\ \A k \in lo..(hi - 1) : k \in S => k + 1 \in S

\* Induction along an interval, for the indices in a set.
LEMMA Climb ==
  ASSUME NEW lo \in Int, NEW hi \in Int, NEW S, Climbs(lo, hi, S)
  PROVE  \A k \in lo..hi : k \in S
<1> DEFINE T == {d \in Nat : lo + d <= hi /\ lo + d \notin S}
<1>1. T = {}
  <2> SUFFICES ASSUME T # {} PROVE FALSE
    OBVIOUS
  <2>1. PICK d \in T : \A e \in T : d <= e
    <3>1. T \subseteq Nat
      OBVIOUS
    <3> HIDE DEF T
    <3>2. QED
      BY <3>1, LeastElement
  <2>2. d \in Nat /\ d # 0 /\ lo + d <= hi /\ lo + d \notin S
    BY <2>1 DEF Climbs
  <2>3. d - 1 \in Nat /\ d - 1 \notin T
    BY <2>1, <2>2
  <2>4. lo + (d - 1) \in S /\ lo + (d - 1) \in lo..(hi - 1)
    BY <2>2, <2>3
  <2>5. lo + (d - 1) + 1 \in S /\ lo + (d - 1) + 1 = lo + d
    BY <2>2, <2>4 DEF Climbs
  <2>6. QED
    BY <2>2, <2>5
<1>2. \A k \in lo..hi : k - lo \in Nat /\ lo + (k - lo) = k /\ k <= hi
  OBVIOUS
<1>3. QED
  BY <1>1, <1>2

\* A bad text stays bad, so no prefix of a value is.
LEMMA NeverBad ==
  ASSUME NEW raw, Len(raw) \in Nat, Parsed(raw)[Len(raw)] = Empty
  PROVE  \A k \in 0..Len(raw) : Parsed(raw)[k] # Bad
<1> SUFFICES ASSUME NEW k \in 0..Len(raw), Parsed(raw)[k] = Bad PROVE FALSE
  OBVIOUS
<1> DEFINE P == Parsed(raw)
           S == {m \in k..Len(raw) : P[m] = Bad}
<1>1. \A m \in 1..Len(raw) : P[m] = Push(P[m - 1], raw[m])
  BY ParsedUnfolds
<1>2. \A c : Push(Bad, c) = Bad
  BY Zenon DEF Push
<1> HIDE DEF P
<1>3. k \in S
  BY DEF P
<1>4. \A m \in k..(Len(raw) - 1) : m \in S => m + 1 \in S
  <2> SUFFICES ASSUME NEW m \in k..(Len(raw) - 1), m \in S PROVE m + 1 \in S
    OBVIOUS
  <2>1. m + 1 \in 1..Len(raw) /\ (m + 1) - 1 = m /\ m + 1 \in k..Len(raw)
    OBVIOUS
  <2>2. P[m + 1] = Push(P[m], raw[m + 1])
    BY <1>1, <2>1
  <2>3. P[m] = Bad
    OBVIOUS
  <2>4. QED
    BY <1>2, <2>1, <2>2, <2>3
<1> HIDE DEF S
<1>5. Len(raw) \in S
  <2>1. Climbs(k, Len(raw), S)
    BY <1>3, <1>4, Zenon DEF Climbs
  <2>2. k \in Int /\ Len(raw) \in Int /\ Len(raw) \in k..Len(raw)
    OBVIOUS
  <2>3. QED
    BY <2>1, <2>2, Climb, Zenon
<1>6. P[Len(raw)] = Bad
  BY <1>5 DEF S
<1>7. Len(Bad) = 1 /\ Len(Empty) = 0
  BY DEF Bad, Empty
<1>8. QED
  BY <1>6, <1>7 DEF P

\* The bracket that opens a value, for the parser and for the scan.
LEMMA FirstBracket ==
  ASSUME NEW op \in Opens, NEW i \in Int
  PROVE  LET zero == [depth |-> 0, inString |-> FALSE, escape |-> FALSE, end |-> 0]
         IN Nested(Push(Empty, op), op) /\ Follows(Scan(zero, op, op, i), Push(Empty, op), op)
<1> DEFINE zero == [depth |-> 0, inString |-> FALSE, escape |-> FALSE, end |-> 0]
           t == Append(Empty, op)
           u == Scan(zero, op, op, i)
<1>1. Empty \in Stacks /\ Len(Empty) = 0
  BY DEF Empty, Stacks
<1>2. op \in Cells /\ op # "quote" /\ op # "backslash"
  BY DEF Opens, Cells
<1>3. Push(Empty, op) = t
  <2>1. Empty # Bad
    BY <1>1, StackFacts
  <2>2. QED
    BY <2>1, Zenon DEF Push, Empty
<1>4. t \in Stacks /\ Len(t) = 1 /\ Top(t) = op
  <2>1. t \in Stacks /\ Len(t) = Len(Empty) + 1 /\ Top(t) = op
    BY <1>1, <1>2, AppendStack, Zenon
  <2>2. QED
    BY <1>1, <2>1
<1>5. Count(t, op) = 1
  <2>1. Count(Empty, op) = 0
    <3>1. \A m \in 1..Len(Empty) : Empty[m] # op
      BY <1>1
    <3>2. QED
      BY <1>1, <3>1, CountZero, Zenon
  <2>2. Len(t) = Len(Empty) + 1 /\ \A m \in 1..Len(Empty) : t[m] = Empty[m]
    BY <1>1, <1>4
  <2>3. Count(t, op) = Count(Empty, op) + 1
    <3> HIDE DEF t
    <3>1. QED
      BY <1>1, <1>4, <2>2, CountMore
  <2>4. QED
    BY <2>1, <2>3
<1> HIDE DEF t
<1>6. t # Empty /\ t[1] = op
  BY <1>1, <1>4 DEF Top
<1>7. Nested(t, op)
  BY <1>2, <1>4, <1>6 DEF Nested
<1>8. zero \in ScanStates /\ zero.depth = 0 /\ zero.end = 0 /\ ~zero.escape /\ ~zero.inString
  BY DEF ScanStates
<1> HIDE DEF zero
<1>9. u \in ScanStates /\ u.depth = zero.depth + 1 /\ u.end = 0 /\ ~u.escape /\ ~u.inString
  <2>1. Scans(u, zero, op, op, i)
    BY <1>8, ScanFields
  <2> HIDE DEF u
  <2>2. QED
    BY <1>8, <2>1, Zenon DEF Scans
<1> HIDE DEF u
<1>10. Follows(u, t, op)
  BY <1>2, <1>4, <1>5, <1>8, <1>9 DEF Follows
<1>11. QED
  BY <1>3, <1>7, <1>10, Zenon DEF u, zero

\* The scan of a text from where a value starts is in step with the parser of the
\* value until the value ends.
LEMMA InStep ==
  ASSUME NEW text \in Seq(Characters), NEW i \in 1..Len(text), NEW n \in Nat,
         i + n - 1 <= Len(text), NEW raw, Len(raw) = n,
         \A k \in 1..n : raw[k] = text[i + k - 1],
         NEW op \in Opens, op = text[i],
         Parsed(raw)[n] = Empty, \A k \in 1..(n - 1) : Parsed(raw)[k] # Empty, n > 0
  PROVE  /\ Nested(Parsed(raw)[n - 1], op)
         /\ Scanned(text, i)[i + n - 1].end = i + n - 1
<1> DEFINE P == Parsed(raw)
           Z == Scanned(text, i)
           S == {k \in 1..(n - 1) : Nested(P[k], op) /\ Follows(Z[i + k - 1], P[k], op)}
<1>1. Len(text) \in Nat /\ \A k \in 1..n : raw[k] \in Characters
  OBVIOUS
<1>2. P[0] = Empty /\ \A k \in 1..n : P[k] = Push(P[k - 1], raw[k])
  BY ParsedUnfolds DEF Empty
<1>3. \A m \in i..Len(text) : Z[m] = Scan(Z[m - 1], text[m], op, m)
  BY <1>1, ScannedUnfolds
<1>4. Nested(P[1], op) /\ Follows(Z[i], P[1], op)
  <2> DEFINE zero == [depth |-> 0, inString |-> FALSE, escape |-> FALSE, end |-> 0]
  <2>1. Z[i - 1] = zero
    BY <1>1, ScannedUnfolds
  <2>2. i \in i..Len(text) /\ i \in Int /\ 1 \in 1..n /\ raw[1] = op /\ 1 - 1 = 0
    <3>1. 1 \in 1..n /\ i + 1 - 1 = i
      OBVIOUS
    <3>2. QED
      BY <3>1
  <2> HIDE DEF zero, P, Z
  <2>3. P[1] = Push(Empty, op) /\ Z[i] = Scan(zero, op, op, i)
    BY <1>2, <1>3, <2>1, <2>2
  <2>4. QED
    BY <2>2, <2>3, FirstBracket, Zenon DEF zero
<1>5. \A k \in 0..n : P[k] # Bad
  BY NeverBad
<1>6. \A k \in 1..n : k - 1 \in 1..(n - 1) => P[k - 1] # Empty
  OBVIOUS
<1> HIDE DEF P, Z
<1>7. n > 1
  <2>1. P[1] # Empty
    BY <1>4 DEF Nested
  <2>2. P[n] = Empty
    BY DEF P
  <2>3. QED
    BY <2>1, <2>2
<1>8. ASSUME NEW k \in S
      PROVE  IF P[k + 1] = Empty THEN Z[i + k].end = i + k
             ELSE Nested(P[k + 1], op) /\ Follows(Z[i + k], P[k + 1], op)
  <2>1. /\ k + 1 \in 1..n /\ (k + 1) - 1 = k /\ i + k \in i..Len(text) /\ i + k \in Int
        /\ (i + k) - 1 = i + k - 1 /\ i + (k + 1) - 1 = i + k /\ k + 1 \in 0..n
    <3>1. k \in 1..(n - 1)
      OBVIOUS
    <3> HIDE DEF S
    <3>2. QED
      BY <1>1, <3>1
  <2>2. raw[k + 1] = text[i + k] /\ raw[k + 1] \in Characters
    BY <1>1, <2>1
  <2>3. P[k + 1] = Push(P[k], raw[k + 1]) /\ P[k + 1] # Bad
    BY <1>2, <1>5, <2>1
  <2>4. Z[i + k] = Scan(Z[i + k - 1], raw[k + 1], op, i + k)
    BY <1>3, <2>1, <2>2
  <2>5. Nested(P[k], op) /\ Follows(Z[i + k - 1], P[k], op)
    BY Zenon
  <2>6. IF Push(P[k], raw[k + 1]) = Empty
        THEN Scan(Z[i + k - 1], raw[k + 1], op, i + k).end = i + k
        ELSE Follows(Scan(Z[i + k - 1], raw[k + 1], op, i + k), Push(P[k], raw[k + 1]), op)
    <3>1. i + k \in Int /\ Push(P[k], raw[k + 1]) # Bad
      BY <2>1, <2>3, Zenon
    <3>2. QED
      BY <2>2, <2>5, <3>1, ScanFollows
  <2>7. Push(P[k], raw[k + 1]) # Empty => Nested(Push(P[k], raw[k + 1]), op)
    BY <2>2, <2>3, <2>5, PushNests, Zenon
  <2>8. QED
    BY <2>3, <2>4, <2>6, <2>7, Zenon
<1>9. Climbs(1, n - 1, S)
  <2>1. 1 \in S
    <3>1. 1 \in 1..(n - 1) /\ i + 1 - 1 = i
      BY <1>7
    <3>2. QED
      BY <1>4, <3>1
  <2>2. ASSUME NEW k \in 1..((n - 1) - 1), k \in S PROVE k + 1 \in S
    <3>1. k + 1 \in 1..(n - 1) /\ i + (k + 1) - 1 = i + k
      OBVIOUS
    <3>2. P[k + 1] # Empty
      BY <3>1 DEF P
    <3>3. Nested(P[k + 1], op) /\ Follows(Z[i + k], P[k + 1], op)
      BY <1>8, <2>2, <3>2, Zenon
    <3>4. QED
      BY <3>1, <3>3
  <2>3. QED
    BY <2>1, <2>2, Zenon DEF Climbs
<1>10. n - 1 \in S
  <2>1. 1 \in Int /\ n - 1 \in Int /\ n - 1 \in 1..(n - 1)
    BY <1>7
  <2> HIDE DEF S
  <2>2. QED
    BY <1>9, <2>1, Climb, Zenon
<1>11. (n - 1) + 1 = n /\ i + (n - 1) = i + n - 1
  OBVIOUS
<1>12. P[n] = Empty
  BY DEF P
<1> HIDE DEF S
<1>13. Z[i + (n - 1)].end = i + (n - 1)
  <2>1. P[(n - 1) + 1] = Empty
    BY <1>11, <1>12
  <2>2. QED
    BY <1>8, <1>10, <2>1, Zenon
<1>14. Nested(P[n - 1], op)
  BY <1>10, Zenon DEF S
<1>15. QED
  BY <1>11, <1>13, <1>14 DEF P, Z

\* Min and Max of a set of integers.
LEMMA LeastIs ==
  ASSUME NEW S, S \subseteq Int, NEW m \in S, \A k \in S : m <= k
  PROVE  Min(S) = m
<1>1. \E x \in S : \A y \in S : x <= y
  OBVIOUS
<1>2. Min(S) \in S /\ \A y \in S : Min(S) <= y
  BY <1>1, Zenon DEF Min
<1> DEFINE x == Min(S)
<1> HIDE DEF x
<1>3. x \in Int /\ m \in Int /\ x <= m /\ m <= x
  BY <1>2 DEF x
<1>4. x = m
  BY <1>3
<1>5. QED
  BY <1>4 DEF x

\* The greatest likewise.
LEMMA MostIs ==
  ASSUME NEW S, S \subseteq Int, NEW m \in S, \A k \in S : m >= k
  PROVE  Max(S) = m
<1>1. \E x \in S : \A y \in S : x >= y
  OBVIOUS
<1>2. Max(S) \in S /\ \A y \in S : Max(S) >= y
  BY <1>1, Zenon DEF Max
<1> DEFINE x == Max(S)
<1> HIDE DEF x
<1>3. x \in Int /\ m \in Int /\ x >= m /\ m >= x
  BY <1>2 DEF x
<1>4. x = m
  BY <1>3
<1>5. QED
  BY <1>4 DEF x

\* What a span that unmarshals looks like.
LEMMA SpanFacts ==
  ASSUME NEW text \in Seq(Characters), NEW i \in 1..Len(text), NEW j \in 1..Len(text),
         Unmarshals(SubSeq(text, i, j))
  PROVE  /\ i <= j /\ SubSeq(text, i, j) # Empty /\ SubSeq(text, i, j) \in Seq(Characters)
         /\ Len(SubSeq(text, i, j)) = j - i + 1
         /\ \A k \in 1..(j - i + 1) : SubSeq(text, i, j)[k] = text[i + k - 1]
         /\ text[i] \in Opens
<1>1. SubSeq(text, i, j) # <<>> /\ SubSeq(text, i, j)[1] \in Opens
  BY Zenon DEF Unmarshals
<1>2. i \in Int /\ j \in Int /\ 1 <= i /\ j <= Len(text) /\ Len(text) \in Nat
  OBVIOUS
<1>3. i <= j
  <2>1. j < i => SubSeq(text, i, j) = <<>>
    BY <1>2, SubSeqEmpty
  <2>2. QED
    BY <1>1, <1>2, <2>1
<1>4. /\ SubSeq(text, i, j) \in Seq(Characters)
      /\ Len(SubSeq(text, i, j)) = j - i + 1
      /\ \A k \in 1..(j - i + 1) : SubSeq(text, i, j)[k] = text[i + k - 1]
  <2>1. i <= j + 1
    BY <1>2, <1>3
  <2>2. QED
    BY <1>2, <2>1, Slice
<1>5. 1 \in 1..(j - i + 1) /\ i + 1 - 1 = i
  BY <1>2, <1>3
<1>6. text[i] \in Opens
  BY <1>1, <1>4, <1>5
<1>7. QED
  BY <1>1, <1>3, <1>4, <1>6, Zenon DEF Empty

\* Once the value has ended, the rest of the text does not matter.
LEMMA ScanStays ==
  ASSUME NEW text \in Seq(Characters), NEW i \in 1..Len(text), NEW j \in i..Len(text),
         Scanned(text, i)[j].end = j
  PROVE  Scanned(text, i)[Len(text)].end = j
<1> DEFINE Z == Scanned(text, i)
           S == {m \in j..Len(text) : Z[m].end = j}
<1>1. Len(text) \in Nat /\ Len(text) \in j..Len(text) /\ j \in Int /\ j # 0
  OBVIOUS
<1>2. \A m \in i..Len(text) : Z[m] = Scan(Z[m - 1], text[m], text[i], m)
  BY <1>1, ScannedUnfolds
<1> HIDE DEF Z
<1>3. Climbs(j, Len(text), S)
  <2>1. j \in S
    BY <1>1 DEF Z
  <2>2. ASSUME NEW m \in j..(Len(text) - 1), m \in S PROVE m + 1 \in S
    <3>1. m + 1 \in i..Len(text) /\ m + 1 \in j..Len(text) /\ (m + 1) - 1 = m
      OBVIOUS
    <3>2. Z[m].end = j
      BY <2>2
    <3>3. Z[m + 1] = Scan(Z[m], text[m + 1], text[i], m + 1)
      BY <1>2, <3>1
    <3>4. Z[m + 1] = Z[m]
      BY <1>1, <3>2, <3>3, Zenon DEF Scan
    <3>5. QED
      BY <3>1, <3>2, <3>4
  <2>3. QED
    BY <2>1, <2>2, Zenon DEF Climbs
<1>4. Len(text) \in S
  <2> HIDE DEF S
  <2>1. Len(text) \in Int
    BY <1>1
  <2>2. QED
    BY <1>1, <1>3, <2>1, Climb, Zenon
<1>5. QED
  BY <1>4 DEF Z

\* extractBracedSpan finds a value with no bracket before it, whole.
LEMMA BracedSpanFound ==
  ASSUME NEW text \in Seq(Characters), NEW i \in 1..Len(text), NEW j \in 1..Len(text),
         Unmarshals(SubSeq(text, i, j)), \A k \in 1..(i - 1) : text[k] \notin Opens
  PROVE  extractBracedSpan(text) = SubSeq(text, i, j)
<1> DEFINE raw == SubSeq(text, i, j)
           n == j - i + 1
           B == {k \in 1..Len(text) : text[k] \in Opens}
<1>1. /\ i <= j /\ Len(raw) = n /\ text[i] \in Opens
      /\ \A k \in 1..n : raw[k] = text[i + k - 1]
  BY SpanFacts, Zenon
<1>2. /\ \A k \in 1..(Len(raw) - 1) : Parsed(raw)[k] # <<>>
      /\ Parsed(raw)[Len(raw)] = <<>>
  BY Zenon DEF Unmarshals
<1>3. /\ n \in Nat /\ n > 0 /\ i + n - 1 = j /\ i + n - 1 <= Len(text) /\ j \in i..Len(text)
      /\ j # 0 /\ i \in Int
  BY <1>1
<1> HIDE DEF raw, n
<1>4. Parsed(raw)[n] = Empty /\ \A k \in 1..(n - 1) : Parsed(raw)[k] # Empty
  BY <1>1, <1>2, Zenon DEF Empty
<1>5. Scanned(text, i)[i + n - 1].end = i + n - 1
  BY <1>1, <1>3, <1>4, InStep
<1>6. Scanned(text, i)[Len(text)].end = j
  BY <1>3, <1>5, ScanStays
<1>7. Min(B) = i
  <2>1. B \subseteq Int /\ i \in B /\ \A k \in B : i <= k
    BY <1>1
  <2> HIDE DEF B
  <2>2. QED
    BY <2>1, LeastIs
<1>8. B # {}
  BY <1>1
<1>9. QED
  BY <1>3, <1>6, <1>7, <1>8, Zenon DEF extractBracedSpan

-----------------------------------------------------------------------------
(* Slices of a text.                                                       *)

Text(s) == s \in Seq(Characters)
Within(text, lo, hi) ==
  /\ Text(text) /\ Len(text) \in Nat
  /\ lo \in Int /\ hi \in Int /\ 1 <= lo /\ hi <= Len(text) /\ lo <= hi + 1

Slices(s, text, lo, hi) ==
  /\ Text(s) /\ Len(s) = hi - lo + 1
  /\ \A k \in 1..(hi - lo + 1) : s[k] = text[lo + k - 1]

\* The characters of a slice.
LEMMA SliceIs ==
  ASSUME NEW text, NEW lo, NEW hi, Within(text, lo, hi)
  PROVE  Slices(SubSeq(text, lo, hi), text, lo, hi)
  BY Slice DEF Within, Text, Slices

Part(lo, hi, a, b) == a \in Int /\ b \in Int /\ 1 <= a /\ b <= hi - lo + 1 /\ a <= b + 1

Resliced(text, lo, hi, a, b) ==
  /\ Within(text, lo + a - 1, lo + b - 1)
  /\ SubSeq(SubSeq(text, lo, hi), a, b) = SubSeq(text, lo + a - 1, lo + b - 1)

\* A slice of a slice.
LEMMA Reslice ==
  ASSUME NEW text, NEW lo, NEW hi, Within(text, lo, hi), NEW a, NEW b, Part(lo, hi, a, b)
  PROVE  Resliced(text, lo, hi, a, b)
<1> DEFINE s == SubSeq(text, lo, hi)
           t == SubSeq(text, lo + a - 1, lo + b - 1)
           u == SubSeq(s, a, b)
<1>1. /\ lo \in Int /\ hi \in Int /\ 1 <= lo /\ hi <= Len(text) /\ Len(text) \in Nat /\ Text(text)
      /\ a \in Int /\ b \in Int /\ 1 <= a /\ b <= hi - lo + 1 /\ a <= b + 1
  BY DEF Within, Part
<1>2. Within(text, lo + a - 1, lo + b - 1)
  BY <1>1 DEF Within
<1>3. /\ Text(s) /\ Len(s) = hi - lo + 1
      /\ \A k \in 1..(hi - lo + 1) : s[k] = text[lo + k - 1]
  <2>1. Slices(s, text, lo, hi)
    BY SliceIs
  <2> HIDE DEF s
  <2>2. QED
    BY <2>1, Zenon DEF Slices
<1>4. /\ Text(t) /\ Len(t) = (lo + b - 1) - (lo + a - 1) + 1
      /\ \A k \in 1..((lo + b - 1) - (lo + a - 1) + 1) : t[k] = text[(lo + a - 1) + k - 1]
  <2>1. Slices(t, text, lo + a - 1, lo + b - 1)
    BY <1>2, SliceIs
  <2> HIDE DEF t
  <2>2. QED
    BY <2>1, Zenon DEF Slices
<1>5. (lo + b - 1) - (lo + a - 1) + 1 = b - a + 1
  BY <1>1
<1> HIDE DEF s, t
<1>6. Within(s, a, b)
  BY <1>1, <1>3 DEF Within
<1>7. /\ Text(u) /\ Len(u) = b - a + 1
      /\ \A k \in 1..(b - a + 1) : u[k] = s[a + k - 1]
  <2>1. Slices(u, s, a, b)
    BY <1>6, SliceIs
  <2> HIDE DEF u
  <2>2. QED
    BY <2>1, Zenon DEF Slices
<1> HIDE DEF u
<1>8. \A k \in 1..(b - a + 1) : u[k] = t[k]
  <2> SUFFICES ASSUME NEW k \in 1..(b - a + 1) PROVE u[k] = t[k]
    OBVIOUS
  <2>1. a + k - 1 \in 1..(hi - lo + 1) /\ lo + (a + k - 1) - 1 = (lo + a - 1) + k - 1
    BY <1>1
  <2>2. s[a + k - 1] = text[lo + (a + k - 1) - 1]
    BY <1>3, <2>1, Zenon
  <2>3. t[k] = text[(lo + a - 1) + k - 1]
    BY <1>4, <1>5, Zenon
  <2>4. QED
    BY <1>7, <2>1, <2>2, <2>3, Zenon
<1>9. u = t
  BY <1>4, <1>5, <1>7, <1>8, SeqEqual DEF Text
<1>10. QED
  BY <1>2, <1>9, Zenon DEF s, t, u, Resliced

One(c) == <<c>>
Tag == <<"fence", "json">>

\* strings.Cut and IndexByte with one character.
LEMMA OccursOne ==
  ASSUME NEW s, Text(s), NEW c \in Characters
  PROVE  Occurs(s, One(c)) = {k \in 1..Len(s) : s[k] = c}
<1>1. Len(One(c)) = 1 /\ One(c)[1] = c /\ Text(One(c))
  BY DEF One, Text
<1>2. Len(s) \in Nat
  BY DEF Text
<1>3. ASSUME NEW k \in 1..Len(s) PROVE SubSeq(s, k, k + 1 - 1) = One(c) <=> s[k] = c
  <2>1. k + 1 - 1 = k /\ Within(s, k, k) /\ k - k + 1 = 1 /\ k + 1 - 1 = k
    BY <1>2 DEF Within
  <2> DEFINE t == SubSeq(s, k, k)
  <2>2. Text(t) /\ Len(t) = 1 /\ \A m \in 1..1 : t[m] = s[k + m - 1]
    BY <2>1, SliceIs DEF Slices
  <2>3. t[1] = s[k]
    <3>1. 1 \in 1..1
      OBVIOUS
    <3>2. QED
      BY <2>1, <2>2, <3>1, Zenon
  <2> HIDE DEF t
  <2>4. t = One(c) => s[k] = c
    BY <1>1, <2>3
  <2>5. s[k] = c => t = One(c)
    <3>1. s[k] = c => \A m \in 1..Len(t) : t[m] = One(c)[m]
      BY <1>1, <2>2, <2>3
    <3>2. QED
      BY <1>1, <2>2, <3>1, SeqEqual DEF Text
  <2>6. QED
    BY <2>1, <2>4, <2>5, Zenon DEF t
<1>4. Occurs(s, One(c)) = {k \in 1..(Len(s) - 1 + 1) : SubSeq(s, k, k + 1 - 1) = One(c)}
  BY <1>1, Zenon DEF Occurs
<1>5. Len(s) - 1 + 1 = Len(s)
  BY <1>2
<1>6. QED
  BY <1>3, <1>4, <1>5

\* The same for the fence with its tag.
LEMMA OccursTag ==
  ASSUME NEW s, Text(s)
  PROVE  Occurs(s, Tag) = {k \in 1..(Len(s) - 1) : s[k] = "fence" /\ s[k + 1] = "json"}
<1>1. Len(Tag) = 2 /\ Tag[1] = "fence" /\ Tag[2] = "json" /\ Text(Tag)
  <2>1. "fence" \in Characters /\ "json" \in Characters
    BY DEF Characters
  <2>2. QED
    BY <2>1 DEF Tag, Text
<1>2. Len(s) \in Nat
  BY DEF Text
<1>3. ASSUME NEW k \in 1..(Len(s) - 1)
      PROVE SubSeq(s, k, k + 2 - 1) = Tag <=> s[k] = "fence" /\ s[k + 1] = "json"
  <2>1. /\ k + 2 - 1 = k + 1 /\ Within(s, k, k + 1) /\ (k + 1) - k + 1 = 2
        /\ k + 1 - 1 = k
    BY <1>2 DEF Within
  <2> DEFINE t == SubSeq(s, k, k + 1)
  <2>2. Text(t) /\ Len(t) = 2 /\ \A m \in 1..2 : t[m] = s[k + m - 1]
    BY <2>1, SliceIs DEF Slices
  <2>3. t[1] = s[k] /\ t[2] = s[k + 1]
    <3>1. 1 \in 1..2 /\ 2 \in 1..2
      OBVIOUS
    <3>2. QED
      BY <2>1, <2>2, <3>1, Zenon
  <2> HIDE DEF t
  <2>4. t = Tag => s[k] = "fence" /\ s[k + 1] = "json"
    BY <1>1, <2>3
  <2>5. s[k] = "fence" /\ s[k + 1] = "json" => t = Tag
    <3>1. s[k] = "fence" /\ s[k + 1] = "json" => \A m \in 1..Len(t) : t[m] = Tag[m]
      BY <1>1, <2>2, <2>3
    <3>2. QED
      BY <1>1, <2>2, <3>1, SeqEqual DEF Text
  <2>6. QED
    BY <2>1, <2>4, <2>5, Zenon DEF t
<1>4. Occurs(s, Tag) = {k \in 1..(Len(s) - 2 + 1) : SubSeq(s, k, k + 2 - 1) = Tag}
  BY <1>1, Zenon DEF Occurs
<1>5. Len(s) - 2 + 1 = Len(s) - 1
  BY <1>2
<1>6. QED
  BY <1>3, <1>4, <1>5

\* A finite set of naturals that is not empty has a least and a greatest element.
LEMMA Extremes ==
  ASSUME NEW n \in Nat, NEW S, S \subseteq 1..n, S # {}
  PROVE  /\ Min(S) \in S /\ \A k \in S : Min(S) <= k
         /\ Max(S) \in S /\ \A k \in S : Max(S) >= k
<1>1. S \subseteq Nat /\ S \subseteq Int
  OBVIOUS
<1>2. PICK m \in S : \A k \in S : m <= k
  BY <1>1, LeastElement, Zenon
<1>3. Min(S) = m
  BY <1>1, <1>2, LeastIs, Zenon
<1> DEFINE T == {n - k : k \in S}
<1>4. T \subseteq Nat /\ T # {}
  OBVIOUS
<1>5. PICK t \in T : \A k \in T : t <= k
  <2> HIDE DEF T
  <2>1. QED
    BY <1>4, LeastElement
<1>6. PICK x \in S : t = n - x
  BY <1>5
<1>7. \A k \in S : x >= k
  <2> SUFFICES ASSUME NEW k \in S PROVE x >= k
    OBVIOUS
  <2>1. n - x <= n - k
    BY <1>5, <1>6
  <2>2. x \in Int /\ k \in Int
    BY <1>1, Zenon
  <2>3. QED
    BY <2>1, <2>2
<1>8. Max(S) = x
  BY <1>1, <1>7, MostIs, Zenon
<1>9. QED
  BY <1>2, <1>3, <1>7, <1>8

Blank(c) == c \in {"space", "newline"}

Span(s, text, lo, hi) == \E i \in lo..hi : \E j \in i..hi : s = SubSeq(text, i, j)

\* TrimSpace of a slice is a slice of the same text.
LEMMA TrimSlice ==
  ASSUME NEW text, NEW lo, NEW hi, Within(text, lo, hi), TrimSpace(SubSeq(text, lo, hi)) # Empty
  PROVE  Span(TrimSpace(SubSeq(text, lo, hi)), text, lo, hi)
<1> DEFINE s == SubSeq(text, lo, hi)
           ink == {k \in 1..Len(s) : s[k] \notin {"space", "newline"}}
           a == Min(ink)
           b == Max(ink)
<1>1. lo \in Int /\ hi \in Int /\ lo <= hi + 1 /\ Len(s) = hi - lo + 1
  <2>1. Slices(s, text, lo, hi)
    BY SliceIs
  <2> HIDE DEF s
  <2>2. QED
    BY <2>1 DEF Slices, Within
<1>2. ink # {} /\ TrimSpace(s) = SubSeq(s, a, b)
  BY Zenon DEF TrimSpace, Empty
<1> HIDE DEF s
<1>3. Len(s) \in Nat /\ ink \subseteq 1..Len(s)
  BY <1>1
<1> HIDE DEF ink
<1>4. a \in ink /\ b \in ink /\ a <= b
  BY <1>2, <1>3, Extremes
<1> HIDE DEF a, b
<1>5. a \in Int /\ b \in Int /\ 1 <= a /\ b <= hi - lo + 1 /\ a <= b + 1
  BY <1>1, <1>3, <1>4
<1>6. SubSeq(s, a, b) = SubSeq(text, lo + a - 1, lo + b - 1)
  <2>1. Part(lo, hi, a, b)
    BY <1>5, Zenon DEF Part
  <2>2. QED
    <3>1. Resliced(text, lo, hi, a, b)
      BY <2>1, Reslice
    <3>2. QED
      BY <3>1, Zenon DEF Resliced, s
<1>7. lo + a - 1 \in lo..hi /\ lo + b - 1 \in (lo + a - 1)..hi
  BY <1>1, <1>4, <1>5
<1>8. QED
  BY <1>2, <1>6, <1>7, Zenon DEF s, Span

\* i..j is what is left of lo..hi without the blanks at its ends.
Padded(text, lo, hi, i, j) ==
  /\ i \in lo..hi /\ j \in i..hi /\ ~Blank(text[i]) /\ ~Blank(text[j])
  /\ \A k \in lo..(i - 1) : Blank(text[k])
  /\ \A k \in (j + 1)..hi : Blank(text[k])

\* TrimSpace strips what is blank and no more.
LEMMA TrimExact ==
  ASSUME NEW text, NEW lo, NEW hi, Within(text, lo, hi), NEW i, NEW j, Padded(text, lo, hi, i, j)
  PROVE  TrimSpace(SubSeq(text, lo, hi)) = SubSeq(text, i, j)
<1> USE DEF Padded
<1> DEFINE s == SubSeq(text, lo, hi)
           ink == {k \in 1..Len(s) : s[k] \notin {"space", "newline"}}
           a == i - lo + 1
           b == j - lo + 1
<1>1. /\ lo \in Int /\ hi \in Int /\ 1 <= lo /\ Len(s) = hi - lo + 1
      /\ \A k \in 1..(hi - lo + 1) : s[k] = text[lo + k - 1]
  <2>1. Slices(s, text, lo, hi)
    BY SliceIs
  <2> HIDE DEF s
  <2>2. QED
    BY <2>1, Zenon DEF Slices, Within
<1> HIDE DEF s
<1>2. /\ a \in 1..(hi - lo + 1) /\ b \in 1..(hi - lo + 1) /\ lo + a - 1 = i /\ lo + b - 1 = j
      /\ a \in Int /\ b \in Int /\ 1 <= a /\ b <= hi - lo + 1 /\ a <= b + 1
  BY <1>1
<1>3. a \in ink /\ b \in ink
  BY <1>1, <1>2 DEF Blank
<1>4. ASSUME NEW k \in ink PROVE a <= k /\ b >= k
  <2>1. k \in 1..(hi - lo + 1) /\ ~Blank(text[lo + k - 1])
    BY <1>1 DEF Blank
  <2>2. lo + k - 1 \in lo..hi
    BY <1>1, <2>1
  <2>3. ~(lo + k - 1 \in lo..(i - 1)) /\ ~(lo + k - 1 \in (j + 1)..hi)
    BY <2>1
  <2>4. QED
    BY <1>1, <2>1, <2>2, <2>3
<1>5. ink \subseteq Int
  BY <1>1
<1> HIDE DEF ink
<1>6. Min(ink) = a
  BY <1>3, <1>4, <1>5, LeastIs
<1>7. Max(ink) = b
  BY <1>3, <1>4, <1>5, MostIs
<1>8. TrimSpace(s) = SubSeq(s, a, b)
  <2>1. ink # {}
    BY <1>3
  <2>2. TrimSpace(s) = SubSeq(s, Min(ink), Max(ink))
    BY <2>1, Zenon DEF TrimSpace, ink
  <2>3. QED
    BY <1>6, <1>7, <2>2, Zenon
<1>9. SubSeq(s, a, b) = SubSeq(text, lo + a - 1, lo + b - 1)
  <2> HIDE DEF a, b
  <2>1. Part(lo, hi, a, b)
    BY <1>2, Zenon DEF Part
  <2>2. QED
    <3>1. Resliced(text, lo, hi, a, b)
      BY <2>1, Reslice
    <3>2. QED
      BY <3>1, Zenon DEF Resliced, s
<1>10. QED
  BY <1>2, <1>8, <1>9, Zenon DEF s

FirstAt(text, lo, p, c) == text[p] = c /\ \A k \in lo..(p - 1) : text[k] # c

Finds(found, text, lo, hi, c) ==
  /\ \A p \in lo..hi : FirstAt(text, lo, p, c) => found # {} /\ Min(found) = p - lo + 1
  /\ found # {} => \E p \in lo..hi : text[p] = c /\ Min(found) = p - lo + 1

\* The first of a character in a slice.
LEMMA Find ==
  ASSUME NEW text, NEW lo, NEW hi, Within(text, lo, hi), NEW c \in Characters
  PROVE  Finds(Occurs(SubSeq(text, lo, hi), One(c)), text, lo, hi, c)
<1> DEFINE s == SubSeq(text, lo, hi)
           found == Occurs(s, One(c))
<1>1. Slices(s, text, lo, hi)
  BY SliceIs
<1>2. lo \in Int /\ hi \in Int /\ lo <= hi + 1
  BY DEF Within
<1> HIDE DEF s
<1>3. found = {k \in 1..Len(s) : s[k] = c}
  BY <1>1, OccursOne DEF Slices
<1>4. found = {k \in 1..(hi - lo + 1) : text[lo + k - 1] = c}
  BY <1>1, <1>3 DEF Slices
<1> HIDE DEF found
<1>5. ASSUME NEW p \in lo..hi, text[p] = c, \A k \in lo..(p - 1) : text[k] # c
      PROVE  found # {} /\ Min(found) = p - lo + 1
  <2>1. p - lo + 1 \in 1..(hi - lo + 1) /\ lo + (p - lo + 1) - 1 = p
    BY <1>2
  <2>2. p - lo + 1 \in found /\ found \subseteq Int
    BY <1>4, <1>5, <2>1
  <2>3. ASSUME NEW k \in found PROVE p - lo + 1 <= k
    <3>1. k \in 1..(hi - lo + 1) /\ text[lo + k - 1] = c
      BY <1>4
    <3>2. ~(lo + k - 1 \in lo..(p - 1))
      BY <1>5, <3>1
    <3>3. QED
      BY <1>2, <3>1, <3>2
  <2>4. QED
    BY <2>2, <2>3, LeastIs
<1>6. ASSUME found # {} PROVE \E p \in lo..hi : text[p] = c /\ Min(found) = p - lo + 1
  <2>1. hi - lo + 1 \in Nat /\ found \subseteq 1..(hi - lo + 1)
    BY <1>2, <1>4
  <2> DEFINE m == Min(found)
  <2>2. m \in found
    <3>1. \A n \in Nat : found \subseteq 1..n => m \in found
      BY <1>6, Extremes
    <3>2. QED
      BY <2>1, <3>1, Zenon
  <2> HIDE DEF m
  <2>3. m \in 1..(hi - lo + 1) /\ text[lo + m - 1] = c
    BY <1>4, <2>2
  <2>4. lo + m - 1 \in lo..hi /\ m = (lo + m - 1) - lo + 1
    BY <1>2, <2>3
  <2>5. QED
    BY <2>3, <2>4, Zenon DEF m
<1>7. QED
  BY <1>5, <1>6, Zenon DEF found, s, Finds, FirstAt

-----------------------------------------------------------------------------
(* The fenced block.                                                       *)

Opener(opener) == opener \in {Tag, One("fence")}

\* Where an opener can occur.
LEMMA OpenerOccurs ==
  ASSUME NEW text, Text(text), NEW opener, Opener(opener)
  PROVE  /\ Len(text) \in Nat /\ Len(opener) \in {1, 2}
         /\ Occurs(text, opener) \subseteq 1..Len(text)
         /\ \A o \in Occurs(text, opener) :
              o + Len(opener) <= Len(text) + 1 /\ text[o] = "fence"
<1>1. Len(text) \in Nat /\ "fence" \in Characters
  <2>1. Len(text) \in Nat
    BY DEF Text
  <2>2. "fence" \in Characters
    BY DEF Characters
  <2>3. QED
    BY <2>1, <2>2
<1>2. CASE opener = Tag
  <2>1. Occurs(text, opener) = {k \in 1..(Len(text) - 1) : text[k] = "fence" /\ text[k + 1] = "json"}
    BY <1>2, OccursTag
  <2>2. Len(opener) = 2
    BY <1>2 DEF Tag
  <2>3. QED
    BY <1>1, <2>1, <2>2
<1>3. CASE opener = One("fence")
  <2>1. Occurs(text, opener) = {k \in 1..Len(text) : text[k] = "fence"}
    BY <1>1, <1>3, OccursOne
  <2>2. Len(opener) = 1
    BY <1>3 DEF One
  <2>3. QED
    BY <1>1, <2>1, <2>2
<1>4. QED
  BY <1>2, <1>3 DEF Opener

\* extractFenced without its local names.
Body(lines) ==
  LET ends == Occurs(lines, One("fence"))
  IN IF ends = {} THEN Empty ELSE TrimSpace(SubSeq(lines, 1, Min(ends) - 1))

Below(rest) ==
  LET nl == Occurs(rest, One("newline"))
  IN IF nl = {} THEN rest ELSE SubSeq(rest, Min(nl) + 1, Len(rest))

\* An opener, the line below it, the body up to the closing fence.
LEMMA FencedIs ==
  ASSUME NEW text, NEW opener
  PROVE  extractFenced(text, opener) =
           IF Occurs(text, opener) = {} THEN Empty
           ELSE Body(Below(SubSeq(text, Min(Occurs(text, opener)) + Len(opener), Len(text))))
  BY Zenon DEF extractFenced, Body, Below, One, Empty

\* Up to the end of a text, and up to just before one of its characters.
LEMMA Bounds ==
  ASSUME NEW text, Text(text), NEW r \in 1..(Len(text) + 1)
  PROVE  /\ Within(text, r, Len(text))
         /\ Len(SubSeq(text, r, Len(text))) = Len(text) - r + 1
         /\ \A n \in r..Len(text) : SubSeq(SubSeq(text, r, Len(text)), (n - r + 1) + 1,
                                           Len(SubSeq(text, r, Len(text))))
                                    = SubSeq(text, n + 1, Len(text))
         /\ \A c \in r..Len(text) : SubSeq(SubSeq(text, r, Len(text)), 1, (c - r + 1) - 1)
                                    = SubSeq(text, r, c - 1)
<1> DEFINE L == Len(text)
<1>1. L \in Nat
  BY DEF Text
<1>2. Within(text, r, L)
  BY <1>1 DEF Within
<1>3. Len(SubSeq(text, r, L)) = L - r + 1
  BY <1>2, SliceIs DEF Slices
<1> HIDE DEF L
<1>4. ASSUME NEW n \in r..L
      PROVE  SubSeq(SubSeq(text, r, L), (n - r + 1) + 1, L - r + 1) = SubSeq(text, n + 1, L)
  <2> DEFINE a == (n - r + 1) + 1
             b == L - r + 1
  <2>1. Part(r, L, a, b)
    BY <1>1 DEF Part, L
  <2>2. r + a - 1 = n + 1 /\ r + b - 1 = L
    BY <1>1 DEF L
  <2> HIDE DEF a, b
  <2>3. Resliced(text, r, L, a, b)
    BY <1>2, <2>1, Reslice
  <2>4. SubSeq(SubSeq(text, r, L), a, b) = SubSeq(text, n + 1, L)
    BY <2>2, <2>3, Zenon DEF Resliced
  <2>5. QED
    BY <2>4, Zenon DEF a, b
<1>5. ASSUME NEW c \in r..L
      PROVE  SubSeq(SubSeq(text, r, L), 1, (c - r + 1) - 1) = SubSeq(text, r, c - 1)
  <2> DEFINE b == (c - r + 1) - 1
  <2>1. Part(r, L, 1, b)
    BY <1>1 DEF Part, L
  <2>2. r + 1 - 1 = r /\ r + b - 1 = c - 1
    BY <1>1 DEF L
  <2> HIDE DEF b
  <2>3. Resliced(text, r, L, 1, b)
    BY <1>2, <2>1, Reslice
  <2>4. SubSeq(SubSeq(text, r, L), 1, b) = SubSeq(text, r, c - 1)
    BY <2>2, <2>3, Zenon DEF Resliced
  <2>5. QED
    BY <2>4, Zenon DEF b
<1>6. QED
  BY <1>2, <1>3, <1>4, <1>5, Zenon DEF L

\* A block whose fences and first line are where text has them.
LEMMA BlockExact ==
  ASSUME NEW text, Text(text), NEW opener, Opener(opener),
         NEW o \in Occurs(text, opener), Min(Occurs(text, opener)) = o,
         NEW n \in (o + Len(opener))..Len(text), text[n] = "newline",
         \A k \in (o + Len(opener))..(n - 1) : text[k] # "newline",
         NEW c \in (n + 1)..Len(text), text[c] = "fence",
         \A k \in (n + 1)..(c - 1) : text[k] # "fence"
  PROVE  extractFenced(text, opener) = TrimSpace(SubSeq(text, n + 1, c - 1))
<1> DEFINE L == Len(text)
           r == o + Len(opener)
           rest == SubSeq(text, r, L)
           lines == SubSeq(text, n + 1, L)
<1>1. /\ L \in Nat /\ r \in 1..(L + 1) /\ n + 1 \in 1..(L + 1) /\ n \in r..L /\ c \in (n + 1)..L
      /\ o \in Int /\ Len(opener) \in Int
  BY OpenerOccurs
<1>2. "newline" \in Characters /\ "fence" \in Characters
  BY DEF Characters
<1> HIDE DEF L, r
<1>3. /\ Within(text, r, L)
      /\ SubSeq(rest, (n - r + 1) + 1, Len(rest)) = lines
  BY <1>1, Bounds, Zenon DEF L
<1>4. Occurs(rest, One("newline")) # {} /\ Min(Occurs(rest, One("newline"))) = n - r + 1
  <2>1. \A k \in r..(n - 1) : text[k] # "newline"
    BY Zenon DEF r
  <2>2. Finds(Occurs(rest, One("newline")), text, r, L, "newline")
    BY <1>2, <1>3, Find
  <2> HIDE DEF rest
  <2>3. QED
    BY <1>1, <2>1, <2>2, Zenon DEF Finds, FirstAt
<1>5. Below(rest) = lines
  BY <1>3, <1>4, Zenon DEF Below
<1>6. /\ Within(text, n + 1, L)
      /\ SubSeq(lines, 1, (c - (n + 1) + 1) - 1) = SubSeq(text, n + 1, c - 1)
  BY <1>1, Bounds, Zenon DEF L
<1>7. Occurs(lines, One("fence")) # {} /\ Min(Occurs(lines, One("fence"))) = c - (n + 1) + 1
  <2>1. Finds(Occurs(lines, One("fence")), text, n + 1, L, "fence")
    BY <1>2, <1>6, Find
  <2> HIDE DEF lines
  <2>2. QED
    BY <1>1, <2>1, Zenon DEF Finds, FirstAt
<1>8. Body(lines) = TrimSpace(SubSeq(text, n + 1, c - 1))
  BY <1>6, <1>7, Zenon DEF Body
<1>9. extractFenced(text, opener) = Body(Below(rest))
  <2>1. Occurs(text, opener) # {}
    OBVIOUS
  <2>2. QED
    BY <2>1, FencedIs, Zenon DEF rest, r, L
<1>10. QED
  BY <1>5, <1>8, <1>9, Zenon

\* What extractFenced returns is a span of the text, between two fences.
LEMMA BlockSound ==
  ASSUME NEW text, Text(text), NEW opener, Opener(opener), extractFenced(text, opener) # Empty
  PROVE  \E o, i, j, c \in 1..Len(text) :
           /\ o < i /\ i <= j /\ j < c /\ text[o] = "fence" /\ text[c] = "fence"
           /\ extractFenced(text, opener) = SubSeq(text, i, j)
<1> DEFINE L == Len(text)
           found == Occurs(text, opener)
           o == Min(found)
           r == o + Len(opener)
           rest == SubSeq(text, r, L)
<1>1. found # {} /\ extractFenced(text, opener) = Body(Below(rest))
  BY FencedIs, Zenon
<1>2. L \in Nat /\ Len(opener) \in {1, 2} /\ found \subseteq 1..L
  BY OpenerOccurs
<1>3. o \in found
  BY <1>1, <1>2, Extremes
<1>4. o \in 1..L /\ text[o] = "fence" /\ r \in 1..(L + 1) /\ o < r
  <2>1. o + Len(opener) <= L + 1 /\ text[o] = "fence"
    BY <1>3, OpenerOccurs
  <2> HIDE DEF o, found
  <2>2. o \in 1..L /\ o \in Int
    BY <1>2, <1>3
  <2> DEFINE w == Len(opener)
  <2>3. w \in {1, 2} /\ o + w <= L + 1 /\ r = o + w
    BY <1>2, <2>1
  <2> HIDE DEF w, r, L
  <2>4. QED
    BY <1>2, <2>1, <2>2, <2>3
<1> HIDE DEF found, o, r, L
<1>5. "newline" \in Characters /\ "fence" \in Characters
  BY DEF Characters
<1>6. PICK lo \in r..(L + 1) : Below(rest) = SubSeq(text, lo, L)
  <2>1. CASE Occurs(rest, One("newline")) = {}
    <3>1. Below(rest) = rest
      BY <2>1, Zenon DEF Below
    <3>2. r \in r..(L + 1)
      BY <1>2, <1>4
    <3>3. QED
      BY <3>1, <3>2, Zenon
  <2>2. CASE Occurs(rest, One("newline")) # {}
    <3>1. Within(text, r, L)
      BY <1>4, Bounds, Zenon DEF L
    <3>2. PICK p \in r..L : Min(Occurs(rest, One("newline"))) = p - r + 1
      <4>1. Finds(Occurs(rest, One("newline")), text, r, L, "newline")
        BY <1>5, <3>1, Find
      <4> HIDE DEF rest
      <4>2. QED
        BY <2>2, <4>1, Zenon DEF Finds
    <3>3. Below(rest) = SubSeq(rest, (p - r + 1) + 1, Len(rest))
      BY <2>2, <3>2, Zenon DEF Below
    <3>4. SubSeq(rest, (p - r + 1) + 1, Len(rest)) = SubSeq(text, p + 1, L)
      BY <1>4, Bounds, Zenon DEF L
    <3>5. p + 1 \in r..(L + 1)
      BY <1>2, <1>4
    <3>6. QED
      BY <3>3, <3>4, <3>5, Zenon
  <2>3. QED
    BY <2>1, <2>2
<1> DEFINE lines == SubSeq(text, lo, L)
<1>7. lo \in 1..(L + 1) /\ o < lo
  BY <1>2, <1>4, <1>6
<1>8. Within(text, lo, L)
  BY <1>7, Bounds, Zenon DEF L
<1>9. Occurs(lines, One("fence")) # {}
  <2>1. Body(lines) # Empty
    BY <1>1, <1>6, Zenon
  <2>2. QED
    BY <2>1, Zenon DEF Body
<1>10. PICK c \in lo..L : text[c] = "fence" /\ Min(Occurs(lines, One("fence"))) = c - lo + 1
  <2>1. Finds(Occurs(lines, One("fence")), text, lo, L, "fence")
    BY <1>5, <1>8, Find
  <2> HIDE DEF lines
  <2>2. QED
    BY <1>9, <2>1, Zenon DEF Finds
<1>11. Body(lines) = TrimSpace(SubSeq(text, lo, c - 1))
  <2>1. SubSeq(lines, 1, (c - lo + 1) - 1) = SubSeq(text, lo, c - 1)
    BY <1>7, Bounds, Zenon DEF L
  <2>2. QED
    BY <1>9, <1>10, <2>1, Zenon DEF Body
<1>12. Within(text, lo, c - 1)
  BY <1>2, <1>7, <1>8, <1>10 DEF Within
<1>13. extractFenced(text, opener) = TrimSpace(SubSeq(text, lo, c - 1))
  BY <1>1, <1>6, <1>11, Zenon
<1>14. PICK i \in lo..(c - 1) : \E j \in i..(c - 1) :
         TrimSpace(SubSeq(text, lo, c - 1)) = SubSeq(text, i, j)
  <2>1. Span(TrimSpace(SubSeq(text, lo, c - 1)), text, lo, c - 1)
    BY <1>12, <1>13, TrimSlice
  <2>2. QED
    BY <2>1, Zenon DEF Span
<1>15. PICK j \in i..(c - 1) : TrimSpace(SubSeq(text, lo, c - 1)) = SubSeq(text, i, j)
  BY <1>14
<1>16. /\ o \in 1..L /\ i \in 1..L /\ j \in 1..L /\ c \in 1..L
       /\ o < i /\ i <= j /\ j < c
  BY <1>2, <1>4, <1>7, <1>10, <1>14, <1>15
<1>17. QED
  BY <1>4, <1>10, <1>13, <1>15, <1>16, Zenon DEF L

\* A character that empties the stack closes a bracket.
LEMMA LastCloses ==
  ASSUME NEW op \in Opens, NEW s, Nested(s, op), NEW c \in Characters, Push(s, c) = Empty
  PROVE  ~Blank(c)
<1>1. s \in Stacks /\ s # Empty
  BY DEF Nested
<1>2. Push(s, c) # Bad
  <2>1. Len(Bad) = 1 /\ Len(Empty) = 0
    BY DEF Bad, Empty
  <2>2. QED
    BY <2>1
<1>3. c \in Cells => Append(s, c) # Empty
  <2> SUFFICES ASSUME c \in Cells PROVE Append(s, c) # Empty
    OBVIOUS
  <2>1. Append(s, c) \in Stacks /\ Len(Append(s, c)) = Len(s) + 1 /\ Len(s) \in Nat
    BY <1>1, AppendStack, StackFacts
  <2> DEFINE t == Append(s, c)
  <2> HIDE DEF t
  <2>2. t \in Stacks /\ Len(t) # 0
    BY <2>1 DEF t
  <2>3. t # Empty
    BY <2>2, StackFacts
  <2>4. QED
    BY <2>3 DEF t
<1>4. Top(s) = "backslash" \/ Top(s) = "quote" => Pop(s) # Empty
  BY BelowTop, Zenon
<1>5. c \in Opens \cup {"quote"} \/ c = "backslash" => c \in Cells
  BY DEF Opens, Cells
<1>6. c \in {"}", "]"}
  BY <1>1, <1>2, <1>3, <1>4, <1>5, PushCases, Zenon
<1>7. QED
  BY <1>6 DEF Blank

\* The ends of a value are brackets.
LEMMA ValueEnds ==
  ASSUME NEW text, Text(text), NEW i \in 1..Len(text), NEW j \in 1..Len(text),
         Unmarshals(SubSeq(text, i, j))
  PROVE  i <= j /\ ~Blank(text[i]) /\ ~Blank(text[j])
<1> DEFINE raw == SubSeq(text, i, j)
           n == j - i + 1
           op == text[i]
<1>1. /\ i <= j /\ Len(raw) = n /\ op \in Opens
      /\ \A k \in 1..n : raw[k] = text[i + k - 1]
  BY SpanFacts, Zenon DEF Text
<1>2. /\ \A k \in 1..(Len(raw) - 1) : Parsed(raw)[k] # <<>>
      /\ Parsed(raw)[Len(raw)] = <<>>
  BY Zenon DEF Unmarshals
<1>3. /\ n \in Nat /\ n > 0 /\ i + n - 1 = j /\ i + n - 1 <= Len(text) /\ n \in 1..n
  BY <1>1
<1> HIDE DEF raw, n
<1>4. Parsed(raw)[n] = Empty /\ \A k \in 1..(n - 1) : Parsed(raw)[k] # Empty
  BY <1>1, <1>2, Zenon DEF Empty
<1>5. Nested(Parsed(raw)[n - 1], op)
  BY <1>1, <1>3, <1>4, InStep DEF Text
<1>6. Push(Parsed(raw)[n - 1], text[j]) = Empty
  <2>1. Parsed(raw)[n] = Push(Parsed(raw)[n - 1], raw[n]) /\ raw[n] = text[j]
    BY <1>1, <1>3, ParsedUnfolds
  <2>2. QED
    BY <1>4, <2>1, Zenon
<1>7. text[j] \in Characters
  BY DEF Text
<1>8. ~Blank(text[j])
  BY <1>1, <1>5, <1>6, <1>7, LastCloses, Zenon
<1>9. ~Blank(text[i])
  BY <1>1 DEF Opens, Blank
<1>10. QED
  BY <1>1, <1>8, <1>9

\* The scan ends at the character it looks at, or not yet.
LEMMA ScanEnd ==
  ASSUME NEW st \in ScanStates, st.end = 0, NEW op \in Opens, NEW c, NEW i \in Int
  PROVE  /\ Scan(st, c, op, i) \in ScanStates
         /\ Scan(st, c, op, i).end = 0 \/ Scan(st, c, op, i).end = i
<1> DEFINE u == Scan(st, c, op, i)
<1>1. Scans(u, st, c, op, i)
  BY ScanFields
<1> HIDE DEF u
<1>2. u \in ScanStates /\ (u.end = 0 \/ u.end = i)
  BY <1>1, Zenon DEF Scans
<1>3. QED
  BY <1>2, Zenon DEF u

\* extractBracedSpan returns a span of the text or nothing.
LEMMA BracedSpanSound ==
  ASSUME NEW text, Text(text), extractBracedSpan(text) # Empty
  PROVE  \E i, j \in 1..Len(text) : i <= j /\ extractBracedSpan(text) = SubSeq(text, i, j)
<1> DEFINE L == Len(text)
           B == {k \in 1..Len(text) : text[k] \in Opens}
           f == Min(B)
           Z == Scanned(text, f)
           S == {m \in (f - 1)..L : Z[m] \in ScanStates /\ (Z[m].end = 0 \/ Z[m].end \in f..L)}
<1>1. /\ B # {} /\ Z[L].end # 0 /\ extractBracedSpan(text) = SubSeq(text, f, Z[L].end)
  BY Zenon DEF extractBracedSpan, Empty
<1>2. L \in Nat /\ B \subseteq 1..L
  BY DEF Text
<1>3. f \in B
  <2> HIDE DEF B
  <2>1. QED
    BY <1>1, <1>2, Extremes
<1>4. f \in 1..L /\ text[f] \in Opens
  BY <1>3
<1> HIDE DEF f, B
<1>5. /\ Z[f - 1] = [depth |-> 0, inString |-> FALSE, escape |-> FALSE, end |-> 0]
      /\ \A m \in f..L : Z[m] = Scan(Z[m - 1], text[m], text[f], m)
  BY <1>2, <1>4, ScannedUnfolds DEF L
<1> HIDE DEF Z, L
<1>6. Climbs(f - 1, L, S)
  <2>1. f - 1 \in S
    <3>1. Z[f - 1] \in ScanStates /\ Z[f - 1].end = 0
      BY <1>5 DEF ScanStates
    <3>2. f - 1 \in (f - 1)..L
      BY <1>2, <1>4
    <3>3. QED
      BY <3>1, <3>2
  <2>2. ASSUME NEW m \in (f - 1)..(L - 1), m \in S PROVE m + 1 \in S
    <3>1. m + 1 \in f..L /\ m + 1 \in (f - 1)..L /\ (m + 1) - 1 = m /\ m + 1 \in Int
      BY <1>2, <1>4
    <3>2. Z[m] \in ScanStates /\ (Z[m].end = 0 \/ Z[m].end \in f..L)
      BY <2>2
    <3> DEFINE u == Scan(Z[m], text[m + 1], text[f], m + 1)
    <3>3. Z[m + 1] = u
      BY <1>5, <3>1
    <3>4. CASE Z[m].end = 0
      <4>1. u \in ScanStates /\ (u.end = 0 \/ u.end = m + 1)
        BY <1>4, <3>1, <3>2, <3>4, ScanEnd
      <4> HIDE DEF u
      <4>2. QED
        BY <3>1, <3>3, <4>1, Zenon
    <3>5. CASE Z[m].end # 0
      <4>1. u = Z[m]
        BY <3>5, Zenon DEF Scan
      <4>2. QED
        BY <3>1, <3>2, <3>3, <4>1, Zenon
    <3>6. QED
      BY <3>4, <3>5
  <2>3. QED
    BY <2>1, <2>2, Zenon DEF Climbs
<1>7. L \in S
  <2>1. f - 1 \in Int /\ L \in Int /\ L \in (f - 1)..L
    BY <1>2, <1>4
  <2> HIDE DEF S
  <2>2. QED
    BY <1>6, <2>1, Climb, Zenon
<1>8. Z[L].end \in f..L
  BY <1>1, <1>7, Zenon
<1>9. f \in 1..L /\ Z[L].end \in 1..L /\ f <= Z[L].end
  BY <1>2, <1>4, <1>8
<1>10. QED
  BY <1>1, <1>9, Zenon DEF L

-----------------------------------------------------------------------------
(* The candidate.                                                          *)

\* extractJSONCandidate tries the tagged fence, any fence and the braces.
LEMMA CandidateIs ==
  ASSUME NEW text
  PROVE  extractJSONCandidate(text) =
           IF extractFenced(text, Tag) # Empty THEN extractFenced(text, Tag)
           ELSE IF extractFenced(text, One("fence")) # Empty THEN extractFenced(text, One("fence"))
           ELSE extractBracedSpan(text)
  BY Zenon DEF extractJSONCandidate, Tag, One, Empty

\* What is tried is a span of the text.
LEMMA CandidateSound ==
  ASSUME NEW text, Text(text), extractJSONCandidate(text) # Empty
  PROVE  \E i, j \in 1..Len(text) : extractJSONCandidate(text) = SubSeq(text, i, j)
<1>1. Opener(Tag) /\ Opener(One("fence"))
  BY Zenon DEF Opener
<1>2. ASSUME NEW opener, Opener(opener), extractFenced(text, opener) # Empty
      PROVE  \E i, j \in 1..Len(text) : extractFenced(text, opener) = SubSeq(text, i, j)
  BY <1>2, BlockSound, Zenon
<1>3. CASE extractFenced(text, Tag) # Empty
  BY <1>1, <1>2, <1>3, CandidateIs, Zenon
<1>4. CASE extractFenced(text, Tag) = Empty /\ extractFenced(text, One("fence")) # Empty
  BY <1>1, <1>2, <1>4, CandidateIs, Zenon
<1>5. CASE extractFenced(text, Tag) = Empty /\ extractFenced(text, One("fence")) = Empty
  <2>1. extractJSONCandidate(text) = extractBracedSpan(text)
    BY <1>5, CandidateIs, Zenon
  <2>2. QED
    BY <2>1, BracedSpanSound, Zenon
<1>6. QED
  BY <1>3, <1>4, <1>5

\* A value in prose is the candidate.
LEMMA CandidateBare ==
  ASSUME NEW text, Text(text), NEW i \in 1..Len(text), NEW j \in 1..Len(text),
         Unmarshals(SubSeq(text, i, j)), Bare(text, i)
  PROVE  extractJSONCandidate(text) = SubSeq(text, i, j)
<1>1. ASSUME NEW opener, Opener(opener) PROVE extractFenced(text, opener) = Empty
  <2> SUFFICES ASSUME extractFenced(text, opener) # Empty PROVE FALSE
    OBVIOUS
  <2>1. PICK o, a, b, c \in 1..Len(text) :
          o < a /\ a <= b /\ b < c /\ text[o] = "fence" /\ text[c] = "fence"
    BY <1>1, BlockSound, Zenon
  <2>2. o # c
    <3>1. Len(text) \in Nat
      BY DEF Text
    <3>2. QED
      BY <2>1, <3>1
  <2>3. QED
    BY <2>1, <2>2, Zenon DEF Bare
<1>2. Opener(Tag) /\ Opener(One("fence"))
  BY Zenon DEF Opener
<1>3. extractJSONCandidate(text) = extractBracedSpan(text)
  BY <1>1, <1>2, CandidateIs, Zenon
<1>4. text \in Seq(Characters) /\ \A k \in 1..(i - 1) : text[k] \notin Opens
  BY Zenon DEF Text, Bare
<1>5. QED
  BY <1>3, <1>4, BracedSpanFound

\* A value that fills the block is what the block's opener leads to.
LEMMA BlockValue ==
  ASSUME NEW text, Text(text), NEW i \in 1..Len(text), NEW j \in 1..Len(text),
         Unmarshals(SubSeq(text, i, j)), NEW opener, Opener(opener),
         NEW o \in Occurs(text, opener), \A k \in Occurs(text, opener) : o <= k,
         NEW n \in 1..(i - 1), text[n] = "newline", o + Len(opener) <= n,
         \A k \in o..(n - 1) : text[k] # "newline",
         NEW c \in (j + 1)..Len(text), text[c] = "fence",
         \A k \in (n + 1)..(c - 1) : text[k] # "fence",
         \A k \in ((n + 1)..(i - 1)) \cup ((j + 1)..(c - 1)) : text[k] \in {"space", "newline"}
  PROVE  extractFenced(text, opener) = SubSeq(text, i, j)
<1>1. i <= j /\ ~Blank(text[i]) /\ ~Blank(text[j])
  BY ValueEnds
<1>2. /\ Len(text) \in Nat /\ Len(opener) \in {1, 2} /\ Occurs(text, opener) \subseteq 1..Len(text)
      /\ o \in 1..Len(text)
  BY OpenerOccurs
<1>3. Min(Occurs(text, opener)) = o
  <2>1. Occurs(text, opener) \subseteq Int
    BY <1>2
  <2>2. QED
    BY <2>1, LeastIs, Zenon
<1>4. n \in (o + Len(opener))..Len(text) /\ c \in (n + 1)..Len(text)
  BY <1>1, <1>2
<1>5. \A k \in (o + Len(opener))..(n - 1) : text[k] # "newline"
  <2>1. \A k \in (o + Len(opener))..(n - 1) : k \in o..(n - 1)
    BY <1>2
  <2>2. QED
    BY <2>1, Zenon
<1>6. extractFenced(text, opener) = TrimSpace(SubSeq(text, n + 1, c - 1))
  BY <1>3, <1>4, <1>5, BlockExact, Zenon
<1>7. Within(text, n + 1, c - 1)
  BY <1>1, <1>2 DEF Within
<1>8. i \in (n + 1)..(c - 1) /\ j \in i..(c - 1) /\ (c - 1) \in Int
  BY <1>1, <1>2
<1>9. /\ \A k \in (n + 1)..(i - 1) : Blank(text[k])
      /\ \A k \in (j + 1)..(c - 1) : Blank(text[k])
  BY Zenon DEF Blank
<1>10. TrimSpace(SubSeq(text, n + 1, c - 1)) = SubSeq(text, i, j)
  <2>1. Padded(text, n + 1, c - 1, i, j)
    BY <1>1, <1>8, <1>9, Zenon DEF Padded
  <2>2. ASSUME NEW lo, NEW hi, Within(text, lo, hi), Padded(text, lo, hi, i, j)
        PROVE  TrimSpace(SubSeq(text, lo, hi)) = SubSeq(text, i, j)
    BY <2>2, TrimExact
  <2>3. QED
    BY <1>7, <2>1, <2>2
<1>11. QED
  BY <1>6, <1>10, Zenon

\* A value that fills the block is the candidate.
LEMMA CandidateFenced ==
  ASSUME NEW text, Text(text), NEW i \in 1..Len(text), NEW j \in 1..Len(text),
         Unmarshals(SubSeq(text, i, j)), FillsBlock(text, i, j)
  PROVE  extractJSONCandidate(text) = SubSeq(text, i, j)
<1>1. PICK n \in 1..(i - 1), c \in (j + 1)..Len(text) :
        /\ text[n] = "newline" /\ text[c] = "fence"
        /\ \A k \in (n + 1)..(c - 1) : text[k] # "fence"
        /\ \A k \in ((n + 1)..(i - 1)) \cup ((j + 1)..(c - 1)) : text[k] \in {"space", "newline"}
        /\ \E o \in 1..(n - 1) : OpensBlock(text, o) /\ \A k \in o..(n - 1) : text[k] # "newline"
  BY Zenon DEF FillsBlock
<1>2. PICK o \in 1..(n - 1) : OpensBlock(text, o) /\ \A k \in o..(n - 1) : text[k] # "newline"
  BY <1>1
<1>3. Len(text) \in Nat /\ n \in 1..Len(text) /\ o \in 1..Len(text) /\ o < n /\ o \in o..(n - 1)
  BY <1>2 DEF Text
<1>4. SubSeq(text, i, j) # Empty
  BY SpanFacts DEF Text
<1>5. Opener(Tag) /\ Opener(One("fence"))
  BY Zenon DEF Opener
<1> DEFINE Tagged(k) == text[k] = "fence" /\ k < Len(text) /\ text[k + 1] = "json"
<1>6. Occurs(text, Tag) = {k \in 1..Len(text) : Tagged(k)}
  <2>1. Occurs(text, Tag) = {k \in 1..(Len(text) - 1) : text[k] = "fence" /\ text[k + 1] = "json"}
    BY OccursTag
  <2>2. \A k : k \in 1..(Len(text) - 1) <=> k \in 1..Len(text) /\ k < Len(text)
    BY <1>3
  <2>3. QED
    BY <2>1, <2>2
<1>7. CASE Tagged(o) /\ \A k \in 1..(o - 1) : ~Tagged(k)
  <2>1. o \in Occurs(text, Tag)
    BY <1>3, <1>6, <1>7
  <2>2. \A k \in Occurs(text, Tag) : o <= k
    <3>1. \A k \in Occurs(text, Tag) : k \in 1..Len(text) /\ ~(k \in 1..(o - 1))
      BY <1>6, <1>7, Zenon
    <3>2. QED
      BY <1>3, <3>1
  <2>3. Len(Tag) = 2
    BY DEF Tag
  <2>4. o + Len(Tag) <= n
    <3>1. text[o + 1] # "newline"
      BY <1>7
    <3>2. n # o + 1
      BY <1>1, <3>1
    <3>3. QED
      BY <1>3, <2>3, <3>2
  <2>5. extractFenced(text, Tag) = SubSeq(text, i, j)
    BY <1>1, <1>2, <1>5, <2>1, <2>2, <2>4, BlockValue
  <2>6. QED
    BY <1>4, <2>5, CandidateIs, Zenon
<1>8. CASE /\ text[o] = "fence" /\ \A k \in 1..(o - 1) : text[k] # "fence"
           /\ \A k \in 1..Len(text) : ~Tagged(k)
  <2>1. Occurs(text, Tag) = {}
    BY <1>6, <1>8
  <2>2. extractFenced(text, Tag) = Empty
    BY <2>1, FencedIs, Zenon
  <2>3. Occurs(text, One("fence")) = {k \in 1..Len(text) : text[k] = "fence"}
    <3>1. "fence" \in Characters
      BY DEF Characters
    <3>2. QED
      BY <3>1, OccursOne
  <2>4. o \in Occurs(text, One("fence"))
    BY <1>3, <1>8, <2>3
  <2>5. \A k \in Occurs(text, One("fence")) : o <= k
    <3>1. \A k \in Occurs(text, One("fence")) : k \in 1..Len(text) /\ ~(k \in 1..(o - 1))
      BY <1>8, <2>3, Zenon
    <3>2. QED
      BY <1>3, <3>1
  <2>6. Len(One("fence")) = 1
    BY DEF One
  <2>7. o + Len(One("fence")) <= n
    <3>1. o + 1 <= n
      BY <1>3
    <3>2. QED
      BY <2>6, <3>1, Zenon
  <2>8. extractFenced(text, One("fence")) = SubSeq(text, i, j)
    BY <1>1, <1>2, <1>5, <2>4, <2>5, <2>7, BlockValue
  <2>9. QED
    BY <1>4, <2>2, <2>8, CandidateIs, Zenon
<1>9. QED
  BY <1>2, <1>7, <1>8, Zenon DEF OpensBlock

\* What Decode makes of a value, and of a text with nothing in it.
LEMMA FallbackIs ==
  ASSUME NEW text, NEW metas, ~Carries(metas)
  PROVE  Decode("query", metas, text) =
           IF extractJSONCandidate(text) # Empty /\ Unmarshals(extractJSONCandidate(text))
           THEN [out |-> "decoded", opt |-> extractJSONCandidate(text)] ELSE Missing
  BY Zenon DEF Decode, Empty

\* The text fallback keeps its promise.
LEMMA FallbackExact ==
  ASSUME NEW text, Text(text), NEW metas, ~Carries(metas)
  PROVE  TextDecoded(text, Decode("query", metas, text))
<1> DEFINE raw == extractJSONCandidate(text)
           a == Decode("query", metas, text)
           Value(s) == [out |-> "decoded", opt |-> s]
<1>1. a = IF raw # Empty /\ Unmarshals(raw) THEN Value(raw) ELSE Missing
  BY FallbackIs, Zenon
<1> HIDE DEF a, raw
<1>2. \/ a = Missing
      \/ \E i, j \in 1..Len(text) : a = Value(SubSeq(text, i, j)) /\ Unmarshals(SubSeq(text, i, j))
  <2>1. CASE raw # Empty /\ Unmarshals(raw)
    <3>1. a = Value(raw)
      BY <1>1, <2>1, Zenon
    <3>2. PICK i, j \in 1..Len(text) : raw = SubSeq(text, i, j)
      BY <2>1, CandidateSound, Zenon DEF raw
    <3>3. QED
      BY <2>1, <3>1, <3>2, Zenon
  <2>2. CASE ~(raw # Empty /\ Unmarshals(raw))
    BY <1>1, <2>2, Zenon
  <2>3. QED
    BY <2>1, <2>2, Zenon
<1>3. ASSUME NEW i \in 1..Len(text), NEW j \in 1..Len(text), Unmarshals(SubSeq(text, i, j)),
             Bare(text, i) \/ FillsBlock(text, i, j)
      PROVE  a = Value(SubSeq(text, i, j))
  <2>1. raw = SubSeq(text, i, j)
    BY <1>3, CandidateBare, CandidateFenced, Zenon DEF raw
  <2>2. raw # Empty
    BY <1>3, <2>1, SpanFacts DEF Text
  <2>3. QED
    BY <1>1, <1>3, <2>1, <2>2, Zenon
<1>4. QED
  BY <1>2, <1>3, Zenon DEF TextDecoded, a

\* Which notifications carry a payload.
Blocks(metas) == {i \in 1..Len(metas) : metas[i] # "none"}

\* The first payload decides what decodeFromNotifications returns.
LEMMA FirstBlock ==
  ASSUME NEW metas, Len(metas) \in Nat, NEW i \in Blocks(metas), \A k \in Blocks(metas) : i <= k
  PROVE  decodeFromNotifications(metas).out = IF metas[i] = "fits" THEN "meta" ELSE "mismatch"
<1>1. Blocks(metas) \subseteq Int
  BY DEF Blocks
<1>2. Min(Blocks(metas)) = i
  BY <1>1, LeastIs
<1>3. decodeFromNotifications(metas) = convertStructured(metas[i])
  BY <1>2, Zenon DEF decodeFromNotifications, Blocks
<1>4. QED
  BY <1>3 DEF convertStructured

\* What a decode request asks for.
Decoded(r, a) ==
  /\ \A i \in Blocks(r.metas) : (\A k \in Blocks(r.metas) : i <= k) =>
       a.out = IF r.metas[i] = "fits" THEN "meta" ELSE "mismatch"
  /\ Blocks(r.metas) = {} => IF r.from = "query" THEN TextDecoded(r.text, a) ELSE a = Missing

\* Decode gives it.
LEMMA DecodeIsExact ==
  ASSUME NEW r, Text(r.text), Len(r.metas) \in Nat
  PROVE  Decoded(r, Decode(r.from, r.metas, r.text))
<1>1. Carries(r.metas) <=> Blocks(r.metas) # {}
  BY DEF Carries, Blocks
<1>2. ASSUME NEW i \in Blocks(r.metas), \A k \in Blocks(r.metas) : i <= k
      PROVE  Decode(r.from, r.metas, r.text).out = IF r.metas[i] = "fits" THEN "meta" ELSE "mismatch"
  <2>1. Decode(r.from, r.metas, r.text) = decodeFromNotifications(r.metas)
    BY <1>1, <1>2, Zenon DEF Decode
  <2>2. QED
    BY <1>2, <2>1, FirstBlock
<1>3. ASSUME Blocks(r.metas) = {}, r.from = "query"
      PROVE  TextDecoded(r.text, Decode(r.from, r.metas, r.text))
  BY <1>1, <1>3, FallbackExact, Zenon
<1>4. ASSUME Blocks(r.metas) = {}, r.from # "query"
      PROVE  Decode(r.from, r.metas, r.text) = Missing
  BY <1>1, <1>4, Zenon DEF Decode
<1>5. QED
  BY <1>2, <1>3, <1>4, Zenon DEF Decoded

-----------------------------------------------------------------------------
(* Conversions.                                                            *)

\* The lines an fs/read_text_file request asks for.
Asked(r) ==
  LET first == IF r.line > 0 THEN r.line ELSE 1
  IN {i \in 1..r.lines : i >= first /\ (r.limit > 0 => i < first + r.limit)}

\* applyLineLimit computes the window asked for, or one that makes the slice
\* expression panic, and that only when its end is beyond the range of int.
LEMMA WindowExact ==
  ASSUME NEW r, r.lines \in 0..MaxInt, r.line \in Int64, r.limit \in Int64
  PROVE  LET w == applyLineLimit(r.lines, r.line, r.limit)
             first == IF r.line > 0 THEN r.line ELSE 1
         IN IF w.start <= w.end THEN (w.start + 1)..w.end = Asked(r)
                                ELSE first + r.limit > MaxInt + 1
<1> DEFINE n == r.lines
           line == r.line
           limit == r.limit
           start == IF line > 0 THEN IF line - 1 < n THEN line - 1 ELSE n ELSE 0
           sum == Wrap(start + limit)
           end == IF limit > 0 /\ sum < n THEN sum ELSE n
           first == IF line > 0 THEN line ELSE 1
<1>1. MaxInt \in Nat /\ n \in 0..MaxInt /\ line \in Int64 /\ limit \in Int64
  BY IntAssumption
<1>2. /\ applyLineLimit(n, line, limit).start = start
      /\ applyLineLimit(n, line, limit).end = end
  BY DEF applyLineLimit
<1>3. Asked(r) = {i \in 1..n : i >= first /\ (limit > 0 => i < first + limit)}
  BY DEF Asked
<1> HIDE DEF n, line, limit
<1>4. start \in 0..n /\ start <= first - 1 /\ (start < n => start = first - 1)
  BY <1>1 DEF Int64
<1>5. limit > 0 => sum = start + limit \/ (sum < 0 /\ start + limit > MaxInt)
  BY <1>1, <1>4 DEF Wrap, Int64
<1>6. start \in Int /\ end \in Int /\ first \in Int /\ sum \in Int
  BY <1>1, <1>4 DEF Wrap, Int64
<1>7. IF start <= end
      THEN (start + 1)..end = {i \in 1..n : i >= first /\ (limit > 0 => i < first + limit)}
      ELSE first + limit > MaxInt + 1
  BY <1>1, <1>4, <1>5, <1>6 DEF Int64
<1>8. QED
  BY <1>2, <1>3, <1>7 DEF n, line, limit

ReadExact(r, a) ==
  LET first == IF r.line > 0 THEN r.line ELSE 1
  IN IF a.out = "panic" THEN first + r.limit > MaxInt + 1 ELSE a.opt = Asked(r)

\* The answered questions under the ids the agent knows them by.
Keyed(r, a) ==
  LET Id(i) == IF r.raw[i].id = 0 THEN i ELSE r.raw[i].id
  IN a.opt = {Id(i) : i \in {j \in 1..Len(r.raw) : r.raw[j].ok /\ Id(j) \in a.asked}}

Converted(p) ==
  /\ at[p] = "done" /\ req[p].kind = "read" /\ req[p].abs => ReadExact(req[p], answer[p])
  /\ answer[p].out = "payload" => Keyed(req[p], answer[p])
  /\ at[p] = "done" /\ req[p].kind = "decode" => Decoded(req[p], answer[p])

AllConverted == \A p \in Handlers : Converted(p)

ConversionInv == DecisionInv /\ AllConverted

\* A read request is answered with the window asked for.
LEMMA ReadAnswer ==
  ASSUME ServerTypeOK, NEW p \in Handlers, NEW r \in config.requests, ReadTextFile(p, r)
  PROVE  \E a : Arrive(p, r, a) /\ (r.abs => ReadExact(r, a)) /\ a.out # "payload"
<1> DEFINE w == applyLineLimit(r.lines, r.line, r.limit)
<1>1. IF w.start <= w.end THEN (w.start + 1)..w.end = Asked(r)
      ELSE (IF r.line > 0 THEN r.line ELSE 1) + r.limit > MaxInt + 1
  <2>1. config \in Configs /\ r.kind = "read"
    BY DEF ServerTypeOK, ReadTextFile
  <2>2. r.lines \in 0..MaxInt /\ r.line \in Int64 /\ r.limit \in Int64
    BY <2>1, RequestAssumption
  <2>3. QED
    BY <2>2, WindowExact
<1>2. \/ ~r.abs /\ Arrive(p, r, Error)
      \/ r.abs /\ w.start <= w.end
         /\ Arrive(p, r, [out |-> "lines", opt |-> (w.start + 1)..w.end])
      \/ r.abs /\ ~(w.start <= w.end) /\ Arrive(p, r, [out |-> "panic", opt |-> 0])
  <2>1. w.start \in Int /\ w.end \in Int => (w.start > w.end <=> ~(w.start <= w.end))
    OBVIOUS
  <2>2. w.start \in Int /\ w.end \in Int
    <3>1. config \in Configs /\ r.kind = "read"
      BY DEF ServerTypeOK, ReadTextFile
    <3>2. r.lines \in 0..MaxInt /\ r.line \in Int64 /\ r.limit \in Int64
      BY <3>1, RequestAssumption
    <3>3. QED
      BY <3>2, IntAssumption DEF applyLineLimit, Wrap, Int64
  <2>3. QED
    BY <2>1, <2>2 DEF ReadTextFile, Answered
<1> HIDE DEF w
<1>3. CASE ~r.abs /\ Arrive(p, r, Error)
  BY <1>3 DEF Error
<1>4. CASE r.abs /\ w.start <= w.end
           /\ Arrive(p, r, [out |-> "lines", opt |-> (w.start + 1)..w.end])
  <2> DEFINE a == [out |-> "lines", opt |-> (w.start + 1)..w.end]
  <2>1. ReadExact(r, a) /\ a.out # "payload" /\ Arrive(p, r, a)
    BY <1>1, <1>4 DEF ReadExact
  <2>2. QED
    BY <2>1
<1>5. CASE r.abs /\ ~(w.start <= w.end) /\ Arrive(p, r, [out |-> "panic", opt |-> 0])
  <2> DEFINE a == [out |-> "panic", opt |-> 0]
  <2>1. ReadExact(r, a) /\ a.out # "payload" /\ Arrive(p, r, a)
    BY <1>1, <1>5 DEF ReadExact
  <2>2. QED
    BY <2>1
<1>6. QED
  BY <1>2, <1>3, <1>4, <1>5

\* The payload of AskUserQuestion names the questions by the agent's ids.
LEMMA AskAnswer ==
  ASSUME NEW p, NEW r, AskUserQuestion(p, r)
  PROVE  \E a : Arrive(p, r, a) /\ (a.out = "payload" => Keyed(r, a))
<1>1. CASE Answered(p, r, Error)
  BY <1>1 DEF Answered, Error
<1>2. ASSUME NEW ids,
             Answered(p, r, [out |-> "payload", asked |-> ids,
                             opt |-> buildUserInputResultPayload(parseUserInputRequest(r.raw), ids)])
      PROVE  \E a : Arrive(p, r, a) /\ (a.out = "payload" => Keyed(r, a))
  <2> DEFINE Id(i) == IF r.raw[i].id = 0 THEN i ELSE r.raw[i].id
             P == buildUserInputResultPayload(parseUserInputRequest(r.raw), ids)
             a == [out |-> "payload", asked |-> ids, opt |-> P]
  <2>1. P = {Id(i) : i \in {j \in 1..Len(r.raw) : r.raw[j].ok}} \cap ids
    <3> DEFINE J == {j \in 1..Len(r.raw) : r.raw[j].ok}
               Q == {[raw |-> i, id |-> Id(i)] : i \in J}
    <3>1. P = {q.id : q \in Q} \cap ids
      BY Zenon DEF buildUserInputResultPayload, parseUserInputRequest
    <3> HIDE DEF J, Id, P
    <3>2. \A i \in J : [raw |-> i, id |-> Id(i)].id = Id(i)
      OBVIOUS
    <3>3. {q.id : q \in Q} = {Id(i) : i \in J}
      BY <3>2
    <3>4. QED
      BY <3>1, <3>3 DEF J
  <2>2. P = {Id(i) : i \in {j \in 1..Len(r.raw) : r.raw[j].ok /\ Id(j) \in ids}}
    <3>1. ASSUME NEW x PROVE x \in P <=> \E i \in 1..Len(r.raw) : r.raw[i].ok /\ Id(i) = x /\ x \in ids
      BY <2>1
    <3> HIDE DEF P
    <3>2. QED
      BY <3>1
  <2>3. Arrive(p, r, a)
    BY <1>2 DEF Answered
  <2> HIDE DEF P
  <2>4. Keyed(r, a)
    BY <2>2 DEF Keyed
  <2>5. QED
    BY <2>3, <2>4
<1>3. QED
  BY <1>1, <1>2 DEF AskUserQuestion

\* Decoding gives what the text and the notifications hold, and no payload.
LEMMA DecodeAnswer ==
  ASSUME ServerTypeOK, NEW p \in Handlers, NEW r \in config.requests, DecodeStructuredOutput(p, r)
  PROVE  \E a : Arrive(p, r, a) /\ Decoded(r, a) /\ a.out # "payload"
<1> DEFINE a == Decode(r.from, r.metas, r.text)
<1>1. Arrive(p, r, a) /\ r.kind = "decode"
  BY Zenon DEF DecodeStructuredOutput, Answered
<1>2. config \in Configs
  BY DEF ServerTypeOK
<1>3. r.text \in Seq(Characters) /\ r.metas \in Seq({"none", "fits", "other"})
  BY <1>1, <1>2, RequestAssumption, Zenon
<1>4. Text(r.text) /\ Len(r.metas) \in Nat
  BY <1>3 DEF Text
<1>5. Decoded(r, a)
  BY <1>4, DecodeIsExact
<1>6. a.out # "payload"
  BY DEF Decode, Missing, convertStructured, decodeFromNotifications
<1>7. QED
  BY <1>1, <1>5, <1>6

\* Only requests that take time are served on, and no read or decode among them.
LEMMA ServeKind ==
  ASSUME DecisionInv, NEW p \in Handlers, Serve(p)
  PROVE  req' = req /\ req[p].kind \notin {"read", "decode"}
<1>1. at[p] \in {"hooks", "decide", "wait"}
  BY Zenon DEF Serve, EnterMatcher, SkipMatcher, RunHook, HookDecides, Decide,
     DeniedNotified, HookPermitsWrite, PreToolUseFired, ToolCallEnds, LockTaken,
     Dispatched
<1>2. req' = req
  BY Zenon DEF Serve, EnterMatcher, SkipMatcher, RunHook, HookDecides, Decide,
     DeniedNotified, HookPermitsWrite, PreToolUseFired, ToolCallEnds, LockTaken
<1>3. Undecided(p)
  BY DEF DecisionInv
<1>4. QED
  BY <1>1, <1>2, <1>3 DEF Undecided, During, Events

\* Serving a request produces no payload of answers.
LEMMA ServeAnswer ==
  ASSUME DecisionInv, NEW p \in Handlers, Serve(p)
  PROVE  answer'[p] = answer[p] \/ answer'[p].out # "payload"
<1>1. ServerTypeOK /\ Undecided(p)
  BY DEF DecisionInv
<1>2. ASSUME NEW a, a.out # "payload", answer' = [answer EXCEPT ![p] = a]
      PROVE  answer'[p].out # "payload"
  BY <1>1, <1>2 DEF ServerTypeOK
<1>3. Error.out # "payload"
  BY DEF Error
<1>4. CASE HookDecides(p)
  <2>1. Options(req[p])
    BY <1>1, <1>4, HasOptions DEF HookDecides, Dispatched, Undecided, During
  <2>2. synthReject(req[p]).out # "payload"
    BY <2>1, RejectsRefuse DEF Refusal, Cancelled, Error, Select
  <2>3. QED
    BY <1>2, <1>3, <1>4, <2>2 DEF HookDecides, Deny
<1>5. CASE Decide(p)
  <2>1. Options(req[p])
    BY <1>1, <1>5, HasOptions DEF Decide, Undecided
  <2>2. PICK a \in Composed(req[p]) : answer' = [answer EXCEPT ![p] = a]
    BY <1>5, Zenon DEF Decide, Deny
  <2>3. a.out # "payload"
    BY <2>1, <2>2, ComposedSound
  <2>4. QED
    BY <1>2, <2>2, <2>3
<1>6. CASE HookPermitsWrite(p)
  <2>1. [out |-> "written", opt |-> 0].out # "payload"
    OBVIOUS
  <2>2. QED
    BY <1>2, <1>3, <1>6, <2>1 DEF HookPermitsWrite
<1>7. CASE \/ EnterMatcher(p) \/ SkipMatcher(p)
           \/ (\E out \in {"allow", "block", "error"} : RunHook(p, out))
           \/ DeniedNotified(p) \/ PreToolUseFired(p) \/ ToolCallEnds(p) \/ LockTaken(p)
  BY <1>7, Zenon DEF EnterMatcher, SkipMatcher, RunHook, DeniedNotified,
     PreToolUseFired, ToolCallEnds, LockTaken
<1>8. QED
  BY <1>4, <1>5, <1>6, <1>7, Zenon DEF Serve

\* A request that arrives is converted right, or not yet answered.
LEMMA ReceiveConverts ==
  ASSUME DecisionInv, NEW p \in Handlers, Receive(p)
  PROVE  Converted(p)'
<1>1. PICK r \in config.requests :
        \/ RequestPermission(p, r) \/ WriteTextFile(p, r) \/ ReadTextFile(p, r)
        \/ UnstableCreateElicitation(p, r) \/ AskUserQuestion(p, r)
        \/ DecodeStructuredOutput(p, r)
        \/ ToolCall(p, r) \/ ToolCallUpdate(p, r) \/ LockCalled(p, r)
  BY DEF Receive
<1>2. ServerTypeOK
  BY DEF DecisionInv
<1>3. ASSUME NEW a, Arrive(p, r, a),
             r.kind = "read" /\ r.abs => ReadExact(r, a),
             a.out = "payload" => Keyed(r, a),
             r.kind = "decode" => Decoded(r, a)
      PROVE  Converted(p)'
  <2>1. req'[p] = r /\ answer'[p] = a
    BY <1>2, <1>3 DEF Arrive, ServerTypeOK
  <2>2. /\ at'[p] = "done" /\ r.kind = "read" /\ r.abs => ReadExact(req'[p], answer'[p])
        /\ answer'[p].out = "payload" => Keyed(req'[p], answer'[p])
        /\ r.kind = "decode" => Decoded(req'[p], answer'[p])
    BY <1>3, <2>1, Zenon
  <2>3. QED
    BY <2>1, <2>2, Zenon DEF Converted, ReadExact, Keyed, Asked, Decoded
<1>4. CASE ReadTextFile(p, r)
  <2>1. r.kind # "decode"
    BY <1>4 DEF ReadTextFile
  <2>2. QED
    BY <1>2, <1>3, <1>4, <2>1, ReadAnswer
<1>5. CASE AskUserQuestion(p, r)
  <2>1. r.kind = "ask"
    BY <1>5 DEF AskUserQuestion
  <2>2. PICK a : Arrive(p, r, a) /\ (a.out = "payload" => Keyed(r, a))
    BY <1>5, AskAnswer
  <2>3. QED
    BY <1>3, <2>1, <2>2
<1>6. ASSUME NEW a, Arrive(p, r, a), r.kind \notin {"read", "decode"}, a.out # "payload"
      PROVE  Converted(p)'
  BY <1>3, <1>6
<1>7. NoAnswer.out # "payload" /\ Error.out # "payload"
  BY DEF NoAnswer, Error
<1>8. CASE RequestPermission(p, r)
  <2>1. DefaultReject(r).out # "payload" /\ r.kind \notin {"read", "decode"}
    BY <1>8 DEF DefaultReject, Select, RequestPermission
  <2>2. QED
    BY <1>6, <1>7, <1>8, <2>1 DEF RequestPermission, Answered
<1>9. CASE WriteTextFile(p, r)
  <2>1. r.kind \notin {"read", "decode"}
    BY <1>9 DEF WriteTextFile
  <2>2. QED
    BY <1>6, <1>7, <1>9, <2>1 DEF WriteTextFile, Answered
<1>10. CASE UnstableCreateElicitation(p, r)
  <2>1. PICK o \in {"accept", "decline", "cancel", "error"} : Answered(p, r, [out |-> o, opt |-> 0])
    BY <1>10 DEF UnstableCreateElicitation
  <2>2. [out |-> o, opt |-> 0].out # "payload" /\ r.kind \notin {"read", "decode"}
    BY <1>10, <2>1 DEF UnstableCreateElicitation
  <2>3. QED
    BY <1>6, <2>1, <2>2 DEF Answered
<1>11. CASE DecodeStructuredOutput(p, r)
  <2>1. r.kind = "decode"
    BY <1>11 DEF DecodeStructuredOutput
  <2>2. PICK a : Arrive(p, r, a) /\ Decoded(r, a) /\ a.out # "payload"
    BY <1>2, <1>11, DecodeAnswer
  <2>3. QED
    BY <1>3, <2>1, <2>2
<1>12. CASE ToolCall(p, r) \/ ToolCallUpdate(p, r) \/ LockCalled(p, r)
  <2>1. r.kind \notin {"read", "decode"} /\ Arrive(p, r, NoAnswer)
    BY <1>12 DEF ToolCall, ToolCallUpdate, LockCalled, Answered
  <2>2. QED
    BY <1>6, <1>7, <2>1
<1>13. QED
  BY <1>1, <1>4, <1>5, <1>8, <1>9, <1>10, <1>11, <1>12

\* The conversions are right in every state.
LEMMA ConversionInvariant == Spec => []ConversionInv
<1>1. Init => AllConverted
  BY DEF Init, AllConverted, Converted, NoAnswer, NoRequest
<1>2. ConversionInv /\ [Next]_vars => AllConverted'
  <2> SUFFICES ASSUME ConversionInv, [Next]_vars, NEW q \in Handlers PROVE Converted(q)'
    BY DEF AllConverted
  <2>1. ASSUME at'[q] = at[q], req'[q] = req[q], answer'[q] = answer[q] PROVE Converted(q)'
    BY <2>1 DEF ConversionInv, AllConverted, Converted, ReadExact, Keyed, Asked, Decoded
  <2>2. ASSUME NEW p \in Handlers, Receive(p) \/ Serve(p), p # q PROVE Converted(q)'
    <3>1. Apart(q)
      BY <2>2, ServerFrame DEF ConversionInv, DecisionInv
    <3>2. QED
      BY <2>1, <3>1 DEF Apart
  <2>3. CASE Receive(q)
    BY <2>3, ReceiveConverts DEF ConversionInv
  <2>4. CASE Serve(q)
    <3>1. /\ req' = req /\ req[q].kind \notin {"read", "decode"}
          /\ answer'[q] = answer[q] \/ answer'[q].out # "payload"
      BY <2>4, ServeKind, ServeAnswer DEF ConversionInv
    <3>2. QED
      BY <3>1 DEF ConversionInv, AllConverted, Converted, Keyed
  <2>5. CASE UNCHANGED vars
    BY <2>1, <2>5 DEF vars
  <2>6. QED
    BY <2>2, <2>3, <2>4, <2>5 DEF Next
<1>3. QED
  BY <1>1, <1>2, DecisionInvariant, PTL DEF Spec, ConversionInv

\* applyLineLimit: whatever line and limit the agent sends, it reads exactly the
\* lines it asked for, and the slice expression panics only when the last of
\* them is beyond the range of int.
THEOREM ReadsAreExact == Spec => []ReadIsExact
<1>1. ConversionInv => ReadIsExact
  BY DEF ConversionInv, AllConverted, Converted, ReadIsExact, ReadExact, Asked
<1>2. QED
  BY <1>1, ConversionInvariant, PTL

\* parseUserInputRequest and buildUserInputResultPayload: for any list of raw
\* questions and any answers, the agent finds each answer under its own id.
THEOREM AnswersAreKeyed == Spec => []AnswersKeyed
<1>1. ConversionInv => AnswersKeyed
  BY DEF ConversionInv, AllConverted, Converted, AnswersKeyed, Keyed
<1>2. QED
  BY <1>1, ConversionInvariant, PTL

\* DecodeStructuredOutput and DecodePromptResult: for any notifications the first
\* _meta block decides, and for any text, of any length, what a query decodes is
\* a value of the text, and a value in prose or in its fence is decoded whole,
\* whatever brackets, quotes and escapes its strings hold.
THEOREM DecodingIsExact == Spec => []DecodeExact
<1>1. ConversionInv => DecodeExact
  BY Zenon DEF ConversionInv, AllConverted, Converted, DecodeExact, Decoded, Blocks
<1>2. QED
  BY <1>1, ConversionInvariant, PTL

\* All three conversions at once, as the run checks them on its requests.
THEOREM ConversionsAreExact == Spec => []ConversionsExact
  BY ReadsAreExact, AnswersAreKeyed, DecodingIsExact, PTL DEF ConversionsExact

=============================================================================
