----------------------------- MODULE Decisions ------------------------------
(***************************************************************************)
(* What the client answers when the agent asks: permission requests with   *)
(* the hooks, the allow and deny lists and the user's callback around them *)
(* (hooks.go, permissions.go, tool_filters.go, client_impl.go), file       *)
(* writes and reads (internal/handlers/dispatcher.go), elicitations and    *)
(* AskUserQuestion (elicit_handler.go, user_input.go), and the tool-call   *)
(* notifications whose hooks run with the session's mutex held             *)
(* (session_impl.go), and, on the caller's side, the decoding of           *)
(* structured output.  Every request is served by a goroutine of its own;  *)
(* the goroutines share the Once flags of the matchers, the file system    *)
(* and the mutex.  The user's callbacks and hooks answer anything.         *)
(***************************************************************************)
EXTENDS Integers, Sequences, FiniteSets, StructuredOutput

CONSTANTS
  Handlers,    \* goroutines, each serving one request at a time
  Configs,     \* the client's options and the requests its agent sends:
               \* [hooks, allow, deny, user, strict, requests]
  Cwd,         \* the working directory, as a sequence of path components
  MaxRequests, \* bound: requests in a behaviour
  MaxInt,      \* the largest int
  None         \* nobody

ASSUME BoundAssumption == MaxRequests \in Nat
ASSUME NoneAssumption  == None \notin Handlers
ASSUME IntAssumption   == MaxInt \in Nat \ {0}

\* The kinds of the protocol's PermissionOptionKind.
OptionKinds == {"allow_once", "allow_always", "reject_once", "reject_always"}

Int64 == (-MaxInt - 1)..MaxInt

\* What a request carries once it is unmarshalled.
ASSUME RequestAssumption ==
  \A c \in Configs : \A r \in c.requests :
    /\ r.kind = "permission" => r.options \in Seq([kind : OptionKinds, named : BOOLEAN])
    /\ r.kind = "read" => r.lines \in 0..MaxInt /\ r.line \in Int64 /\ r.limit \in Int64
    /\ r.kind = "decode" => r.text \in Seq(Characters) /\ r.metas \in Seq({"none", "fits", "other"})

VARIABLES
  config,        \* the options
  served,        \* requests received so far
  at,            \* handler -> "idle", "hooks", "decide", "wait", "done"
  req,           \* its request
  event,         \* the hook event being dispatched
  pos,           \* dispatch: the matcher, and the callback of it (0: none yet)
  merged,        \* dispatch: "allow", "block" or "error"
  answer,        \* [out, opt]: what the agent gets
  fired,         \* Once matchers whose flag is set
  mu,            \* holder of the session's mutex
  toolCallStart, \* tool calls with a start observation
  disk,          \* locations written
  objected,      \* ghost: a hook of the decision objected
  denials,       \* ghost: times PermissionDenied was dispatched for the request
  ran,           \* ghost: dispatches that entered each Once matcher
  open           \* ghost: tool calls begun and not ended

hookVars == <<event, pos, merged>>
vars == <<config, served, at, req, hookVars, answer, fired, mu, toolCallStart,
          disk, objected, denials, ran, open>>

Events == {"PermissionRequest", "PermissionDenied", "FileChanged", "PreToolUse",
           "PostToolUse", "PostToolUseFailure"}

NoAnswer == [out |-> "none", opt |-> 0]
NoRequest == [kind |-> "none"]

Init ==
  /\ config \in Configs
  /\ served = 0
  /\ at = [p \in Handlers |-> "idle"]
  /\ req = [p \in Handlers |-> NoRequest]
  /\ event = [p \in Handlers |-> "none"]
  /\ pos = [p \in Handlers |-> <<1, 0>>]
  /\ merged = [p \in Handlers |-> "allow"]
  /\ answer = [p \in Handlers |-> NoAnswer]
  /\ fired = {} /\ mu = None /\ toolCallStart = {} /\ disk = {}
  /\ objected = [p \in Handlers |-> FALSE]
  /\ denials = [p \in Handlers |-> 0]
  /\ ran = {} /\ open = {}

\* c.hooks is nil when no matcher is registered.
HooksOn == \E e \in Events : config.hooks[e] # <<>>

-----------------------------------------------------------------------------
(* Answers to a permission request.                                        *)

Kinds(r) == {r.options[i].kind : i \in 1..Len(r.options)}
FirstOf(r, ks) == CHOOSE i \in 1..Len(r.options) :
                    /\ r.options[i].kind \in ks
                    /\ \A j \in 1..(i - 1) : r.options[j].kind \notin ks

Select(i)  == [out |-> "selected", opt |-> i]
Cancelled  == [out |-> "cancelled", opt |-> 0]
Error      == [out |-> "error", opt |-> 0]

\* An option of the kind, or an error when none is on offer.
pickByKind(r, k) == IF k \in Kinds(r) THEN Select(FirstOf(r, {k})) ELSE Error

AllowOnce(r) == pickByKind(r, "allow_once")

RejectOnce(r) == IF "reject_once" \in Kinds(r) THEN pickByKind(r, "reject_once")
                                               ELSE pickByKind(r, "reject_always")

\* Like RejectOnce, but a request without a reject option is cancelled.
synthReject(r) == IF Kinds(r) \cap {"reject_once", "reject_always"} = {}
                  THEN Cancelled ELSE RejectOnce(r)

\* The dispatcher without a callback: the first reject option, or the id
\* "reject" (option 0), whether or not it was offered.
DefaultReject(r) ==
  LET ks == {"reject_once", "reject_always"}
  IN IF Kinds(r) \cap ks = {} THEN Select(0) ELSE Select(FirstOf(r, ks))

\* By the option's id, not its kind: named says that the id has "reject" or
\* "deny" in it.
isRejectOutcome(r, a) ==
  \/ a.out = "cancelled"
  \/ a.out = "selected" /\ (a.opt = 0 \/ r.options[a.opt].named)

\* Mutant: the allow list is looked at first.
ComposedAllowFirst(r) ==
  CASE r.tool \in config.allow -> {AllowOnce(r)}
    [] r.tool \notin config.allow /\ r.tool \in config.deny -> {RejectOnce(r)}
    [] r.tool \notin config.allow \cup config.deny /\ config.user ->
         {Select(i) : i \in 1..Len(r.options)} \cup {Cancelled, Error}
    [] OTHER -> {IF config.allow \cup config.deny = {} THEN synthReject(r) ELSE RejectOnce(r)}

\* composeCanUseTool, and what instrumentedPermission does when it is nil.
Composed(r) ==
  CASE r.tool \in config.deny -> {RejectOnce(r)}
    [] r.tool \in config.allow \ config.deny -> {AllowOnce(r)}
    [] r.tool \notin config.allow \cup config.deny /\ config.user ->
         {Select(i) : i \in 1..Len(r.options)} \cup {Cancelled, Error}
    [] OTHER -> {IF config.allow \cup config.deny = {} THEN synthReject(r) ELSE RejectOnce(r)}

Allowed(r, a) == /\ a.out = "selected" /\ a.opt # 0
                 /\ r.options[a.opt].kind \in {"allow_once", "allow_always"}

-----------------------------------------------------------------------------
(* Paths: sequences of components of an absolute path.                     *)

\* filepath.Clean, and where the system's walk of the path ends up.
Clean(path) ==
  LET done[i \in 0..Len(path)] ==
        IF i = 0 THEN <<>>
        ELSE IF path[i] # ".." THEN Append(done[i - 1], path[i])
        ELSE SubSeq(done[i - 1], 1, Len(done[i - 1]) - 1)
  IN done[Len(path)]

Under(dir, path) == Len(dir) <= Len(path) /\ SubSeq(path, 1, Len(dir)) = dir

\* Mutant: the path is compared as it was sent.
assertWithinUncleaned(r) == r.abs /\ Under(Cwd, r.path)

\* filepath.Rel of the cleaned path does not start with "..".
assertWithinCwd(r) == r.abs /\ Under(Cwd, Clean(r.path))

-----------------------------------------------------------------------------
(* Pure conversions.                                                       *)

Wrap(n) == IF n > MaxInt THEN n - 2 * (MaxInt + 1) ELSE n

\* Mutant: the line is taken as an offset.
applyLineOffset(n, line, limit) ==
  LET start == IF line > 0 THEN IF line < n THEN line ELSE n ELSE 0
      end == IF limit > 0 /\ Wrap(start + limit) < n THEN Wrap(start + limit) ELSE n
  IN [start |-> start, end |-> end]

\* The slice lines[start:end] of a file of n lines; 0 is an absent argument.
applyLineLimit(n, line, limit) ==
  LET start == IF line > 0 THEN IF line - 1 < n THEN line - 1 ELSE n ELSE 0
      end == IF limit > 0 /\ Wrap(start + limit) < n THEN Wrap(start + limit) ELSE n
  IN [start |-> start, end |-> end]

\* Mutant: absent ids are numbered by the questions that parsed.
parseByCount(raw) ==
  LET ok(i) == Cardinality({j \in 1..i : raw[j].ok})
  IN {[raw |-> i, id |-> IF raw[i].id = 0 THEN ok(i) ELSE raw[i].id] :
        i \in {j \in 1..Len(raw) : raw[j].ok}}

\* parseUserInputRequest: a raw entry that is no object is skipped; an absent
\* id (0) becomes question_<position in the raw list>.
parseUserInputRequest(raw) ==
  {[raw |-> i, id |-> IF raw[i].id = 0 THEN i ELSE raw[i].id] :
     i \in {j \in 1..Len(raw) : raw[j].ok}}

\* buildUserInputResultPayload: ids of known questions with non-empty answers.
buildUserInputResultPayload(questions, answered) ==
  {q.id : q \in questions} \cap answered

-----------------------------------------------------------------------------
(* A request arrives.                                                      *)

\* The handler forgets its last request; a is the answer so far.
Arrive(p, r, a) ==
  /\ at[p] \in {"idle", "done"} /\ served < MaxRequests
  /\ served' = served + 1
  /\ req' = [req EXCEPT ![p] = r]
  /\ answer' = [answer EXCEPT ![p] = a]
  /\ objected' = [objected EXCEPT ![p] = FALSE]
  /\ denials' = [denials EXCEPT ![p] = 0]
  /\ UNCHANGED <<config, fired, disk, ran>>

Goto(p, place) == at' = [at EXCEPT ![p] = place]

\* The handler returns, and with it go the variables of its last dispatch.
Finish(p) ==
  /\ Goto(p, "done")
  /\ event' = [event EXCEPT ![p] = "none"]
  /\ pos' = [pos EXCEPT ![p] = <<1, 0>>]
  /\ merged' = [merged EXCEPT ![p] = "allow"]

\* The start of hookDispatcher.dispatch for event e.
Dispatch(p, e) ==
  /\ Goto(p, "hooks")
  /\ event' = [event EXCEPT ![p] = e]
  /\ pos' = [pos EXCEPT ![p] = <<1, 0>>]
  /\ merged' = [merged EXCEPT ![p] = "allow"]

\* Answered at once: no step of it can be seen by another goroutine.
Answered(p, r, a) ==
  /\ Arrive(p, r, a) /\ Goto(p, "done")
  /\ UNCHANGED <<hookVars, mu, toolCallStart, open>>

RequestPermission(p, r) ==
  /\ r.kind = "permission"
  /\ \/ /\ ~HooksOn /\ ~config.user /\ config.allow \cup config.deny = {}
        /\ Answered(p, r, DefaultReject(r))
     \/ /\ HooksOn \/ config.user \/ config.allow \cup config.deny # {}
        /\ Arrive(p, r, NoAnswer)
        /\ Dispatch(p, "PermissionRequest")
        /\ UNCHANGED <<mu, toolCallStart, open>>

\* The strict boundary comes before the hooks and the callback.
WriteTextFile(p, r) ==
  /\ r.kind = "write"
  /\ \/ /\ config.strict /\ ~assertWithinCwd(r)
        /\ Answered(p, r, Error)
     \/ /\ config.strict => assertWithinCwd(r)
        /\ Arrive(p, r, NoAnswer)
        /\ Dispatch(p, "FileChanged")
        /\ UNCHANGED <<mu, toolCallStart, open>>

\* A slice with end < start panics.
ReadTextFile(p, r) ==
  /\ r.kind = "read"
  /\ LET w == applyLineLimit(r.lines, r.line, r.limit)
     IN \/ ~r.abs /\ Answered(p, r, Error)
        \/ r.abs /\ w.start <= w.end
           /\ Answered(p, r, [out |-> "lines", opt |-> (w.start + 1)..w.end])
        \/ r.abs /\ w.start > w.end /\ Answered(p, r, [out |-> "panic", opt |-> 0])

UnstableCreateElicitation(p, r) ==
  /\ r.kind = "elicit"
  /\ \E o \in IF config.user THEN {"accept", "decline", "cancel", "error"}
                             ELSE {"decline"} :
       Answered(p, r, [out |-> o, opt |-> 0])

\* The AskUserQuestion tool: the user answers some ids, perhaps unknown ones.
AskUserQuestion(p, r) ==
  /\ r.kind = "ask" /\ config.user
  /\ LET qs == parseUserInputRequest(r.raw)
     IN \/ Answered(p, r, Error)
        \/ \E ids \in SUBSET (0..(Len(r.raw) + 1)) :
             /\ qs # {} /\ buildUserInputResultPayload(qs, ids) # {}
             /\ Answered(p, r, [out |-> "payload", asked |-> ids,
                                opt |-> buildUserInputResultPayload(qs, ids)])

\* The caller decodes a result: its text is prose around a value, fenced or not.
DecodeStructuredOutput(p, r) ==
  /\ r.kind = "decode"
  /\ Answered(p, r, Decode(r.from, r.metas, r.text))

\* deliver takes s.mu; observeInLock notes a tool call and fires PreToolUse.
ToolCall(p, r) ==
  /\ r.kind = "toolcall" /\ mu = None
  /\ Arrive(p, r, NoAnswer)
  /\ mu' = p
  /\ toolCallStart' = toolCallStart \cup {r.id}
  /\ open' = open \cup {r.id}
  /\ Dispatch(p, "PreToolUse")

Terminal == {"completed", "failed"}
PostEvent(r) == IF r.status = "failed" THEN "PostToolUseFailure" ELSE "PostToolUse"

\* Mutant: the early return of a progress update keeps the mutex.
ToolCallUpdateKeepsLock(p, r) ==
  /\ r.kind = "toolupdate" /\ mu = None
  /\ mu' = p
  /\ \/ r.status \notin Terminal /\ Arrive(p, r, NoAnswer) /\ Goto(p, "done")
        /\ UNCHANGED hookVars
     \/ r.status \in Terminal /\ Arrive(p, r, NoAnswer) /\ Dispatch(p, PostEvent(r))
  /\ UNCHANGED <<toolCallStart, open>>

\* A progress update has nothing to observe.
ToolCallUpdate(p, r) ==
  /\ r.kind = "toolupdate" /\ mu = None
  /\ \/ r.status \notin Terminal /\ Answered(p, r, NoAnswer)
     \/ /\ r.status \in Terminal /\ Arrive(p, r, NoAnswer) /\ Dispatch(p, PostEvent(r))
        /\ mu' = p
        /\ UNCHANGED <<toolCallStart, open>>

\* Another call of the session that takes s.mu: it waits, then has its turn.
LockCalled(p, r) ==
  /\ r.kind = "call"
  /\ Arrive(p, r, NoAnswer) /\ Goto(p, "wait")
  /\ UNCHANGED <<hookVars, mu, toolCallStart, open>>

LockTaken(p) ==
  /\ at[p] = "wait" /\ mu = None
  /\ Goto(p, "done")
  /\ UNCHANGED <<config, served, req, hookVars, answer, fired, mu, toolCallStart,
                 disk, objected, denials, ran, open>>

-----------------------------------------------------------------------------
(* hookDispatcher.dispatch.                                                *)

Matchers(p) == config.hooks[event[p]]
Matcher(p)  == Matchers(p)[pos[p][1]]
Flag(p)     == <<event[p], pos[p][1]>>

\* The string the matcher is compared with; "" always matches.
Primary(p) == CASE req[p].kind = "permission" -> req[p].tool
                [] req[p].kind = "write"      -> "path"
                [] OTHER                      -> req[p].title

Matches(p) == Matcher(p).only = {} \/ Primary(p) = "" \/ Primary(p) \in Matcher(p).only

\* Mutant: the flag is not set by the goroutine that finds it clear.
EnterMatcherUnclaimed(p) ==
  /\ at[p] = "hooks" /\ pos[p][1] <= Len(Matchers(p)) /\ pos[p][2] = 0
  /\ Matches(p)
  /\ Matcher(p).once => Flag(p) \notin fired
  /\ pos' = [pos EXCEPT ![p][2] = 1]
  /\ ran' = IF Matcher(p).once THEN ran \cup {<<Flag(p), served>>} ELSE ran
  /\ UNCHANGED <<config, served, at, req, event, merged, answer, fired, mu,
                 toolCallStart, disk, objected, denials, open>>

\* A Once matcher is entered by the goroutine whose CompareAndSwap succeeds.
EnterMatcher(p) ==
  /\ at[p] = "hooks" /\ pos[p][1] <= Len(Matchers(p)) /\ pos[p][2] = 0
  /\ Matches(p)
  /\ Matcher(p).once => Flag(p) \notin fired
  /\ pos' = [pos EXCEPT ![p][2] = 1]
  /\ fired' = IF Matcher(p).once THEN fired \cup {Flag(p)} ELSE fired
  /\ ran' = IF Matcher(p).once THEN ran \cup {<<Flag(p), served>>} ELSE ran
  /\ UNCHANGED <<config, served, at, req, event, merged, answer, mu, toolCallStart,
                 disk, objected, denials, open>>

SkipMatcher(p) ==
  /\ at[p] = "hooks" /\ pos[p][1] <= Len(Matchers(p)) /\ pos[p][2] = 0
  /\ ~Matches(p) \/ (Matcher(p).once /\ Flag(p) \in fired)
  /\ pos' = [pos EXCEPT ![p][1] = @ + 1]
  /\ UNCHANGED <<config, served, at, req, event, merged, answer, fired, mu,
                 toolCallStart, disk, objected, denials, ran, open>>

\* Mutant: the last callback wins.
MergeLast(was, out) == out

\* The first block wins; later callbacks run but cannot lift it.
Merge(was, out) == IF was = "allow" THEN out ELSE was

\* A callback returns; an error ends the dispatch, a block does not.
RunHook(p, out) ==
  /\ at[p] = "hooks" /\ pos[p][1] <= Len(Matchers(p)) /\ pos[p][2] # 0
  /\ merged' = [merged EXCEPT ![p] = IF out = "error" THEN out ELSE Merge(@, out)]
  /\ pos' = [pos EXCEPT ![p] =
               CASE out = "error"                -> <<Len(Matchers(p)) + 1, 0>>
                 [] out # "error" /\ @[2] < Matcher(p).hooks -> <<@[1], @[2] + 1>>
                 [] OTHER                        -> <<@[1] + 1, 0>>]
  /\ objected' = [objected EXCEPT ![p] =
                    @ \/ (out # "allow" /\ event[p] \in {"PermissionRequest", "FileChanged"})]
  /\ UNCHANGED <<config, served, at, req, event, answer, fired, mu, toolCallStart,
                 disk, denials, ran, open>>

Dispatched(p, e) == at[p] = "hooks" /\ event[p] = e /\ pos[p][1] > Len(Matchers(p))

-----------------------------------------------------------------------------
(* What follows a dispatch.                                                *)

\* Mutant: the hooks are told only of a rejection the callback made.
DenyQuietly(p, a) ==
  /\ answer' = [answer EXCEPT ![p] = a]
  /\ Finish(p)
  /\ UNCHANGED denials

\* The answer is known and is a denial: fireHookPermissionDenied.
Deny(p, a) ==
  /\ answer' = [answer EXCEPT ![p] = a]
  /\ denials' = [denials EXCEPT ![p] = @ + 1]
  /\ Dispatch(p, "PermissionDenied")

\* A hook that blocked or failed: synthReject, returned with the hook's error.
HookDecides(p) ==
  /\ Dispatched(p, "PermissionRequest")
  /\ \/ merged[p] = "allow" /\ Goto(p, "decide") /\ UNCHANGED <<hookVars, answer, denials>>
     \/ merged[p] = "block" /\ Deny(p, synthReject(req[p]))
     \/ merged[p] = "error" /\ Deny(p, Error)
  /\ UNCHANGED <<config, served, req, fired, mu, toolCallStart, disk, objected, ran, open>>

Decide(p) ==
  /\ at[p] = "decide"
  /\ \E a \in Composed(req[p]) :
       \/ isRejectOutcome(req[p], a) /\ Deny(p, a)
       \/ /\ ~isRejectOutcome(req[p], a)
          /\ answer' = [answer EXCEPT ![p] = a] /\ Finish(p)
          /\ UNCHANGED denials
  /\ UNCHANGED <<config, served, req, fired, mu, toolCallStart, disk, objected, ran, open>>

\* PermissionDenied only notifies: whatever its hooks said, the answer goes out.
DeniedNotified(p) ==
  /\ Dispatched(p, "PermissionDenied")
  /\ Finish(p)
  /\ UNCHANGED <<config, served, req, answer, fired, mu, toolCallStart, disk,
                 objected, denials, ran, open>>

\* The callback of the user, or defaultFsWrite: absolute, mkdir, write.  Either
\* may fail.
HookPermitsWrite(p) ==
  /\ Dispatched(p, "FileChanged")
  /\ Finish(p)
  /\ \/ /\ merged[p] = "allow" /\ (config.user \/ req[p].abs)
        /\ disk' = disk \cup {Clean(req[p].path)}
        /\ answer' = [answer EXCEPT ![p] = [out |-> "written", opt |-> 0]]
     \/ /\ answer' = [answer EXCEPT ![p] = Error]
        /\ UNCHANGED disk
  /\ UNCHANGED <<config, served, req, fired, mu, toolCallStart, objected,
                 denials, ran, open>>

\* A tool call that arrives in a terminal state fires the Post hooks too.
PreToolUseFired(p) ==
  /\ Dispatched(p, "PreToolUse")
  /\ \/ req[p].status \in Terminal /\ Dispatch(p, PostEvent(req[p])) /\ UNCHANGED mu
     \/ req[p].status \notin Terminal /\ Finish(p) /\ mu' = None
  /\ UNCHANGED <<config, served, req, answer, fired, toolCallStart, disk, objected,
                 denials, ran, open>>

\* emitToolCallTerminal, then the mutex is released.
ToolCallEnds(p) ==
  /\ Dispatched(p, "PostToolUse") \/ Dispatched(p, "PostToolUseFailure")
  /\ Finish(p)
  /\ mu' = None
  /\ toolCallStart' = toolCallStart \ {req[p].id}
  /\ open' = open \ {req[p].id}
  /\ UNCHANGED <<config, served, req, answer, fired, disk, objected,
                 denials, ran>>

Serve(p) ==
  \/ EnterMatcher(p) \/ SkipMatcher(p)
  \/ \E out \in {"allow", "block", "error"} : RunHook(p, out)
  \/ HookDecides(p) \/ Decide(p) \/ DeniedNotified(p) \/ HookPermitsWrite(p)
  \/ PreToolUseFired(p) \/ ToolCallEnds(p) \/ LockTaken(p)

Receive(p) == \E r \in config.requests :
  \/ RequestPermission(p, r) \/ WriteTextFile(p, r) \/ ReadTextFile(p, r)
  \/ UnstableCreateElicitation(p, r) \/ AskUserQuestion(p, r)
  \/ DecodeStructuredOutput(p, r)
  \/ ToolCall(p, r) \/ ToolCallUpdate(p, r) \/ LockCalled(p, r)

Next == \E p \in Handlers : Receive(p) \/ Serve(p)

\* Callbacks and hooks return, and the mutex is given to every waiter in turn
\* (Go's mutex queues them).
Fairness == \A p \in Handlers : WF_vars(Serve(p)) /\ SF_vars(LockTaken(p))

Spec == Init /\ [][Next]_vars /\ Fairness

-----------------------------------------------------------------------------
(* Properties.                                                             *)

\* A decision a PermissionRequest hook objected to, by blocking or by failing,
\* is never answered with an allow option, and a write a FileChanged hook
\* objected to neither reaches the callback nor the disk, whatever the later
\* hooks and callbacks say.
ObjectionHolds ==
  \A p \in Handlers : at[p] = "done" /\ objected[p] =>
    /\ req[p].kind = "permission" => ~Allowed(req[p], answer[p])
    /\ req[p].kind = "write" => answer[p].out = "error"

\* WithDisallowedTools wins: a tool on the deny list is never allowed, on the
\* allow list or not, whatever the user's callback would say.
DenyListWins ==
  \A p \in Handlers :
    at[p] = "done" /\ req[p].kind = "permission" /\ req[p].tool \in config.deny
      => ~Allowed(req[p], answer[p])

\* When the agent names its options for their kinds, the PermissionDenied hooks
\* are told of exactly the denials, once each, whichever layer denied; a failing
\* callback is an error, not a denial.
DenialsReported ==
  \A p \in Handlers :
    LET r == req[p]
        honest == \A i \in 1..Len(r.options) :
          r.options[i].named <=> r.options[i].kind \in {"reject_once", "reject_always"}
        denial == \/ answer[p].out = "cancelled"
                  \/ answer[p].out = "selected" /\ ~Allowed(r, answer[p])
    IN at[p] = "done" /\ r.kind = "permission" /\ HooksOn /\ honest =>
         denials[p] = IF denial \/ objected[p] THEN 1 ELSE 0

\* A Once matcher is entered by one dispatch in the client's life, however many
\* requests are served at the same time.
OnceIsOnce ==
  \A e \in {x[1] : x \in ran} : Cardinality({x \in ran : x[1] = e}) = 1

\* With the strict boundary every file written lies in the working directory,
\* hooks and callback configured or not.
WritesStayInside == config.strict => \A d \in disk : Under(Cwd, d)

\* What was refused, by a hook, by the deny list or by the boundary, does not
\* happen.
RefusalsHold == ObjectionHolds /\ DenyListWins /\ WritesStayInside

\* fs/read_text_file returns exactly the lines asked for, and fails only when
\* the last of them is beyond the range of int.
ReadIsExact ==
  \A p \in Handlers : at[p] = "done" /\ req[p].kind = "read" /\ req[p].abs =>
    LET r == req[p]
        first == IF r.line > 0 THEN r.line ELSE 1
        asked == {i \in 1..r.lines : i >= first /\ (r.limit > 0 => i < first + r.limit)}
    IN IF answer[p].out = "panic" THEN first + r.limit > MaxInt + 1
                                  ELSE answer[p].opt = asked

\* The agent finds the answer to a question under the id it gave it or under the
\* question's position in its own list, entries that could not be parsed
\* notwithstanding.
AnswersKeyed ==
  \A p \in Handlers : answer[p].out = "payload" =>
    LET raw == req[p].raw
        Id(i) == IF raw[i].id = 0 THEN i ELSE raw[i].id
    IN answer[p].opt =
         {Id(i) : i \in {j \in 1..Len(raw) : raw[j].ok /\ Id(j) \in answer[p].asked}}

\* The first _meta block decides, and one that does not convert is never papered
\* over; the text is looked at when there is none, and by a query only.
DecodeExact ==
  \A p \in Handlers : at[p] = "done" /\ req[p].kind = "decode" =>
    LET r == req[p]
        blocks == {i \in 1..Len(r.metas) : r.metas[i] # "none"}
    IN /\ \A i \in blocks : (\A k \in blocks : i <= k) =>
            answer[p].out = IF r.metas[i] = "fits" THEN "meta" ELSE "mismatch"
       /\ blocks = {} => IF r.from = "query" THEN TextDecoded(r.text, answer[p])
                                             ELSE answer[p] = Missing

\* What the agent reads, what it is told the user answered and what the caller
\* decodes is exact.
ConversionsExact == ReadIsExact /\ AnswersKeyed /\ DecodeExact

\* Every request is answered and every call gets the mutex, although hooks run
\* with it held: no path keeps it.
EveryRequestEnds ==
  \A p \in Handlers : at[p] \notin {"idle", "done"} ~> at[p] = "done"
=============================================================================
