--------------------------- MODULE ResilientQuery ---------------------------
(***************************************************************************)
(* ResilientQuery (resilient.go): the retry loop around Query.  Each       *)
(* attempt is a whole Query of TurnStream, with a client of its own; the   *)
(* loop classifies its error with RetryPolicy, announces the retry and     *)
(* sleeps.  loop = "off" leaves TurnStream's calls as they are.            *)
(***************************************************************************)
EXTENDS TurnStream, RetryPolicy

CONSTANTS
  Policies,  \* policies callers pass, before they are normalised
  Errors     \* failures the agent or the transport may report

\* The fields of RetryPolicy; JitterRatio is documented as "0.0-1.0".
ASSUME PolicyAssumption ==
  \A p \in Policies :
    /\ p.retries \in Int /\ p.base \in Int /\ p.max \in Int /\ p.jitter \in Int
    /\ p.base <= DurMax /\ p.max <= DurMax /\ p.jitter <= 100

\* A retry-after that parseRetryAfterSeconds finds is not negative; 0 is none.
ASSUME ErrorAssumption ==
  Errors \subseteq [is : STRING, deadline : BOOLEAN, code : Int, msg : SUBSET STRING, hint : Nat]

VARIABLES
  loop,      \* "off", "check", "running", "evaluate", "sleep", "returned"
  policy,    \* the normalised policy
  attempt,   \* the loop variable
  failure,   \* the error of the last attempt, wrapped
  delay,     \* decision.RecommendedDelay
  announced, \* OnRetry calls
  executed,  \* prompts sent to an agent
  answer     \* "none", "result", "error", "ctx" or "exhausted"

loopVars == <<loop, policy, attempt, failure, delay, announced, executed, answer>>
allVars  == <<vars, loopVars>>

NoError == [is |-> "", deadline |-> FALSE, code |-> NoCode, msg |-> {}, hint |-> 0]

ResilientInit ==
  /\ Init
  /\ \/ loop = "off" /\ policy = Default
     \/ loop = "check" /\ mode = "query" /\ \E p \in Policies : policy = NormalisePolicy(p)
  /\ attempt = 0 /\ failure = NoError /\ delay = 0
  /\ announced = 0 /\ executed = 0 /\ answer = "none"

\* The call returns.
Returns(a) == loop' = "returned" /\ answer' = a

\* for attempt <= MaxRetries: ctx.Err, then Query with a fresh client.
LoopChecks ==
  /\ loop = "check"
  /\ \/ attempt > policy.retries /\ Returns("exhausted") /\ UNCHANGED vars
     \/ attempt <= policy.retries /\ ctx /\ Returns("ctx") /\ UNCHANGED vars
     \/ /\ attempt <= policy.retries /\ ~ctx
        /\ loop' = "running" /\ UNCHANGED answer
        /\ prompts' = <<"text">> /\ pc' = "begin" /\ client' = "none"
        /\ UNCHANGED <<mode, results, agentVars, turnVars, drainVars, ctx, notes, due>>
  /\ UNCHANGED <<policy, attempt, failure, delay, announced, executed>>

\* A step of Query; the prompt it sends is one the agent may execute.
Stepping(A) ==
  /\ loop \in {"off", "running"}
  /\ A
  /\ executed' = IF pc = "next" /\ pc' = "prompting" THEN executed + 1 ELSE executed
  /\ UNCHANGED <<loop, policy, attempt, failure, delay, announced, answer>>

QueryStep == Stepping(Next)

\* The error a Query ended with: ErrCancelled, the bare context error, or
\* whatever was reported, wrapped.
FailureOf(e) ==
  CASE e = "cancelled" -> {[NoError EXCEPT !.is = "cancelled"]}
    [] e = "ctx"       -> {NoError}
    [] OTHER           -> {WrapACPErr(x) : x \in Errors}

\* The client and session of the attempt are gone with it.
QueryReturns ==
  /\ loop = "running" /\ pc = "done"
  /\ LET e == results[Len(results)].err
     IN \/ e = "none" /\ Returns("result") /\ UNCHANGED failure
        \/ /\ e # "none" /\ failure' \in FailureOf(e)
           /\ loop' = "evaluate" /\ UNCHANGED answer
  /\ results' = <<>> /\ emitted' = <<>> /\ chan' = <<>> /\ open' = TRUE
  /\ turns' = NoTurns /\ cancel' = FALSE
  /\ UNCHANGED <<mode, prompts, client, pc, ctx, turnVars, drainVars, notes, due,
                 policy, attempt, delay, announced, executed>>

\* EvaluateRetry; OnRetry runs before the sleep.
Evaluate ==
  /\ loop = "evaluate"
  /\ \/ /\ ~ShouldRetry(failure, attempt + 1, policy)
        /\ Returns("error")
        /\ UNCHANGED <<delay, announced>>
     \/ /\ ShouldRetry(failure, attempt + 1, policy)
        /\ delay' \in Delays(failure, attempt + 1, policy)
        /\ announced' = announced + 1
        /\ loop' = "sleep" /\ UNCHANGED answer
  /\ UNCHANGED <<vars, policy, attempt, failure, executed>>

\* Mutant: the sleep does not listen to the context.
SleepDeaf ==
  /\ loop = "sleep" /\ (delay <= 0 \/ ~ctx)
  /\ loop' = "check" /\ attempt' = attempt + 1 /\ delay' = 0
  /\ UNCHANGED <<vars, policy, failure, announced, executed, answer>>

\* sleepOrCancel: at once when there is nothing to wait for, else the timer
\* or the context, whichever the select takes.
Sleep ==
  /\ loop = "sleep"
  /\ \/ loop' = "check" /\ attempt' = attempt + 1 /\ UNCHANGED answer
     \/ delay > 0 /\ ctx /\ Returns("ctx") /\ UNCHANGED attempt
  /\ delay' = 0 /\ failure' = NoError
  /\ UNCHANGED <<vars, policy, announced, executed>>

\* The context may also end between two attempts.
CtxEndsBetween ==
  /\ loop \in {"check", "evaluate", "sleep"} /\ ~ctx
  /\ ctx' = TRUE
  /\ UNCHANGED <<callVars, agentVars, turnVars, drainVars, pc, notes, due, loopVars>>

ResilientNext ==
  LoopChecks \/ QueryStep \/ QueryReturns \/ Evaluate \/ Sleep \/ CtxEndsBetween

\* The loop, the call it makes and the replay are one goroutine, the drainer
\* another; that Prompt returns is TurnStream's assumption.
ResilientSpec ==
  /\ ResilientInit /\ [][ResilientNext]_allVars
  /\ WF_allVars(LoopChecks \/ QueryReturns \/ Evaluate \/ Sleep
                \/ Stepping(Caller \/ Replay))
  /\ WF_allVars(Stepping(PromptReturns /\ (ctx \/ ~open)))
  /\ WF_allVars(Stepping(Drain))

-----------------------------------------------------------------------------
(* Properties.                                                             *)

\* resilient.go: MaxRetries retries are MaxRetries+1 attempts in all, and every
\* prompt an agent may have executed again was announced through OnRetry.
RetriesBounded ==
  loop # "off" => /\ announced <= policy.retries
                  /\ executed <= announced + 1

\* The loop never runs out: the last failure is returned as it is, so the
\* return after the loop, which wraps it as exhausted, is not reached.
NeverExhausted == answer # "exhausted"

\* "Authentication, capability, and CLI-not-found errors surface immediately":
\* nor is a cancelled prompt, or one that is too long, sent again, and the
\* action ClassifyError recommends to the caller is the one the loop takes.
FatalNotRetried ==
  loop = "sleep" => /\ failure.is \notin {"auth", "cancelled", "capability", "cli"}
                    /\ failure.code \notin {401, 403}
                    /\ ~PromptTooLong(failure)
                    /\ RecoveryAction(failure) = "retry_with_backoff"

\* No delay exceeds the larger of BaseDelay and MaxDelay, and, unless the hint
\* or the doubling leaves the range of a Duration, there is one.
DelayInRange ==
  loop = "sleep" =>
    /\ delay <= policy.max \/ delay <= policy.base
    /\ failure.hint <= DurMax /\ 2 * policy.max <= DurMax /\ 2 * policy.base <= DurMax
         => delay > 0

\* ResilientQuery's promises: bounded and announced retries, of retryable errors
\* only, after a delay in range.
RetriesSound == RetriesBounded /\ NeverExhausted /\ FatalNotRetried /\ DelayInRange

\* An attempt starts only after the one before has closed its client and ended
\* its goroutines.
AttemptsDoNotOverlap ==
  loop \in {"check", "evaluate", "sleep", "returned"} /\ pc # "begin" =>
    pc = "done" /\ client # "up" /\ drainer \in {"none", "gone"}

\* No call and no attempt leaves a client or a goroutine behind.
CallsCleanUp == NothingLeftBehind /\ AttemptsDoNotOverlap

\* A call whose context ends, wherever it is, returns: a Query, stream or
\* replay with its client closed, ResilientQuery out of its loop.
CtxEndsCall == ctx ~> IF loop = "off" THEN pc = "done" ELSE loop = "returned"
=============================================================================
