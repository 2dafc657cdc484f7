------------------------ MODULE ResilientQuery_proofs ------------------------
(***************************************************************************)
(* For any prompts, notifications, capacities, limits and retry policies:  *)
(* the one-shot calls and the retry loop clean up after themselves, retry  *)
(* within bounds and return exactly what the session delivered.            *)
(***************************************************************************)
EXTENDS ResilientQuery, FiniteSetTheorems, WellFoundedInduction, TLAPS

-----------------------------------------------------------------------------
(* Calls clean up.                                                         *)

Running == {"prompting", "surface", "surfacing", "grace", "collect"}
Resting == {"begin", "started", "opened", "next", "replay", "closing", "done"}
Drained == {"none", "gone"}
Between == {"check", "evaluate", "sleep", "returned"}

\* Where the goroutines of a call may be: the drainer runs only within a turn,
\* and between the attempts of ResilientQuery the last Query is over.
Control ==
  /\ pc \in Running \cup Resting
  /\ drainer \in Drained \cup {"loop", "storing", "draining", "storingLast"}
  /\ loop \in {"off", "running"} \cup Between
  /\ pc \in Resting => drainer \in Drained
  /\ pc = "done" => client # "up"
  /\ loop \in Between => pc \in {"begin", "done"}

\* The control state at the start.
LEMMA ControlInit == ResilientInit => Control
  BY DEF ResilientInit, Init, Control, Running, Resting, Drained, Between

\* Every step of a call preserves it.
LEMMA ControlStep == Control /\ [ResilientNext]_allVars => Control'
<1> SUFFICES ASSUME Control, [ResilientNext]_allVars PROVE Control'
  OBVIOUS
<1> USE DEF Control, Running, Resting, Drained, Between
<1>1. CASE QueryStep
  <2>1. Next /\ loop \in {"off", "running"} /\ loop' = loop
    BY <1>1 DEF QueryStep, Stepping
  <2>2. CASE Begin \/ SessionOpens
    BY <2>1, <2>2 DEF Begin, SessionOpens, Fails, drainVars, callVars
  <2>3. CASE Configured
    BY <2>1, <2>3 DEF Configured, drainVars
  <2>4. CASE CloseClient
    BY <2>1, <2>4 DEF CloseClient, drainVars
  <2>5. CASE NextPrompt
    BY <2>1, <2>5 DEF NextPrompt, Fails, drainVars
  <2>6. CASE SurfaceReads \/ SurfaceWrites \/ GraceEnds
    BY <2>1, <2>6 DEF SurfaceReads, SurfaceWrites, GraceEnds, drainVars, callVars
  <2>7. CASE Collect
    BY <2>1, <2>7 DEF Collect, TurnForgotten
  <2>8. CASE PromptReturns
    BY <2>1, <2>8 DEF PromptReturns, drainVars, callVars
  <2>9. CASE Drain
    BY <2>1, <2>9 DEF Drain, DrainStops, DrainReturns, DrainReceives, DrainStores, callVars
  <2>10. CASE Replay
    BY <2>1, <2>10 DEF Replay, ReplayReceives, ReplayEnds, drainVars, callVars
  <2>11. CASE Crash \/ CtxEnds
    BY <2>1, <2>11 DEF Crash, CtxEnds, drainVars, callVars
  <2>12. ASSUME NEW n, AgentEmits(n) PROVE Control'
    BY <2>1, <2>12 DEF AgentEmits, drainVars, callVars
  <2>13. QED
    BY <2>1, <2>2, <2>3, <2>4, <2>5, <2>6, <2>7, <2>8, <2>9, <2>10, <2>11, <2>12, Zenon
    DEF Next, Caller
<1>2. CASE LoopChecks
  BY <1>2 DEF LoopChecks, Returns, vars, callVars, drainVars
<1>3. CASE QueryReturns
  BY <1>3 DEF QueryReturns, Returns, drainVars
<1>4. CASE Evaluate \/ Sleep
  BY <1>4 DEF Evaluate, Sleep, Returns, vars, callVars, drainVars
<1>5. CASE CtxEndsBetween
  BY <1>5 DEF CtxEndsBetween, loopVars, callVars, drainVars
<1>6. CASE UNCHANGED allVars
  BY <1>6 DEF allVars, vars, loopVars, callVars, drainVars
<1>7. QED
  BY <1>1, <1>2, <1>3, <1>4, <1>5, <1>6 DEF ResilientNext

\* The control invariant holds in every state.
LEMMA ControlInvariant == ResilientSpec => []Control
  BY ControlInit, ControlStep, PTL DEF ResilientSpec

\* Query, QueryStream, WithClient, LoadSessionHistory and ResilientQuery close
\* the client and end the drain goroutine on every way out.
THEOREM CallsAlwaysCleanUp == ResilientSpec => []CallsCleanUp
<1>1. Control => CallsCleanUp
  BY DEF Control, CallsCleanUp, NothingLeftBehind, AttemptsDoNotOverlap, Running,
     Resting, Drained, Between
<1>2. QED
  BY <1>1, ControlInvariant, PTL

-----------------------------------------------------------------------------
(* The delay.                                                              *)

\* A set of naturals that is not empty has a least element.
LEMMA LeastElement ==
  ASSUME NEW S, S \subseteq Nat, S # {}
  PROVE  \E m \in S : \A k \in S : m <= k
<1> DEFINE R == OpToRel(<, Nat)
<1>1. IsWellFoundedOn(R, Nat)
  BY NatLessThanWellFounded, Zenon
<1>2. \A k, m \in Nat : k < m => <<k, m>> \in R
  BY DEF OpToRel
<1> HIDE DEF R
<1>3. PICK m \in S : \A k \in S : ~ (<<k, m>> \in R)
  BY <1>1, WFMin
<1>4. \A k \in S : ~ (k < m)
  BY <1>2, <1>3
<1>5. QED
  BY <1>3, <1>4

Policy == [retries : Nat \ {0}, base : 1..DurMax, max : 1..DurMax, jitter : 1..100]

\* One turn of computeDelay's loop.
Doubled(p, i, prev) ==
  IF i = 1 THEN p.base
  ELSE IF i > 2 /\ prev = p.max THEN p.max
  ELSE IF Wrap(2 * prev) >= p.max THEN p.max ELSE Wrap(2 * prev)

\* The loop computes what its turns say: the recursion of Backoff is well founded.
LEMMA BackoffUnfolds ==
  ASSUME NEW p, NEW n \in Nat \ {0}
  PROVE  \E d : /\ d = [i \in 1..n |-> Doubled(p, i, d[i - 1])]
                /\ Backoff(p, n) = d[n]
<1> DEFINE Good(k) == \E d : d = [i \in 1..k |-> Doubled(p, i, d[i - 1])]
           S == {k \in Nat : ~Good(k)}
<1>1. S = {}
  <2> SUFFICES ASSUME S # {} PROVE FALSE
    OBVIOUS
  <2>1. PICK m \in S : \A k \in S : m <= k
    <3>1. S \subseteq Nat
      OBVIOUS
    <3> HIDE DEF S
    <3>2. QED
      BY <3>1, LeastElement
  <2>2. m # 0
    <3>1. Good(0)
      <4> DEFINE e == [i \in 1..0 |-> 0]
      <4>1. e = [i \in 1..0 |-> Doubled(p, i, e[i - 1])]
        OBVIOUS
      <4>2. QED
        BY <4>1
    <3>2. QED
      BY <2>1, <3>1
  <2>3. m \in Nat /\ m - 1 \in Nat /\ Good(m - 1)
    BY <2>1, <2>2
  <2>4. PICK d : d = [i \in 1..(m - 1) |-> Doubled(p, i, d[i - 1])]
    BY <2>3
  <2> DEFINE e == [i \in 1..m |-> IF i <= m - 1 THEN d[i] ELSE Doubled(p, m, d[m - 1])]
  <2>5. \A i \in 1..m : e[i] = Doubled(p, i, e[i - 1])
    <3> SUFFICES ASSUME NEW i \in 1..m PROVE e[i] = Doubled(p, i, e[i - 1])
      OBVIOUS
    <3>1. CASE i = 1
      <4>1. e[1] = p.base
        <5>1. CASE m = 1
          BY <2>3, <5>1 DEF Doubled
        <5>2. CASE m # 1
          <6>1. 1 \in 1..(m - 1)
            BY <2>2, <2>3, <5>2
          <6>2. d[1] = Doubled(p, 1, d[1 - 1])
            BY <2>4, <6>1
          <6>3. QED
            BY <2>3, <6>1, <6>2 DEF Doubled
        <5>3. QED
          BY <5>1, <5>2
      <4>2. QED
        BY <3>1, <4>1 DEF Doubled
    <3>2. CASE i # 1
      <4>1. i - 1 \in 1..(m - 1) /\ e[i - 1] = d[i - 1]
        BY <2>3, <3>2
      <4>2. CASE i <= m - 1
        <5>1. d[i] = Doubled(p, i, d[i - 1])
          BY <2>3, <2>4, <4>2
        <5>2. QED
          BY <2>3, <4>1, <4>2, <5>1
      <4>3. CASE ~(i <= m - 1)
        <5>1. i = m
          BY <2>3, <4>3
        <5>2. QED
          BY <2>3, <4>1, <4>3, <5>1
      <4>4. QED
        BY <4>2, <4>3
    <3>3. QED
      BY <3>1, <3>2
  <2>6. e = [i \in 1..m |-> Doubled(p, i, e[i - 1])]
    <3>1. e = [i \in 1..m |-> e[i]]
      OBVIOUS
    <3> HIDE DEF e
    <3>2. QED
      BY <2>5, <3>1
  <2>7. QED
    BY <2>1, <2>6
<1>2. Good(n)
  BY <1>1
<1> DEFINE d == CHOOSE d : d = [i \in 1..n |-> Doubled(p, i, d[i - 1])]
<1>3. d = [i \in 1..n |-> Doubled(p, i, d[i - 1])]
  BY <1>2
<1>4. Backoff(p, n) = d[n]
  BY Zenon DEF Backoff, Doubled
<1>5. QED
  BY <1>3, <1>4

\* Durations wrap around to integers, and those in range stay as they are.
LEMMA WrapRange ==
  ASSUME NEW x \in Int
  PROVE  /\ Wrap(x) \in Int
         /\ x \in 0..DurMax => Wrap(x) = x
<1> DEFINE m == 2 * (DurMax + 1)
           a == x + DurMax + 1
<1>1. m \in Nat \ {0} /\ a \in Int /\ (x \in 0..DurMax => 0 <= a /\ a < m)
  BY DurAssumption
<1>2. Wrap(x) = (a % m) - DurMax - 1
  BY DEF Wrap
<1> HIDE DEF m
<1>3. a % m \in Int /\ (0 <= a /\ a < m => a % m = a)
  <2> HIDE DEF a
  <2>1. QED
    BY <1>1
<1>4. QED
  BY <1>1, <1>2, <1>3, DurAssumption

\* With room for one more doubling the back-off never turns negative.
Roomy(p) == 2 * p.max <= DurMax /\ 2 * p.base <= DurMax

\* The back-off is the base or within the cap and, with room, positive.
LEMMA BackoffBounds ==
  ASSUME NEW p \in Policy, NEW n \in Nat \ {0}
  PROVE  /\ Backoff(p, n) \in Int
         /\ Backoff(p, n) <= p.max \/ Backoff(p, n) <= p.base
         /\ Roomy(p) => Backoff(p, n) > 0
<1>1. PICK d : /\ d = [i \in 1..n |-> Doubled(p, i, d[i - 1])]
               /\ Backoff(p, n) = d[n]
  BY BackoffUnfolds
<1>2. \A i \in 1..n : d[i] = Doubled(p, i, d[i - 1])
  BY <1>1
<1>3. p.max \in 1..DurMax /\ p.base \in 1..DurMax /\ DurMax \in Nat
  BY DurAssumption DEF Policy
<1> DEFINE Good(x) == /\ x \in Int
                      /\ x <= p.max \/ x <= p.base
                      /\ Roomy(p) => x > 0
           Bad == {i \in 1..n : ~Good(d[i])}
<1>4. Good(p.base) /\ Good(p.max)
  BY <1>3
<1>5. ASSUME NEW x \in Int, Good(x), NEW i \in Nat \ {0} PROVE Good(Doubled(p, i, x))
  <2>1. 2 * x \in Int /\ Wrap(2 * x) \in Int
    BY WrapRange
  <2>2. Roomy(p) => Wrap(2 * x) > 0
    <3> SUFFICES ASSUME Roomy(p) PROVE Wrap(2 * x) > 0
      OBVIOUS
    <3>1. 2 * x \in 0..DurMax /\ 2 * x > 0
      BY <1>3, <1>5 DEF Roomy
    <3>2. QED
      BY <3>1, WrapRange
  <2> DEFINE w == Wrap(2 * x)
  <2>3. Doubled(p, i, x) \in {p.base, p.max} \/ (~(w >= p.max) /\ Doubled(p, i, x) = w)
    BY DEF Doubled
  <2> HIDE DEF w
  <2>4. w \in Int /\ (Roomy(p) => w > 0)
    BY <2>1, <2>2 DEF w
  <2>5. ~(w >= p.max) => w <= p.max
    BY <1>3, <2>4
  <2>6. QED
    BY <1>4, <2>3, <2>4, <2>5
<1>6. Bad = {}
  <2> SUFFICES ASSUME Bad # {} PROVE FALSE
    OBVIOUS
  <2>1. PICK m \in Bad : \A k \in Bad : m <= k
    <3>1. Bad \subseteq Nat
      OBVIOUS
    <3> HIDE DEF Bad
    <3>2. QED
      BY <3>1, LeastElement
  <2>2. m \in 1..n /\ ~Good(d[m])
    BY <2>1
  <2>3. CASE m = 1
    <3>1. d[1] = p.base
      BY <1>2, <2>2, <2>3 DEF Doubled
    <3>2. QED
      BY <1>4, <2>2, <2>3, <3>1
  <2>4. CASE m # 1
    <3>1. m - 1 \in 1..n /\ m \in Nat \ {0} /\ ~(m <= m - 1)
      BY <2>2, <2>4
    <3>2. Good(d[m - 1])
      BY <2>1, <3>1
    <3>3. d[m] = Doubled(p, m, d[m - 1])
      BY <1>2, <2>2
    <3>4. d[m - 1] \in Int
      BY <3>2
    <3> HIDE DEF Good
    <3>5. Good(d[m])
      BY <1>5, <3>1, <3>2, <3>3, <3>4
    <3>6. QED
      BY <2>2, <3>5
  <2>5. QED
    BY <2>3, <2>4
<1>7. Good(d[n])
  BY <1>6
<1>8. QED
  BY <1>1, <1>7

\* applyJitter stays within the same bounds.
LEMMA JitterBounds ==
  ASSUME NEW p \in Policy, NEW b \in Int, b <= p.max \/ b <= p.base,
         NEW x \in Jitter(b, p)
  PROVE  /\ x \in Int
         /\ x <= p.max \/ x <= p.base
         /\ Roomy(p) /\ b > 0 => x > 0
<1>1. p.max \in 1..DurMax /\ p.base \in 1..DurMax /\ DurMax \in Nat /\ p.jitter \in 1..100
  BY DurAssumption DEF Policy
<1>2. CASE x = b
  BY <1>2
<1>3. ASSUME NEW k \in 0..((b * p.jitter) \div 100), b > 0,
             x = IF Wrap(b + k) > p.max THEN p.max ELSE Wrap(b + k)
      PROVE  /\ x \in Int
             /\ x <= p.max \/ x <= p.base
             /\ Roomy(p) /\ b > 0 => x > 0
  <2>1. k \in Nat /\ k <= b
    <3> DEFINE j == p.jitter
               t == b * j
    <3>1. j \in 1..100 /\ b \in Nat
      BY <1>1, <1>3
    <3>2. t \in Nat /\ t <= 100 * b
      BY <3>1
    <3> HIDE DEF t
    <3>3. t \div 100 <= b /\ t \div 100 \in Nat
      BY <3>1, <3>2
    <3>4. k \in 0..(t \div 100)
      BY <1>3 DEF t
    <3>5. QED
      BY <3>1, <3>3, <3>4
  <2>2. Wrap(b + k) \in Int /\ (b + k \in 0..DurMax => Wrap(b + k) = b + k)
    BY <2>1, WrapRange
  <2> DEFINE w == Wrap(b + k)
  <2>3. Roomy(p) => w > 0
    BY <1>1, <1>3, <2>1, <2>2 DEF Roomy
  <2> HIDE DEF w
  <2>4. w \in Int /\ x = IF w > p.max THEN p.max ELSE w
    BY <1>3, <2>2 DEF w
  <2>5. QED
    BY <1>1, <2>3, <2>4
<1>4. QED
  BY <1>2, <1>3 DEF Jitter

\* EvaluateRetry's delay never exceeds the larger of the base and the cap, and
\* there is one unless the hint or the doubling leaves the range of a Duration.
LEMMA DelayBounds ==
  ASSUME NEW p \in Policy, NEW n \in Nat \ {0}, NEW e, e.hint \in Nat,
         NEW x \in Delays(e, n, p)
  PROVE  /\ x <= p.max \/ x <= p.base
         /\ e.hint <= DurMax /\ Roomy(p) => x > 0
<1>1. p.max \in 1..DurMax /\ DurMax \in Nat
  BY DurAssumption DEF Policy
<1>2. CASE e.hint > 0
  <2>1. PICK y \in ToDuration(e.hint) : x = IF y < p.max THEN y ELSE p.max
    BY <1>2 DEF Delays
  <2>2. y \in Int /\ (e.hint <= DurMax => y > 0)
    BY <1>1, <1>2, <2>1 DEF ToDuration
  <2>3. QED
    BY <1>1, <2>1, <2>2
<1>3. CASE ~(e.hint > 0)
  <2>1. x \in Jitter(Backoff(p, n), p)
    BY <1>3 DEF Delays
  <2>2. QED
    BY <2>1, BackoffBounds, JitterBounds
<1>4. QED
  BY <1>2, <1>3

-----------------------------------------------------------------------------
(* The retry loop.                                                         *)

\* A Query has not sent its prompt yet.
Unsent == {"begin", "started", "opened", "next"}

\* What ResilientQuery counts: an announcement for every attempt but the first,
\* and one prompt at most for an attempt.
Counts ==
  /\ mode = "query" /\ policy \in Policy
  /\ attempt \in Nat /\ announced \in Nat /\ executed \in Nat
  /\ loop \in {"check", "running", "evaluate"} =>
       announced = attempt /\ attempt <= policy.retries
  /\ loop = "sleep" => announced = attempt + 1 /\ announced <= policy.retries
  /\ loop = "returned" => announced <= policy.retries
  /\ executed <= announced + 1
  /\ loop \in {"check", "sleep"} \/ (loop = "running" /\ pc \in Unsent) =>
       executed <= announced

\* The loop sleeps only after a failure that EvaluateRetry calls retryable.
Justified ==
  /\ answer # "exhausted"
  /\ failure.hint \in Nat
  /\ loop = "sleep" => /\ Retryable(failure)
                       /\ delay \in Delays(failure, attempt + 1, policy)

RetryInv == Control /\ (loop # "off" => Counts) /\ Justified

\* normalisePolicy makes every field positive.
LEMMA PolicyNormalised ==
  ASSUME NEW p \in Policies
  PROVE  NormalisePolicy(p) \in Policy
<1>1. DOMAIN Default = {"retries", "base", "max", "jitter"}
  BY DefaultAssumption
<1> DEFINE N(f) == IF p[f] <= 0 THEN Default[f] ELSE p[f]
<1>2. NormalisePolicy(p) = [f \in {"retries", "base", "max", "jitter"} |-> N(f)]
  BY <1>1 DEF NormalisePolicy
<1>3. NormalisePolicy(p) = [retries |-> N("retries"), base |-> N("base"),
                            max |-> N("max"), jitter |-> N("jitter")]
  BY <1>2
<1>4. /\ N("retries") \in Nat \ {0} /\ N("base") \in 1..DurMax
      /\ N("max") \in 1..DurMax /\ N("jitter") \in 1..100
  BY PolicyAssumption, DefaultAssumption, DurAssumption
<1> HIDE DEF N
<1>5. QED
  BY <1>3, <1>4 DEF Policy

\* A Query of the loop sends one prompt and does not go back.
LEMMA PromptSentOnce ==
  ASSUME Control, mode = "query", Next, pc' \in Unsent
  PROVE  pc \in Unsent
<1> USE DEF Control, Unsent, Running, Resting
<1>1. CASE Begin \/ SessionOpens
  BY <1>1 DEF Begin, SessionOpens, Fails
<1>2. CASE Configured \/ CloseClient \/ NextPrompt
  BY <1>2 DEF Configured, CloseClient, NextPrompt
<1>3. CASE SurfaceReads \/ SurfaceWrites \/ GraceEnds
  BY <1>3 DEF SurfaceReads, SurfaceWrites, GraceEnds
<1>4. CASE Collect
  BY <1>4 DEF Collect
<1>5. CASE PromptReturns
  BY <1>5 DEF PromptReturns
<1>6. CASE Drain
  BY <1>6 DEF Drain, DrainStops, DrainReturns, DrainReceives, DrainStores
<1>7. CASE Replay \/ Crash \/ CtxEnds
  BY <1>7 DEF Replay, ReplayReceives, ReplayEnds, Crash, CtxEnds
<1>8. ASSUME NEW n, AgentEmits(n) PROVE pc \in Unsent
  BY <1>8 DEF AgentEmits
<1>9. QED
  BY <1>1, <1>2, <1>3, <1>4, <1>5, <1>6, <1>7, <1>8, Zenon DEF Next, Caller

\* The call that is made does not change.
LEMMA ModeStep == [ResilientNext]_allVars => mode' = mode
<1> SUFFICES ASSUME [ResilientNext]_allVars PROVE mode' = mode
  OBVIOUS
<1>1. Next => mode' = mode
  BY Zenon DEF Next, Caller, Begin, SessionOpens, Configured, CloseClient, NextPrompt,
     SurfaceReads, SurfaceWrites, GraceEnds, Collect, PromptReturns, Drain,
     DrainStops, DrainReturns, DrainReceives, DrainStores, Replay, ReplayReceives,
     ReplayEnds, Crash, CtxEnds, AgentEmits, callVars
<1>2. QED
  BY <1>1, Zenon DEF ResilientNext, LoopChecks, QueryStep, Stepping, QueryReturns,
     Evaluate, Sleep, CtxEndsBetween, allVars, vars, callVars

\* The loop's invariant is preserved.
LEMMA RetryStep == RetryInv /\ [ResilientNext]_allVars => RetryInv'
<1> SUFFICES ASSUME RetryInv, [ResilientNext]_allVars
             PROVE  (loop # "off" => Counts)' /\ Justified'
  BY ControlStep DEF RetryInv
<1>1. Control /\ (loop # "off" => Counts) /\ Justified /\ mode' = mode
  BY ModeStep DEF RetryInv
<1>2. CASE LoopChecks
  <2>1. loop = "check" /\ Counts
    BY <1>1, <1>2 DEF LoopChecks
  <2>2. ~(attempt > policy.retries)
    BY <2>1 DEF Counts, Policy
  <2>3. CASE Returns("ctx")
    BY <1>1, <1>2, <2>1, <2>3 DEF LoopChecks, Counts, Justified, Returns
  <2>4. CASE loop' = "running" /\ answer' = answer
    BY <1>1, <1>2, <2>1, <2>4 DEF LoopChecks, Counts, Justified
  <2>5. QED
    BY <1>2, <2>2, <2>3, <2>4 DEF LoopChecks
<1>3. CASE QueryStep
  <2>1. /\ loop \in {"off", "running"} /\ loop' = loop /\ Next
        /\ executed' = IF pc = "next" /\ pc' = "prompting" THEN executed + 1 ELSE executed
        /\ UNCHANGED <<policy, attempt, failure, delay, announced, answer>>
    BY <1>3 DEF QueryStep, Stepping
  <2>2. Justified'
    BY <1>1, <2>1 DEF Justified
  <2>3. ASSUME loop # "off" PROVE Counts'
    <3>1. loop = "running" /\ Counts
      BY <1>1, <2>1, <2>3
    <3>2. pc' \in Unsent => pc \in Unsent
      BY <1>1, <2>1, <3>1, PromptSentOnce DEF Counts
    <3>3. /\ executed' <= announced + 1 /\ executed' \in Nat
          /\ pc' \in Unsent => executed' <= announced
      BY <2>1, <3>1, <3>2 DEF Counts, Unsent
    <3>4. QED
      BY <1>1, <2>1, <3>1, <3>3 DEF Counts
  <2>4. QED
    BY <2>1, <2>2, <2>3
<1>4. CASE QueryReturns
  <2>1. /\ loop = "running" /\ Counts
        /\ UNCHANGED <<policy, attempt, delay, announced, executed>>
    BY <1>1, <1>4 DEF QueryReturns
  <2>2. CASE Returns("result") /\ UNCHANGED failure
    BY <1>1, <2>1, <2>2 DEF Returns, Counts, Justified
  <2>3. ASSUME NEW e, failure' \in FailureOf(e), loop' = "evaluate", answer' = answer
        PROVE  (loop # "off" => Counts)' /\ Justified'
    <3>1. failure'.hint \in Nat
      <4>1. CASE e = "cancelled" \/ e = "ctx"
        <5>1. failure' = NoError \/ failure' = [NoError EXCEPT !.is = "cancelled"]
          BY <2>3, <4>1 DEF FailureOf
        <5>2. NoError.hint = 0 /\ [NoError EXCEPT !.is = "cancelled"].hint = 0
          BY DEF NoError
        <5>3. failure'.hint = 0
          BY <5>1, <5>2, Zenon
        <5>4. QED
          BY <5>3
      <4>2. CASE e # "cancelled" /\ e # "ctx"
        <5>1. PICK x \in Errors : failure' = WrapACPErr(x)
          BY <2>3, <4>2 DEF FailureOf
        <5>2. x.hint \in Nat
          BY ErrorAssumption
        <5>3. WrapACPErr(x).hint = x.hint
          BY ErrorAssumption DEF WrapACPErr
        <5>4. QED
          BY <5>1, <5>2, <5>3
      <4>3. QED
        BY <4>1, <4>2
    <3>2. QED
      BY <1>1, <2>1, <2>3, <3>1 DEF Counts, Justified
  <2>4. QED
    BY <1>4, <2>2, <2>3, Zenon DEF QueryReturns
<1>5. CASE Evaluate
  <2>1. /\ loop = "evaluate" /\ Counts
        /\ UNCHANGED <<policy, attempt, failure, executed>>
    BY <1>1, <1>5 DEF Evaluate
  <2>2. CASE Returns("error") /\ UNCHANGED <<delay, announced>>
    BY <1>1, <2>1, <2>2 DEF Returns, Counts, Justified
  <2>3. CASE /\ ShouldRetry(failure, attempt + 1, policy)
             /\ delay' \in Delays(failure, attempt + 1, policy)
             /\ announced' = announced + 1
             /\ loop' = "sleep" /\ UNCHANGED answer
    <3>1. Retryable(failure) /\ attempt + 1 <= policy.retries
      BY <2>3 DEF ShouldRetry
    <3>2. Counts'
      BY <1>1, <2>1, <2>3, <3>1 DEF Counts
    <3>3. Justified'
      <4>1. answer' # "exhausted" /\ failure'.hint \in Nat
        BY <1>1, <2>1, <2>3 DEF Justified
      <4>2. Retryable(failure)' /\ Delays(failure, attempt + 1, policy)' = Delays(failure, attempt + 1, policy)
        BY <2>1, <3>1 DEF Retryable, Class, PromptTooLong
      <4>3. QED
        BY <2>3, <4>1, <4>2 DEF Justified
    <3>4. QED
      BY <3>2, <3>3
  <2>4. QED
    BY <1>5, <2>2, <2>3 DEF Evaluate
<1>6. CASE Sleep
  <2>1. /\ loop = "sleep" /\ Counts /\ failure' = NoError
        /\ UNCHANGED <<policy, announced, executed>>
    BY <1>1, <1>6 DEF Sleep
  <2>2. CASE loop' = "check" /\ attempt' = attempt + 1 /\ UNCHANGED answer
    BY <1>1, <2>1, <2>2 DEF Counts, Justified, NoError
  <2>3. CASE Returns("ctx") /\ UNCHANGED attempt
    BY <1>1, <2>1, <2>3 DEF Counts, Justified, NoError, Returns
  <2>4. QED
    BY <1>6, <2>2, <2>3 DEF Sleep
<1>7. CASE CtxEndsBetween \/ UNCHANGED allVars
  <2>1. UNCHANGED <<loop, policy, attempt, failure, delay, announced, executed, answer, pc>>
    BY <1>7 DEF CtxEndsBetween, allVars, vars, loopVars
  <2>2. QED
    BY <1>1, <2>1 DEF Counts, Justified
<1>8. QED
  BY <1>2, <1>3, <1>4, <1>5, <1>6, <1>7 DEF ResilientNext

\* The loop's invariant holds in every state.
LEMMA RetryInvariant == ResilientSpec => []RetryInv
<1>1. ResilientInit => RetryInv
  <2> SUFFICES ASSUME ResilientInit PROVE (loop # "off" => Counts) /\ Justified
    BY ControlInit DEF RetryInv
  <2>1. Justified
    BY DEF ResilientInit, Justified, NoError
  <2>2. ASSUME loop # "off" PROVE Counts
    <3>1. mode = "query" /\ policy \in Policy /\ loop = "check"
      BY <2>2, PolicyNormalised DEF ResilientInit
    <3>2. policy.retries \in Nat
      BY <3>1 DEF Policy
    <3>3. QED
      BY <3>1, <3>2 DEF ResilientInit, Counts
  <2>3. QED
    BY <2>1, <2>2
<1>2. QED
  BY <1>1, RetryStep, PTL DEF ResilientSpec

\* ResilientQuery: at most MaxRetries retries, each announced through OnRetry
\* before it can run a prompt again, none of an error that is fatal, and a delay
\* that keeps to the policy, for every policy and every sequence of failures.
THEOREM RetriesAreSound == ResilientSpec => []RetriesSound
<1>1. RetryInv => RetriesBounded /\ NeverExhausted
  BY DEF RetryInv, Control, Counts, Justified, RetriesBounded, NeverExhausted, Policy, Between
<1>2. RetryInv => FatalNotRetried
  <2> SUFFICES ASSUME RetryInv, loop = "sleep" PROVE FatalNotRetried
    BY DEF FatalNotRetried
  <2>1. Retryable(failure)
    BY DEF RetryInv, Justified
  <2>2. Class(failure) \in {"rate_limit", "overload", "transient_connection"}
    BY <2>1 DEF Retryable
  <2>3. failure.is \notin {"auth", "cancelled", "capability", "cli"}
    <3>1. failure.is \in {"auth", "cancelled", "capability", "cli"} =>
            failure.is \in DOMAIN Sentinels
      BY DEF Sentinels
    <3>2. failure.is \in DOMAIN Sentinels => Class(failure) = Sentinels[failure.is]
      BY DEF Class
    <3>3. /\ Sentinels["auth"] = "authentication" /\ Sentinels["cancelled"] = "cancelled"
          /\ Sentinels["capability"] = "capability" /\ Sentinels["cli"] = "cli"
      BY DEF Sentinels
    <3>4. QED
      BY <2>2, <3>1, <3>2, <3>3
  <2>4. failure.code \notin {401, 403}
    <3>1. ASSUME failure.code = 401 \/ failure.code = 403 PROVE FALSE
      <4>1. FromCode(failure.code) = "authentication"
        BY <3>1 DEF FromCode
      <4>2. Class(failure) = Sentinels[failure.is] \/ Class(failure) = "authentication"
        BY <4>1 DEF Class
      <4>3. failure.is \in DOMAIN Sentinels => failure.is \in {"auth", "cancelled", "capability", "cli"}
        BY DEF Sentinels
      <4>4. QED
        BY <2>2, <2>3, <4>1, <4>3 DEF Class
    <3>2. QED
      BY <3>1
  <2>5. RecoveryAction(failure) = "retry_with_backoff"
    BY <2>2 DEF RecoveryAction
  <2>6. QED
    BY <2>1, <2>3, <2>4, <2>5 DEF FatalNotRetried, Retryable
<1>3. RetryInv => DelayInRange
  <2> SUFFICES ASSUME RetryInv, loop = "sleep" PROVE DelayInRange
    BY DEF DelayInRange
  <2>1. /\ policy \in Policy /\ attempt + 1 \in Nat \ {0} /\ failure.hint \in Nat
        /\ delay \in Delays(failure, attempt + 1, policy)
    BY DEF RetryInv, Counts, Justified
  <2>2. /\ delay <= policy.max \/ delay <= policy.base
        /\ failure.hint <= DurMax /\ Roomy(policy) => delay > 0
    BY <2>1, DelayBounds
  <2>3. QED
    BY <2>2 DEF DelayInRange, Roomy
<1>4. QED
  BY <1>1, <1>2, <1>3, RetryInvariant, PTL DEF RetriesSound

-----------------------------------------------------------------------------
(* The turn limit.                                                         *)

\* The chunks LimitCounts speaks of, for a sequence e of notifications and a
\* counter subscribed after the first s of them.
SeenIn(e, s) == {k \in (s + 1)..Len(e) : e[k].role = "assistant"}
AnonymousIn(e, s) == {k \in SeenIn(e, s) : e[k].mid = NoId}
FirstsIn(e, s) ==
  {k \in SeenIn(e, s) \ AnonymousIn(e, s) :
     \A j \in SeenIn(e, s) : j < k => e[j].mid # e[k].mid}
CountedIn(e, s) == AnonymousIn(e, s) \cup FirstsIn(e, s)

\* A notification that is no new message to such a counter.
Repeats(n, e, s) ==
  \/ n.role # "assistant"
  \/ n.mid # NoId /\ \E k \in SeenIn(e, s) : e[k].mid = n.mid

\* count is large enough for the chunks of S: they can be numbered.
Numbered(S, count) == \E f \in [S -> 1..count] : \A j, k \in DOMAIN f : f[j] = f[k] => j = k

\* The counter of attachMaxTurns: none before applySessionConfig, and from then
\* on the last messageId is one it has seen and its count covers what it saw.
Counter ==
  /\ emitted \in Seq(Notifs \cup Replayed)
  /\ turns = [on |-> turns.on, since |-> turns.since, last |-> turns.last,
              count |-> turns.count, fired |-> turns.fired]
  /\ turns.on \in BOOLEAN /\ turns.fired \in BOOLEAN
  /\ turns.count \in Nat /\ turns.since \in 0..Len(emitted)
  /\ pc \in {"begin", "started", "opened"} \/ loop \in Between => turns = NoTurns
  /\ turns.on =>
       /\ turns.fired <=> turns.count >= Limit
       /\ turns.last # NoId =>
            \E k \in SeenIn(emitted, turns.since) : emitted[k].mid = turns.last
       /\ Numbered(CountedIn(emitted, turns.since), turns.count)

LimitInv == Control /\ Counter

\* A notification adds at most itself to what is to be counted, and nothing when
\* it is no assistant chunk or its messageId was seen before.
LEMMA CountedGrows ==
  ASSUME NEW S, NEW e \in Seq(S), NEW n \in S, NEW s \in 0..Len(e)
  PROVE  /\ CountedIn(Append(e, n), s) \subseteq CountedIn(e, s) \cup {Len(e) + 1}
         /\ Repeats(n, e, s) => CountedIn(Append(e, n), s) \subseteq CountedIn(e, s)
         /\ SeenIn(e, s) \subseteq SeenIn(Append(e, n), s)
         /\ n.role = "assistant" => Len(e) + 1 \in SeenIn(Append(e, n), s)
<1> DEFINE x == Append(e, n)
           m == Len(e) + 1
<1>1. /\ Len(x) = m /\ x[m] = n /\ Len(e) \in Nat
      /\ \A k \in 1..Len(e) : x[k] = e[k]
  OBVIOUS
<1> HIDE DEF x
<1>2. \A k : k \in SeenIn(x, s) <=> k \in SeenIn(e, s) \/ (k = m /\ n.role = "assistant")
  BY <1>1 DEF SeenIn
<1>3. \A k \in SeenIn(e, s) : k \in 1..Len(e) /\ x[k] = e[k] /\ k < m
  BY <1>1 DEF SeenIn
<1>4. ASSUME NEW k \in CountedIn(x, s), k # m PROVE k \in CountedIn(e, s)
  <2>1. k \in SeenIn(x, s) /\ k \in SeenIn(e, s)
    BY <1>2, <1>4 DEF CountedIn, AnonymousIn, FirstsIn
  <2>2. CASE e[k].mid = NoId
    BY <2>1, <2>2 DEF CountedIn, AnonymousIn
  <2>3. CASE e[k].mid # NoId
    <3>1. x[k].mid # NoId
      BY <1>3, <2>1, <2>3
    <3>2. k \in FirstsIn(x, s)
      BY <1>4, <3>1 DEF CountedIn, AnonymousIn
    <3>3. \A j \in SeenIn(e, s) : j < k => e[j].mid # e[k].mid
      BY <1>2, <1>3, <2>1, <3>2 DEF FirstsIn
    <3>4. QED
      BY <2>1, <2>3, <3>3 DEF CountedIn, AnonymousIn, FirstsIn
  <2>4. QED
    BY <2>2, <2>3
<1>5. ASSUME Repeats(n, e, s) PROVE m \notin CountedIn(x, s)
  <2>1. CASE n.role # "assistant"
    <3>1. m \notin SeenIn(x, s)
      BY <1>2, <1>3, <2>1
    <3>2. QED
      BY <3>1 DEF CountedIn, AnonymousIn, FirstsIn
  <2>2. ASSUME n.mid # NoId, NEW k \in SeenIn(e, s), e[k].mid = n.mid
        PROVE  m \notin CountedIn(x, s)
    <3>1. k \in SeenIn(x, s) /\ k < m /\ x[k].mid = x[m].mid /\ x[m].mid # NoId
      BY <1>1, <1>2, <1>3, <2>2
    <3>2. QED
      BY <3>1 DEF CountedIn, AnonymousIn, FirstsIn
  <2>3. QED
    BY <1>5, <2>1, <2>2 DEF Repeats
<1>6. QED
  BY <1>2, <1>4, <1>5 DEF x

\* Fewer chunks need no more numbers, and one chunk more needs one number more.
LEMMA NumberedLess ==
  ASSUME NEW S, NEW T, NEW count \in Nat, T \subseteq S, Numbered(S, count)
  PROVE  Numbered(T, count)
<1>1. PICK f \in [S -> 1..count] : \A j, k \in DOMAIN f : f[j] = f[k] => j = k
  BY DEF Numbered
<1> DEFINE g == [k \in T |-> f[k]]
<1>2. g \in [T -> 1..count] /\ \A j, k \in DOMAIN g : g[j] = g[k] => j = k
  BY <1>1
<1>3. QED
  BY <1>2 DEF Numbered

LEMMA NumberedMore ==
  ASSUME NEW S, NEW T, NEW count \in Nat, NEW m, T \subseteq S \cup {m}, Numbered(S, count)
  PROVE  Numbered(T, count + 1)
<1>1. PICK f \in [S -> 1..count] : \A j, k \in DOMAIN f : f[j] = f[k] => j = k
  BY DEF Numbered
<1> DEFINE g == [k \in T |-> IF k = m THEN count + 1 ELSE f[k]]
<1>2. \A k \in T : k # m => k \in S /\ f[k] \in 1..count
  BY <1>1
<1>3. g \in [T -> 1..(count + 1)]
  BY <1>2
<1>4. ASSUME NEW j \in T, NEW k \in T, g[j] = g[k] PROVE j = k
  <2>1. CASE j = m \/ k = m
    BY <1>2, <1>4, <2>1
  <2>2. CASE j # m /\ k # m
    BY <1>1, <1>2, <1>4, <2>2
  <2>3. QED
    BY <2>1, <2>2
<1>5. QED
  <2>1. \A j, k \in DOMAIN g : g[j] = g[k] => j = k
    BY <1>4
  <2>2. QED
    BY <1>3, <2>1 DEF Numbered

\* The dispatch of a notification preserves the counter's invariant.
LEMMA CounterEmits ==
  ASSUME NEW n \in Notifs \cup Replayed, LimitInv, AgentEmits(n), loop' = loop
  PROVE  Counter'
<1> DEFINE m == Len(emitted) + 1
<1>1. /\ emitted' = Append(emitted, n) /\ pc' = pc /\ pc \notin {"begin", "started"}
      /\ turns' = IF turns.on /\ IsNewMessage(n) THEN CountTurn(n) ELSE turns
  BY DEF AgentEmits
<1>2. /\ emitted' \in Seq(Notifs \cup Replayed) /\ Len(emitted') = m
      /\ emitted'[m] = n /\ \A k \in 1..Len(emitted) : emitted'[k] = emitted[k]
  BY <1>1 DEF LimitInv, Counter
<1>3. /\ CountedIn(emitted', turns.since) \subseteq CountedIn(emitted, turns.since) \cup {m}
      /\ Repeats(n, emitted, turns.since) =>
           CountedIn(emitted', turns.since) \subseteq CountedIn(emitted, turns.since)
      /\ SeenIn(emitted, turns.since) \subseteq SeenIn(emitted', turns.since)
      /\ n.role = "assistant" => m \in SeenIn(emitted', turns.since)
  BY <1>1, CountedGrows DEF LimitInv, Counter
<1>4. \A k \in SeenIn(emitted, turns.since) : emitted'[k] = emitted[k]
  BY <1>2 DEF SeenIn, LimitInv, Counter
<1>5. CASE turns.on /\ IsNewMessage(n)
  <2>1. turns' = [on |-> turns.on, since |-> turns.since,
                  last |-> IF n.mid = NoId THEN turns.last ELSE n.mid,
                  count |-> turns.count + 1,
                  fired |-> turns.fired \/ turns.count + 1 >= Limit]
    BY <1>1, <1>5 DEF LimitInv, Counter, CountTurn
  <2>2. n.role = "assistant"
    BY <1>5 DEF IsNewMessage
  <2>3. Numbered(CountedIn(emitted', turns.since), turns.count + 1)
    BY <1>3, <1>5, NumberedMore DEF LimitInv, Counter
  <2>4. turns'.last # NoId =>
          \E k \in SeenIn(emitted', turns.since) : emitted'[k].mid = turns'.last
    <3>1. CASE n.mid = NoId
      BY <1>3, <1>4, <1>5, <2>1, <3>1 DEF LimitInv, Counter
    <3>2. CASE n.mid # NoId
      BY <1>2, <1>3, <2>1, <2>2, <3>2
    <3>3. QED
      BY <3>1, <3>2
  <2>5. ~(pc \in {"begin", "started", "opened"} \/ loop \in Between)
    BY <1>5 DEF LimitInv, Counter, NoTurns
  <2>6. /\ turns'.on = turns.on /\ turns'.since = turns.since
        /\ turns'.count = turns.count + 1
        /\ turns'.fired = (turns.fired \/ turns.count + 1 >= Limit)
    BY <2>1
  <2>7. turns'.fired <=> turns'.count >= Limit
    <3>1. turns.count \in Nat /\ (turns.fired <=> turns.count >= Limit)
      BY <1>5 DEF LimitInv, Counter
    <3>2. turns.count >= Limit => turns.count + 1 >= Limit
      BY <3>1, LimitAssumption
    <3>3. QED
      BY <2>6, <3>1, <3>2, Zenon
  <2>8. turns'.fired \in BOOLEAN /\ turns'.count \in Nat /\ turns'.since \in 0..Len(emitted')
    <3>1. turns'.fired \in BOOLEAN
      BY <2>6, Zenon
    <3>2. QED
      BY <1>2, <2>6, <3>1 DEF LimitInv, Counter
  <2>9. turns' = [on |-> turns'.on, since |-> turns'.since, last |-> turns'.last,
                  count |-> turns'.count, fired |-> turns'.fired]
    BY <2>1
  <2>10. Numbered(CountedIn(emitted', turns'.since), turns'.count)
    BY <2>3, <2>6
  <2>11. QED
    BY <1>1, <1>2, <1>5, <2>4, <2>5, <2>6, <2>7, <2>8, <2>9, <2>10 DEF LimitInv, Counter
<1>6. CASE ~(turns.on /\ IsNewMessage(n))
  <2>1. turns' = turns
    BY <1>1, <1>6
  <2>2. ASSUME turns.on
        PROVE  /\ Numbered(CountedIn(emitted', turns.since), turns.count)
               /\ turns.last # NoId =>
                    \E k \in SeenIn(emitted', turns.since) : emitted'[k].mid = turns.last
    <3>1. Repeats(n, emitted, turns.since)
      BY <1>6, <2>2 DEF IsNewMessage, Repeats, LimitInv, Counter
    <3>2. Numbered(CountedIn(emitted', turns.since), turns.count)
      BY <1>3, <2>2, <3>1, NumberedLess DEF LimitInv, Counter
    <3>3. QED
      BY <1>3, <1>4, <2>2, <3>2 DEF LimitInv, Counter
  <2>3. turns.since \in 0..Len(emitted')
    BY <1>2 DEF LimitInv, Counter
  <2>4. QED
    BY <1>1, <1>2, <2>1, <2>2, <2>3 DEF LimitInv, Counter
<1>7. QED
  BY <1>5, <1>6

\* The limit's invariant is preserved.
LEMMA LimitStep == LimitInv /\ [ResilientNext]_allVars => LimitInv'
<1> SUFFICES ASSUME LimitInv, [ResilientNext]_allVars PROVE Counter'
  BY ControlStep DEF LimitInv
<1>1. Control /\ Control' /\ Counter
  BY ControlStep DEF LimitInv
<1>2. ASSUME UNCHANGED <<emitted, turns>>,
             pc' \in {"begin", "started", "opened"} \/ loop' \in Between =>
               pc \in {"begin", "started", "opened"} \/ loop \in Between
      PROVE  Counter'
  BY <1>1, <1>2 DEF Counter
<1>3. CASE QueryStep
  <2>1. Next /\ loop' = loop
    BY <1>3 DEF QueryStep, Stepping
  <2>2. CASE Configured
    <3>1. /\ turns = NoTurns /\ emitted' = emitted
          /\ turns' = [turns EXCEPT !.on = Limit > 0, !.since = Len(emitted)]
          /\ pc' \in {"replay", "closing", "next"} /\ loop \notin Between
      BY <1>1, <1>3, <2>2 DEF Configured, Counter, QueryStep, Stepping, Between
    <3>2. turns' = [on |-> Limit > 0, since |-> Len(emitted), last |-> NoId,
                    count |-> 0, fired |-> FALSE]
      BY <3>1 DEF NoTurns
    <3>3. SeenIn(emitted, Len(emitted)) = {}
      BY <1>1 DEF SeenIn, Counter
    <3>4. CountedIn(emitted, Len(emitted)) = {}
      BY <3>3 DEF CountedIn, AnonymousIn, FirstsIn
    <3>5. Numbered({}, 0)
      <4> DEFINE f == [k \in {} |-> 1]
      <4>1. f \in [{} -> 1..0] /\ \A j, k \in DOMAIN f : f[j] = f[k] => j = k
        OBVIOUS
      <4>2. QED
        BY <4>1 DEF Numbered
    <3>6. Len(emitted) \in Nat
      BY <1>1 DEF Counter
    <3>7. /\ turns'.since = Len(emitted) /\ turns'.last = NoId
          /\ turns'.count = 0 /\ turns'.fired = FALSE /\ turns'.on = (Limit > 0)
      BY <3>2
    <3>8. turns'.on => (turns'.fired <=> turns'.count >= Limit)
      <4>1. turns'.on => Limit > 0
        BY <3>7, Zenon
      <4>2. Limit > 0 => ~(turns'.count >= Limit)
        BY <3>7, LimitAssumption
      <4>3. QED
        BY <3>7, <4>1, <4>2, Zenon
    <3>9. turns'.on \in BOOLEAN
      <4>1. (Limit > 0) \in BOOLEAN
        BY LimitAssumption
      <4>2. QED
        BY <3>7, <4>1
    <3>10. turns' = [on |-> turns'.on, since |-> turns'.since, last |-> turns'.last,
                     count |-> turns'.count, fired |-> turns'.fired]
      BY <3>2
    <3>11. Numbered(CountedIn(emitted', turns'.since), turns'.count)
      BY <3>1, <3>4, <3>5, <3>7
    <3>12. ~(pc' \in {"begin", "started", "opened"} \/ loop' \in Between)
      BY <2>1, <3>1
    <3>13. QED
      BY <1>1, <3>1, <3>6, <3>7, <3>8, <3>9, <3>10, <3>11, <3>12 DEF Counter
  <2>3. ASSUME NEW n \in Notifs \cup Replayed, AgentEmits(n) PROVE Counter'
    BY <2>1, <2>3, CounterEmits
  <2>4. CASE Begin \/ SessionOpens \/ CloseClient \/ NextPrompt
    BY <1>2, <2>1, <2>4 DEF Begin, SessionOpens, CloseClient, NextPrompt, Fails, agentVars
  <2>5. CASE SurfaceReads \/ SurfaceWrites \/ GraceEnds \/ Collect \/ PromptReturns
    BY <1>2, <2>1, <2>5 DEF SurfaceReads, SurfaceWrites, GraceEnds, Collect,
       PromptReturns, agentVars
  <2>6. CASE Drain \/ Replay \/ Crash \/ CtxEnds
    BY <1>2, <2>1, <2>6 DEF Drain, DrainStops, DrainReturns, DrainReceives, DrainStores,
       Replay, ReplayReceives, ReplayEnds, Crash, CtxEnds, agentVars
  <2>7. (\E n \in IF mode = "history" THEN Replayed ELSE Notifs : AgentEmits(n)) =>
          \E n \in Notifs \cup Replayed : AgentEmits(n)
    OBVIOUS
  <2>8. QED
    BY <2>1, <2>2, <2>3, <2>4, <2>5, <2>6, <2>7, Zenon DEF Next, Caller
<1>4. CASE LoopChecks
  BY <1>2, <1>4 DEF LoopChecks, Returns, vars, agentVars, Between
<1>5. CASE QueryReturns
  <2>1. emitted' = <<>> /\ turns' = NoTurns
    BY <1>5 DEF QueryReturns
  <2>2. QED
    BY <2>1 DEF Counter, NoTurns
<1>6. CASE Evaluate \/ Sleep \/ CtxEndsBetween \/ UNCHANGED allVars
  BY <1>2, <1>6 DEF Evaluate, Sleep, CtxEndsBetween, allVars, vars, agentVars,
     loopVars, Between
<1>7. QED
  BY <1>3, <1>4, <1>5, <1>6 DEF ResilientNext

\* It holds at the start.
LEMMA LimitInit == ResilientInit => LimitInv
<1> SUFFICES ASSUME ResilientInit PROVE Counter
  BY ControlInit DEF LimitInv
<1>1. emitted = <<>> /\ turns = NoTurns
  BY DEF ResilientInit, Init
<1>2. QED
  BY <1>1 DEF Counter, NoTurns

\* WithMaxTurns misses no message: every distinct messageId and every chunk without
\* one is counted, and the session is cancelled exactly at the limit.
THEOREM TurnsAreCounted == ResilientSpec => []LimitCounts
<1>1. LimitInv => LimitCounts
  BY DEF LimitInv, Counter, LimitCounts, Numbered, CountedIn, AnonymousIn, FirstsIn, SeenIn
<1>2. QED
  BY <1>1, LimitInit, LimitStep, PTL DEF ResilientSpec

-----------------------------------------------------------------------------
(* What a call returns.                                                    *)

\* The errors a call ends with.
Errs == {"none", "ctx", "new", "start", "session", "empty", "cancelled", "failed"}

Outcomes == [err : Errs, notes : Seq(Nat), text : Seq(Nat), due : SUBSET Nat,
             payload : BOOLEAN, live : BOOLEAN]

\* The types of a turn's flags, of its data and of what it returns.
FlagTypes ==
  /\ ctx \in BOOLEAN /\ open \in BOOLEAN /\ payload \in BOOLEAN /\ stop \in BOOLEAN
  /\ promptErr \in Errs

TurnTypes ==
  /\ item \in Nat /\ due \in SUBSET Nat
  /\ chan \in Seq(Nat) /\ notes \in Seq(Nat) /\ text \in Seq(Nat)
  /\ drainSaw \in Seq(Nat) /\ callerSaw \in Seq(Nat)
  /\ results \in Seq(Outcomes)

\* Which of a turn's variables are in use where the caller is: nothing is left of
\* one turn at the next, a drainer that has gone before stop left because the
\* channel was closed, and a replay never runs a turn.
Phases ==
  /\ pc \in Resting => /\ text = <<>> /\ due = {} /\ ~payload
                       /\ mode # "history" => notes = <<>>
  /\ pc = "prompting" => ~payload
  /\ pc \in {"surface", "surfacing"} => payload
  /\ stop <=> pc = "collect"
  /\ drainer \in {"draining", "storingLast"} => stop
  /\ pc \in Running \cup {"next"} => mode # "history"
  /\ pc = "replay" => mode = "history"
  /\ pc \in Running /\ ~stop /\ ~ctx /\ drainer \in Drained => chan = <<>> /\ ~open
  /\ item # 0 <=> drainer \in {"storing", "storingLast"}
  /\ loop # "off" => mode = "query"
  /\ loop \in Between => results = <<>>

Below(s, t) == \A i \in 1..Len(s), j \in 1..Len(t) : s[i] < t[j]

\* The notifications of s were received before those in flight: the one the
\* drainer holds, it, and those in the channel c, of the first n sent.
BeforeIn(s, n, it, c) ==
  /\ \A i \in 1..Len(s) : s[i] <= n
  /\ it # 0 => \A i \in 1..Len(s) : s[i] < it
  /\ Below(s, c)
Before(s) == BeforeIn(s, Len(emitted), item, chan)

\* The channel holds notifications in order, after the one the drainer holds.
Pipe ==
  /\ Ascending(chan)
  /\ \A j \in 1..Len(chan) : 0 < chan[j] /\ chan[j] <= Len(emitted)
  /\ item <= Len(emitted)
  /\ item # 0 => \A j \in 1..Len(chan) : item < chan[j]

\* Texts are in order: within a turn, from one result to the next, and before
\* what is in flight.
TextOrder ==
  /\ Ascending(text) /\ Before(text)
  /\ \A i \in 1..Len(results) : /\ Ascending(results[i].text)
                                /\ Before(results[i].text)
                                /\ Below(results[i].text, text)
  /\ \A i, j \in 1..Len(results) : i < j => Below(results[i].text, results[j].text)

Assistants(e, s) == {k \in SetOf(s) : e[k].role = "assistant"}

\* Without a payload the drainer alone writes the slice: it is in order, before
\* what is in flight, and the text is its assistant chunks.  A replay loses none.
NotesOrder ==
  /\ ~payload =>
       /\ Ascending(notes) /\ Before(notes)
       /\ \A i \in 1..Len(notes) : notes[i] > 0
       /\ item # 0 => drainSaw = notes
       /\ mode # "history" => SetOf(text) = Assistants(emitted, notes)
  /\ mode = "history" /\ Len(emitted) <= UpdCap => Len(notes) + Len(chan) = Len(emitted)

\* A notification is stored where the drainer's next write will not lose it.
Kept(k) ==
  /\ InSeq(k, notes) /\ (item # 0 => InSeq(k, drainSaw))
  /\ emitted[k].role = "assistant" => InSeq(k, text)

\* What was delivered before stop is kept, held by the drainer or still in the
\* channel, and kept once the drainer has gone, unless the context ended.
DueKept ==
  /\ \A k \in due : k > 0 /\ k <= Len(emitted)
  /\ stop /\ ~ctx => \A k \in due : \/ Kept(k)
                                    \/ drainer \notin Drained /\ (k = item \/ InSeq(k, chan))

\* What ResultsExact says of one result, in terms of notifications sent.
Exact(r, e, m) ==
  /\ \A k \in r.due : k > 0 /\ k <= Len(e)
  /\ r.live => \A k \in r.due :
       /\ InSeq(k, r.notes)
       /\ e[k].role = "assistant" /\ m # "history" => InSeq(k, r.text)
  /\ ~r.payload =>
       /\ Ascending(r.notes)
       /\ \A i \in 1..Len(r.notes) : r.notes[i] > 0 /\ r.notes[i] <= Len(e)
       /\ m # "history" => SetOf(r.text) = Assistants(e, r.notes)

Returned == \A i \in 1..Len(results) : Exact(results[i], emitted, mode)

StreamInv ==
  LimitInv /\ FlagTypes /\ TurnTypes /\ Phases /\ Pipe /\ TextOrder /\ NotesOrder /\ DueKept
  /\ ErrorIsLast /\ Returned


\* Facts about sequences of notifications.
LEMMA Appended ==
  ASSUME NEW S, NEW s \in Seq(S), NEW x \in S
  PROVE  /\ Append(s, x) \in Seq(S) /\ Len(Append(s, x)) = Len(s) + 1 /\ Len(s) \in Nat
         /\ Append(s, x)[Len(s) + 1] = x
         /\ \A i \in 1..Len(s) : Append(s, x)[i] = s[i]
         /\ \A i \in 1..(Len(s) + 1) : i \in 1..Len(s) \/ i = Len(s) + 1
  OBVIOUS

LEMMA Tailed ==
  ASSUME NEW S, NEW s \in Seq(S), s # <<>>
  PROVE  /\ Tail(s) \in Seq(S) /\ Len(s) \in Nat \ {0} /\ Len(Tail(s)) = Len(s) - 1
         /\ Head(s) = s[1] /\ Head(s) \in S
         /\ \A i \in 1..Len(Tail(s)) : i + 1 \in 1..Len(s) /\ Tail(s)[i] = s[i + 1]
  OBVIOUS

LEMMA AscendingAppend ==
  ASSUME NEW s \in Seq(Nat), NEW x \in Nat, Ascending(s), \A i \in 1..Len(s) : s[i] < x
  PROVE  Ascending(Append(s, x))
<1> DEFINE t == Append(s, x)
<1>1. /\ Len(t) = Len(s) + 1 /\ Len(s) \in Nat /\ t[Len(s) + 1] = x
      /\ \A i \in 1..Len(s) : t[i] = s[i]
      /\ \A i \in 1..(Len(s) + 1) : i \in 1..Len(s) \/ i = Len(s) + 1
  BY Appended
<1> HIDE DEF t
<1>2. QED
  BY <1>1 DEF Ascending, t

LEMMA AscendingTail ==
  ASSUME NEW s \in Seq(Nat), s # <<>>, Ascending(s)
  PROVE  Ascending(Tail(s)) /\ \A i \in 1..Len(Tail(s)) : Head(s) < Tail(s)[i]
<1> DEFINE t == Tail(s)
<1>1. /\ Len(s) \in Nat \ {0} /\ Len(t) = Len(s) - 1 /\ Head(s) = s[1]
      /\ \A i \in 1..Len(t) : i + 1 \in 1..Len(s) /\ t[i] = s[i + 1]
  BY Tailed
<1> HIDE DEF t
<1>2. QED
  BY <1>1 DEF Ascending, t

LEMMA InAppend ==
  ASSUME NEW S, NEW s \in Seq(S), NEW x \in S
  PROVE  /\ InSeq(x, Append(s, x))
         /\ \A k : InSeq(k, s) => InSeq(k, Append(s, x))
         /\ SetOf(Append(s, x)) = SetOf(s) \cup {x}
<1> DEFINE t == Append(s, x)
<1>1. /\ Len(t) = Len(s) + 1 /\ Len(s) \in Nat /\ t[Len(s) + 1] = x
      /\ \A i \in 1..Len(s) : t[i] = s[i]
      /\ \A i \in 1..(Len(s) + 1) : i \in 1..Len(s) \/ i = Len(s) + 1
  BY Appended
<1> HIDE DEF t
<1>2. InSeq(x, t) /\ \A k : InSeq(k, s) => InSeq(k, t)
  BY <1>1 DEF InSeq
<1>3. SetOf(t) = SetOf(s) \cup {x}
  BY <1>1 DEF SetOf
<1>4. QED
  BY <1>2, <1>3 DEF t

LEMMA InTail ==
  ASSUME NEW S, NEW s \in Seq(S), s # <<>>, NEW k, InSeq(k, s)
  PROVE  k = Head(s) \/ InSeq(k, Tail(s))
<1> DEFINE t == Tail(s)
<1>1. /\ Len(s) \in Nat \ {0} /\ Len(t) = Len(s) - 1 /\ Head(s) = s[1]
      /\ \A i \in 1..Len(t) : i + 1 \in 1..Len(s) /\ t[i] = s[i + 1]
  BY Tailed
<1> HIDE DEF t
<1>2. PICK i \in 1..Len(s) : s[i] = k
  BY DEF InSeq
<1>3. CASE i = 1
  BY <1>1, <1>2, <1>3
<1>4. CASE i # 1
  <2>1. i - 1 \in 1..Len(t) /\ t[i - 1] = s[(i - 1) + 1] /\ (i - 1) + 1 = i
    BY <1>1, <1>2, <1>4
  <2>2. QED
    BY <1>2, <2>1 DEF InSeq, t
<1>5. QED
  BY <1>3, <1>4

\* What was received before what is in flight stays so, when a notification is
\* sent, received, and stored behind it.
LEMMA BeforeEmits ==
  ASSUME NEW s \in Seq(Nat), NEW n \in Nat, NEW it \in Nat, NEW c \in Seq(Nat), NEW d,
         BeforeIn(s, n, it, c), d = c \/ d = Append(c, n + 1)
  PROVE  BeforeIn(s, n + 1, it, d)
<1> DEFINE t == Append(c, n + 1)
<1>1. \A i \in 1..Len(s) : s[i] \in Nat /\ s[i] <= n + 1 /\ s[i] < n + 1
  BY DEF BeforeIn
<1>2. /\ Len(t) = Len(c) + 1 /\ Len(c) \in Nat /\ t[Len(c) + 1] = n + 1
      /\ \A i \in 1..Len(c) : t[i] = c[i]
      /\ \A i \in 1..(Len(c) + 1) : i \in 1..Len(c) \/ i = Len(c) + 1
  BY Appended
<1> HIDE DEF t
<1>3. Below(s, c) /\ Below(s, t)
  BY <1>1, <1>2 DEF BeforeIn, Below
<1>4. QED
  BY <1>1, <1>3 DEF BeforeIn, t

LEMMA BeforeReceives ==
  ASSUME NEW s \in Seq(Nat), NEW n \in Nat, NEW c \in Seq(Nat), c # <<>>, BeforeIn(s, n, 0, c)
  PROVE  BeforeIn(s, n, Head(c), Tail(c)) /\ BeforeIn(s, n, 0, Tail(c))
<1> DEFINE t == Tail(c)
<1>1. /\ Len(c) \in Nat \ {0} /\ Len(t) = Len(c) - 1 /\ Head(c) = c[1]
      /\ \A i \in 1..Len(t) : i + 1 \in 1..Len(c) /\ t[i] = c[i + 1]
  BY Tailed
<1> HIDE DEF t
<1>2. 1 \in 1..Len(c)
  BY <1>1
<1>3. QED
  BY <1>1, <1>2 DEF BeforeIn, Below, t

LEMMA BeforeStores ==
  ASSUME NEW s \in Seq(Nat), NEW n \in Nat, NEW it \in Nat, NEW c \in Seq(Nat),
         BeforeIn(s, n, it, c), it <= n, \A j \in 1..Len(c) : it < c[j]
  PROVE  BeforeIn(s, n, 0, c) /\ BeforeIn(Append(s, it), n, 0, c)
<1> DEFINE t == Append(s, it)
<1>1. /\ Len(t) = Len(s) + 1 /\ Len(s) \in Nat /\ t[Len(s) + 1] = it
      /\ \A i \in 1..Len(s) : t[i] = s[i]
      /\ \A i \in 1..(Len(s) + 1) : i \in 1..Len(s) \/ i = Len(s) + 1
  BY Appended
<1> HIDE DEF t
<1>2. QED
  BY <1>1 DEF BeforeIn, Below, t

LEMMA BelowAppend ==
  ASSUME NEW s \in Seq(Nat), NEW t \in Seq(Nat), NEW x \in Nat,
         Below(s, t), \A i \in 1..Len(s) : s[i] < x
  PROVE  Below(s, Append(t, x))
<1> DEFINE u == Append(t, x)
<1>1. /\ Len(u) = Len(t) + 1 /\ Len(t) \in Nat /\ u[Len(t) + 1] = x
      /\ \A i \in 1..Len(t) : u[i] = t[i]
      /\ \A i \in 1..(Len(t) + 1) : i \in 1..Len(t) \/ i = Len(t) + 1
  BY Appended
<1> HIDE DEF u
<1>2. QED
  BY <1>1 DEF Below, u


\* A step that leaves the data of a turn alone.
Quiet ==
  /\ UNCHANGED <<mode, results, emitted, chan, item, drainSaw, text, notes, due, stop>>
  /\ callerSaw' \in {callerSaw, notes}
  /\ payload => payload'
  /\ ctx => ctx'
  /\ drainer' \in Drained /\ drainer \notin Drained /\ ~ctx' => chan = <<>> /\ item = 0
  /\ pc \in {"closing", "done"} => pc' \in {"closing", "done"} \/ results = <<>>

\* A step that returns an error, or the list of models.
Failing ==
  /\ \E e \in Errs : results' = Append(results, Failed(e))
  /\ pc \notin {"closing", "done"} /\ pc' = "closing"
  /\ UNCHANGED <<mode, emitted, chan, item, drainSaw, callerSaw, text, notes, due, stop,
                 payload, ctx, drainer>>

\* The steps that change a turn's data, one by one.
Working ==
  \/ DrainReceives \/ DrainStores \/ ReplayReceives \/ ReplayEnds
  \/ GraceEnds \/ SurfaceWrites \/ Collect
  \/ \E n \in Notifs \cup Replayed : AgentEmits(n)

LEMMA Shapes ==
  ASSUME StreamInv, [ResilientNext]_allVars
  PROVE  Quiet \/ Failing \/ QueryReturns \/ (Working /\ loop' = loop)
<1>1. Control /\ FlagTypes /\ Phases
  BY DEF StreamInv, LimitInv
<1>2. CASE QueryStep
  <2>1. Next /\ loop' = loop /\ loop \in {"off", "running"}
    BY <1>2 DEF QueryStep, Stepping
  <2> DEFINE
         Frame == UNCHANGED <<mode, emitted, chan, item, drainSaw, callerSaw, text, notes,
                             due, stop, payload, ctx, drainer>>
         Fine == pc \notin {"closing", "done"} /\ Frame
  <2>0. ASSUME Fine, NEW e \in Errs, Fails(e) PROVE Failing
    BY <2>0 DEF Failing, Fails
  <2>2. CASE Begin
    <3>1. Fine
      BY <2>2 DEF Begin, agentVars, turnVars, drainVars
    <3> HIDE DEF Fine
    <3>2. CASE Fails("ctx") \/ Fails("new") \/ Fails("start")
      BY <2>0, <3>1, <3>2 DEF Errs
    <3>3. CASE UNCHANGED results
      BY <3>1, <3>3 DEF Quiet, Fine
    <3>4. QED
      BY <2>2, <3>2, <3>3 DEF Begin
  <2>3. CASE SessionOpens
    <3>1. Fine
      BY <2>3 DEF SessionOpens, agentVars, turnVars, drainVars
    <3> HIDE DEF Fine
    <3>2. CASE Fails("session")
      BY <2>0, <3>1, <3>2 DEF Errs
    <3>3. CASE UNCHANGED results
      BY <3>1, <3>3 DEF Quiet, Fine
    <3>4. QED
      BY <2>3, <3>2, <3>3 DEF SessionOpens
  <2>4. CASE Configured
    <3>1. Fine
      BY <2>4 DEF Configured, turnVars, drainVars
    <3> HIDE DEF Fine
    <3>2. CASE Fails("none")
      BY <2>0, <3>1, <3>2 DEF Errs
    <3>3. CASE UNCHANGED results
      BY <3>1, <3>3 DEF Quiet, Fine
    <3>4. QED
      BY <2>4, <3>2, <3>3 DEF Configured, Fails
  <2>5. CASE CloseClient
    BY <1>1, <2>5 DEF CloseClient, Quiet, turnVars, drainVars
  <2>6. CASE NextPrompt
    <3>1. CASE (Fails("ctx") \/ Fails("empty")) /\ Frame
      <4>1. Fine
        BY <2>6, <3>1 DEF NextPrompt
      <4> HIDE DEF Fine
      <4>2. QED
        BY <2>0, <3>1, <4>1 DEF Errs
    <3>2. CASE UNCHANGED <<results, item, drainSaw, text, notes, due, turnVars>>
               /\ drainer' \in {drainer, "loop"}
      BY <2>6, <3>2 DEF NextPrompt, Quiet, turnVars, Drained
    <3>3. QED
      BY <2>6, <3>1, <3>2 DEF NextPrompt, turnVars, drainVars
  <2>7. CASE PromptReturns
    BY <1>1, <2>7 DEF PromptReturns, Quiet, Phases, callVars, agentVars, drainVars
  <2>8. CASE SurfaceReads
    BY <1>1, <2>8 DEF SurfaceReads, Quiet, callVars, agentVars, drainVars
  <2>9. CASE DrainStops \/ DrainReturns
    BY <1>1, <2>9 DEF DrainStops, DrainReturns, Quiet, Phases, Drained, callVars, agentVars,
       turnVars
  <2>10. CASE Crash \/ CtxEnds
    BY <1>1, <2>10 DEF Crash, CtxEnds, Quiet, callVars, agentVars, turnVars, drainVars
  <2>11. (\E n \in IF mode = "history" THEN Replayed ELSE Notifs : AgentEmits(n)) =>
          \E n \in Notifs \cup Replayed : AgentEmits(n)
    OBVIOUS
  <2>12. QED
    BY <2>1, <2>2, <2>3, <2>4, <2>5, <2>6, <2>7, <2>8, <2>9, <2>10, <2>11, Zenon
    DEF Next, Caller, Drain, Replay, Working
<1>3. CASE LoopChecks
  BY <1>1, <1>3 DEF LoopChecks, Quiet, Phases, Between, vars, callVars, agentVars,
     turnVars, drainVars
<1>4. CASE Evaluate \/ Sleep \/ CtxEndsBetween \/ UNCHANGED allVars
  BY <1>1, <1>4 DEF Evaluate, Sleep, CtxEndsBetween, Quiet, allVars, vars, callVars,
     agentVars, turnVars, drainVars
<1>5. QED
  BY <1>2, <1>3, <1>4 DEF ResilientNext

LEMMA PhasesStep ==
  ASSUME StreamInv, [ResilientNext]_allVars
  PROVE  FlagTypes' /\ Phases'
<1>1. Control /\ FlagTypes /\ Phases /\ mode' = mode
  BY ModeStep DEF StreamInv, LimitInv
<1> USE DEF FlagTypes, Phases, Control, Running, Resting, Drained, Between, Errs
<1>2. CASE QueryStep
  <2>1. Next /\ loop' = loop /\ loop \in {"off", "running"}
    BY <1>2 DEF QueryStep, Stepping
  <2>2. CASE Begin \/ SessionOpens
    BY <1>1, <2>1, <2>2 DEF Begin, SessionOpens, Fails, agentVars, turnVars, drainVars
  <2>3. CASE Configured
    BY <1>1, <2>1, <2>3 DEF Configured, turnVars, drainVars
  <2>4. CASE CloseClient
    <3>1. open' \in BOOLEAN
      BY <2>4, Zenon DEF CloseClient
    <3>2. QED
      BY <1>1, <2>1, <2>4, <3>1 DEF CloseClient, turnVars, drainVars
  <2>5. CASE NextPrompt
    BY <1>1, <2>1, <2>5 DEF NextPrompt, Fails, turnVars, drainVars
  <2>6. CASE PromptReturns
    BY <1>1, <2>1, <2>6 DEF PromptReturns, callVars, agentVars, drainVars
  <2>7. CASE SurfaceReads \/ SurfaceWrites
    BY <1>1, <2>1, <2>7 DEF SurfaceReads, SurfaceWrites, callVars, agentVars, drainVars
  <2>8. CASE GraceEnds
    BY <1>1, <2>1, <2>8 DEF GraceEnds, callVars, agentVars, drainVars
  <2>9. CASE Collect
    BY <1>1, <2>1, <2>9 DEF Collect, TurnForgotten, agentVars
  <2>10. CASE DrainStops
    BY <1>1, <2>1, <2>10 DEF DrainStops, callVars, agentVars, turnVars
  <2>17. CASE DrainReturns
    BY <1>1, <2>1, <2>17 DEF DrainReturns, callVars, agentVars, turnVars
  <2>11. CASE DrainReceives
    <3>1. Head(chan) # 0
      <4>1. chan # <<>> /\ chan \in Seq(Nat) /\ \A j \in 1..Len(chan) : 0 < chan[j]
        BY <2>11 DEF DrainReceives, StreamInv, TurnTypes, Pipe
      <4>2. Head(chan) = chan[1] /\ 1 \in 1..Len(chan)
        BY <4>1, Tailed
      <4>3. QED
        BY <4>1, <4>2
    <3>2. QED
      BY <1>1, <2>1, <2>11, <3>1 DEF DrainReceives, callVars, turnVars
  <2>12. CASE DrainStores
    BY <1>1, <2>1, <2>12 DEF DrainStores, callVars, agentVars, turnVars
  <2>13. CASE ReplayReceives \/ ReplayEnds
    BY <1>1, <2>1, <2>13 DEF ReplayReceives, ReplayEnds, callVars, agentVars, turnVars, drainVars
  <2>14. CASE Crash
    BY <1>1, <2>1, <2>14 DEF Crash, callVars, turnVars, drainVars
  <2>18. CASE CtxEnds
    BY <1>1, <2>1, <2>18 DEF CtxEnds, callVars, agentVars, turnVars, drainVars
  <2>15. ASSUME NEW n, AgentEmits(n) PROVE FlagTypes' /\ Phases'
    BY <1>1, <2>1, <2>15 DEF AgentEmits, callVars, turnVars, drainVars
  <2> HIDE DEF FlagTypes, Phases
  <2>16. QED
    BY <2>1, <2>2, <2>3, <2>4, <2>5, <2>6, <2>7, <2>8, <2>9, <2>10, <2>11, <2>12, <2>13,
       <2>14, <2>15, <2>17, <2>18, Zenon DEF Next, Caller, Drain, Replay
<1>3. CASE LoopChecks
  BY <1>1, <1>3 DEF LoopChecks, Returns, vars, callVars, agentVars, turnVars, drainVars
<1>4. CASE QueryReturns
  BY <1>1, <1>4 DEF QueryReturns, Returns, turnVars, drainVars
<1>5. CASE Evaluate \/ Sleep
  BY <1>1, <1>5 DEF Evaluate, Sleep, Returns, vars, callVars, agentVars, turnVars, drainVars
<1>6. CASE CtxEndsBetween
  BY <1>1, <1>6 DEF CtxEndsBetween, loopVars, callVars, agentVars, turnVars, drainVars
<1>7. CASE UNCHANGED allVars
  BY <1>1, <1>7 DEF allVars, loopVars, vars, callVars, agentVars, turnVars, drainVars
<1>8. QED
  BY <1>2, <1>3, <1>4, <1>5, <1>6, <1>7 DEF ResilientNext

\* What the calls return is typed.
LEMMA FailedTyped == \A e \in Errs : Failed(e) \in Outcomes
  BY DEF Failed, Outcomes

LEMMA ResultTyped ==
  ASSUME StreamInv
  PROVE  Result \in Outcomes /\ Outcome \in Outcomes
<1>1. TurnTypes /\ FlagTypes
  BY DEF StreamInv
<1>2. (~ctx) \in BOOLEAN /\ "none" \in Errs
  BY DEF Errs
<1>3. Result \in Outcomes
  BY <1>1, <1>2 DEF Result, Outcomes, TurnTypes, FlagTypes
<1>4. QED
  BY <1>1, <1>3, FailedTyped DEF Outcome, FlagTypes

LEMMA TypesStep ==
  ASSUME StreamInv, [ResilientNext]_allVars
  PROVE  TurnTypes'
<1>1. TurnTypes /\ FlagTypes /\ emitted \in Seq(Notifs \cup Replayed)
  BY DEF StreamInv, LimitInv, Counter
<1>2. CASE Quiet
  BY <1>1, <1>2 DEF TurnTypes, Quiet
<1>3. ASSUME NEW r \in Outcomes, results' = Append(results, r)
      PROVE  results' \in Seq(Outcomes)
  BY <1>1, <1>3, Appended DEF TurnTypes
<1>4. \A e \in Errs : Failed(e) \in Outcomes
  BY FailedTyped
<1>5. Result \in Outcomes /\ Outcome \in Outcomes
  BY ResultTyped
<1>6. CASE Failing
  <2>1. results' \in Seq(Outcomes)
    BY <1>3, <1>4, <1>6 DEF Failing
  <2>2. QED
    BY <1>1, <1>6, <2>1 DEF TurnTypes, Failing
<1>7. CASE QueryReturns
  BY <1>1, <1>7 DEF TurnTypes, QueryReturns, turnVars, drainVars
<1>8. CASE DrainReceives
  <2>1. Head(chan) \in Nat /\ Tail(chan) \in Seq(Nat)
    BY <1>1, <1>8, Tailed DEF TurnTypes, DrainReceives
  <2>2. QED
    BY <1>1, <1>8, <2>1 DEF TurnTypes, DrainReceives, callVars, turnVars
<1>9. CASE DrainStores
  <2>1. Append(drainSaw, item) \in Seq(Nat) /\ Append(text, item) \in Seq(Nat)
    BY <1>1, Appended DEF TurnTypes
  <2>2. QED
    BY <1>1, <1>9, <2>1 DEF TurnTypes, DrainStores, callVars, agentVars, turnVars
<1>10. CASE ReplayReceives
  <2>1. Head(chan) \in Nat /\ Tail(chan) \in Seq(Nat)
    BY <1>1, <1>10, Tailed DEF TurnTypes, ReplayReceives
  <2>2. Append(notes, Head(chan)) \in Seq(Nat)
    BY <1>1, <2>1, Appended DEF TurnTypes
  <2>3. QED
    BY <1>1, <1>10, <2>1, <2>2 DEF TurnTypes, ReplayReceives, callVars, turnVars, drainVars
<1>11. CASE ReplayEnds
  <2>1. results' \in Seq(Outcomes)
    BY <1>3, <1>5, <1>11 DEF ReplayEnds
  <2>2. QED
    BY <1>1, <1>11, <2>1 DEF TurnTypes, ReplayEnds, agentVars, turnVars, drainVars
<1>12. CASE GraceEnds
  <2>1. due' \in SUBSET Nat
    BY <1>1, <1>12 DEF GraceEnds, TurnTypes
  <2>2. QED
    BY <1>1, <1>12, <2>1 DEF TurnTypes, GraceEnds, callVars, agentVars, drainVars
<1>13. CASE SurfaceWrites
  <2>1. Append(callerSaw, 0) \in Seq(Nat)
    BY <1>1, Appended DEF TurnTypes
  <2>2. QED
    BY <1>1, <1>13, <2>1 DEF TurnTypes, SurfaceWrites, callVars, agentVars, drainVars
<1>14. CASE Collect
  <2>1. results' \in Seq(Outcomes)
    BY <1>3, <1>5, <1>14 DEF Collect
  <2>2. QED
    BY <1>1, <1>14, <2>1 DEF TurnTypes, Collect, TurnForgotten, agentVars
<1>15. ASSUME NEW n, AgentEmits(n) PROVE TurnTypes'
  <2>1. Len(emitted) + 1 \in Nat
    BY <1>1
  <2>2. Append(chan, Len(emitted) + 1) \in Seq(Nat)
    BY <1>1, <2>1, Appended DEF TurnTypes
  <2>3. QED
    BY <1>1, <1>15, <2>2 DEF TurnTypes, AgentEmits, callVars, turnVars, drainVars
<1>16. QED
  BY <1>2, <1>6, <1>7, <1>8, <1>9, <1>10, <1>11, <1>12, <1>13, <1>14, <1>15, Shapes
  DEF Working

\* What the steps that move a notification do to what is in flight.
LEMMA Moves ==
  ASSUME StreamInv
  PROVE  /\ Len(emitted) \in Nat
         /\ \A n : AgentEmits(n) =>
              /\ n \in Notifs \cup Replayed =>
                   /\ Len(emitted') = Len(emitted) + 1
                   /\ \A k \in 1..Len(emitted) : emitted'[k] = emitted[k]
              /\ chan' = chan \/ chan' = Append(chan, Len(emitted) + 1)
              /\ open /\ UNCHANGED <<mode, item, drainSaw, text, notes, due, results, payload,
                                     stop, ctx, drainer, pc>>
         /\ DrainReceives =>
              /\ chan # <<>> /\ item = 0 /\ item' = Head(chan) /\ chan' = Tail(chan)
              /\ drainSaw' = notes /\ drainer \notin Drained /\ drainer' \notin Drained
              /\ UNCHANGED <<mode, emitted, text, notes, due, results, payload, stop, ctx, pc>>
         /\ DrainStores =>
              /\ item # 0 /\ item' = 0 /\ notes' = Append(drainSaw, item)
              /\ drainer \notin Drained /\ drainer' \notin Drained
              /\ text' = IF emitted[item].role = "assistant" THEN Append(text, item) ELSE text
              /\ UNCHANGED <<mode, emitted, chan, due, results, payload, stop, ctx, pc>>
         /\ ReplayReceives =>
              /\ chan # <<>> /\ item = 0 /\ chan' = Tail(chan)
              /\ notes' = Append(notes, Head(chan)) /\ mode = "history"
              /\ UNCHANGED <<mode, emitted, item, drainSaw, text, due, results, payload, stop,
                             ctx, drainer, pc>>
         /\ QueryReturns =>
              /\ item = 0 /\ item' = 0 /\ emitted' = <<>> /\ chan' = <<>> /\ results' = <<>>
              /\ notes = <<>> /\ text = <<>> /\ due = {} /\ mode # "history"
              /\ UNCHANGED <<mode, drainSaw, text, notes, due, payload, stop, ctx, drainer>>
<1>1. emitted \in Seq(Notifs \cup Replayed) /\ Control /\ Phases
  BY DEF StreamInv, LimitInv, Counter
<1>2. Len(emitted) \in Nat
  BY <1>1
<1>3. ASSUME NEW n, AgentEmits(n)
      PROVE  /\ n \in Notifs \cup Replayed =>
                  /\ Len(emitted') = Len(emitted) + 1
                  /\ \A k \in 1..Len(emitted) : emitted'[k] = emitted[k]
             /\ chan' = chan \/ chan' = Append(chan, Len(emitted) + 1)
             /\ open /\ UNCHANGED <<mode, item, drainSaw, text, notes, due, results, payload,
                                    stop, ctx, drainer, pc>>
  <2>1. ASSUME n \in Notifs \cup Replayed
        PROVE  Len(emitted') = Len(emitted) + 1 /\ \A k \in 1..Len(emitted) : emitted'[k] = emitted[k]
    <3>1. emitted' = Append(emitted, n)
      BY <1>3 DEF AgentEmits
    <3>2. QED
      BY <1>1, <2>1, <3>1, Appended
  <2>2. QED
    BY <1>3, <2>1 DEF AgentEmits, callVars, turnVars, drainVars
<1>4. DrainReceives =>
        /\ chan # <<>> /\ item = 0 /\ item' = Head(chan) /\ chan' = Tail(chan)
        /\ drainSaw' = notes /\ drainer \notin Drained /\ drainer' \notin Drained
        /\ UNCHANGED <<mode, emitted, text, notes, due, results, payload, stop, ctx, pc>>
  BY DEF DrainReceives, Drained, callVars, turnVars
<1>5. DrainStores =>
        /\ item # 0 /\ item' = 0 /\ notes' = Append(drainSaw, item)
        /\ drainer \notin Drained /\ drainer' \notin Drained
        /\ text' = IF emitted[item].role = "assistant" THEN Append(text, item) ELSE text
        /\ UNCHANGED <<mode, emitted, chan, due, results, payload, stop, ctx, pc>>
  BY <1>1 DEF DrainStores, Phases, Drained, callVars, agentVars, turnVars
<1>6. ReplayReceives =>
        /\ chan # <<>> /\ item = 0 /\ chan' = Tail(chan)
        /\ notes' = Append(notes, Head(chan)) /\ mode = "history"
        /\ UNCHANGED <<mode, emitted, item, drainSaw, text, due, results, payload, stop,
                       ctx, drainer, pc>>
  BY <1>1 DEF ReplayReceives, Phases, Control, Resting, Drained, callVars, turnVars, drainVars
<1>7. QueryReturns =>
        /\ item = 0 /\ item' = 0 /\ emitted' = <<>> /\ chan' = <<>> /\ results' = <<>>
        /\ notes = <<>> /\ text = <<>> /\ due = {} /\ mode # "history"
        /\ UNCHANGED <<mode, drainSaw, text, notes, due, payload, stop, ctx, drainer>>
  BY <1>1 DEF QueryReturns, Phases, Control, Resting, Drained, turnVars, drainVars
<1>8. QED
  BY <1>2, <1>3, <1>4, <1>5, <1>6, <1>7

LEMMA PipeStep ==
  ASSUME StreamInv, [ResilientNext]_allVars
  PROVE  Pipe'
<1>1. Pipe /\ TurnTypes /\ Len(emitted) \in Nat
  BY Moves DEF StreamInv
<1>2. ASSUME UNCHANGED <<emitted, chan, item>> PROVE Pipe'
  BY <1>1, <1>2 DEF Pipe
<1>3. CASE Quiet \/ Failing \/ ReplayEnds \/ GraceEnds \/ SurfaceWrites \/ Collect
  BY <1>2, <1>3 DEF Quiet, Failing, ReplayEnds, GraceEnds, SurfaceWrites, Collect,
     TurnForgotten, agentVars, drainVars
<1>4. CASE QueryReturns
  <2>1. item' = 0 /\ chan' = <<>> /\ emitted' = <<>>
    BY <1>4, Moves
  <2>2. QED
    BY <2>1 DEF Pipe, Ascending
<1>5. ASSUME NEW n \in Notifs \cup Replayed, AgentEmits(n) PROVE Pipe'
  <2>1. /\ Len(emitted') = Len(emitted) + 1 /\ item' = item
        /\ chan' = chan \/ chan' = Append(chan, Len(emitted) + 1)
    BY <1>5, Moves
  <2>2. CASE chan' = chan
    BY <1>1, <2>1, <2>2 DEF Pipe, TurnTypes
  <2>3. CASE chan' = Append(chan, Len(emitted) + 1)
    <3>1. chan \in Seq(Nat) /\ Len(chan) \in Nat /\ Len(emitted) + 1 \in Nat
      BY <1>1 DEF TurnTypes
    <3>2. /\ Len(chan') = Len(chan) + 1 /\ chan'[Len(chan) + 1] = Len(emitted) + 1
          /\ \A i \in 1..Len(chan) : chan'[i] = chan[i]
          /\ \A i \in 1..(Len(chan) + 1) : i \in 1..Len(chan) \/ i = Len(chan) + 1
      BY <2>3, <3>1, Appended
    <3>3. \A i \in 1..Len(chan) : chan[i] \in Nat /\ 0 < chan[i] /\ chan[i] <= Len(emitted)
      BY <1>1, <3>1 DEF Pipe
    <3>4. \A i \in 1..Len(chan) : chan[i] < Len(emitted) + 1
      BY <1>1, <3>3
    <3>5. Ascending(chan')
      BY <1>1, <2>3, <3>1, <3>4, AscendingAppend DEF Pipe
    <3>6. \A j \in 1..Len(chan') : 0 < chan'[j] /\ chan'[j] <= Len(emitted')
      BY <1>1, <2>1, <3>2, <3>3, <3>4
    <3>7. item' # 0 => \A j \in 1..Len(chan') : item' < chan'[j]
      <4>1. item \in Nat /\ item < Len(emitted) + 1
        BY <1>1 DEF Pipe, TurnTypes
      <4>2. item # 0 => \A j \in 1..Len(chan) : item < chan[j]
        BY <1>1 DEF Pipe
      <4>3. QED
        BY <2>1, <3>2, <4>1, <4>2
    <3>8. item' <= Len(emitted')
      BY <1>1, <2>1 DEF Pipe, TurnTypes
    <3>9. QED
      BY <3>5, <3>6, <3>7, <3>8 DEF Pipe
  <2>4. QED
    BY <2>1, <2>2, <2>3
<1>6. CASE DrainReceives \/ ReplayReceives
  <2>1. chan # <<>> /\ chan' = Tail(chan) /\ item' \in {0, Head(chan)} /\ emitted' = emitted
    BY <1>6, Moves
  <2>2. Ascending(chan') /\ \A i \in 1..Len(chan') : Head(chan) < chan'[i]
    BY <1>1, <2>1, AscendingTail DEF Pipe, TurnTypes
  <2>3. /\ Head(chan) = chan[1] /\ 1 \in 1..Len(chan)
        /\ \A i \in 1..Len(chan') : i + 1 \in 1..Len(chan) /\ chan'[i] = chan[i + 1]
    BY <1>1, <2>1, Tailed DEF TurnTypes
  <2>4. QED
    BY <1>1, <2>1, <2>2, <2>3 DEF Pipe, TurnTypes
<1>7. CASE DrainStores
  BY <1>1, <1>7, Moves DEF Pipe
<1>8. QED
  BY <1>3, <1>4, <1>5, <1>6, <1>7, Shapes DEF Working

LEMMA TextStep ==
  ASSUME StreamInv, [ResilientNext]_allVars
  PROVE  TextOrder'
<1>1. /\ TextOrder /\ TurnTypes /\ Pipe /\ Phases /\ Control /\ Len(emitted) \in Nat
      /\ \A i \in 1..Len(results) : results[i].text \in Seq(Nat)
  <2>1. TextOrder /\ TurnTypes /\ Pipe /\ Phases /\ Control /\ Len(emitted) \in Nat
    BY Moves DEF StreamInv, LimitInv
  <2>2. \A i \in 1..Len(results) : results[i] \in Outcomes
    BY <2>1 DEF TurnTypes
  <2>3. QED
    BY <2>1, <2>2 DEF Outcomes
\* Every text stays before what is in flight.
<1>2. ASSUME results' = results, text' = text, \A s \in Seq(Nat) : Before(s) => Before(s)'
      PROVE  TextOrder'
  BY <1>1, <1>2 DEF TextOrder, TurnTypes
<1>3. ASSUME UNCHANGED <<emitted, chan, item>> PROVE \A s \in Seq(Nat) : Before(s) => Before(s)'
  BY <1>3 DEF Before
<1>4. CASE Quiet \/ GraceEnds \/ SurfaceWrites
  BY <1>2, <1>3, <1>4 DEF Quiet, GraceEnds, SurfaceWrites, callVars, agentVars, drainVars
<1>5. ASSUME NEW r, results' = Append(results, r), r \in Outcomes, text' = <<>>,
             UNCHANGED <<emitted, chan, item>>, r.text = text \/ r.text = <<>>
      PROVE  TextOrder'
  <2>1. /\ Len(results') = Len(results) + 1 /\ Len(results) \in Nat /\ results'[Len(results) + 1] = r
        /\ \A i \in 1..Len(results) : results'[i] = results[i]
        /\ \A i \in 1..(Len(results) + 1) : i \in 1..Len(results) \/ i = Len(results) + 1
    BY <1>1, <1>5, Appended DEF TurnTypes
  <2>2. Ascending(<<>>) /\ Before(<<>>) /\ \A s : Below(s, <<>>) /\ Below(<<>>, s)
    BY DEF Ascending, Before, BeforeIn, Below
  <2>3. /\ Ascending(r.text) /\ Before(r.text)
        /\ \A i \in 1..Len(results) : Below(results[i].text, r.text)
    BY <1>1, <1>5, <2>2 DEF TextOrder
  <2>4. \A i \in 1..Len(results') : Ascending(results'[i].text) /\ Before(results'[i].text)
    BY <1>1, <2>1, <2>3 DEF TextOrder
  <2>5. \A i, j \in 1..Len(results') : i < j => Below(results'[i].text, results'[j].text)
    BY <1>1, <2>1, <2>3 DEF TextOrder
  <2>6. Before(text)' /\ \A i \in 1..Len(results') : Before(results[i].text)'
    BY <1>5, <2>1, <2>2, <2>4 DEF Before
  <2>7. QED
    BY <1>5, <2>2, <2>4, <2>5, <2>6 DEF TextOrder
<1>6. CASE Failing \/ ReplayEnds \/ Collect
  <2>1. text' = <<>> /\ UNCHANGED <<emitted, chan, item>>
    BY <1>6, PhasesStep DEF Failing, ReplayEnds, Collect, TurnForgotten, Phases, agentVars,
       drainVars, Resting
  <2>2. \A e \in Errs : Failed(e) \in Outcomes /\ Failed(e).text = <<>>
    BY FailedTyped DEF Failed
  <2>3. Result \in Outcomes /\ Result.text = text
    BY ResultTyped DEF Result
  <2>4. CASE Failing
    <3>1. PICK e \in Errs : results' = Append(results, Failed(e))
      BY <2>4 DEF Failing
    <3>2. QED
      BY <1>5, <2>1, <2>2, <3>1
  <2>5. CASE ReplayEnds
    BY <1>5, <2>1, <2>3, <2>5 DEF ReplayEnds
  <2>6. CASE Collect
    <3>1. Outcome \in Outcomes /\ (Outcome.text = text \/ Outcome.text = <<>>)
      BY <2>2, <2>3 DEF Outcome, StreamInv, FlagTypes
    <3>2. QED
      BY <1>5, <2>1, <2>6, <3>1 DEF Collect
  <2>7. QED
    BY <1>6, <2>4, <2>5, <2>6
<1>7. CASE QueryReturns
  <2>1. results' = <<>> /\ text' = <<>> /\ chan' = <<>> /\ item' = 0 /\ emitted' = <<>>
    BY <1>7, Moves
  <2>2. QED
    BY <2>1 DEF TextOrder, Ascending, Before, BeforeIn, Below
<1>8. ASSUME NEW n \in Notifs \cup Replayed, AgentEmits(n) PROVE TextOrder'
  <2>1. /\ Len(emitted') = Len(emitted) + 1 /\ item' = item /\ text' = text /\ results' = results
        /\ chan' = chan \/ chan' = Append(chan, Len(emitted) + 1)
    BY <1>8, Moves
  <2>2. ASSUME NEW s \in Seq(Nat), Before(s) PROVE Before(s)'
    <3>1. BeforeIn(s, Len(emitted) + 1, item, chan')
      BY <1>1, <2>1, <2>2, BeforeEmits DEF Before, TurnTypes
    <3>2. QED
      BY <2>1, <3>1 DEF Before
  <2>3. QED
    BY <1>2, <2>1, <2>2
<1>9. CASE DrainReceives \/ ReplayReceives
  <2>1. /\ chan # <<>> /\ item = 0 /\ item' \in {0, Head(chan)} /\ chan' = Tail(chan)
        /\ UNCHANGED <<emitted, text, results>>
    BY <1>9, Moves
  <2>2. ASSUME NEW s \in Seq(Nat), Before(s) PROVE Before(s)'
    <3>1. /\ BeforeIn(s, Len(emitted), Head(chan), Tail(chan))
          /\ BeforeIn(s, Len(emitted), 0, Tail(chan))
      BY <1>1, <2>1, <2>2, BeforeReceives DEF Before, TurnTypes
    <3>2. QED
      BY <2>1, <3>1 DEF Before
  <2>3. QED
    BY <1>2, <2>1, <2>2
<1>10. CASE DrainStores
  <2>1. /\ item # 0 /\ item' = 0 /\ UNCHANGED <<emitted, chan, results>>
        /\ text' = text \/ text' = Append(text, item)
    BY <1>10, Moves
  <2>2. ASSUME NEW s \in Seq(Nat), Before(s)
        PROVE  BeforeIn(s, Len(emitted), 0, chan) /\ BeforeIn(Append(s, item), Len(emitted), 0, chan)
    BY <1>1, <2>1, <2>2, BeforeStores DEF Before, Pipe, TurnTypes
  <2>3. ASSUME NEW s \in Seq(Nat), Before(s) PROVE Before(s)'
    BY <2>1, <2>2, <2>3 DEF Before
  <2>4. CASE text' = text
    BY <1>2, <2>1, <2>3, <2>4
  <2>5. CASE text' = Append(text, item)
    <3>1. text \in Seq(Nat) /\ item \in Nat /\ \A i \in 1..Len(text) : text[i] < item
      BY <1>1, <2>1 DEF TextOrder, TurnTypes, Before, BeforeIn
    <3>2. Ascending(text') /\ Before(text)'
      BY <1>1, <2>1, <2>2, <2>5, <3>1, AscendingAppend DEF TextOrder, Before
    <3>3. ASSUME NEW i \in 1..Len(results)
          PROVE  /\ Ascending(results[i].text) /\ Before(results[i].text)'
                 /\ Below(results[i].text, text')
      <4>1. /\ results[i].text \in Seq(Nat) /\ Below(results[i].text, text)
            /\ \A j \in 1..Len(results[i].text) : results[i].text[j] < item
        BY <1>1, <2>1 DEF TextOrder, Before, BeforeIn
      <4>2. Below(results[i].text, text')
        BY <2>5, <3>1, <4>1, BelowAppend
      <4>3. QED
        BY <1>1, <2>1, <2>3, <4>1, <4>2 DEF TextOrder
    <3>4. QED
      BY <1>1, <2>1, <3>2, <3>3 DEF TextOrder
  <2>6. QED
    BY <2>1, <2>4, <2>5
<1>11. QED
  BY <1>4, <1>6, <1>7, <1>8, <1>9, <1>10, Shapes DEF Working


LEMMA AssistantsKept ==
  ASSUME NEW e, NEW f, NEW n \in Nat, NEW s \in Seq(Nat),
         \A i \in 1..Len(s) : s[i] > 0 /\ s[i] <= n, \A k \in 1..n : f[k] = e[k]
  PROVE  Assistants(f, s) = Assistants(e, s)
<1>1. \A k \in SetOf(s) : k \in 1..n
  BY DEF SetOf
<1>2. QED
  BY <1>1 DEF Assistants

LEMMA NotesStep ==
  ASSUME StreamInv, [ResilientNext]_allVars
  PROVE  NotesOrder'
<1>1. /\ NotesOrder /\ TurnTypes /\ Pipe /\ Phases /\ Control /\ Len(emitted) \in Nat
      /\ FlagTypes /\ FlagTypes' /\ Phases' /\ mode' = mode
  BY Moves, PhasesStep, ModeStep DEF StreamInv, LimitInv
<1>2. ASSUME UNCHANGED <<emitted, chan, item, drainSaw, text, notes>>, payload => payload'
      PROVE  NotesOrder'
  BY <1>1, <1>2 DEF NotesOrder, Before
<1>3. CASE Quiet \/ Failing \/ ReplayEnds \/ GraceEnds
  BY <1>2, <1>3 DEF Quiet, Failing, ReplayEnds, GraceEnds, callVars, agentVars, turnVars, drainVars
<1>4. CASE SurfaceWrites
  <2>1. payload /\ payload' /\ mode # "history"
    BY <1>1, <1>4 DEF SurfaceWrites, Phases, Running
  <2>2. QED
    BY <1>1, <2>1 DEF NotesOrder
<1>5. ASSUME notes' = <<>>, text' = <<>>, item' = 0, mode # "history" PROVE NotesOrder'
  <2>1. SetOf(<<>>) = {} /\ \A e : Assistants(e, <<>>) = {}
    BY DEF SetOf, Assistants
  <2>2. Ascending(<<>>) /\ Before(<<>>)'
    BY DEF Ascending, Before, BeforeIn, Below
  <2>3. QED
    BY <1>1, <1>5, <2>1, <2>2 DEF NotesOrder, Before
<1>6. CASE Collect
  <2>1. item = 0 /\ mode # "history"
    BY <1>1, <1>6 DEF Collect, Phases, Running
  <2>2. QED
    BY <1>5, <1>6, <2>1 DEF Collect, TurnForgotten
<1>7. CASE QueryReturns
  BY <1>5, <1>7, Moves
<1>8. ASSUME NEW n \in Notifs \cup Replayed, AgentEmits(n) PROVE NotesOrder'
  <2>1. /\ Len(emitted') = Len(emitted) + 1
        /\ \A k \in 1..Len(emitted) : emitted'[k] = emitted[k]
        /\ chan' = chan \/ chan' = Append(chan, Len(emitted) + 1)
        /\ UNCHANGED <<mode, item, drainSaw, text, notes, payload>>
    BY <1>8, Moves
  <2>2. ASSUME ~payload
        PROVE  /\ Before(notes)' /\ Assistants(emitted', notes) = Assistants(emitted, notes)
    <3>1. Before(notes) /\ \A i \in 1..Len(notes) : notes[i] > 0 /\ notes[i] <= Len(emitted)
      BY <1>1, <2>2 DEF NotesOrder, Before, BeforeIn
    <3>2. BeforeIn(notes, Len(emitted) + 1, item, chan')
      BY <1>1, <2>1, <3>1, BeforeEmits DEF Before, TurnTypes
    <3>3. notes \in Seq(Nat)
      BY <1>1 DEF TurnTypes
    <3>4. Assistants(emitted', notes) = Assistants(emitted, notes)
      BY <1>1, <2>1, <3>1, <3>3, AssistantsKept
    <3>5. QED
      BY <2>1, <3>2, <3>4 DEF Before
  <2>3. ASSUME mode = "history", Len(emitted') <= UpdCap
        PROVE  Len(notes') + Len(chan') = Len(emitted')
    <3>1. UpdCap \in Nat /\ Len(emitted) < UpdCap /\ Len(notes) \in Nat /\ Len(chan) \in Nat
      BY <1>1, <2>1, <2>3, CapAssumption DEF TurnTypes
    <3>2. Len(notes) + Len(chan) = Len(emitted)
      BY <1>1, <2>3, <3>1 DEF NotesOrder
    <3>3. Len(chan) < UpdCap
      BY <3>1, <3>2
    <3>4. chan' = Append(chan, Len(emitted) + 1)
      BY <1>8, <3>3 DEF AgentEmits
    <3>5. Len(chan') = Len(chan) + 1
      <4>1. chan \in Seq(Nat) /\ Len(emitted) + 1 \in Nat
        BY <1>1 DEF TurnTypes
      <4>2. QED
        BY <3>4, <4>1, Appended
    <3>6. QED
      BY <2>1, <3>1, <3>2, <3>5
  <2>4. QED
    BY <1>1, <2>1, <2>2, <2>3 DEF NotesOrder
<1>9. CASE DrainReceives
  <2>1. /\ chan # <<>> /\ item = 0 /\ item' = Head(chan) /\ chan' = Tail(chan)
        /\ drainSaw' = notes /\ UNCHANGED <<emitted, text, notes, payload>>
        /\ drainer \notin Drained
    BY <1>9, Moves
  <2>2. mode # "history"
    BY <1>1, <2>1 DEF Phases, Control
  <2>3. ~payload => Before(notes)'
    <3>1. ~payload => BeforeIn(notes, Len(emitted), Head(chan), Tail(chan))
      BY <1>1, <2>1, BeforeReceives DEF NotesOrder, Before, TurnTypes
    <3>2. QED
      BY <2>1, <3>1 DEF Before
  <2>4. QED
    BY <1>1, <2>1, <2>2, <2>3 DEF NotesOrder
<1>10. CASE DrainStores
  <2>1. /\ item # 0 /\ item' = 0 /\ notes' = Append(drainSaw, item) /\ drainer \notin Drained
        /\ text' = IF emitted[item].role = "assistant" THEN Append(text, item) ELSE text
        /\ UNCHANGED <<emitted, chan, payload>>
    BY <1>10, Moves
  <2>2. mode # "history"
    BY <1>1, <2>1 DEF Phases, Control
  <2>3. ASSUME ~payload
        PROVE  /\ Ascending(notes') /\ Before(notes)'
               /\ \A i \in 1..Len(notes') : notes'[i] > 0
               /\ SetOf(text') = Assistants(emitted, notes')
    <3>1. /\ notes' = Append(notes, item) /\ notes \in Seq(Nat) /\ item \in Nat /\ item > 0
          /\ text \in Seq(Nat)
      BY <1>1, <2>1, <2>3 DEF NotesOrder, TurnTypes
    <3>2. Ascending(notes) /\ Before(notes) /\ \A i \in 1..Len(notes) : notes[i] > 0 /\ notes[i] < item
      BY <1>1, <2>1, <2>3 DEF NotesOrder, Before, BeforeIn
    <3>3. Ascending(notes')
      BY <3>1, <3>2, AscendingAppend
    <3>4. BeforeIn(notes', Len(emitted), 0, chan)
      BY <1>1, <3>1, <3>2, BeforeStores DEF Before, Pipe, TurnTypes
    <3>5. \A i \in 1..Len(notes') : notes'[i] > 0
      <4>1. /\ Len(notes') = Len(notes) + 1 /\ Len(notes) \in Nat /\ notes'[Len(notes) + 1] = item
            /\ \A i \in 1..Len(notes) : notes'[i] = notes[i]
            /\ \A i \in 1..(Len(notes) + 1) : i \in 1..Len(notes) \/ i = Len(notes) + 1
        BY <3>1, Appended
      <4>2. QED
        BY <3>1, <3>2, <4>1
    <3>6. SetOf(notes') = SetOf(notes) \cup {item} /\ SetOf(Append(text, item)) = SetOf(text) \cup {item}
      BY <3>1, InAppend
    <3>7. SetOf(text) = Assistants(emitted, notes)
      BY <1>1, <2>2, <2>3 DEF NotesOrder
    <3>8. SetOf(text') = Assistants(emitted, notes')
      BY <2>1, <3>6, <3>7 DEF Assistants
    <3>9. QED
      BY <2>1, <3>3, <3>4, <3>5, <3>8 DEF Before
  <2>4. QED
    BY <1>1, <2>1, <2>2, <2>3 DEF NotesOrder
<1>11. CASE ReplayReceives
  <2>1. /\ chan # <<>> /\ item = 0 /\ chan' = Tail(chan) /\ notes' = Append(notes, Head(chan))
        /\ mode = "history" /\ UNCHANGED <<emitted, item, drainSaw, text, payload>>
    BY <1>11, Moves
  <2>2. ~payload
    BY <1>1, <1>11 DEF ReplayReceives, Phases, Resting
  <2>3. /\ notes \in Seq(Nat) /\ Head(chan) \in Nat /\ Tail(chan) \in Seq(Nat)
        /\ Head(chan) = chan[1] /\ 1 \in 1..Len(chan) /\ Len(chan') = Len(chan) - 1
        /\ Len(chan) \in Nat
    BY <1>1, <2>1, Tailed DEF TurnTypes
  <2>4. 0 < Head(chan) /\ Head(chan) <= Len(emitted)
    BY <1>1, <2>3 DEF Pipe
  <2>5. Ascending(notes) /\ Before(notes) /\ \A i \in 1..Len(notes) : notes[i] > 0
    BY <1>1, <2>2 DEF NotesOrder
  <2>6. \A i \in 1..Len(notes) : notes[i] < Head(chan)
    BY <2>3, <2>5 DEF Before, BeforeIn, Below
  <2>7. Ascending(notes')
    BY <2>1, <2>3, <2>5, <2>6, AscendingAppend
  <2>8. BeforeIn(notes', Len(emitted), 0, chan')
    <3>1. BeforeIn(notes, Len(emitted), Head(chan), Tail(chan))
      BY <1>1, <2>1, <2>5, BeforeReceives DEF Before, TurnTypes
    <3>2. \A j \in 1..Len(Tail(chan)) : Head(chan) < Tail(chan)[j]
      BY <1>1, <2>1, AscendingTail DEF Pipe, TurnTypes
    <3>3. QED
      BY <1>1, <2>1, <2>3, <2>4, <3>1, <3>2, BeforeStores
  <2>9. /\ Len(notes') = Len(notes) + 1 /\ Len(notes) \in Nat /\ notes'[Len(notes) + 1] = Head(chan)
        /\ \A i \in 1..Len(notes) : notes'[i] = notes[i]
        /\ \A i \in 1..(Len(notes) + 1) : i \in 1..Len(notes) \/ i = Len(notes) + 1
    BY <2>1, <2>3, Appended
  <2>10. \A i \in 1..Len(notes') : notes'[i] > 0
    BY <2>4, <2>5, <2>9
  <2>11. Len(emitted) <= UpdCap => Len(notes') + Len(chan') = Len(emitted)
    BY <1>1, <2>1, <2>3, <2>9 DEF NotesOrder
  <2>12. QED
    BY <1>1, <2>1, <2>7, <2>8, <2>10, <2>11 DEF NotesOrder, Before
<1>12. QED
  BY <1>3, <1>4, <1>6, <1>7, <1>8, <1>9, <1>10, <1>11, Shapes DEF Working

LEMMA DueStep ==
  ASSUME StreamInv, [ResilientNext]_allVars
  PROVE  DueKept'
<1>1. /\ DueKept /\ TurnTypes /\ Pipe /\ Phases /\ Control /\ Len(emitted) \in Nat
      /\ Phases'
  BY Moves, PhasesStep DEF StreamInv, LimitInv
<1>2. ASSUME ~stop', due' = {} \/ (due' = due /\ emitted' = emitted) PROVE DueKept'
  BY <1>1, <1>2 DEF DueKept
<1>3. CASE Quiet
  <2>1. /\ UNCHANGED <<emitted, chan, item, drainSaw, text, notes, due, stop>>
        /\ ctx => ctx'
        /\ drainer' \in Drained /\ drainer \notin Drained /\ ~ctx' => chan = <<>> /\ item = 0
    BY <1>3 DEF Quiet
  <2>2. \A k : Kept(k)' <=> Kept(k)
    BY <2>1 DEF Kept
  <2>3. ASSUME stop', ~ctx', NEW k \in due
        PROVE  Kept(k)' \/ (drainer' \notin Drained /\ (k = item' \/ InSeq(k, chan')))
    <3>1. stop /\ ~ctx
      BY <2>1, <2>3
    <3>2. CASE Kept(k)
      BY <2>2, <3>2
    <3>3. CASE drainer \notin Drained /\ (k = item \/ InSeq(k, chan))
      <4>1. k > 0 /\ ~InSeq(k, <<>>)
        BY <1>1 DEF DueKept, InSeq
      <4>2. drainer' \notin Drained
        BY <2>1, <2>3, <3>3, <4>1
      <4>3. QED
        BY <2>1, <3>3, <4>2
    <3>4. QED
      BY <1>1, <3>1, <3>2, <3>3 DEF DueKept
  <2>4. QED
    BY <1>1, <2>1, <2>3 DEF DueKept
<1>4. CASE Failing \/ ReplayEnds \/ SurfaceWrites
  <2>1. pc' # "collect" /\ due' = due /\ emitted' = emitted
    BY <1>4 DEF Failing, ReplayEnds, SurfaceWrites, agentVars
  <2>2. ~stop'
    BY <1>1, <2>1 DEF Phases
  <2>3. QED
    BY <1>2, <2>1, <2>2
<1>5. CASE Collect
  BY <1>2, <1>5 DEF Collect, TurnForgotten
<1>6. CASE QueryReturns
  <2>1. due' = {}
    BY <1>6, Moves
  <2>2. QED
    BY <2>1 DEF DueKept
<1>7. CASE GraceEnds
  <2>1. /\ pc = "grace" /\ due' = {chan[j] : j \in 1..Len(chan)} \cup ({item} \ {0})
        /\ UNCHANGED <<emitted, chan, item, ctx, drainer>>
    BY <1>7 DEF GraceEnds, agentVars, drainVars
  <2>2. \A k \in due' : k > 0 /\ k <= Len(emitted)
    BY <1>1, <2>1 DEF Pipe, TurnTypes
  <2>3. ASSUME ~ctx', NEW k \in due'
        PROVE  drainer' \notin Drained /\ (k = item' \/ InSeq(k, chan'))
    <3>1. k = item \/ InSeq(k, chan)
      BY <2>1, <2>3 DEF InSeq
    <3>2. ~ctx /\ ~stop /\ pc \in Running /\ k # 0
      BY <1>1, <2>1, <2>2, <2>3 DEF Phases, Running
    <3>3. drainer \in Drained => chan = <<>> /\ item = 0
      BY <1>1, <3>2 DEF Phases, Drained
    <3>4. ~InSeq(k, <<>>)
      BY DEF InSeq
    <3>5. QED
      BY <2>1, <3>1, <3>2, <3>3, <3>4
  <2>4. QED
    BY <2>1, <2>2, <2>3 DEF DueKept
<1>8. ASSUME NEW n \in Notifs \cup Replayed, AgentEmits(n) PROVE DueKept'
  <2>1. /\ Len(emitted') = Len(emitted) + 1
        /\ \A k \in 1..Len(emitted) : emitted'[k] = emitted[k]
        /\ chan' = chan \/ chan' = Append(chan, Len(emitted) + 1)
        /\ UNCHANGED <<item, drainSaw, text, notes, due, stop, ctx, drainer>>
    BY <1>8, Moves
  <2>2. \A k \in due : k \in 1..Len(emitted)
    BY <1>1 DEF DueKept, TurnTypes
  <2>3. \A k \in due : Kept(k) => Kept(k)'
    BY <2>1, <2>2 DEF Kept
  <2>4. \A k : InSeq(k, chan) => InSeq(k, chan')
    <3>1. chan \in Seq(Nat) /\ Len(emitted) + 1 \in Nat
      BY <1>1 DEF TurnTypes
    <3>2. QED
      <4>1. \A k : InSeq(k, chan) => InSeq(k, Append(chan, Len(emitted) + 1))
        BY <3>1, InAppend
      <4>2. QED
        BY <2>1, <4>1
  <2>5. \A k \in due : k > 0 /\ k <= Len(emitted')
    BY <1>1, <2>1, <2>2
  <2>6. QED
    BY <1>1, <2>1, <2>3, <2>4, <2>5 DEF DueKept
<1>9. CASE DrainReceives
  <2>1. /\ chan # <<>> /\ item = 0 /\ item' = Head(chan) /\ chan' = Tail(chan)
        /\ drainSaw' = notes /\ drainer \notin Drained /\ drainer' \notin Drained
        /\ UNCHANGED <<emitted, text, notes, due, stop, ctx>>
    BY <1>9, Moves
  <2>2. \A k : Kept(k) => Kept(k)'
    BY <2>1 DEF Kept
  <2>3. \A k : InSeq(k, chan) => k = item' \/ InSeq(k, chan')
    BY <1>1, <2>1, InTail DEF TurnTypes
  <2>4. \A k \in due : k # item
    BY <1>1, <2>1 DEF DueKept
  <2>5. QED
    BY <1>1, <2>1, <2>2, <2>3, <2>4 DEF DueKept
<1>10. CASE DrainStores
  <2>1. /\ item # 0 /\ item' = 0 /\ notes' = Append(drainSaw, item)
        /\ drainer \notin Drained /\ drainer' \notin Drained
        /\ text' = IF emitted[item].role = "assistant" THEN Append(text, item) ELSE text
        /\ UNCHANGED <<emitted, chan, due, stop, ctx>>
    BY <1>10, Moves
  <2>2. /\ InSeq(item, notes') /\ \A k : InSeq(k, drainSaw) => InSeq(k, notes')
        /\ InSeq(item, Append(text, item)) /\ \A k : InSeq(k, text) => InSeq(k, text')
    BY <1>1, <2>1, InAppend DEF TurnTypes
  <2>3. \A k : Kept(k) => Kept(k)'
    BY <2>1, <2>2 DEF Kept
  <2>4. \A k : k = item => /\ InSeq(k, notes') /\ (item' # 0 => InSeq(k, drainSaw'))
                           /\ emitted'[k].role = "assistant" => InSeq(k, text')
    BY <2>1, <2>2
  <2>5. \A k : k = item => Kept(k)'
    BY <2>4 DEF Kept
  <2>6. QED
    BY <1>1, <2>1, <2>3, <2>5 DEF DueKept
<1>11. CASE ReplayReceives
  <2>1. ~stop /\ UNCHANGED <<emitted, due, stop>>
    BY <1>1, <1>11, Moves DEF ReplayReceives, Phases
  <2>2. QED
    BY <1>2, <2>1
<1>12. QED
  BY <1>3, <1>4, <1>5, <1>6, <1>7, <1>8, <1>9, <1>10, <1>11, Shapes DEF Working

LEMMA ErrorLastStep ==
  ASSUME StreamInv, [ResilientNext]_allVars
  PROVE  ErrorIsLast'
<1>1. ErrorIsLast /\ TurnTypes /\ FlagTypes
  BY DEF StreamInv
<1>2. ASSUME results' = results,
             pc \in {"closing", "done"} => pc' \in {"closing", "done"} \/ results = <<>>
      PROVE  ErrorIsLast'
  BY <1>1, <1>2 DEF ErrorIsLast
<1>3. CASE Quiet
  BY <1>2, <1>3 DEF Quiet
<1>4. CASE DrainReceives \/ DrainStores \/ ReplayReceives \/ GraceEnds \/ SurfaceWrites
  BY <1>2, <1>4 DEF DrainReceives, DrainStores, ReplayReceives, GraceEnds, SurfaceWrites, callVars
<1>5. ASSUME NEW n, AgentEmits(n) PROVE ErrorIsLast'
  BY <1>2, <1>5 DEF AgentEmits, callVars
<1>6. ASSUME NEW r \in Outcomes, results' = Append(results, r), pc \notin {"closing", "done"},
             r.err # "none" => pc' = "closing"
      PROVE  ErrorIsLast'
  <2>1. /\ Len(results') = Len(results) + 1 /\ Len(results) \in Nat /\ results'[Len(results) + 1] = r
        /\ \A i \in 1..Len(results) : results'[i] = results[i]
        /\ \A i \in 1..(Len(results) + 1) : i \in 1..Len(results) \/ i = Len(results) + 1
    BY <1>1, <1>6, Appended DEF TurnTypes
  <2>2. \A i \in 1..Len(results) : results[i].err = "none"
    BY <1>1, <1>6 DEF ErrorIsLast
  <2>3. QED
    BY <1>6, <2>1, <2>2 DEF ErrorIsLast
<1>7. CASE Failing
  <2>1. PICK e \in Errs : results' = Append(results, Failed(e))
    BY <1>7 DEF Failing
  <2>2. QED
    BY <1>6, <1>7, <2>1, FailedTyped DEF Failing
<1>8. CASE ReplayEnds
  BY <1>6, <1>8, ResultTyped DEF ReplayEnds
<1>9. CASE Collect
  <2>1. Outcome.err # "none" => promptErr # "none"
    BY DEF Outcome, Result
  <2>2. QED
    BY <1>6, <1>9, <2>1, ResultTyped DEF Collect
<1>10. CASE QueryReturns
  <2>1. results' = <<>>
    BY <1>10, Moves
  <2>2. QED
    BY <2>1 DEF ErrorIsLast
<1>11. QED
  BY <1>3, <1>4, <1>5, <1>7, <1>8, <1>9, <1>10, Shapes DEF Working

LEMMA ReturnedStep ==
  ASSUME StreamInv, [ResilientNext]_allVars
  PROVE  Returned'
<1>1. /\ Returned /\ TurnTypes /\ FlagTypes /\ Phases /\ Control /\ NotesOrder /\ DueKept
      /\ Len(emitted) \in Nat /\ mode' = mode
  BY Moves, ModeStep DEF StreamInv, LimitInv
<1>2. ASSUME UNCHANGED <<results, emitted>> PROVE Returned'
  BY <1>1, <1>2 DEF Returned
<1>3. CASE Quiet
  BY <1>2, <1>3 DEF Quiet
<1>4. CASE DrainReceives \/ DrainStores \/ ReplayReceives \/ GraceEnds \/ SurfaceWrites
  BY <1>2, <1>4 DEF DrainReceives, DrainStores, ReplayReceives, GraceEnds, SurfaceWrites,
     callVars, agentVars
<1>5. ASSUME NEW r \in Outcomes, results' = Append(results, r), emitted' = emitted,
             Exact(r, emitted, mode)
      PROVE  Returned'
  <2>1. /\ Len(results') = Len(results) + 1 /\ Len(results) \in Nat /\ results'[Len(results) + 1] = r
        /\ \A i \in 1..Len(results) : results'[i] = results[i]
        /\ \A i \in 1..(Len(results) + 1) : i \in 1..Len(results) \/ i = Len(results) + 1
    BY <1>1, <1>5, Appended DEF TurnTypes
  <2>2. QED
    BY <1>1, <1>5, <2>1 DEF Returned
<1>6. ASSUME NEW e PROVE Exact(Failed(e), emitted, mode)
  <2>1. /\ Failed(e).due = {} /\ Failed(e).notes = <<>> /\ Failed(e).text = <<>>
    BY DEF Failed
  <2>2. SetOf(<<>>) = {} /\ Assistants(emitted, <<>>) = {} /\ Ascending(<<>>)
        /\ \A i \in 1..Len(<<>>) : FALSE
    BY DEF SetOf, Assistants, Ascending
  <2>3. /\ Ascending(Failed(e).notes) /\ \A i \in 1..Len(Failed(e).notes) : FALSE
        /\ SetOf(Failed(e).text) = Assistants(emitted, Failed(e).notes)
    BY <2>1, <2>2, Zenon
  <2>4. QED
    BY <2>1, <2>3, Zenon DEF Exact
<1>7. CASE Failing
  <2>1. PICK e \in Errs : results' = Append(results, Failed(e))
    BY <1>7 DEF Failing
  <2>2. QED
    BY <1>5, <1>6, <1>7, <2>1, FailedTyped DEF Failing
<1>8. ASSUME \/ due = {}
             \/ ~ctx => \A k \in due : Kept(k)
      PROVE  Exact(Result, emitted, mode)
  <2>1. /\ Result.due = due /\ Result.notes = notes /\ Result.text = text
        /\ Result.payload = payload /\ Result.live = ~ctx
    BY DEF Result
  <2>2. \A k \in due : k > 0 /\ k <= Len(emitted)
    BY <1>1 DEF DueKept
  <2>3. ~ctx => \A k \in due : InSeq(k, notes) /\ (emitted[k].role = "assistant" => InSeq(k, text))
    BY <1>8 DEF Kept
  <2>4. ~payload => /\ Ascending(notes)
                    /\ \A i \in 1..Len(notes) : notes[i] > 0 /\ notes[i] <= Len(emitted)
                    /\ mode # "history" => SetOf(text) = Assistants(emitted, notes)
    BY <1>1 DEF NotesOrder, Before, BeforeIn
  <2>5. QED
    BY <2>1, <2>2, <2>3, <2>4, Zenon DEF Exact
<1>9. CASE ReplayEnds
  <2>1. due = {} /\ results' = Append(results, Result) /\ emitted' = emitted
    BY <1>1, <1>9 DEF ReplayEnds, Phases, Resting, agentVars
  <2>2. QED
    BY <1>5, <1>8, <2>1, ResultTyped
<1>10. CASE Collect
  <2>1. /\ drainer = "gone" /\ stop /\ results' = Append(results, Outcome) /\ emitted' = emitted
    BY <1>1, <1>10 DEF Collect, Phases, agentVars
  <2>2. ~ctx => \A k \in due : Kept(k)
    BY <1>1, <2>1 DEF DueKept, Drained
  <2>3. Exact(Outcome, emitted, mode)
    BY <1>6, <1>8, <2>2 DEF Outcome
  <2>4. QED
    BY <1>5, <2>1, <2>3, ResultTyped
<1>11. CASE QueryReturns
  <2>1. results' = <<>>
    BY <1>11, Moves
  <2>2. QED
    BY <2>1 DEF Returned
<1>12. ASSUME NEW n \in Notifs \cup Replayed, AgentEmits(n) PROVE Returned'
  <2>1. /\ Len(emitted') = Len(emitted) + 1 /\ results' = results
        /\ \A k \in 1..Len(emitted) : emitted'[k] = emitted[k]
    BY <1>12, Moves
  <2>2. ASSUME NEW r \in Outcomes, Exact(r, emitted, mode) PROVE Exact(r, emitted', mode)
    <3>1. r.notes \in Seq(Nat) /\ r.due \subseteq Nat
      BY DEF Outcomes
    <3>2. \A k \in r.due : k \in 1..Len(emitted) /\ emitted'[k] = emitted[k] /\ k <= Len(emitted')
      BY <1>1, <2>1, <2>2, <3>1 DEF Exact
    <3>3. ~r.payload => /\ \A i \in 1..Len(r.notes) : r.notes[i] > 0 /\ r.notes[i] <= Len(emitted)
                        /\ Assistants(emitted', r.notes) = Assistants(emitted, r.notes)
      BY <1>1, <2>1, <2>2, <3>1, AssistantsKept DEF Exact
    <3>4. ~r.payload => \A i \in 1..Len(r.notes) : r.notes[i] <= Len(emitted')
      BY <1>1, <2>1, <3>1, <3>3
    <3>5. QED
      BY <2>2, <3>2, <3>3, <3>4 DEF Exact
  <2>3. \A i \in 1..Len(results) : results[i] \in Outcomes
    BY <1>1 DEF TurnTypes
  <2>4. QED
    BY <1>1, <2>1, <2>2, <2>3 DEF Returned
<1>13. QED
  BY <1>3, <1>4, <1>7, <1>9, <1>10, <1>11, <1>12, Shapes DEF Working

\* The invariant of the calls holds in every state.
LEMMA StreamInvariant == ResilientSpec => []StreamInv
<1>1. ResilientInit => StreamInv
  <2> SUFFICES ASSUME ResilientInit
               PROVE  StreamInv
    OBVIOUS
  <2>1. Init /\ loop \in {"off", "check"} /\ (loop # "off" => mode = "query") /\ LimitInv
    BY LimitInit DEF ResilientInit
  <2>2. FlagTypes /\ TurnTypes /\ Phases
    <3>1. FlagTypes
      BY <2>1 DEF Init, FlagTypes, Errs
    <3>2. TurnTypes
      BY <2>1 DEF Init, TurnTypes
    <3>3. Phases
      BY <2>1 DEF Init, Phases, Running, Resting
    <3>4. QED
      BY <3>1, <3>2, <3>3
  <2>3. Ascending(<<>>) /\ (\A s : Below(s, <<>>) /\ Below(<<>>, s)) /\ SetOf(<<>>) = {}
        /\ Assistants(emitted, <<>>) = {} /\ Len(<<>>) = 0
    BY DEF Ascending, Below, SetOf, Assistants
  <2>4. /\ chan = <<>> /\ text = <<>> /\ notes = <<>> /\ results = <<>> /\ emitted = <<>>
        /\ item = 0 /\ due = {}
    BY <2>1 DEF Init
  <2>5. Before(<<>>) /\ Pipe
    BY <2>3, <2>4 DEF Before, BeforeIn, Pipe
  <2>6. TextOrder /\ ErrorIsLast /\ Returned
    BY <2>3, <2>4, <2>5 DEF TextOrder, ErrorIsLast, Returned
  <2>7. NotesOrder /\ DueKept
    <3>1. /\ Len(notes) + Len(chan) = Len(emitted) /\ Ascending(notes)
          /\ \A i \in 1..Len(notes) : notes[i] > 0
      BY <2>3, <2>4
    <3>2. Before(notes) /\ SetOf(text) = Assistants(emitted, notes)
      BY <2>3, <2>4, <2>5, Zenon
    <3>3. QED
      BY <2>4, <3>1, <3>2, Zenon DEF NotesOrder, DueKept
  <2>8. QED
    BY <2>1, <2>2, <2>5, <2>6, <2>7 DEF StreamInv
<1>2. StreamInv /\ [ResilientNext]_allVars => StreamInv'
  <2> SUFFICES ASSUME StreamInv, [ResilientNext]_allVars PROVE StreamInv'
    OBVIOUS
  <2>1. LimitInv'
    BY LimitStep DEF StreamInv
  <2>2. QED
    BY <2>1, PhasesStep, TypesStep, PipeStep, TextStep, NotesStep, DueStep, ErrorLastStep,
       ReturnedStep DEF StreamInv
<1>3. QED
  BY <1>1, <1>2, PTL DEF ResilientSpec

\* Query and QueryStream return what the session delivered: an error last, the
\* notifications delivered before stop was closed, every chunk once and in order.
THEOREM ResultsAreExact == ResilientSpec => []ResultsExact
<1>1. StreamInv => ResultsExact
  <2> SUFFICES ASSUME StreamInv PROVE ResultsExact
    OBVIOUS
  <2>1. TrailingKept
    BY DEF StreamInv, Returned, Exact, TrailingKept
  <2>2. NotesExactWithoutPayload
    BY DEF StreamInv, Returned, Exact, NotesExactWithoutPayload, Assistants
  <2>3. ChunksOnce
    BY DEF StreamInv, TextOrder, Below, ChunksOnce
  <2>4. QED
    BY <2>1, <2>2, <2>3 DEF StreamInv, ResultsExact
<1>2. QED
  BY <1>1, StreamInvariant, PTL

\* LoadSessionHistory drains the replay: what it collected and what is left in
\* Updates() are the notifications sent, in order, all of them unless they are more
\* than the channel holds.
THEOREM ReplayIsSplit == ResilientSpec => []ReplaySplit
<1>1. StreamInv => ReplaySplit
  <2> SUFFICES ASSUME StreamInv, mode = "history", pc \in {"opened", "replay", "closing"}
               PROVE  /\ Ascending(notes \o chan)
                      /\ Len(emitted) <= UpdCap => Len(notes \o chan) = Len(emitted)
    BY DEF ReplaySplit
  <2>1. NotesOrder /\ Pipe /\ TurnTypes /\ ~payload
    BY DEF StreamInv, Phases, Resting
  <2>2. notes \in Seq(Nat) /\ chan \in Seq(Nat) /\ Len(notes) \in Nat /\ Len(chan) \in Nat
    BY <2>1 DEF TurnTypes
  <2>3. Ascending(notes) /\ Ascending(chan) /\ Below(notes, chan)
    BY <2>1 DEF NotesOrder, Pipe, Before, BeforeIn
  <2> DEFINE s == notes \o chan
  <2>4. /\ Len(s) = Len(notes) + Len(chan)
        /\ \A i \in 1..Len(s) :
             \/ i \in 1..Len(notes) /\ s[i] = notes[i]
             \/ i - Len(notes) \in 1..Len(chan) /\ s[i] = chan[i - Len(notes)] /\ i > Len(notes)
    BY <2>2
  <2> HIDE DEF s
  <2>5. Ascending(s)
    <3> SUFFICES ASSUME NEW i \in 1..Len(s), NEW j \in 1..Len(s), i < j PROVE s[i] < s[j]
      BY DEF Ascending
    <3>1. CASE j \in 1..Len(notes) /\ s[j] = notes[j]
      <4>1. i \in 1..Len(notes) /\ s[i] = notes[i]
        BY <2>2, <2>4, <3>1
      <4>2. QED
        BY <2>3, <3>1, <4>1 DEF Ascending
    <3>2. ASSUME NEW l \in 1..Len(chan), l = j - Len(notes), s[j] = chan[l] PROVE s[i] < s[j]
      <4>1. CASE i \in 1..Len(notes) /\ s[i] = notes[i]
        BY <2>3, <3>2, <4>1 DEF Below
      <4>2. ASSUME NEW k \in 1..Len(chan), k = i - Len(notes), s[i] = chan[k] PROVE s[i] < s[j]
        <5>1. k < l
          BY <2>2, <2>4, <3>2, <4>2
        <5>2. QED
          BY <2>3, <3>2, <4>2, <5>1 DEF Ascending
      <4>3. QED
        BY <2>4, <4>1, <4>2
    <3>3. QED
      BY <2>4, <3>1, <3>2
  <2>6. QED
    BY <2>1, <2>4, <2>5 DEF NotesOrder, s
<1>2. QED
  BY <1>1, StreamInvariant, PTL


-----------------------------------------------------------------------------
(* The messages of a replay.                                               *)

\* messagesFromNotifications before its loop.
NoRole == ""
Blank == [role |-> NoRole, text |-> <<>>, out |-> <<>>]

\* The loop computes what its turns say, notification by notification.
LEMMA FoldUnfolds ==
  ASSUME NEW ns \in Seq(Nat)
  PROVE  \E f : /\ f[0] = Blank
                /\ \A i \in 1..Len(ns) : f[i] = FoldChunk(f[i - 1], ns[i])
                /\ MessagesFrom(ns) = Flushed(f[Len(ns)])
<1> DEFINE F(d, i) == IF i = 0 THEN Blank ELSE FoldChunk(d[i - 1], ns[i])
           Good(k) == \E d : d = [i \in 0..k |-> F(d, i)]
           S == {k \in Nat : ~Good(k)}
<1>1. S = {}
  <2> SUFFICES ASSUME S # {} PROVE FALSE
    OBVIOUS
  <2>1. PICK m \in S : \A k \in S : m <= k
    <3>1. S \subseteq Nat
      OBVIOUS
    <3> HIDE DEF S
    <3>2. QED
      BY <3>1, LeastElement
  <2>2. m # 0
    <3>1. Good(0)
      <4> DEFINE e == [i \in 0..0 |-> Blank]
      <4>1. e = [i \in 0..0 |-> F(e, i)]
        OBVIOUS
      <4>2. QED
        BY <4>1
    <3>2. QED
      BY <2>1, <3>1
  <2>3. m \in Nat /\ m - 1 \in Nat /\ Good(m - 1)
    <3> HIDE DEF Good
    <3>1. m \in Nat /\ m - 1 \in Nat /\ m - 1 \notin S
      BY <2>1, <2>2
    <3>2. QED
      BY <3>1
  <2>4. PICK d : d = [i \in 0..(m - 1) |-> F(d, i)]
    BY <2>3
  <2> DEFINE e == [i \in 0..m |-> IF i <= m - 1 THEN d[i] ELSE FoldChunk(d[m - 1], ns[m])]
  <2>5. \A i \in 0..m : e[i] = F(e, i)
    <3> SUFFICES ASSUME NEW i \in 0..m PROVE e[i] = F(e, i)
      OBVIOUS
    <3>1. CASE i = 0
      <4>1. e[0] = d[0] /\ d[0] = Blank
        BY <2>3, <2>4
      <4>2. QED
        BY <3>1, <4>1
    <3>2. CASE i # 0
      <4>1. i - 1 \in 0..(m - 1) /\ e[i - 1] = d[i - 1]
        BY <2>3, <3>2
      <4>2. CASE i <= m - 1
        <5>1. d[i] = FoldChunk(d[i - 1], ns[i])
          BY <2>3, <2>4, <3>2, <4>2
        <5>2. QED
          BY <2>3, <3>2, <4>1, <4>2, <5>1
      <4>3. CASE ~(i <= m - 1)
        <5>1. i = m
          BY <2>3, <4>3
        <5>2. QED
          BY <2>3, <3>2, <4>1, <4>3, <5>1
      <4>4. QED
        BY <4>2, <4>3
    <3>3. QED
      BY <3>1, <3>2
  <2>6. e = [i \in 0..m |-> F(e, i)]
    <3>1. e = [i \in 0..m |-> e[i]]
      OBVIOUS
    <3> HIDE DEF e
    <3>2. QED
      BY <2>5, <3>1
  <2>7. QED
    BY <2>1, <2>6
<1>2. Len(ns) \in Nat /\ Good(Len(ns))
  BY <1>1
<1> DEFINE f == CHOOSE d : d = [i \in 0..Len(ns) |-> F(d, i)]
<1>3. f = [i \in 0..Len(ns) |-> F(f, i)]
  BY <1>2
<1>4. MessagesFrom(ns) = Flushed(f[Len(ns)])
  BY Zenon DEF MessagesFrom, Blank, NoRole
<1> HIDE DEF f
<1>5. f[0] = Blank /\ \A i \in 1..Len(ns) : f[i] = FoldChunk(f[i - 1], ns[i])
  BY <1>2, <1>3
<1>6. QED
  BY <1>4, <1>5


\* For a set P of notifications that are chunks: no chunk of another role is
\* between a and b; a message holds non-empty chunks of one role that nothing
\* separates; one text precedes another, with a chunk of another role between;
\* a text can get no more chunks; the next chunk of role r belongs to a text.
Joined(P, a, b) == \A k \in P : a <= k /\ k <= b => emitted[k].role = emitted[a].role
Message(P, r, t) ==
  /\ t \in Seq(Nat) /\ Ascending(t)
  /\ \A a \in 1..Len(t) : t[a] \in P /\ ~emitted[t[a]].blank /\ emitted[t[a]].role = r
  /\ \A a, b \in 1..Len(t) : Joined(P, t[a], t[b])
Precedes(P, t, u) ==
  \A a \in 1..Len(t), b \in 1..Len(u) : t[a] < u[b] /\ ~Joined(P, t[a], u[b])
Closed(P, t) ==
  \A a \in 1..Len(t) : \E k \in P : t[a] <= k /\ emitted[k].role # emitted[t[a]].role
Unclosed(P, r, t) == \A a \in 1..Len(t) : \A k \in P : t[a] <= k => emitted[k].role = r

Speakers == {"assistant", "user", "thought"}
Messages == Speakers \X Seq(Nat)
Who(c)   == c[1]
What(c)  == c[2]

\* What the chunk x adds to a text.
Chunk(x, t) == /\ t \in Seq(Nat)
               /\ IF emitted[x].blank THEN Len(t) = 0 ELSE Len(t) = 1 /\ t[1] = x

\* Messages in order, with every chunk of P that is not in the text t.
Sorted(P, out) ==
  /\ \A m \in 1..Len(out) : Message(P, Who(out[m]), What(out[m])) /\ What(out[m]) # <<>>
  /\ \A l, m \in 1..Len(out) : l < m => Precedes(P, What(out[l]), What(out[m]))
Complete(P, out, t) ==
  \A k \in P : ~emitted[k].blank =>
    InSeq(k, t) \/ \E m \in 1..Len(out) : InSeq(k, What(out[m]))

\* The loop of messagesFromNotifications after the chunks of P.
Folded(P, s) ==
  /\ s = [role |-> s.role, text |-> s.text, out |-> s.out]
  /\ s.role \in Speakers \cup {NoRole} /\ s.out \in Seq(Messages)
  /\ s.role = NoRole => s.text = <<>>
  /\ Message(P, s.role, s.text) /\ Unclosed(P, s.role, s.text)
  /\ Sorted(P, s.out) /\ Complete(P, s.out, s.text)
  /\ \A m \in 1..Len(s.out) : Closed(P, What(s.out[m])) /\ Precedes(P, What(s.out[m]), s.text)

\* A later chunk x changes nothing between the earlier ones.
LEMMA LaterChunk ==
  ASSUME NEW P, P \subseteq Nat, NEW x \in Nat, \A k \in P : k < x
  PROVE  LET Q == P \cup {x}
         IN /\ \A r, t : Message(P, r, t) => Message(Q, r, t)
            /\ \A t : Closed(P, t) => Closed(Q, t)
            /\ \A t, u : Precedes(P, t, u) => Precedes(Q, t, u)
            /\ \A out : Sorted(P, out) => Sorted(Q, out)
            /\ \A k \in Q : k <= x /\ (k # x => k \in P /\ ~(x <= k))
<1> DEFINE Q == P \cup {x}
<1>1. ASSUME NEW r, NEW t, Message(P, r, t) PROVE Message(Q, r, t)
  BY <1>1 DEF Message, Joined
<1>2. ASSUME NEW t, Closed(P, t) PROVE Closed(Q, t)
  BY <1>2 DEF Closed
<1>3. ASSUME NEW t, NEW u, Precedes(P, t, u) PROVE Precedes(Q, t, u)
  BY <1>3 DEF Precedes, Joined
<1>4. ASSUME NEW out, Sorted(P, out) PROVE Sorted(Q, out)
  BY <1>1, <1>3, <1>4 DEF Sorted
<1>5. \A k \in Q : k <= x /\ (k # x => k \in P /\ ~(x <= k))
  OBVIOUS
<1>6. QED
  BY <1>1, <1>2, <1>3, <1>4, <1>5

\* A flush files the text: what it leaves is sorted and complete.
LEMMA FlushSorts ==
  ASSUME NEW P, NEW s, Folded(P, s)
  PROVE  /\ Flushed(s) \in Seq(Messages)
         /\ Sorted(P, Flushed(s)) /\ Complete(P, Flushed(s), <<>>)
         /\ \A m \in 1..Len(Flushed(s)) :
              \/ m \in 1..Len(s.out) /\ Flushed(s)[m] = s.out[m]
              \/ s.role # NoRole /\ Flushed(s)[m] = <<s.role, s.text>>
<1> DEFINE r == s.role
           t == s.text
           o == s.out
           w == Flushed(s)
<1>1. /\ r \in Speakers \cup {NoRole} /\ o \in Seq(Messages) /\ (r = NoRole => t = <<>>)
      /\ Message(P, r, t) /\ Sorted(P, o) /\ Complete(P, o, t) /\ t \in Seq(Nat)
      /\ \A m \in 1..Len(o) : Precedes(P, What(o[m]), t)
  BY DEF Folded, Message
<1>2. w = IF r = NoRole \/ t = <<>> THEN o ELSE Append(o, <<r, t>>)
  BY Zenon DEF Flushed, NoRole
<1> HIDE DEF r, t, o, w
<1>3. CASE r = NoRole \/ t = <<>>
  <2>1. w = o /\ t = <<>>
    BY <1>1, <1>2, <1>3
  <2>2. QED
    BY <1>1, <2>1 DEF r, t, o, w
<1>4. CASE ~(r = NoRole \/ t = <<>>)
  <2> DEFINE c == <<r, t>>
  <2>1. w = Append(o, c) /\ c \in Messages /\ Who(c) = r /\ What(c) = t
    BY <1>1, <1>2, <1>4 DEF Messages, Who, What
  <2> HIDE DEF c
  <2>2. w \in Seq(Messages) /\ Len(o) \in Nat /\ Len(w) = Len(o) + 1
    BY <1>1, <2>1
  <2>3. \A m \in 1..Len(w) : IF m = Len(o) + 1 THEN w[m] = c
                                               ELSE m \in 1..Len(o) /\ w[m] = o[m]
    BY <1>1, <2>1, <2>2
  <2>4. /\ Who(w[Len(o) + 1]) = r /\ What(w[Len(o) + 1]) = t
        /\ \A m \in 1..Len(o) : w[m] = o[m]
    BY <2>1, <2>2, <2>3
  <2>5. ASSUME NEW m \in 1..Len(w)
        PROVE  Message(P, Who(w[m]), What(w[m])) /\ What(w[m]) # <<>>
    <3>1. CASE m = Len(o) + 1
      BY <1>1, <1>4, <2>4, <3>1
    <3>2. CASE m # Len(o) + 1
      BY <1>1, <2>3, <3>2 DEF Sorted
    <3>3. QED
      BY <3>1, <3>2
  <2>6. ASSUME NEW l \in 1..Len(w), NEW m \in 1..Len(w), l < m
        PROVE  Precedes(P, What(w[l]), What(w[m]))
    <3>1. l \in 1..Len(o) /\ w[l] = o[l]
      BY <2>2, <2>3, <2>6
    <3>2. CASE m = Len(o) + 1
      BY <1>1, <2>4, <3>1, <3>2
    <3>3. CASE m # Len(o) + 1
      <4>1. m \in 1..Len(o) /\ w[m] = o[m]
        BY <2>3, <3>3
      <4>2. QED
        BY <1>1, <2>6, <3>1, <4>1 DEF Sorted
    <3>4. QED
      BY <3>2, <3>3
  <2>7. Complete(P, w, <<>>)
    <3> SUFFICES ASSUME NEW k \in P, ~emitted[k].blank
                 PROVE  \E m \in 1..Len(w) : InSeq(k, What(w[m]))
      BY DEF Complete
    <3>1. CASE InSeq(k, t)
      BY <2>2, <2>4, <3>1
    <3>2. CASE \E m \in 1..Len(o) : InSeq(k, What(o[m]))
      BY <2>2, <2>4, <3>2
    <3>3. QED
      BY <1>1, <3>1, <3>2 DEF Complete
  <2>8. QED
    BY <1>4, <2>2, <2>3, <2>5, <2>6, <2>7 DEF r, t, o, w, c, Sorted
<1>5. QED
  BY <1>3, <1>4


\* What appending a chunk does to a text.
LEMMA ChunkAppends ==
  ASSUME NEW u \in Seq(Nat), NEW x \in Nat, NEW t, Chunk(x, t)
  PROVE  LET v == u \o t
         IN /\ v \in Seq(Nat) /\ Len(u) \in Nat /\ Len(v) \in Nat
            /\ \A a \in 1..Len(u) : a \in 1..Len(v) /\ v[a] = u[a]
            /\ \A a \in 1..Len(v) : \/ a \in 1..Len(u) /\ v[a] = u[a]
                                    \/ a = Len(u) + 1 /\ v[a] = x /\ ~emitted[x].blank
            /\ ~emitted[x].blank => \E a \in 1..Len(v) : v[a] = x
            /\ Ascending(u) /\ (\A a \in 1..Len(u) : u[a] < x) => Ascending(v)
<1> DEFINE v == u \o t
           b == emitted[x].blank
<1>1. t \in Seq(Nat) /\ IF b THEN Len(t) = 0 ELSE Len(t) = 1 /\ t[1] = x
  BY DEF Chunk
<1> HIDE DEF b
<1>2. v \in Seq(Nat) /\ Len(u) \in Nat /\ Len(t) \in Nat /\ Len(v) = Len(u) + Len(t)
  BY <1>1
<1>3. \A a \in 1..Len(u) : v[a] = u[a]
  BY <1>1
<1>4. \A a \in 1..Len(t) : v[Len(u) + a] = t[a]
  BY <1>1
<1> HIDE DEF v
<1>5. CASE b
  <2>1. Len(v) = Len(u)
    BY <1>1, <1>2, <1>5
  <2>2. Ascending(u) => Ascending(v)
    <3>1. \A a \in 1..Len(v) : v[a] = u[a] /\ a \in 1..Len(u)
      BY <1>3, <2>1
    <3>2. QED
      BY <3>1 DEF Ascending
  <2>3. QED
    BY <1>2, <1>3, <1>5, <2>1, <2>2 DEF v, b
<1>6. CASE ~b
  <2>1. Len(v) = Len(u) + 1 /\ v[Len(u) + 1] = x
    <3>1. Len(t) = 1 /\ t[1] = x
      BY <1>1, <1>6, Zenon
    <3>2. 1 \in 1..Len(t)
      BY <3>1
    <3>3. QED
      BY <1>2, <1>4, <3>1, <3>2
  <2>2. \A a \in 1..Len(v) : a \in 1..Len(u) \/ a = Len(u) + 1
    BY <1>2, <2>1
  <2>3. Ascending(u) /\ (\A a \in 1..Len(u) : u[a] < x) => Ascending(v)
    <3> SUFFICES ASSUME Ascending(u), \A a \in 1..Len(u) : u[a] < x,
                        NEW i \in 1..Len(v), NEW j \in 1..Len(v), i < j
                 PROVE  v[i] < v[j]
      BY DEF Ascending
    <3>1. i \in 1..Len(u) /\ v[i] = u[i]
      BY <1>2, <1>3, <2>1
    <3>2. CASE j = Len(u) + 1
      BY <2>1, <3>1, <3>2
    <3>3. CASE j \in 1..Len(u)
      BY <1>3, <3>1, <3>3 DEF Ascending
    <3>4. QED
      BY <2>2, <3>2, <3>3
  <2>4. Len(u) + 1 \in 1..Len(v) /\ \A a \in 1..Len(u) : a \in 1..Len(v)
    BY <1>2, <2>1
  <2>5. QED
    BY <1>2, <1>3, <1>6, <2>1, <2>2, <2>3, <2>4 DEF v, b
<1>7. QED
  BY <1>5, <1>6

\* A text that a chunk begins.
LEMMA ChunkAlone ==
  ASSUME NEW x \in Nat, NEW t, Chunk(x, t)
  PROVE  /\ t \in Seq(Nat)
         /\ \A a \in 1..Len(t) : a = 1 /\ t[a] = x /\ ~emitted[x].blank
         /\ ~emitted[x].blank => 1 \in 1..Len(t) /\ t[1] = x
<1> DEFINE b == emitted[x].blank
<1>1. t \in Seq(Nat) /\ IF b THEN Len(t) = 0 ELSE Len(t) = 1 /\ t[1] = x
  BY DEF Chunk
<1> HIDE DEF b
<1>2. CASE b
  BY <1>1, <1>2 DEF b
<1>3. CASE ~b
  <2>1. 1..Len(t) = {1} /\ t[1] = x
    <3>1. Len(t) = 1 /\ t[1] = x
      BY <1>1, <1>3, Zenon
    <3>2. QED
      BY <3>1
  <2>2. QED
    BY <1>1, <1>3, <2>1 DEF b
<1>4. QED
  BY <1>2, <1>3

\* A chunk of the current role joins the text.
LEMMA SameRole ==
  ASSUME NEW P, P \subseteq Nat, NEW x \in Nat, \A k \in P : k < x,
         NEW s, Folded(P, s), emitted[x].role = s.role, s.role # NoRole,
         NEW t, Chunk(x, t)
  PROVE  Folded(P \cup {x}, [s EXCEPT !.text = @ \o t])
<1> DEFINE Q == P \cup {x}
           r == s.role
           u == s.text
           o == s.out
           v == u \o t
           z == [s EXCEPT !.text = @ \o t]
<1>1. /\ r \in Speakers \cup {NoRole} /\ o \in Seq(Messages) /\ emitted[x].role = r /\ r # NoRole
      /\ Message(P, r, u) /\ Unclosed(P, r, u) /\ Sorted(P, o) /\ Complete(P, o, u)
      /\ u \in Seq(Nat) /\ \A m \in 1..Len(o) : Closed(P, What(o[m])) /\ Precedes(P, What(o[m]), u)
  BY DEF Folded, Message
<1>2. z = [role |-> r, text |-> v, out |-> o]
  <2>1. s = [role |-> s.role, text |-> s.text, out |-> s.out]
    BY DEF Folded
  <2>2. QED
    BY <2>1
<1>3. z.role = r /\ z.text = v /\ z.out = o
  BY <1>2
<1>4. /\ v \in Seq(Nat) /\ Len(u) \in Nat /\ Len(v) \in Nat
      /\ \A a \in 1..Len(u) : a \in 1..Len(v) /\ v[a] = u[a]
      /\ \A a \in 1..Len(v) : \/ a \in 1..Len(u) /\ v[a] = u[a]
                              \/ a = Len(u) + 1 /\ v[a] = x /\ ~emitted[x].blank
      /\ ~emitted[x].blank => \E a \in 1..Len(v) : v[a] = x
      /\ Ascending(u) /\ (\A a \in 1..Len(u) : u[a] < x) => Ascending(v)
  <2> HIDE DEF u
  <2>1. QED
    BY <1>1, ChunkAppends
<1> HIDE DEF v, z, u, o, r, Q
<1>5. /\ Q = P \cup {x}
      /\ \A k \in Q : k <= x /\ (k # x => k \in P /\ ~(x <= k))
      /\ Message(Q, r, u) /\ Sorted(Q, o)
      /\ \A m \in 1..Len(o) : Closed(Q, What(o[m])) /\ Precedes(Q, What(o[m]), u)
  BY <1>1, LaterChunk DEF Q
<1>6. Message(Q, r, v)
  <2>1. Ascending(v)
    <3>1. \A a \in 1..Len(u) : u[a] < x
      BY <1>1 DEF Message
    <3>2. QED
      BY <1>1, <1>4, <3>1 DEF Message
  <2>2. \A a \in 1..Len(v) : v[a] \in Q /\ ~emitted[v[a]].blank /\ emitted[v[a]].role = r
    BY <1>1, <1>4, <1>5 DEF Message
  <2>3. ASSUME NEW a \in 1..Len(v), NEW b \in 1..Len(v) PROVE Joined(Q, v[a], v[b])
    <3>1. CASE a \in 1..Len(u) /\ v[a] = u[a]
      <4>1. \A k \in Q : u[a] <= k => emitted[k].role = r
        BY <1>1, <1>5, <3>1 DEF Unclosed
      <4>2. QED
        BY <2>2, <3>1, <4>1 DEF Joined
    <3>2. CASE v[a] = x
      <4>1. \A k \in Q : x <= k => k = x
        BY <1>5
      <4>2. QED
        BY <3>2, <4>1 DEF Joined
    <3>3. QED
      BY <1>4, <3>1, <3>2
  <2>4. QED
    BY <1>4, <2>1, <2>2, <2>3 DEF Message
<1>7. Unclosed(Q, r, v)
  <2> SUFFICES ASSUME NEW a \in 1..Len(v), NEW k \in Q, v[a] <= k PROVE emitted[k].role = r
    BY DEF Unclosed
  <2>1. CASE k = x
    BY <1>1, <2>1
  <2>2. CASE k \in P
    <3>1. v[a] # x
      BY <1>5, <2>2
    <3>2. QED
      BY <1>1, <1>4, <2>2, <3>1 DEF Unclosed
  <2>3. QED
    BY <1>5, <2>1, <2>2
<1>8. ASSUME NEW m \in 1..Len(o) PROVE Precedes(Q, What(o[m]), v)
  <2> DEFINE w == What(o[m])
  <2>1. Closed(Q, w) /\ Precedes(Q, w, u) /\ Message(P, Who(o[m]), w)
    BY <1>1, <1>5 DEF Sorted
  <2> HIDE DEF w
  <2> SUFFICES ASSUME NEW a \in 1..Len(w), NEW b \in 1..Len(v)
               PROVE  w[a] < v[b] /\ ~Joined(Q, w[a], v[b])
    BY DEF Precedes, w
  <2>2. CASE b \in 1..Len(u) /\ v[b] = u[b]
    BY <2>1, <2>2 DEF Precedes
  <2>3. CASE v[b] = x
    <3>1. w[a] \in P
      BY <2>1 DEF Message
    <3>2. PICK k \in Q : w[a] <= k /\ emitted[k].role # emitted[w[a]].role
      BY <2>1 DEF Closed
    <3>3. w[a] < x /\ k <= x
      BY <1>5, <3>1
    <3>4. QED
      BY <2>3, <3>2, <3>3 DEF Joined
  <2>4. QED
    BY <1>4, <2>2, <2>3
<1>9. Complete(Q, o, v)
  <2> SUFFICES ASSUME NEW k \in Q, ~emitted[k].blank
               PROVE  InSeq(k, v) \/ \E m \in 1..Len(o) : InSeq(k, What(o[m]))
    BY DEF Complete
  <2>1. CASE k = x
    BY <1>4, <2>1 DEF InSeq
  <2>2. CASE k \in P
    <3>1. InSeq(k, u) => InSeq(k, v)
      BY <1>4 DEF InSeq
    <3>2. QED
      BY <1>1, <2>2, <3>1 DEF Complete
  <2>3. QED
    BY <1>5, <2>1, <2>2
<1>10. Folded(Q, z)
  BY <1>1, <1>2, <1>3, <1>5, <1>6, <1>7, <1>8, <1>9 DEF Folded
<1>11. QED
  BY <1>10 DEF Q, z

\* A chunk of another role begins a text of its own.
LEMMA OtherRole ==
  ASSUME NEW P, P \subseteq Nat, NEW x \in Nat, \A k \in P : k < x,
         NEW s, Folded(P, s), emitted[x].role # s.role, emitted[x].role \in Speakers,
         NEW t, Chunk(x, t)
  PROVE  Folded(P \cup {x}, [role |-> emitted[x].role, text |-> t, out |-> Flushed(s)])
<1> DEFINE Q == P \cup {x}
           r == emitted[x].role
           o == Flushed(s)
           z == [role |-> r, text |-> t, out |-> o]
<1>1. /\ o \in Seq(Messages) /\ Sorted(P, o) /\ Complete(P, o, <<>>)
      /\ \A m \in 1..Len(o) : \/ m \in 1..Len(s.out) /\ o[m] = s.out[m]
                              \/ s.role # NoRole /\ o[m] = <<s.role, s.text>>
  BY FlushSorts
<1>2. z.role = r /\ z.text = t /\ z.out = o /\ r # NoRole
  BY DEF Speakers, NoRole
<1>3. /\ t \in Seq(Nat)
      /\ \A a \in 1..Len(t) : a = 1 /\ t[a] = x /\ ~emitted[x].blank
      /\ ~emitted[x].blank => 1 \in 1..Len(t) /\ t[1] = x
  BY ChunkAlone
<1> HIDE DEF Q, o, z
<1>4. /\ Q = P \cup {x} /\ Sorted(Q, o)
      /\ \A w : Closed(P, w) => Closed(Q, w)
      /\ \A k \in Q : k <= x /\ (k # x => k \in P /\ ~(x <= k))
  BY <1>1, LaterChunk DEF Q
<1>5. \A k \in Q : x <= k => k = x
  BY <1>4
<1>6. Message(Q, r, t)
  <2>1. Ascending(t)
    BY <1>3 DEF Ascending
  <2>2. \A a, b \in 1..Len(t) : Joined(Q, t[a], t[b])
    BY <1>3, <1>5 DEF Joined
  <2>3. QED
    BY <1>3, <1>4, <2>1, <2>2 DEF Message
<1>7. Unclosed(Q, r, t)
  BY <1>3, <1>5 DEF Unclosed
<1>8. ASSUME NEW m \in 1..Len(o) PROVE Closed(Q, What(o[m])) /\ Precedes(Q, What(o[m]), t)
  <2> DEFINE w == What(o[m])
  <2>1. Message(P, Who(o[m]), w)
    BY <1>1 DEF Sorted
  <2>2. Closed(Q, w)
    <3>1. CASE m \in 1..Len(s.out) /\ o[m] = s.out[m]
      <4>1. Closed(P, What(s.out[m]))
        BY <3>1 DEF Folded
      <4>2. Closed(Q, What(s.out[m]))
        BY <1>4, <4>1
      <4>3. QED
        BY <3>1, <4>2
    <3>2. CASE o[m] = <<s.role, s.text>>
      <4>1. Who(o[m]) = s.role
        BY <3>2 DEF Who
      <4> HIDE DEF w
      <4>2. \A a \in 1..Len(w) : w[a] \in P /\ emitted[w[a]].role = s.role
        BY <2>1, <4>1 DEF Message
      <4>3. \A a \in 1..Len(w) : w[a] <= x /\ x \in Q
        BY <1>4, <4>2
      <4>4. QED
        BY <4>2, <4>3 DEF Closed
    <3>3. QED
      BY <1>1, <3>1, <3>2
  <2> HIDE DEF w
  <2>3. Precedes(Q, w, t)
    <3> SUFFICES ASSUME NEW a \in 1..Len(w), NEW b \in 1..Len(t)
                 PROVE  w[a] < t[b] /\ ~Joined(Q, w[a], t[b])
      BY DEF Precedes
    <3>1. w[a] \in P /\ t[b] = x
      BY <1>3, <2>1 DEF Message
    <3>2. PICK k \in Q : w[a] <= k /\ emitted[k].role # emitted[w[a]].role
      BY <2>2 DEF Closed
    <3>3. w[a] < x /\ k <= x
      BY <1>4, <3>1
    <3>4. QED
      BY <3>1, <3>2, <3>3 DEF Joined
  <2>4. QED
    BY <2>2, <2>3 DEF w
<1>9. Complete(Q, o, t)
  <2> SUFFICES ASSUME NEW k \in Q, ~emitted[k].blank
               PROVE  InSeq(k, t) \/ \E m \in 1..Len(o) : InSeq(k, What(o[m]))
    BY DEF Complete
  <2>1. CASE k = x
    BY <1>3, <2>1 DEF InSeq
  <2>2. CASE k \in P
    <3>1. ~InSeq(k, <<>>)
      BY DEF InSeq
    <3>2. QED
      BY <1>1, <2>2, <3>1 DEF Complete
  <2>3. QED
    BY <1>4, <2>1, <2>2
<1>10. Folded(Q, z)
  <2>1. z = [role |-> z.role, text |-> z.text, out |-> z.out]
    BY DEF z
  <2>2. QED
    BY <1>1, <1>2, <1>4, <1>6, <1>7, <1>8, <1>9, <2>1 DEF Folded
<1>11. QED
  BY <1>10 DEF Q, z, o


\* The chunks among the first i notifications of ns.
Spoken(ns, i) == {k \in {ns[j] : j \in 1..i} : emitted[k].role # "none"}

\* messagesFromNotifications sorts every chunk it is given.
LEMMA MessagesSorted ==
  ASSUME NEW ns \in Seq(Nat), Ascending(ns),
         \A j \in 1..Len(ns) : emitted[ns[j]].role \in Speakers \cup {"none"}
  PROVE  LET P == Spoken(ns, Len(ns))
         IN Sorted(P, MessagesFrom(ns)) /\ Complete(P, MessagesFrom(ns), <<>>)
<1>1. PICK f : /\ f[0] = Blank
               /\ \A i \in 1..Len(ns) : f[i] = FoldChunk(f[i - 1], ns[i])
               /\ MessagesFrom(ns) = Flushed(f[Len(ns)])
  BY FoldUnfolds
<1> DEFINE Good(i) == Folded(Spoken(ns, i), f[i])
           S == {i \in 0..Len(ns) : ~Good(i)}
<1>2. Len(ns) \in Nat
  OBVIOUS
<1>3. Good(0)
  <2>1. Spoken(ns, 0) = {}
    BY DEF Spoken
  <2>2. /\ Blank = [role |-> Blank.role, text |-> Blank.text, out |-> Blank.out]
        /\ Blank.role = NoRole /\ Blank.text = <<>> /\ Blank.out = <<>>
    BY DEF Blank
  <2> HIDE DEF Blank
  <2>3. Message({}, NoRole, <<>>) /\ Unclosed({}, NoRole, <<>>)
    BY DEF Message, Unclosed, Ascending
  <2>4. Sorted({}, <<>>) /\ Complete({}, <<>>, <<>>) /\ <<>> \in Seq(Messages)
    BY DEF Sorted, Complete
  <2>5. Folded({}, Blank)
    <3>1. \A m \in 1..Len(Blank.out) : FALSE
      BY <2>2
    <3>2. QED
      BY <2>2, <2>3, <2>4, <3>1 DEF Folded
  <2>6. QED
    BY <1>1, <2>1, <2>5
<1>4. ASSUME NEW i \in 1..Len(ns), Good(i - 1) PROVE Good(i)
  <2> DEFINE P == Spoken(ns, i - 1)
             x == ns[i]
             s == f[i - 1]
             t == IF emitted[x].blank THEN <<>> ELSE <<x>>
  <2>1. x \in Nat /\ P \subseteq Nat /\ emitted[x].role \in Speakers \cup {"none"}
    BY <1>2 DEF Spoken
  <2>2. \A k \in P : k < x
    BY <1>2 DEF Spoken, Ascending
  <2>3. Spoken(ns, i) = IF emitted[x].role = "none" THEN P ELSE P \cup {x}
    <3>1. {ns[j] : j \in 1..i} = {ns[j] : j \in 1..(i - 1)} \cup {x}
      BY <1>2
    <3>2. QED
      BY <3>1 DEF Spoken
  <2>4. Folded(P, s) /\ f[i] = FoldChunk(s, x)
    BY <1>1, <1>4
  <2>5. f[i] = IF emitted[x].role = "none" THEN s
               ELSE IF emitted[x].role = s.role THEN [s EXCEPT !.text = @ \o t]
               ELSE [role |-> emitted[x].role, text |-> t, out |-> Flushed(s)]
    BY <2>4 DEF FoldChunk
  <2>6. Chunk(x, t)
    BY <2>1 DEF Chunk
  <2> HIDE DEF P, x, s, t
  <2>7. CASE emitted[x].role = "none"
    BY <2>3, <2>4, <2>5, <2>7
  <2>8. CASE emitted[x].role # "none" /\ emitted[x].role = s.role
    <3>1. s.role # NoRole
      BY <2>1, <2>8 DEF Speakers, NoRole
    <3>2. Folded(P \cup {x}, [s EXCEPT !.text = @ \o t])
      BY <2>1, <2>2, <2>4, <2>6, <2>8, <3>1, SameRole
    <3>3. QED
      BY <2>3, <2>5, <2>8, <3>2
  <2>9. CASE emitted[x].role # "none" /\ emitted[x].role # s.role
    <3>1. emitted[x].role \in Speakers
      BY <2>1, <2>9
    <3>2. Folded(P \cup {x}, [role |-> emitted[x].role, text |-> t, out |-> Flushed(s)])
      BY <2>1, <2>2, <2>4, <2>6, <2>9, <3>1, OtherRole
    <3>3. QED
      BY <2>3, <2>5, <2>9, <3>2
  <2>10. QED
    BY <2>7, <2>8, <2>9
<1> HIDE DEF Good
<1>5. S = {}
  <2> SUFFICES ASSUME S # {} PROVE FALSE
    OBVIOUS
  <2>1. S \subseteq Nat
    BY <1>2
  <2>2. PICK m \in S : \A k \in S : m <= k
    <3> HIDE DEF S
    <3>1. QED
      BY <2>1, LeastElement
  <2>3. m # 0
    BY <1>3, <2>2
  <2>4. m \in 1..Len(ns) /\ m - 1 \in 0..Len(ns) /\ m - 1 \notin S
    BY <1>2, <2>2, <2>3
  <2>5. QED
    BY <1>4, <2>2, <2>4
<1>6. Good(Len(ns))
  BY <1>2, <1>5
<1>7. QED
  BY <1>1, <1>6, FlushSorts DEF Good

\* LoadSessionHistory's messages are the replay: every non-empty chunk once and in
\* order, under its role, in one message with its neighbours of that role.
THEOREM HistoryIsExact == ResilientSpec => []HistoryExact
<1>1. StreamInv => MessagesMatch
  <2> DEFINE ms == MessagesFrom(notes)
             P == Spoken(notes, Len(notes))
  <2> SUFFICES ASSUME StreamInv, mode = "history", pc = "closing"
               PROVE
         /\ \A k \in P : ~emitted[k].blank => \E m \in 1..Len(ms) : k \in SetOf(ms[m][2])
         /\ \A m \in 1..Len(ms) :
              /\ Ascending(ms[m][2]) /\ ms[m][2] # <<>>
              /\ \A k \in SetOf(ms[m][2]) :
                   k \in P /\ ~emitted[k].blank /\ emitted[k].role = ms[m][1]
         /\ \A l, m \in 1..Len(ms) : \A a \in SetOf(ms[l][2]), b \in SetOf(ms[m][2]) :
              a <= b => l <= m /\ (l = m <=> Joined(P, a, b))
    BY Zenon DEF MessagesMatch, Spoken, Joined, SetOf
  <2>1. /\ notes \in Seq(Nat) /\ Ascending(notes)
        /\ \A j \in 1..Len(notes) : notes[j] \in 1..Len(emitted)
    <3>1. NotesOrder /\ TurnTypes /\ ~payload
      BY DEF StreamInv, Phases, Resting
    <3>2. QED
      BY <3>1 DEF NotesOrder, TurnTypes, Before, BeforeIn
  <2>2. \A j \in 1..Len(notes) : emitted[notes[j]].role \in Speakers \cup {"none"}
    <3>1. emitted \in Seq(Notifs \cup Replayed)
      BY DEF StreamInv, LimitInv, Counter
    <3>2. \A k \in 1..Len(emitted) : emitted[k] \in Notifs \cup Replayed
      BY <3>1
    <3>3. QED
      BY <2>1, <3>2, NotifAssumption DEF Speakers
  <2>3. Sorted(P, ms) /\ Complete(P, ms, <<>>)
    BY <2>1, <2>2, MessagesSorted
  <2> HIDE DEF ms, P
  <2>4. \A k, s : k \in SetOf(s) <=> \E i \in 1..Len(s) : s[i] = k
    BY DEF SetOf
  <2>5. ASSUME NEW k \in P, ~emitted[k].blank
        PROVE  \E m \in 1..Len(ms) : k \in SetOf(ms[m][2])
    <3>1. ~InSeq(k, <<>>)
      BY DEF InSeq
    <3>2. QED
      <4>1. PICK m \in 1..Len(ms) : InSeq(k, What(ms[m]))
        BY <2>3, <2>5, <3>1 DEF Complete
      <4>2. QED
        BY <2>4, <4>1 DEF InSeq, What
  <2>6. ASSUME NEW m \in 1..Len(ms)
        PROVE  /\ Message(P, ms[m][1], ms[m][2]) /\ ms[m][2] # <<>>
               /\ \A k \in SetOf(ms[m][2]) :
                    k \in P /\ ~emitted[k].blank /\ emitted[k].role = ms[m][1] /\ k \in Nat
    <3>1. Message(P, ms[m][1], ms[m][2]) /\ ms[m][2] # <<>>
      BY <2>3 DEF Sorted, Who, What
    <3>2. QED
      BY <2>4, <3>1 DEF Message
  <2>7. ASSUME NEW l \in 1..Len(ms), NEW m \in 1..Len(ms),
               NEW a \in SetOf(ms[l][2]), NEW b \in SetOf(ms[m][2]), a <= b
        PROVE  l <= m /\ (l = m <=> Joined(P, a, b))
    <3>1. a \in Nat /\ b \in Nat
      BY <2>6
    <3>2. CASE l = m
      BY <2>4, <2>6, <3>2 DEF Message
    <3>3. CASE l < m
      <4>1. Precedes(P, ms[l][2], ms[m][2])
        BY <2>3, <3>3 DEF Sorted, Who, What
      <4>2. QED
        BY <2>4, <3>3, <4>1 DEF Precedes
    <3>4. CASE m < l
      <4>1. Precedes(P, ms[m][2], ms[l][2])
        BY <2>3, <3>4 DEF Sorted, Who, What
      <4>2. b < a
        BY <2>4, <4>1 DEF Precedes
      <4>3. QED
        BY <2>7, <3>1, <4>2
    <3>5. QED
      BY <3>2, <3>3, <3>4
  <2>8. QED
    BY <2>5, <2>6, <2>7 DEF Message
<1>2. ReplaySplit /\ MessagesMatch => HistoryExact
  BY DEF HistoryExact
<1>3. QED
  BY <1>1, <1>2, ReplayIsSplit, StreamInvariant, PTL

=============================================================================
