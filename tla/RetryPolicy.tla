----------------------------- MODULE RetryPolicy -----------------------------
(***************************************************************************)
(* The pure part of retrying: how an error is wrapped (errors.go) and      *)
(* classified (error_classification.go), and how long to wait              *)
(* (retry_policy.go).  A time.Duration is a two's complement integer of    *)
(* DurMax + 1 = 2^(w-1); one unit stands for a nanosecond.  An error is a  *)
(* record: the sentinel it wraps, the JSON-RPC code it carries, the        *)
(* pattern groups found in its message and the retry-after it names.       *)
(***************************************************************************)
EXTENDS Integers, FiniteSets

CONSTANTS
  DurMax,   \* largest Duration
  Default   \* DefaultRetryPolicy: [retries, base, max, jitter], jitter in percent

ASSUME DurAssumption == DurMax \in Nat \ {0}
ASSUME DefaultAssumption ==
  Default \in [retries : Nat \ {0}, base : 1..DurMax, max : 1..DurMax, jitter : 1..100]

NoCode == 0

\* wrapACPErr and wrapACPErrCtx: an expired deadline hides the code, two
\* protocol codes become sentinels, any other code stays visible.
WrapACPErr(e) ==
  CASE e.deadline       -> [e EXCEPT !.is = "timeout"]
    [] e.code = -32000  -> [e EXCEPT !.is = "auth", !.code = NoCode]
    [] e.code = -32800  -> [e EXCEPT !.is = "cancelled", !.code = NoCode]
    [] OTHER            -> e

\* classifyFromRequestError.
FromCode(code) ==
  CASE code \in {401, 403} -> "authentication"
    [] code \in {408, 409} \cup (500..599 \ {503, 529}) -> "execution"
    [] code = 429          -> "rate_limit"
    [] code \in {503, 529} -> "overload"
    [] OTHER               -> ""

\* classifyFromMessage: the first group of patterns the message contains.
FromMessage(msg) ==
  CASE "conn"     \in msg -> "transient_connection"
    [] "rate"     \in msg /\ "conn" \notin msg -> "rate_limit"
    [] "overload" \in msg /\ msg \cap {"conn", "rate"} = {} -> "overload"
    [] "login"    \in msg /\ msg \cap {"conn", "rate", "overload"} = {} -> "authentication"
    [] OTHER -> "execution"

Sentinels == [auth |-> "authentication", cancelled |-> "cancelled",
              capability |-> "capability", cli |-> "cli"]

\* Mutant: the message is looked at before the code.
ClassByMessage(e) ==
  IF e.is \in DOMAIN Sentinels THEN Sentinels[e.is] ELSE FromMessage(e.msg)

\* ClassifyError: a sentinel, else the code, else the message.
Class(e) ==
  IF e.is \in DOMAIN Sentinels THEN Sentinels[e.is]
  ELSE IF FromCode(e.code) # "" THEN FromCode(e.code) ELSE FromMessage(e.msg)

\* subclassFromMessage, as far as a decision depends on it.
PromptTooLong(e) == "long" \in e.msg

Retryable(e) ==
  /\ Class(e) \in {"rate_limit", "overload", "transient_connection"}
  /\ ~PromptTooLong(e)

RecoveryAction(e) ==
  CASE Class(e) = "authentication" -> "refresh_auth"
    [] Class(e) \in {"rate_limit", "overload", "transient_connection"} -> "retry_with_backoff"
    [] Class(e) \in {"cancelled", "capability", "cli"} -> "stop"
    [] OTHER -> "none"

-----------------------------------------------------------------------------

NormalisePolicy(p) == [f \in DOMAIN Default |-> IF p[f] <= 0 THEN Default[f] ELSE p[f]]

\* Two's complement wrap-around of an integer operation.
Wrap(x) == ((x + DurMax + 1) % (2 * (DurMax + 1))) - DurMax - 1

\* The loop of computeDelay: doubled attempt - 1 times, stopping at the cap.
Backoff(p, attempt) ==
  LET d[i \in 1..attempt] ==
        IF i = 1 THEN p.base
        ELSE IF i > 2 /\ d[i - 1] = p.max THEN p.max
        ELSE LET twice == Wrap(2 * d[i - 1]) IN IF twice >= p.max THEN p.max ELSE twice
  IN d[attempt]

\* Mutant: the sum of delay and jitter is not clamped.
JitterUnclamped(d, p) ==
  IF d <= 0 THEN {d} ELSE {d + n : n \in 0..((d * p.jitter) \div 100)}

\* applyJitter: every value the random source may give, or its failure.
Jitter(d, p) ==
  LET window == (d * p.jitter) \div 100
      Clamped(x) == IF x > p.max THEN p.max ELSE x
  IN IF d <= 0 \/ window <= 0 THEN {d}
     ELSE {d} \cup {Clamped(Wrap(d + n)) : n \in 0..window}

\* time.Duration(float): out of range, the result depends on the machine:
\* amd64 gives the least integer, arm64 the nearest one.
ToDuration(x) == IF x <= DurMax THEN {x} ELSE {-DurMax - 1, DurMax}

\* EvaluateRetry's RecommendedDelay: the server's hint, else the back-off.
Delays(e, attempt, p) ==
  IF e.hint > 0 THEN {IF d < p.max THEN d ELSE p.max : d \in ToDuration(e.hint)}
                ELSE Jitter(Backoff(p, attempt), p)

\* Mutant: one retry more than the policy allows.
ShouldRetryOnceMore(e, attempt, p) == Retryable(e) /\ attempt <= p.retries + 1

ShouldRetry(e, attempt, p) == Retryable(e) /\ attempt <= p.retries
=============================================================================
