----------------------------- MODULE PromptTurn -----------------------------
(***************************************************************************)
(* The turns of one session: Session.Prompt and its context watcher,       *)
(* Session.Cancel, the shared cancelIntended flag that decides how an      *)
(* error is reported (session_impl.go, errors.go), and the client's        *)
(* one-slot structured output capture that the agent's tool calls fill and *)
(* Prompt drains (structured_output_tool.go).  One action is one section   *)
(* of s.mu or of the capture's mutex, or one message of the agent.         *)
(***************************************************************************)
EXTENDS Naturals, Sequences, FiniteSets

CONSTANTS
  Prompts,     \* calls of Session.Prompt
  Cancels,     \* calls of Session.Cancel
  NoTurn,      \* the empty slot
  Overlap,     \* may the application start a Prompt while another is running
  MaxCaptures  \* bound: StructuredOutput tool calls of the agent

ASSUME NamesAssumption   == Prompts \cap Cancels = {} /\ NoTurn \notin Prompts
ASSUME OverlapAssumption == Overlap \in BOOLEAN

VARIABLES
  cancelIntended,  \* s.cancelIntended
  ppc,        \* where each Prompt call is
  ctx,        \* the caller's context: "live", "canceled" or "deadline"
  watchDone,  \* Prompt's watchDone channel is closed
  watcher,    \* where the goroutine waiting for watchDone or ctx is
  cpc,        \* where each Cancel call is
  toAgent,    \* requests and notifications on their way to the agent, in order
  running,    \* agent: turns in progress
  stopping,   \* agent: turns it was told to stop
  reply,      \* agent: its answer to each prompt, "none" while it runs
  err,        \* what Conn.Prompt returned: "none", "nil" or the error
  result,     \* what Prompt returns: "none" until it is decided
  payload,    \* the capture slot: capture number and turn that made it
  calls,      \* the capture's call counter
  captures,   \* capture numbers used so far
  surfaced,   \* the slot content a Prompt returned in PromptResult.Meta
  flaggers    \* ghost: who set cancelIntended since this call reset it

cancelVars == <<cancelIntended, flaggers, result>>
agentVars  == <<running, stopping, reply>>
slotVars   == <<payload, calls, captures, surfaced>>
watchVars  == <<watchDone, watcher>>
vars == <<cancelIntended, ppc, ctx, watchDone, watcher, cpc, toAgent, running,
          stopping, reply, err, result, payload, calls, captures, surfaced,
          flaggers>>

Empty == [n |-> 0, turn |-> NoTurn]

Init ==
  /\ cancelIntended = FALSE
  /\ ppc       = [p \in Prompts |-> "idle"]
  /\ ctx       = [p \in Prompts |-> "live"]
  /\ watchDone = [p \in Prompts |-> FALSE]
  /\ watcher   = [p \in Prompts |-> "off"]
  /\ cpc       = [c \in Cancels |-> "idle"]
  /\ toAgent   = <<>>
  /\ running   = {}
  /\ stopping  = {}
  /\ reply     = [p \in Prompts |-> "none"]
  /\ err       = [p \in Prompts |-> "none"]
  /\ result    = [p \in Prompts |-> "none"]
  /\ payload   = Empty
  /\ calls     = 0
  /\ captures  = 0
  /\ surfaced  = [p \in Prompts |-> Empty]
  /\ flaggers  = [p \in Prompts |-> {}]

-----------------------------------------------------------------------------
(* Prompt, up to the request.                                              *)

Over == {"idle", "rejected", "done"}

MayStart(p) ==
  /\ ppc[p] = "idle"
  /\ Overlap \/ \A q \in Prompts : ppc[q] \in Over

\* No blocks, a missing capability or a UserPromptSubmit hook ends the call
\* before it touches the session.
PromptRejected(p) ==
  /\ MayStart(p)
  /\ ppc' = [ppc EXCEPT ![p] = "rejected"]
  /\ UNCHANGED <<cancelVars, ctx, watchVars, cpc, toAgent, agentVars, err,
                 slotVars>>

\* Mutant: the flag is left as earlier calls left it.
PromptWithoutReset(p) ==
  /\ MayStart(p)
  /\ ppc' = [ppc EXCEPT ![p] = "reset"]
  /\ flaggers' = [flaggers EXCEPT ![p] = {}]
  /\ UNCHANGED <<cancelIntended, result, ctx, watchVars, cpc, toAgent,
                 agentVars, err, slotVars>>

PromptResets(p) ==
  /\ MayStart(p)
  /\ ppc' = [ppc EXCEPT ![p] = "reset"]
  /\ cancelIntended' = FALSE
  /\ flaggers' = [flaggers EXCEPT ![p] = {}]
  /\ UNCHANGED <<result, ctx, watchVars, cpc, toAgent, agentVars, err, slotVars>>

\* The watcher goroutine is started and the request goes out.
PromptSends(p) ==
  /\ ppc[p] = "reset"
  /\ ppc' = [ppc EXCEPT ![p] = "waiting"]
  /\ watcher' = [watcher EXCEPT ![p] = "watching"]
  /\ toAgent' = Append(toAgent, <<"prompt", p>>)
  /\ UNCHANGED <<cancelVars, ctx, watchDone, cpc, agentVars, err, slotVars>>

-----------------------------------------------------------------------------
(* The connection and the agent, as the code uses them: messages arrive in *)
(* the order they were written, session/cancel concerns whatever turn is   *)
(* running, and a tool call of a turn reaches the capture by another way.  *)

AgentReceives ==
  /\ toAgent # <<>>
  /\ toAgent' = Tail(toAgent)
  /\ \/ /\ Head(toAgent)[1] = "prompt"
        /\ running' = running \cup {Head(toAgent)[2]}
        /\ UNCHANGED stopping
     \/ /\ Head(toAgent)[1] = "cancel"
        /\ stopping' = stopping \cup running
        /\ UNCHANGED running
  /\ UNCHANGED <<cancelVars, ppc, ctx, watchVars, cpc, reply, err, slotVars>>

\* A turn ends by itself, with an error or, told to stop, with a response that
\* says so or the request-cancelled error.
AgentAnswers(p) ==
  /\ p \in running
  /\ running' = running \ {p}
  /\ stopping' = stopping \ {p}
  /\ \/ \E r \in {"nil", "other"} : reply' = [reply EXCEPT ![p] = r]
     \/ p \in stopping /\ reply' = [reply EXCEPT ![p] = "aborted"]
  /\ UNCHANGED <<cancelVars, ppc, ctx, watchVars, cpc, toAgent, err, slotVars>>

\* structuredOutputCapture.store, called by the tool handler: latest wins.
Store(p) ==
  /\ p \in running /\ captures < MaxCaptures
  /\ captures' = captures + 1
  /\ payload' = [n |-> captures + 1, turn |-> p]
  /\ calls' = calls + 1
  /\ UNCHANGED <<cancelVars, ppc, ctx, watchVars, cpc, toAgent, agentVars, err,
                 surfaced>>

\* The caller's context is cancelled or its deadline passes, during the call or
\* after it (a deferred cancel).
CtxEnds(p) ==
  /\ ppc[p] # "idle" /\ ctx[p] = "live"
  /\ \E why \in {"canceled", "deadline"} : ctx' = [ctx EXCEPT ![p] = why]
  /\ UNCHANGED <<cancelVars, ppc, watchVars, cpc, toAgent, agentVars, err,
                 slotVars>>

\* Mutant: the request is sent with a detached context.
RpcAwaitsAgent(p) ==
  /\ ppc[p] = "waiting" /\ reply[p] # "none"
  /\ ppc' = [ppc EXCEPT ![p] = "returned"]
  /\ err' = [err EXCEPT ![p] = reply[p]]
  /\ UNCHANGED <<cancelVars, ctx, watchVars, cpc, toAgent, agentVars, slotVars>>

\* Conn.Prompt returns: the agent's answer, the end of the context (with an
\* error that may hide the cause), or a failed connection.
RpcReturns(p) ==
  /\ ppc[p] = "waiting"
  /\ ppc' = [ppc EXCEPT ![p] = "returned"]
  /\ \E e \in {"other", ctx[p], reply[p]} \ {"live", "none"} :
       err' = [err EXCEPT ![p] = e]
  /\ UNCHANGED <<cancelVars, ctx, watchVars, cpc, toAgent, agentVars, slotVars>>

-----------------------------------------------------------------------------
(* Prompt, from the answer to its return.                                  *)

\* wrapACPErrCtx: the deadline first, then the agent's request-cancelled code.
WrapACPErrCtx(p) ==
  IF err[p] = "deadline" \/ ctx[p] = "deadline" THEN "timeout"
  ELSE IF err[p] = "aborted" THEN "cancelled" ELSE "error"

\* Mutant: only the error decides, not what the caller asked for.
ClassifyByError(p) ==
  /\ ppc[p] = "returned" /\ err[p] # "nil"
  /\ ppc' = [ppc EXCEPT ![p] = "completing"]
  /\ cancelIntended' = FALSE
  /\ result' = [result EXCEPT ![p] =
                  IF err[p] = "canceled" THEN "cancelled" ELSE WrapACPErrCtx(p)]
  /\ UNCHANGED <<flaggers, ctx, watchVars, cpc, toAgent, agentVars, err, slotVars>>

\* The error path: read and clear the flag, decide what is reported.
Classify(p) ==
  /\ ppc[p] = "returned" /\ err[p] # "nil"
  /\ ppc' = [ppc EXCEPT ![p] = "completing"]
  /\ cancelIntended' = FALSE
  /\ result' = [result EXCEPT ![p] =
                  IF cancelIntended \/ err[p] = "canceled"
                  THEN "cancelled" ELSE WrapACPErrCtx(p)]
  /\ UNCHANGED <<flaggers, ctx, watchVars, cpc, toAgent, agentVars, err, slotVars>>

\* Mutant: the slot is read but not emptied.
DrainKeeps(p) ==
  /\ ppc[p] = "returned" /\ err[p] = "nil"
  /\ ppc' = [ppc EXCEPT ![p] = "completing"]
  /\ result' = [result EXCEPT ![p] = "ok"]
  /\ surfaced' = [surfaced EXCEPT ![p] = payload]
  /\ UNCHANGED <<cancelIntended, flaggers, ctx, watchVars, cpc, toAgent,
                 agentVars, err, payload, calls, captures>>

\* The success path: drain the capture into PromptResult.Meta.
Drain(p) ==
  /\ ppc[p] = "returned" /\ err[p] = "nil"
  /\ ppc' = [ppc EXCEPT ![p] = "completing"]
  /\ result' = [result EXCEPT ![p] = "ok"]
  /\ surfaced' = [surfaced EXCEPT ![p] = payload]
  /\ payload' = Empty
  /\ calls' = 0
  /\ UNCHANGED <<cancelIntended, flaggers, ctx, watchVars, cpc, toAgent,
                 agentVars, err, captures>>

\* Mutant: the return forgets the watcher.
PromptForgetsWatcher(p) ==
  /\ ppc[p] = "completing"
  /\ ppc' = [ppc EXCEPT ![p] = "done"]
  /\ UNCHANGED <<cancelVars, ctx, watchVars, cpc, toAgent, agentVars, err,
                 slotVars>>

\* fireTurnComplete, then the deferred close(watchDone).
PromptReturns(p) ==
  /\ ppc[p] = "completing"
  /\ ppc' = [ppc EXCEPT ![p] = "done"]
  /\ watchDone' = [watchDone EXCEPT ![p] = TRUE]
  /\ UNCHANGED <<cancelVars, ctx, watcher, cpc, toAgent, agentVars, err, slotVars>>

-----------------------------------------------------------------------------
(* The watcher goroutine and Session.Cancel.                               *)

\* Whoever sets the flag sets it for every call between its reset and its
\* classification.
Flag(who) ==
  /\ cancelIntended' = TRUE
  /\ flaggers' = [p \in Prompts |->
                    IF ppc[p] \in {"reset", "waiting", "returned"}
                    THEN flaggers[p] \cup {who} ELSE flaggers[p]]

\* The notification is written, or is lost with the connection.
SendCancel == toAgent' \in {toAgent, Append(toAgent, <<"cancel", NoTurn>>)}

\* The select: with both channels ready either branch is taken.
WatchQuits(p) ==
  /\ watcher[p] = "watching" /\ watchDone[p]
  /\ watcher' = [watcher EXCEPT ![p] = "done"]
  /\ UNCHANGED <<cancelVars, ppc, ctx, watchDone, cpc, toAgent, agentVars, err,
                 slotVars>>

WatchFlags(p) ==
  /\ watcher[p] = "watching" /\ ctx[p] # "live"
  /\ watcher' = [watcher EXCEPT ![p] = "flagged"]
  /\ Flag(p)
  /\ UNCHANGED <<ppc, ctx, watchDone, cpc, toAgent, agentVars, err, result,
                 slotVars>>

WatchSends(p) ==
  /\ watcher[p] = "flagged"
  /\ watcher' = [watcher EXCEPT ![p] = "done"]
  /\ SendCancel
  /\ UNCHANGED <<cancelVars, ppc, ctx, watchDone, cpc, agentVars, err, slotVars>>

CancelFlags(c) ==
  /\ cpc[c] = "idle"
  /\ cpc' = [cpc EXCEPT ![c] = "flagged"]
  /\ Flag(c)
  /\ UNCHANGED <<ppc, ctx, watchVars, toAgent, agentVars, err, result, slotVars>>

CancelSends(c) ==
  /\ cpc[c] = "flagged"
  /\ cpc' = [cpc EXCEPT ![c] = "done"]
  /\ SendCancel
  /\ UNCHANGED <<cancelVars, ppc, ctx, watchVars, agentVars, err, slotVars>>

-----------------------------------------------------------------------------
\* What Prompt does once it waits for nobody.
PromptContinues(p) ==
  PromptSends(p) \/ Classify(p) \/ Drain(p) \/ PromptReturns(p)

Watch(p) == WatchQuits(p) \/ WatchFlags(p) \/ WatchSends(p)

Next ==
  \/ \E p \in Prompts : \/ PromptRejected(p) \/ PromptResets(p)
                        \/ PromptContinues(p) \/ RpcReturns(p)
                        \/ Watch(p)
                        \/ CtxEnds(p) \/ AgentAnswers(p) \/ Store(p)
  \/ \E c \in Cancels : CancelFlags(c) \/ CancelSends(c)
  \/ AgentReceives

Spec == Init /\ [][Next]_vars

\* The SDK's goroutines run on, hooks and callbacks return, and the connection
\* gives up a request whose context ended.  Nothing is assumed of the agent.
FairSpec ==
  /\ Spec
  /\ \A p \in Prompts : /\ WF_vars(PromptContinues(p))
                        /\ WF_vars(Watch(p))
                        /\ WF_vars(ctx[p] # "live" /\ RpcReturns(p))

-----------------------------------------------------------------------------
(* Properties.                                                             *)

Message == ({"prompt"} \X Prompts) \cup ({"cancel"} \X {NoTurn})

Slot == [n : Nat, turn : Prompts \cup {NoTurn}]

\* The shape of the state.
TypeOK ==
  /\ cancelIntended \in BOOLEAN
  /\ ppc \in [Prompts -> {"idle", "rejected", "reset", "waiting", "returned",
                          "completing", "done"}]
  /\ ctx \in [Prompts -> {"live", "canceled", "deadline"}]
  /\ watchDone \in [Prompts -> BOOLEAN]
  /\ watcher \in [Prompts -> {"off", "watching", "flagged", "done"}]
  /\ cpc \in [Cancels -> {"idle", "flagged", "done"}]
  /\ toAgent \in Seq(Message)
  /\ running \subseteq Prompts /\ stopping \subseteq Prompts
  /\ reply \in [Prompts -> {"none", "nil", "other", "aborted"}]
  /\ err \in [Prompts -> {"none", "nil", "other", "aborted", "canceled", "deadline"}]
  /\ result \in [Prompts -> {"none", "ok", "cancelled", "timeout", "error"}]
  /\ payload \in Slot /\ calls \in Nat /\ captures \in Nat
  /\ surfaced \in [Prompts -> Slot]
  /\ flaggers \in [Prompts -> SUBSET (Prompts \cup Cancels)]

ShowsCancel(p) == err[p] \in {"canceled", "aborted"}

\* "A stray Cancel() call before any Prompt runs would otherwise leave the flag
\* sticky": ErrCancelled is reported only if the error says so or somebody set
\* the flag after this call reset it, whatever overlaps or came before.
CancelledHasCause ==
  \A p \in Prompts :
    result[p] = "cancelled" => ShowsCancel(p) \/ flaggers[p] # {}

\* A failed Prompt reports ErrCancelled whenever somebody set the flag since its
\* reset: no step of another call or of its watcher takes the flag back.  This
\* holds of a session used one Prompt at a time.
CancelIsReported ==
  \A p \in Prompts :
    flaggers[p] # {} => result[p] \notin {"timeout", "error"}

\* A captured payload surfaces in one PromptResult at most, also when Prompts
\* that overlap drain the client's only slot.
PayloadOnce ==
  \A p, q \in Prompts :
    surfaced[p].n # 0 /\ surfaced[p] = surfaced[q] => p = q

\* Ending the context ends the call, although the agent may never answer.
CtxEndEndsPrompt ==
  \A p \in Prompts : (ppc[p] = "waiting" /\ ctx[p] # "live") ~> ppc[p] = "done"

\* No call leaves its watcher goroutine behind.
WatcherEnds ==
  \A p \in Prompts : ppc[p] = "done" ~> watcher[p] = "done"

\* A Prompt whose context ends comes to an end, with the goroutine it started.
TurnsEnd == CtxEndEndsPrompt /\ WatcherEnds

=============================================================================
