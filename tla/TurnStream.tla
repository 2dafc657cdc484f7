----------------------------- MODULE TurnStream -----------------------------
(***************************************************************************)
(* The one-shot calls built on a client: Query and QueryStream with their  *)
(* runTurn (query.go), the WithClient bracket (with_client.go), the        *)
(* history replay (load_history.go), ListModels (models.go) and the turn   *)
(* limit that rides on the same updates (maxturns.go).  runTurn runs two   *)
(* goroutines: the caller, which prompts, surfaces a structured payload    *)
(* and waits, and a drainer that collects the session's updates.  Both     *)
(* append to one slice without a lock, so an append is a read and a write. *)
(* A notification is named by its position in emitted.                     *)
(***************************************************************************)
EXTENDS Naturals, Sequences

CONSTANTS
  Modes,      \* which calls are made: "query", "stream", "history", "models"
  MaxPrompts, \* bound: prompts of a stream
  Notifs,     \* notifications of a turn: [role, mid, blank]
  Replayed,   \* notifications of a history replay
  MaxEmits,   \* bound: notifications of a turn
  MaxReplay,  \* bound: notifications of a replay
  UpdCap,     \* capacity of Session.Updates()
  Limit,      \* WithMaxTurns, 0 when off
  NoId        \* a chunk without a messageId

ASSUME CapAssumption   == UpdCap \in Nat \ {0}
ASSUME LimitAssumption == Limit \in Nat
ASSUME NotifAssumption ==
  \A n \in Notifs \cup Replayed : n.role \in {"assistant", "user", "thought", "none"}
ASSUME ModesAssumption == Modes \subseteq {"query", "stream", "history", "models"}

VARIABLES
  mode,     \* the call
  prompts,  \* prompts the input iterator still yields: "text" or "empty"
  pc,       \* where the caller is
  ctx,      \* the caller's context is done
  client,   \* "none", "up" or "closed"
  results,  \* what was returned or yielded, in order
  emitted,  \* notifications sent by the agent
  chan,     \* Session.Updates()
  open,     \* it is not closed
  turns,    \* attachMaxTurns: subscription, lastMsgID, count, cancelled
  cancel,   \* cancelIntended of the running prompt
  promptErr,\* what Prompt returned
  payload,  \* its Meta carries a structured output
  stop,     \* the stop channel is closed
  drainer,  \* the drain goroutine
  item,     \* the notification it received and has not stored
  drainSaw, \* the slice as its append read it
  callerSaw,\* the slice as the caller's append read it
  notes,    \* notifications; 0 is the payload
  text,     \* assistantText, as the chunks it came from
  due       \* ghost: delivered before stop was closed

callVars  == <<mode, prompts, client, results>>
agentVars == <<emitted, chan, open, turns, cancel>>
turnVars  == <<promptErr, payload, stop, callerSaw>>
drainVars == <<drainer, item, drainSaw, text>>
vars == <<callVars, agentVars, turnVars, drainVars, pc, ctx, notes, due>>

NoTurns == [on |-> FALSE, since |-> 0, last |-> NoId, count |-> 0, fired |-> FALSE]

PromptLists == UNION {[1..k -> {"text", "empty"}] : k \in 0..MaxPrompts}

Init ==
  /\ mode \in Modes
  /\ prompts \in IF mode = "stream" THEN PromptLists ELSE {<<"text">>}
  /\ pc = "begin" /\ ctx = FALSE /\ client = "none" /\ results = <<>>
  /\ emitted = <<>> /\ chan = <<>> /\ open = TRUE
  /\ turns = NoTurns /\ cancel = FALSE
  /\ promptErr = "none" /\ payload = FALSE /\ stop = FALSE
  /\ callerSaw = <<>> /\ drainer = "none" /\ item = 0 /\ drainSaw = <<>>
  /\ notes = <<>> /\ text = <<>> /\ due = {}

\* What a call returns: an error, or a QueryResult and, for the properties,
\* whether its turn had a payload and a live context.
Result == [err |-> "none", notes |-> notes, text |-> text, due |-> due,
           payload |-> payload, live |-> ~ctx]
Failed(e) == [err |-> e, notes |-> <<>>, text |-> <<>>, due |-> {},
              payload |-> FALSE, live |-> FALSE]
Outcome == IF promptErr = "none" THEN Result ELSE Failed(promptErr)

-----------------------------------------------------------------------------
(* The bracket: open a client, run, close it on every way out.             *)

\* A call that fails before it has a client, or cannot start it.  Only
\* WithClient looks at the context first; a failed Start is closed too.
Fails(e) ==
  /\ results' = Append(results, Failed(e))
  /\ pc' = "closing"

Begin ==
  /\ pc = "begin"
  /\ \/ ctx /\ mode # "stream" /\ Fails("ctx") /\ UNCHANGED client
     \/ (ctx => mode = "stream") /\ Fails("new") /\ UNCHANGED client
     \/ (ctx => mode = "stream") /\ client' = "up" /\ Fails("start")
     \/ ~ctx /\ client' = "up" /\ pc' = "started" /\ UNCHANGED results
  /\ UNCHANGED <<mode, prompts, agentVars, turnVars, drainVars, ctx, notes, due>>

\* NewSession or LoadSession answers: notifications start to be delivered.
SessionOpens ==
  /\ pc = "started"
  /\ \/ Fails("session")
     \/ ~ctx /\ pc' = "opened" /\ UNCHANGED results
  /\ UNCHANGED <<mode, prompts, client, agentVars, turnVars, drainVars, ctx,
                 notes, due>>

\* applySessionConfig subscribes the turn counter after the registration.
Configured ==
  /\ pc = "opened"
  /\ turns' = [turns EXCEPT !.on = Limit > 0, !.since = Len(emitted)]
  /\ pc' = CASE mode = "history" -> "replay"
             [] mode = "models"  -> "closing"
             [] OTHER            -> "next"
  /\ results' = IF mode = "models" THEN Append(results, Failed("none")) ELSE results
  /\ UNCHANGED <<mode, prompts, client, emitted, chan, open, cancel, turnVars,
                 drainVars, ctx, notes, due>>

\* Mutant: a call that failed is not closed.
CloseForgets ==
  /\ pc = "closing"
  /\ pc' = "done"
  /\ client' = IF client = "up" /\ results[Len(results)].err = "none" THEN "closed"
                                                                     ELSE client
  /\ UNCHANGED <<mode, prompts, results, agentVars, turnVars, drainVars, ctx,
                 notes, due>>

CloseClient ==
  /\ pc = "closing"
  /\ pc' = "done"
  /\ client' = IF client = "up" THEN "closed" ELSE client
  /\ open' = (open /\ client # "up")
  /\ UNCHANGED <<mode, prompts, results, emitted, chan, turns, cancel, turnVars,
                 drainVars, ctx, notes, due>>

-----------------------------------------------------------------------------
(* runTurn, the caller's side.                                             *)

\* The iterator is exhausted, the context is over or the prompt is empty;
\* otherwise the drainer is started and the prompt sent.
NextPrompt ==
  /\ pc = "next"
  /\ \/ /\ prompts = <<>>
        /\ pc' = "closing"
        /\ UNCHANGED <<prompts, results, cancel, turnVars, drainVars, notes, due>>
     \/ /\ prompts # <<>> /\ mode = "stream"
        /\ ctx \/ Head(prompts) = "empty"
        /\ Fails(IF ctx THEN "ctx" ELSE "empty")
        /\ prompts' = Tail(prompts)
        /\ UNCHANGED <<cancel, turnVars, drainVars, notes, due>>
     \/ /\ prompts # <<>> /\ Head(prompts) = "text"
        /\ mode = "stream" => ~ctx
        /\ prompts' = Tail(prompts)
        /\ pc' = "prompting"
        /\ drainer' = "loop" /\ cancel' = FALSE
        /\ UNCHANGED <<results, turnVars, item, drainSaw, text, notes, due>>
  /\ UNCHANGED <<mode, client, emitted, chan, open, turns, ctx>>

\* Session.Prompt returns; an error while a cancel is intended is ErrCancelled.
PromptReturns ==
  /\ pc = "prompting"
  /\ \/ ~ctx /\ open /\ promptErr' = "none" /\ payload' \in BOOLEAN
     \/ promptErr' = (IF cancel \/ ctx THEN "cancelled" ELSE "failed")
        /\ payload' = FALSE
  /\ pc' = IF payload' THEN "surface" ELSE "grace"
  /\ UNCHANGED <<callVars, agentVars, stop, callerSaw, drainVars, ctx, notes, due>>

\* append(notifications, payload): the slice is read, then written.
SurfaceReads ==
  /\ pc = "surface"
  /\ callerSaw' = notes
  /\ pc' = "surfacing"
  /\ UNCHANGED <<callVars, agentVars, promptErr, payload, stop, drainVars, ctx,
                 notes, due>>

SurfaceWrites ==
  /\ pc = "surfacing"
  /\ notes' = Append(callerSaw, 0)
  /\ callerSaw' = <<>>
  /\ pc' = "grace"
  /\ UNCHANGED <<callVars, agentVars, promptErr, payload, stop, drainVars, ctx, due>>

\* The grace timer fires or the context is done; close(stop).
GraceEnds ==
  /\ pc = "grace"
  /\ stop' = TRUE
  /\ pc' = "collect"
  /\ due' = {chan[j] : j \in 1..Len(chan)} \cup ({item} \ {0})
  /\ UNCHANGED <<callVars, agentVars, promptErr, payload, callerSaw, drainVars,
                 ctx, notes>>

\* runTurn's variables go out of scope.
TurnForgotten ==
  /\ promptErr' = "none" /\ payload' = FALSE /\ stop' = FALSE /\ due' = {}
  /\ drainer' = "gone" /\ notes' = <<>> /\ text' = <<>>
  /\ UNCHANGED <<callerSaw, item, drainSaw>>

\* Mutant: the result is built without waiting for the drainer.
CollectEarly ==
  /\ pc = "collect"
  /\ results' = Append(results, Outcome)
  /\ pc' = IF mode = "stream" /\ promptErr = "none" THEN "next" ELSE "closing"
  /\ UNCHANGED <<mode, prompts, client, agentVars, turnVars, drainVars, ctx,
                 notes, due>>

\* Mutant: the stream goes on after an error.
CollectGoesOn ==
  /\ pc = "collect" /\ drainer = "gone"
  /\ results' = Append(results, Outcome)
  /\ pc' = IF mode = "stream" THEN "next" ELSE "closing"
  /\ TurnForgotten
  /\ UNCHANGED <<mode, prompts, client, agentVars, ctx>>

\* Mutant: the text of a turn is kept for the next one.
CollectKeepsText ==
  /\ pc = "collect" /\ drainer = "gone"
  /\ results' = Append(results, Outcome)
  /\ pc' = IF mode = "stream" /\ promptErr = "none" THEN "next" ELSE "closing"
  /\ promptErr' = "none" /\ stop' = FALSE
  /\ UNCHANGED <<mode, prompts, client, agentVars, payload, callerSaw, drainVars,
                 ctx, notes, due>>

\* <-done, then the result; the consumer of a stream may break off.
Collect ==
  /\ pc = "collect" /\ drainer = "gone"
  /\ results' = Append(results, Outcome)
  /\ \/ pc' = "closing"
     \/ mode = "stream" /\ promptErr = "none" /\ pc' = "next"
  /\ TurnForgotten
  /\ UNCHANGED <<mode, prompts, client, agentVars, ctx>>

-----------------------------------------------------------------------------
(* runTurn, the drain goroutine.                                           *)

\* Mutant: the stop case returns without taking what is already queued.
DrainLeaves ==
  /\ drainer = "loop" /\ stop
  /\ drainer' = "gone"
  /\ UNCHANGED <<callVars, agentVars, turnVars, item, drainSaw, text, pc, ctx,
                 notes, due>>

\* The stop case of the select: from now on nothing blocks.
DrainStops ==
  /\ drainer = "loop" /\ stop
  /\ drainer' = "draining"
  /\ UNCHANGED <<callVars, agentVars, turnVars, item, drainSaw, text, pc, ctx,
                 notes, due>>

\* The context is done, the channel is closed or, draining, it is empty.
DrainReturns ==
  /\ \/ drainer = "loop" /\ ctx
     \/ drainer \in {"loop", "draining"} /\ chan = <<>> /\ ~open
     \/ drainer = "draining" /\ chan = <<>>
  /\ drainer' = "gone"
  /\ UNCHANGED <<callVars, agentVars, turnVars, item, drainSaw, text, pc, ctx,
                 notes, due>>

DrainReceives ==
  /\ drainer \in {"loop", "draining"} /\ item = 0 /\ chan # <<>>
  /\ item' = Head(chan)
  /\ drainSaw' = notes
  /\ chan' = Tail(chan)
  /\ drainer' = IF drainer = "loop" THEN "storing" ELSE "storingLast"
  /\ UNCHANGED <<callVars, emitted, open, turns, cancel, turnVars, text, pc, ctx,
                 notes, due>>

\* Mutant: the text of thoughts and other updates is taken too.
DrainStoresAny ==
  /\ drainer \in {"storing", "storingLast"}
  /\ notes' = Append(drainSaw, item)
  /\ text' = Append(text, item)
  /\ item' = 0 /\ drainSaw' = <<>>
  /\ drainer' = IF drainer = "storing" THEN "loop" ELSE "draining"
  /\ UNCHANGED <<callVars, agentVars, turnVars, pc, ctx, due>>

\* capture: the write half of the append, then the text of an agent chunk.
DrainStores ==
  /\ drainer \in {"storing", "storingLast"}
  /\ notes' = Append(drainSaw, item)
  /\ text' = IF emitted[item].role = "assistant" THEN Append(text, item) ELSE text
  /\ item' = 0 /\ drainSaw' = <<>>
  /\ drainer' = IF drainer = "storing" THEN "loop" ELSE "draining"
  /\ UNCHANGED <<callVars, agentVars, turnVars, pc, ctx, due>>

-----------------------------------------------------------------------------
(* The agent, the dispatcher with the turn limit, and the environment.     *)

\* attachMaxTurns: a chunk is a new turn when its messageId differs from the
\* last one or it has none; the limit cancels once in a session's life.
IsNewMessage(n) == n.role = "assistant" /\ (n.mid = NoId \/ n.mid # turns.last)

\* Mutant: the limit is compared before the count.
CountOffByOne(n) ==
  [turns EXCEPT !.count = @ + 1, !.fired = @ \/ turns.count >= Limit,
                !.last = IF n.mid = NoId THEN @ ELSE n.mid]

CountTurn(n) ==
  [turns EXCEPT !.count = @ + 1, !.fired = @ \/ turns.count + 1 >= Limit,
                !.last = IF n.mid = NoId THEN @ ELSE n.mid]

\* A notification is dispatched: the subscribed counter first, then the
\* channel, which drops it when full.
AgentEmits(n) ==
  /\ open /\ Len(emitted) < IF mode = "history" THEN MaxReplay ELSE MaxEmits
  /\ pc \notin {"begin", "started", "closing", "done"}
  /\ emitted' = Append(emitted, n)
  /\ turns' = IF turns.on /\ IsNewMessage(n) THEN CountTurn(n) ELSE turns
  /\ cancel' = (cancel \/ turns'.fired # turns.fired)
  /\ chan' = IF Len(chan) < UpdCap THEN Append(chan, Len(emitted) + 1) ELSE chan
  /\ UNCHANGED <<callVars, open, turnVars, drainVars, pc, ctx, notes, due>>

\* The subprocess dies: the sweep closes the channel.
Crash ==
  /\ client = "up" /\ open
  /\ open' = FALSE
  /\ UNCHANGED <<callVars, emitted, chan, turns, cancel, turnVars, drainVars, pc,
                 ctx, notes, due>>

CtxEnds ==
  /\ ~ctx /\ pc # "done"
  /\ ctx' = TRUE
  /\ UNCHANGED <<callVars, agentVars, turnVars, drainVars, pc, notes, due>>

-----------------------------------------------------------------------------
(* LoadSessionHistory: drain until the channel is quiet for a while.       *)

\* Mutant: the message that ends the wait is thrown away.
ReplayDropsLast ==
  /\ pc = "replay" /\ chan # <<>>
  /\ chan' = Tail(chan)
  /\ UNCHANGED <<callVars, emitted, open, turns, cancel, turnVars, drainVars, pc,
                 ctx, notes, due>>

ReplayReceives ==
  /\ pc = "replay" /\ chan # <<>>
  /\ notes' = Append(notes, Head(chan))
  /\ chan' = Tail(chan)
  /\ UNCHANGED <<callVars, emitted, open, turns, cancel, turnVars, drainVars, pc,
                 ctx, due>>

\* The timer, restarted by every notification, the context or a closed channel.
ReplayEnds ==
  /\ pc = "replay"
  /\ results' = Append(results, Result)
  /\ pc' = "closing"
  /\ UNCHANGED <<mode, prompts, client, agentVars, turnVars, drainVars, ctx,
                 notes, due>>

\* messagesFromNotifications: the fold over the notifications drained, with
\* the current role, its text so far and the messages flushed.
Flushed(s) == IF s.role = "" \/ s.text = <<>> THEN s.out
                                              ELSE Append(s.out, <<s.role, s.text>>)

\* Mutant: a change of role forgets the text before it.
FoldForgets(s, k) ==
  LET n == emitted[k]
  IN [role |-> n.role, text |-> IF n.blank THEN <<>> ELSE <<k>>, out |-> s.out]

FoldChunk(s, k) ==
  LET n == emitted[k]
      t == IF n.blank THEN <<>> ELSE <<k>>
  IN IF n.role = "none" THEN s
     ELSE IF n.role = s.role THEN [s EXCEPT !.text = @ \o t]
     ELSE [role |-> n.role, text |-> t, out |-> Flushed(s)]

MessagesFrom(ns) ==
  LET fold[i \in 0..Len(ns)] ==
        IF i = 0 THEN [role |-> "", text |-> <<>>, out |-> <<>>]
                 ELSE FoldChunk(fold[i - 1], ns[i])
  IN Flushed(fold[Len(ns)])

-----------------------------------------------------------------------------

Caller == Begin \/ SessionOpens \/ Configured \/ CloseClient \/ NextPrompt
          \/ SurfaceReads \/ SurfaceWrites \/ GraceEnds \/ Collect
Drain  == DrainStops \/ DrainReturns \/ DrainReceives \/ DrainStores
Replay == ReplayReceives \/ ReplayEnds

Next == Caller \/ PromptReturns \/ Drain \/ Replay \/ Crash \/ CtxEnds
        \/ \E n \in IF mode = "history" THEN Replayed ELSE Notifs : AgentEmits(n)

\* The goroutines are scheduled; that Prompt returns once the context is done
\* or the subprocess is gone is PromptTurn's CtxEndEndsPrompt.
Fairness ==
  /\ WF_vars(Caller)
  /\ WF_vars(PromptReturns /\ (ctx \/ ~open))
  /\ WF_vars(Drain)
  /\ WF_vars(Replay)

Spec == Init /\ [][Next]_vars /\ Fairness

-----------------------------------------------------------------------------
(* Properties.                                                             *)

Ascending(s) == \A i, j \in 1..Len(s) : i < j => s[i] < s[j]
InSeq(x, s)  == \E i \in 1..Len(s) : s[i] = x
SetOf(s)     == {s[i] : i \in 1..Len(s)}

\* Between turns and after the call no drain goroutine is left, and a call
\* that is over has closed the client it opened, on every error path.
NothingLeftBehind ==
  /\ pc \in {"begin", "started", "opened", "next", "closing", "done"}
       => drainer \in {"none", "gone"}
  /\ pc = "done" => client # "up"

\* A stream yields at most one error and nothing after it.
ErrorIsLast ==
  \A i \in 1..Len(results) : results[i].err # "none" =>
    i = Len(results) /\ pc \in {"closing", "done"}

\* Every notification that reached the session's channel before runTurn closed
\* stop is among the result's Notifications, and its text in AssistantText,
\* unless the context ended.
TrailingKept ==
  \A i \in 1..Len(results) : results[i].live =>
    \A k \in results[i].due :
      /\ InSeq(k, results[i].notes)
      /\ emitted[k].role = "assistant" /\ mode # "history" => InSeq(k, results[i].text)

\* No chunk is in two results of a stream, or twice or out of order in one.
ChunksOnce ==
  /\ \A i \in 1..Len(results) : Ascending(results[i].text)
  /\ \A i, j \in 1..Len(results) : i < j =>
       \A k \in 1..Len(results[i].text), l \in 1..Len(results[j].text) :
         results[i].text[k] < results[j].text[l]

\* Where no payload is surfaced, the slice shared by the two goroutines holds
\* exactly what the drainer received, in order.
NotesExactWithoutPayload ==
  \A i \in 1..Len(results) : ~results[i].payload =>
    /\ Ascending(results[i].notes)
    /\ mode # "history" => SetOf(results[i].text) =
         {k \in SetOf(results[i].notes) : emitted[k].role = "assistant"}

\* What Query returns and QueryStream yields is what the session delivered: the
\* trailing notifications included, each chunk once, nothing after an error.
ResultsExact == ErrorIsLast /\ TrailingKept /\ ChunksOnce /\ NotesExactWithoutPayload

\* query.go says the payload is put onto the notifications so that
\* DecodeStructuredOutput finds it: a successful turn's payload is there.
PayloadSurfaces ==
  \A i \in 1..Len(results) : results[i].payload => InSeq(0, results[i].notes)

\* WithMaxTurns counts at least every distinct messageId and every chunk
\* without one since it subscribed, and has cancelled exactly when the count
\* reached the limit.
LimitCounts ==
  LET seen == {k \in (turns.since + 1)..Len(emitted) : emitted[k].role = "assistant"}
      anonymous == {k \in seen : emitted[k].mid = NoId}
      firsts == {k \in seen \ anonymous :
                   \A j \in seen : j < k => emitted[j].mid # emitted[k].mid}
  IN turns.on => /\ turns.fired <=> turns.count >= Limit
                 /\ \E f \in [anonymous \cup firsts -> 1..turns.count] :
                      \A j, k \in DOMAIN f : f[j] = f[k] => j = k

\* What LoadSessionHistory drained and what is left in Updates() are together
\* every replayed notification, once and in order, unless the channel overflowed.
ReplaySplit ==
  mode = "history" /\ pc \in {"opened", "replay", "closing"} =>
    /\ Ascending(notes \o chan)
    /\ Len(emitted) <= UpdCap => Len(notes \o chan) = Len(emitted)

\* SessionHistory.Messages has every non-empty chunk once and in order, each in
\* a message of its role that is not empty, and two of them share a message
\* exactly when no chunk of another role is between.
MessagesMatch ==
  LET ms == MessagesFrom(notes)
      spoken == {k \in SetOf(notes) : emitted[k].role # "none"}
      TextOf(m) == SetOf(ms[m][2])
      Together(a, b) == \A k \in spoken : a <= k /\ k <= b => emitted[k].role = emitted[a].role
  IN mode = "history" /\ pc = "closing" =>
       /\ \A k \in spoken : ~emitted[k].blank => \E m \in 1..Len(ms) : k \in TextOf(m)
       /\ \A m \in 1..Len(ms) :
            /\ Ascending(ms[m][2]) /\ ms[m][2] # <<>>
            /\ \A k \in TextOf(m) :
                 k \in spoken /\ ~emitted[k].blank /\ emitted[k].role = ms[m][1]
       /\ \A l, m \in 1..Len(ms) : \A a \in TextOf(l), b \in TextOf(m) :
            a <= b => l <= m /\ (l = m <=> Together(a, b))

\* SessionHistory is the replay: no notification lost or repeated in the drain, no
\* chunk lost or put under another role in the folding.
HistoryExact == ReplaySplit /\ MessagesMatch
=============================================================================
