--------------------------- MODULE SessionRouting ---------------------------
(***************************************************************************)
(* How session/update notifications reach Session.Updates(): the client's  *)
(* routing table and pre-registration buffer (client_impl.go), the         *)
(* two-section delivery of a session (session_impl.go), and the goroutines *)
(* that create, roll back and sweep sessions while the ACP dispatcher      *)
(* goroutine is routing.                                                   *)
(*                                                                         *)
(* One action is one critical section of c.sessionsMu or s.mu, or one      *)
(* message of the agent.  A notification is its number in the agent's      *)
(* emission order for that session id.  A handle stands for one *session   *)
(* together with the API call (NewSession, ForkSession: kind "new";        *)
(* LoadSession, ResumeSession: kind "load") that makes it.                 *)
(***************************************************************************)
EXTENDS Naturals, Sequences, FiniteSets

CONSTANTS
  Handles,     \* session objects, one per API call
  Ids,         \* session ids the agent can assign or has on record
  History,     \* ids of earlier sessions, loadable by id
  None,        \* the nil session
  PendingCap,  \* pendingUpdatesCap (64 in the code)
  ChanCap,     \* WithUpdatesBuffer (128 by default)
  MaxUpdates,  \* bound: notifications the agent emits, for each session id
  MaxSweeps    \* bound: sweeps of the routing table (Close, crash watcher)

ASSUME NoneAssumption    == None \notin Handles /\ None \notin Ids
ASSUME HistoryAssumption == History \subseteq Ids
ASSUME CapAssumption     == PendingCap \in Nat \ {0} /\ ChanCap \in Nat \ {0}

VARIABLES
  sessions,  \* c.sessions: id -> handle that is routed to, or None
  pending,   \* c.pendingUpdates: id -> notifications kept for registration
  pc,        \* where the API call that makes the handle is
  kind,      \* "new" or "load"
  id,        \* s.id; None until it is known
  todo,      \* notifications registerSession took and has still to deliver
  mid,       \* the flush is between the two sections of s.deliver
  shut,      \* s.closed, and the state of the channel s.updates
  sent,      \* everything ever put in s.updates, with who put it there
  read,      \* how many of those the consumer has received
  dropped,   \* s.dropped
  commands,  \* s.commands: the notification it was last set from (0: none)
  begun,     \* HookEventSessionStart fired
  ended,     \* how often HookEventSessionEnd fired for the handle
  ids,       \* sessions Close swept and has still to fire SessionEnd for
  disp,      \* the dispatcher goroutine inside routeSessionUpdate
  sweeps,    \* sweeps of the routing table so far
  known,     \* agent: ids on record
  active,    \* agent: ids it emits notifications for
  emitted,   \* agent: notifications emitted per id
  wire,      \* notifications read from the transport, not yet dispatched
  lost,      \* ghost: notifications discarded, as <<id, number>>
  panicked   \* ghost: a send on, or a close of, a closed channel happened

registryVars == <<sessions, pending>>
callVars     == <<pc, kind, id, begun>>
hookVars     == <<ended, ids>>
flushVars    == <<todo, mid>>
chanVars     == <<shut, sent, read, dropped, panicked>>
agentVars    == <<known, active, emitted>>
vars == <<sessions, pending, pc, kind, id, todo, mid, shut, sent, read,
          dropped, commands, begun, ended, ids, disp, sweeps, known, active,
          emitted, wire, lost, panicked>>

\* Everything a step leaves alone that only moves a call on.
exceptPc == <<kind, id, begun, hookVars, registryVars, flushVars, chanVars,
              commands, disp, sweeps, agentVars, wire, lost>>

Idle == [at |-> "idle", h |-> None, n |-> 0]

Init ==
  /\ sessions = [i \in Ids |-> None]
  /\ pending  = [i \in Ids |-> <<>>]
  /\ pc       = [h \in Handles |-> "idle"]
  /\ kind     = [h \in Handles |-> "new"]
  /\ id       = [h \in Handles |-> None]
  /\ todo     = [h \in Handles |-> <<>>]
  /\ mid      = [h \in Handles |-> FALSE]
  /\ shut     = [h \in Handles |-> FALSE]
  /\ sent     = [h \in Handles |-> <<>>]
  /\ read     = [h \in Handles |-> 0]
  /\ dropped  = [h \in Handles |-> 0]
  /\ commands = [h \in Handles |-> 0]
  /\ begun    = [h \in Handles |-> FALSE]
  /\ ended    = [h \in Handles |-> 0]
  /\ ids      = {}
  /\ disp     = Idle
  /\ sweeps   = 0
  /\ known    = History
  /\ active   = {}
  /\ emitted  = [i \in Ids |-> 0]
  /\ wire     = <<>>
  /\ lost     = {}
  /\ panicked = FALSE

-----------------------------------------------------------------------------
(* The agent, as the code uses it: it creates or loads sessions and emits  *)
(* numbered notifications for them, which one dispatcher goroutine handles *)
(* in order and concurrently with the responses to our calls.              *)

\* The agent executes session/new or session/fork; the response with the id is
\* on its way and notifications for that id may overtake it.
AgentCreates(h) ==
  /\ pc[h] = "requested" /\ kind[h] = "new"
  /\ \E i \in Ids \ known :
       /\ id' = [id EXCEPT ![h] = i]
       /\ known' = known \cup {i}
       /\ active' = active \cup {i}
  /\ pc' = [pc EXCEPT ![h] = "answered"]
  /\ UNCHANGED <<kind, begun, hookVars, registryVars, flushVars, chanVars,
                 commands, disp, sweeps, emitted, wire, lost>>

\* The agent executes session/load or session/resume.
AgentLoads(h) ==
  /\ pc[h] = "loading"
  /\ active' = active \cup {id[h]}
  /\ pc' = [pc EXCEPT ![h] = "loaded"]
  /\ UNCHANGED <<kind, id, begun, hookVars, registryVars, flushVars, chanVars,
                 commands, disp, sweeps, known, emitted, wire, lost>>

AgentEmits(i) ==
  /\ i \in active
  /\ emitted[i] < MaxUpdates[i]
  /\ emitted' = [emitted EXCEPT ![i] = @ + 1]
  /\ wire' = Append(wire, <<i, emitted[i] + 1>>)
  /\ UNCHANGED <<callVars, hookVars, registryVars, flushVars, chanVars, commands,
                 disp, sweeps, known, active, lost>>

-----------------------------------------------------------------------------
(* session.deliver: two sections of s.mu with the subscribers called in    *)
(* between, run by the dispatcher goroutine and by the flush of            *)
(* registerSession.                                                        *)

\* First section: nothing on a closed session, else observeInLock.  Of what it
\* does the model keeps the cached command list, as if every notification were
\* an available_commands_update; tool-call timing and metrics are left out.
DeliverObserve(h, n) ==
  commands' = [commands EXCEPT ![h] = IF shut[h] THEN @ ELSE n]

\* The Go channel operations: both panic on a closed channel.
ChanSend(h, n, via) ==
  /\ sent' = [sent EXCEPT ![h] = Append(@, [n |-> n, via |-> via])]
  /\ panicked' = (panicked \/ shut[h])

ChanClose(H) ==
  /\ shut' = [h \in Handles |-> shut[h] \/ h \in H]
  /\ panicked' = (panicked \/ \E h \in H : shut[h])

ChanFull(h) == Len(sent[h]) - read[h] >= ChanCap

\* Mutants: the send without the second look at s.closed; a counter that runs
\* the wrong way.
DeliverSendUnchecked(h, n, via) ==
  /\ ChanSend(h, n, via)
  /\ UNCHANGED <<lost, dropped>>

DeliverSendMiscounts(h, n, via) ==
  \/ /\ shut[h] \/ ChanFull(h)
     /\ dropped' = [dropped EXCEPT ![h] = @ - 1]
     /\ lost' = lost \cup {<<id[h], n>>}
     /\ UNCHANGED <<sent, panicked>>
  \/ /\ ~shut[h] /\ ~ChanFull(h)
     /\ ChanSend(h, n, via)
     /\ UNCHANGED <<lost, dropped>>

\* Second section: s.closed is read again, then a non-blocking send.
DeliverSend(h, n, via) ==
  \/ /\ shut[h]
     /\ lost' = lost \cup {<<id[h], n>>}
     /\ UNCHANGED <<sent, dropped, panicked>>
  \/ /\ ~shut[h] /\ ~ChanFull(h)
     /\ ChanSend(h, n, via)
     /\ UNCHANGED <<lost, dropped>>
  \/ /\ ~shut[h] /\ ChanFull(h)
     /\ dropped' = [dropped EXCEPT ![h] = @ + 1]
     /\ lost' = lost \cup {<<id[h], n>>}
     /\ UNCHANGED <<sent, panicked>>

\* session.close: at most one close of the channel.
CloseAll(H) == ChanClose({h \in H : ~shut[h]})

-----------------------------------------------------------------------------
(* The dispatcher goroutine: routeSessionUpdate.                           *)

\* Mutant: notifications handled in any order, as by a goroutine for each.
RouteAny ==
  /\ disp.at = "idle"
  /\ \E k \in DOMAIN wire :
       LET i == wire[k][1]
           n == wire[k][2]
       IN /\ wire' = SubSeq(wire, 1, k - 1) \o SubSeq(wire, k + 1, Len(wire))
          /\ \/ /\ sessions[i] # None
                /\ disp' = [at |-> "routed", h |-> sessions[i], n |-> n]
                /\ UNCHANGED pending
             \/ /\ sessions[i] = None /\ Len(pending[i]) < PendingCap
                /\ pending' = [pending EXCEPT ![i] = Append(@, n)]
                /\ UNCHANGED disp
  /\ UNCHANGED <<sessions, callVars, hookVars, flushVars, chanVars, commands,
                 sweeps, agentVars, lost>>

\* The section of c.sessionsMu: look the session up, else buffer or drop.
Route ==
  /\ disp.at = "idle" /\ wire # <<>>
  /\ wire' = Tail(wire)
  /\ LET i == Head(wire)[1]
         n == Head(wire)[2]
     IN \/ /\ sessions[i] # None
           /\ disp' = [at |-> "routed", h |-> sessions[i], n |-> n]
           /\ UNCHANGED <<pending, lost>>
        \/ /\ sessions[i] = None /\ Len(pending[i]) < PendingCap
           /\ pending' = [pending EXCEPT ![i] = Append(@, n)]
           /\ UNCHANGED <<disp, lost>>
        \/ /\ sessions[i] = None /\ Len(pending[i]) >= PendingCap
           /\ lost' = lost \cup {<<i, n>>}
           /\ UNCHANGED <<pending, disp>>
  /\ UNCHANGED <<sessions, callVars, hookVars, flushVars, chanVars, commands,
                 sweeps, agentVars>>

DispatchObserve ==
  /\ disp.at = "routed"
  /\ DeliverObserve(disp.h, disp.n)
  /\ \/ /\ shut[disp.h]
        /\ disp' = Idle
        /\ lost' = lost \cup {<<id[disp.h], disp.n>>}
     \/ /\ ~shut[disp.h]
        /\ disp' = [disp EXCEPT !.at = "observed"]
        /\ UNCHANGED lost
  /\ UNCHANGED <<registryVars, callVars, hookVars, flushVars, chanVars, sweeps,
                 agentVars, wire>>

DispatchSend ==
  /\ disp.at = "observed"
  /\ DeliverSend(disp.h, disp.n, "dispatcher")
  /\ disp' = Idle
  /\ UNCHANGED <<registryVars, callVars, hookVars, flushVars, shut, read,
                 commands, sweeps, agentVars, wire>>

-----------------------------------------------------------------------------
(* The goroutine of an API call that makes a session.                      *)

\* NewSession/ForkSession send their RPC first.
CallNew(h) ==
  /\ pc[h] = "idle"
  /\ pc' = [pc EXCEPT ![h] = "requested"]
  /\ UNCHANGED exceptPc

\* LoadSession/ResumeSession know the id and register before their RPC.
CallLoad(h, i) ==
  /\ pc[h] = "idle" /\ i \in known
  /\ kind' = [kind EXCEPT ![h] = "load"]
  /\ id' = [id EXCEPT ![h] = i]
  /\ pc' = [pc EXCEPT ![h] = "answered"]
  /\ UNCHANGED <<begun, hookVars, registryVars, flushVars, chanVars, commands,
                 disp, sweeps, agentVars, wire, lost>>

\* Mutant: the taken buffer is not deleted from pendingUpdates.
RegisterKeepsPending(h) ==
  /\ pc[h] = "answered"
  /\ sessions' = [sessions EXCEPT ![id[h]] = h]
  /\ todo' = [todo EXCEPT ![h] = pending[id[h]]]
  /\ pc' = [pc EXCEPT ![h] = "flushing"]
  /\ UNCHANGED <<kind, id, begun, hookVars, mid, pending, chanVars, commands,
                 disp, sweeps, agentVars, wire, lost>>

\* registerSession, its section of c.sessionsMu: route to the handle and take
\* what was kept for it.  The kept notifications are delivered after the unlock.
Register(h) ==
  /\ pc[h] = "answered"
  /\ sessions' = [sessions EXCEPT ![id[h]] = h]
  /\ todo' = [todo EXCEPT ![h] = pending[id[h]]]
  /\ pending' = [pending EXCEPT ![id[h]] = <<>>]
  /\ pc' = [pc EXCEPT ![h] = "flushing"]
  /\ UNCHANGED <<kind, id, begun, hookVars, mid, chanVars, commands, disp, sweeps,
                 agentVars, wire, lost>>

FlushObserve(h) ==
  /\ pc[h] = "flushing" /\ todo[h] # <<>> /\ ~mid[h]
  /\ DeliverObserve(h, Head(todo[h]))
  /\ \/ /\ shut[h]
        /\ todo' = [todo EXCEPT ![h] = Tail(@)]
        /\ lost' = lost \cup {<<id[h], Head(todo[h])>>}
        /\ UNCHANGED mid
     \/ /\ ~shut[h]
        /\ mid' = [mid EXCEPT ![h] = TRUE]
        /\ UNCHANGED <<todo, lost>>
  /\ UNCHANGED <<registryVars, callVars, hookVars, chanVars, disp, sweeps,
                 agentVars, wire>>

FlushSend(h) ==
  /\ pc[h] = "flushing" /\ mid[h]
  /\ DeliverSend(h, Head(todo[h]), "flush")
  /\ todo' = [todo EXCEPT ![h] = Tail(@)]
  /\ mid' = [mid EXCEPT ![h] = FALSE]
  /\ UNCHANGED <<registryVars, callVars, hookVars, shut, read, commands, disp,
                 sweeps, agentVars, wire>>

\* newSession returns: a "new" call goes on to applySessionConfig, a "load"
\* call sends its RPC.
FlushDone(h) ==
  /\ pc[h] = "flushing" /\ todo[h] = <<>>
  /\ pc' = [pc EXCEPT ![h] = IF kind[h] = "new" THEN "config" ELSE "loading"]
  /\ UNCHANGED exceptPc

LoadReturns(h) ==
  /\ pc[h] = "loaded"
  /\ pc' = [pc EXCEPT ![h] = "config"]
  /\ UNCHANGED exceptPc

\* The RPC fails (agent error, cancelled context, dead transport), whether or
\* not the agent executed it.  Only a load has a session to tear down.
RpcFails(h) ==
  /\ \/ /\ kind[h] = "new" /\ pc[h] \in {"requested", "answered"}
        /\ pc' = [pc EXCEPT ![h] = "failed"]
     \/ /\ pc[h] \in {"loading", "loaded"}
        /\ pc' = [pc EXCEPT ![h] = "undo"]
  /\ UNCHANGED exceptPc

\* applySessionConfig succeeds; HookEventSessionStart; the call returns.
ConfigReturns(h) ==
  /\ pc[h] = "config"
  /\ pc' = [pc EXCEPT ![h] = "live"]
  /\ begun' = [begun EXCEPT ![h] = TRUE]
  /\ UNCHANGED <<kind, id, hookVars, registryVars, flushVars, chanVars, commands,
                 disp, sweeps, agentVars, wire, lost>>

ConfigFails(h) ==
  /\ pc[h] = "config"
  /\ pc' = [pc EXCEPT ![h] = "undo"]
  /\ UNCHANGED exceptPc

\* Mutant: a rollback that resets the whole table, as a sweep does.
DeregisterAll(h) ==
  /\ pc[h] = "undo"
  /\ sessions' = [i \in Ids |-> None]
  /\ pc' = [pc EXCEPT ![h] = "deregistered"]
  /\ UNCHANGED <<pending, kind, id, begun, hookVars, flushVars, chanVars,
                 commands, disp, sweeps, agentVars, wire, lost>>

\* teardownSession: deregister by id, close, HookEventSessionEnd.
Deregister(h) ==
  /\ pc[h] = "undo"
  /\ sessions' = [sessions EXCEPT ![id[h]] = None]
  /\ pending' = [pending EXCEPT ![id[h]] = <<>>]
  /\ lost' = lost \cup {<<id[h], pending[id[h]][k]>> : k \in DOMAIN pending[id[h]]}
  /\ pc' = [pc EXCEPT ![h] = "deregistered"]
  /\ UNCHANGED <<kind, id, begun, hookVars, flushVars, chanVars, commands, disp,
                 sweeps, agentVars, wire>>

TeardownClose(h) ==
  /\ pc[h] = "deregistered"
  /\ CloseAll({h})
  /\ pc' = [pc EXCEPT ![h] = "closed"]
  /\ UNCHANGED <<kind, id, begun, hookVars, registryVars, flushVars, sent, read,
                 dropped, commands, disp, sweeps, agentVars, wire, lost>>

TeardownHook(h) ==
  /\ pc[h] = "closed"
  /\ ended' = [ended EXCEPT ![h] = @ + 1]
  /\ pc' = [pc EXCEPT ![h] = "failed"]
  /\ UNCHANGED <<kind, id, begun, ids, registryVars, flushVars, chanVars,
                 commands, disp, sweeps, agentVars, wire, lost>>

-----------------------------------------------------------------------------
\* The sessions the table leads to.
Routed == {sessions[i] : i \in Ids} \ {None}

\* Mutants: the table is left as it is; the sessions are forgotten but not
\* closed.
SweepKeepsTable(dropPending) ==
  /\ sweeps < MaxSweeps
  /\ sweeps' = sweeps + 1
  /\ CloseAll(Routed)
  /\ ids' = IF dropPending THEN ids ELSE ids \cup Routed
  /\ UNCHANGED <<registryVars, callVars, ended, flushVars, sent, read, dropped,
                 commands, disp, agentVars, wire, lost>>

SweepWithoutClose(dropPending) ==
  /\ sweeps < MaxSweeps
  /\ sweeps' = sweeps + 1
  /\ sessions' = [i \in Ids |-> None]
  /\ ids' = IF dropPending THEN ids ELSE ids \cup Routed
  /\ UNCHANGED <<pending, callVars, ended, flushVars, chanVars, commands, disp,
                 agentVars, wire, lost>>

\* The section of c.sessionsMu in which Close and the crash watcher close every
\* routed session and empty the table; only the watcher empties pendingUpdates,
\* and only Close collects the ids it will fire HookEventSessionEnd for.
Sweep(dropPending) ==
  /\ sweeps < MaxSweeps
  /\ sweeps' = sweeps + 1
  /\ CloseAll(Routed)
  /\ sessions' = [i \in Ids |-> None]
  /\ \/ /\ ~dropPending
        /\ ids' = ids \cup Routed
        /\ UNCHANGED <<pending, lost>>
     \/ /\ dropPending
        /\ UNCHANGED ids
        /\ pending' = [i \in Ids |-> <<>>]
        /\ lost' = lost \cup UNION {{<<i, pending[i][k]>> : k \in DOMAIN pending[i]} : i \in Ids}
  /\ UNCHANGED <<callVars, ended, flushVars, sent, read, dropped, commands,
                 disp, agentVars, wire>>

\* Close, after the section: HookEventSessionEnd for every session it swept.
EndHooks ==
  /\ ended' = [h \in Handles |-> IF h \in ids THEN ended[h] + 1 ELSE ended[h]]
  /\ ids' = {}
  /\ UNCHANGED <<registryVars, callVars, flushVars, chanVars, commands, disp,
                 sweeps, agentVars, wire, lost>>

\* The application receives from Updates().
Consume(h) ==
  /\ read[h] < Len(sent[h])
  /\ read' = [read EXCEPT ![h] = @ + 1]
  /\ UNCHANGED <<registryVars, callVars, hookVars, flushVars, shut, sent, dropped,
                 panicked, commands, disp, sweeps, agentVars, wire, lost>>

HandleStep(h) ==
  \/ CallNew(h) \/ (\E i \in Ids : CallLoad(h, i))
  \/ AgentCreates(h) \/ AgentLoads(h)
  \/ Register(h) \/ FlushObserve(h) \/ FlushSend(h) \/ FlushDone(h)
  \/ LoadReturns(h) \/ RpcFails(h) \/ ConfigReturns(h) \/ ConfigFails(h)
  \/ Deregister(h) \/ TeardownClose(h) \/ TeardownHook(h)
  \/ Consume(h)

Dispatch == Route \/ DispatchObserve \/ DispatchSend

Next ==
  \/ \E h \in Handles : HandleStep(h)
  \/ \E i \in Ids : AgentEmits(i)
  \/ Dispatch
  \/ \E d \in BOOLEAN : Sweep(d)
  \/ EndHooks

Spec == Init /\ [][Next]_vars

-----------------------------------------------------------------------------
(* Properties.                                                             *)

Pcs == {"idle", "requested", "answered", "flushing", "loading", "loaded",
        "config", "live", "undo", "deregistered", "closed", "failed"}

\* The shape of the state: the client's maps, the session fields and the
\* goroutines' positions hold values the code can put there.
TypeOK ==
  /\ sessions \in [Ids -> Handles \cup {None}]
  /\ pending  \in [Ids -> Seq(Nat)]
  /\ pc       \in [Handles -> Pcs]
  /\ kind     \in [Handles -> {"new", "load"}]
  /\ id       \in [Handles -> Ids \cup {None}]
  /\ todo     \in [Handles -> Seq(Nat)]
  /\ mid      \in [Handles -> BOOLEAN]
  /\ shut     \in [Handles -> BOOLEAN]
  /\ sent     \in [Handles -> Seq([n : Nat, via : {"dispatcher", "flush"}])]
  /\ read     \in [Handles -> Nat]
  /\ dropped  \in [Handles -> Nat]
  /\ commands \in [Handles -> Nat]
  /\ begun    \in [Handles -> BOOLEAN]
  /\ ended    \in [Handles -> Nat]
  /\ ids      \subseteq Handles
  /\ disp     \in [at : {"idle", "routed", "observed"},
                    h : Handles \cup {None}, n : Nat]
  /\ disp.at # "idle" => disp.h \in Handles
  /\ sweeps   \in Nat
  /\ known    \subseteq Ids
  /\ active   \subseteq Ids
  /\ emitted  \in [Ids -> Nat]
  /\ wire     \in Seq(Ids \X Nat)
  /\ panicked \in BOOLEAN

\* session.deliver's second look at s.closed and the guard of session.close
\* keep every interleaving of delivery, flush, rollback and sweep free of a
\* send on, or a second close of, the closed updates channel.
NoPanic == ~panicked

\* The routing table never leads to a session whose channel is closed, nor to
\* a session of another id: rollback deregisters before it closes, and a
\* sweep closes and forgets in one section of c.sessionsMu.
RoutedIsOpen ==
  \A i \in Ids : sessions[i] # None => /\ ~shut[sessions[i]]
                                      /\ id[sessions[i]] = i

\* No notification stays behind in pendingUpdates once its session is routed
\* (nothing would ever deliver it), and the buffer keeps to its cap:
\* registerSession takes it in the section that makes the session visible.
NothingStranded ==
  \A i \in Ids : /\ sessions[i] # None => pending[i] = <<>>
                 /\ Len(pending[i]) <= PendingCap

\* c.sessions and c.pendingUpdates agree, however registrations, rollbacks and
\* sweeps interleave: RoutedIsOpen and NothingStranded together.
TableConsistent == RoutedIsOpen /\ NothingStranded

\* Where notification n of session id i is; a rule of the code that hands it
\* on must leave it in exactly one place.
WirePlaces(i, n) ==
  {<<"wire", k>> : k \in {k \in DOMAIN wire : wire[k] = <<i, n>>}}

PendingPlaces(i, n) ==
  {<<"pending", k>> : k \in {k \in DOMAIN pending[i] : pending[i][k] = n}}

DispPlaces(i, n) ==
  {<<"disp", x>> : x \in {x \in {disp} : x.at # "idle" /\ id[x.h] = i /\ x.n = n}}

LostPlaces(i, n) == {<<"lost", x>> : x \in lost \cap {<<i, n>>}}

SessionPlaces(h, n) ==
     {<<"flush", h, k>> : k \in {k \in DOMAIN todo[h] : todo[h][k] = n}}
  \cup {<<"chan", h, k>> : k \in {k \in DOMAIN sent[h] : sent[h][k].n = n}}

Places(i, n) ==
  WirePlaces(i, n) \cup PendingPlaces(i, n) \cup DispPlaces(i, n)
    \cup LostPlaces(i, n)
    \cup UNION {SessionPlaces(h, n) : h \in {h \in Handles : id[h] = i}}

\* Every notification the agent emitted is in exactly one place: on the wire,
\* buffered, in the hands of one delivering goroutine, in (or received from)
\* one Updates() channel, or discarded where the code says so.  The hand-over
\* from the buffer to the session neither duplicates nor loses one.
Conservation ==
  \A i \in Ids : \A n \in 1..emitted[i] : Cardinality(Places(i, n)) = 1

\* What holds of the order: no notification is delivered twice, and the only
\* one ever overtaken is one that registerSession is still flushing, by one
\* the dispatcher routed meanwhile.
OnlyFlushIsOvertaken ==
  \A h \in Handles : \A a, b \in DOMAIN sent[h] :
    a < b => \/ sent[h][a].n < sent[h][b].n
             \/ /\ sent[h][a].n > sent[h][b].n
                /\ sent[h][a].via = "dispatcher" /\ sent[h][b].via = "flush"

Making == {"flushing", "loading", "loaded", "config", "live"}

\* Session.Updates() "delivers every session/update notification for this
\* session": a session keeps its route from registration until the sweep or its
\* own rollback, as long as no other call opens the same id (which would take
\* the route).
SoleHandleStaysRouted ==
  \A h \in Handles :
    /\ pc[h] \in Making /\ sweeps = 0
    /\ \A g \in Handles \ {h} : id[g] # id[h]
    => sessions[id[h]] = h

=============================================================================
