------------------------------- MODULE Client -------------------------------
(***************************************************************************)
(* The lifecycle of a Client (client_impl.go) around the session routing   *)
(* of SessionRouting: Start, any number of concurrent Close calls, the     *)
(* crash watcher goroutine, the opencode subprocess it watches and the     *)
(* loopback MCP bridge that serves the client's tools.  One action is one  *)
(* critical section of c.mu or c.sessionsMu, or one call that takes its    *)
(* time between two of them.  The client has SDK tools registered (without *)
(* them there is no bridge) and a transport with an exit signal.           *)
(***************************************************************************)
EXTENDS SessionRouting

CONSTANTS
  Closers,    \* calls of Client.Close
  MaxStarts   \* bound: calls of Client.Start

VARIABLES
  started,        \* c.started
  closed,         \* c.closed
  transportErr,   \* c.transportErr # nil
  degraded,       \* c.health: Degraded
  failures,       \* c.health: ConsecutiveFailures
  proc,           \* the subprocess: "none", "up", "exited" or "stuck"
  bridge,         \* c.bridge: the Start call that made it (0: nil)
  bridgesUp,      \* bridges whose HTTP server is serving
  starts,         \* calls of Start so far
  watch,          \* where watchSubprocess is
  cpc,            \* where each Close call is
  exitAfterClose  \* ghost: c.closed was set when the subprocess exited

lifecycleVars == <<started, closed, transportErr, degraded, failures, proc,
                   bridge, bridgesUp, starts, watch, cpc, exitAfterClose>>
clientVars == <<vars, lifecycleVars>>

ClientInit ==
  /\ Init
  /\ started = FALSE /\ closed = FALSE
  /\ transportErr = FALSE /\ degraded = FALSE /\ failures = 0
  /\ proc = "none" /\ bridge = 0 /\ bridgesUp = {} /\ starts = 0
  /\ watch = "off"
  /\ cpc = [k \in Closers |-> "idle"]
  /\ exitAfterClose = FALSE

-----------------------------------------------------------------------------
(* Start holds c.mu from its checks to its return, so that no other section *)
(* of c.mu falls in between: it is one step with four outcomes.             *)

StartBegins ==
  /\ ~started /\ ~closed
  /\ starts < MaxStarts
  /\ starts' = starts + 1

\* The bridge cannot be built or cannot listen.
StartBridgeFails ==
  /\ StartBegins
  /\ UNCHANGED <<vars, started, closed, transportErr, degraded, failures, proc,
                 bridge, bridgesUp, watch, cpc, exitAfterClose>>

BridgeStarts ==
  /\ bridge' = starts + 1
  /\ bridgesUp' = bridgesUp \cup {starts + 1}

\* The bridge serves but there is no transport (CLI not found, spawn error), or
\* the initialize handshake fails and the transport is closed again.
StartTransportFails ==
  /\ StartBegins /\ BridgeStarts
  /\ UNCHANGED <<vars, started, closed, transportErr, degraded, failures, proc,
                 watch, cpc, exitAfterClose>>

StartSucceeds ==
  /\ StartBegins /\ BridgeStarts
  /\ proc' = "up"
  /\ started' = TRUE
  /\ watch' = "waiting"
  /\ UNCHANGED <<vars, closed, transportErr, degraded, failures, cpc,
                 exitAfterClose>>

-----------------------------------------------------------------------------
(* The subprocess and its watcher.                                         *)

\* opencode exits: on its own, or because it was killed.
ProcExits ==
  /\ proc \in {"up", "stuck"}
  /\ proc' = "exited"
  /\ exitAfterClose' = closed
  /\ UNCHANGED <<vars, started, closed, transportErr, degraded, failures,
                 bridge, bridgesUp, starts, watch, cpc>>

\* Mutant: every exit is a crash.
WatchTrustsNobody ==
  /\ watch = "waiting" /\ proc = "exited"
  /\ watch' = "crashed"
  /\ UNCHANGED <<vars, started, closed, transportErr, degraded, failures, proc,
                 bridge, bridgesUp, starts, cpc, exitAfterClose>>

\* Exited() has fired; c.closed, read under c.mu, tells a crash from Close.
WatchChecks ==
  /\ watch = "waiting" /\ proc = "exited"
  /\ watch' = IF closed THEN "done" ELSE "crashed"
  /\ UNCHANGED <<vars, started, closed, transportErr, degraded, failures, proc,
                 bridge, bridgesUp, starts, cpc, exitAfterClose>>

\* recordFailure and markDegraded.
WatchDegrades ==
  /\ watch = "crashed"
  /\ watch' = "degraded"
  /\ degraded' = TRUE
  /\ failures' = failures + 1
  /\ UNCHANGED <<vars, started, closed, transportErr, proc, bridge, bridgesUp,
                 starts, cpc, exitAfterClose>>

\* Mutant: the sessions are left to Close.
WatchLeavesSessions ==
  /\ watch = "degraded"
  /\ watch' = "swept"
  /\ UNCHANGED <<vars, started, closed, transportErr, degraded, failures, proc,
                 bridge, bridgesUp, starts, cpc, exitAfterClose>>

\* Close every live session, reset the table and the buffer.
WatchSweeps ==
  /\ watch = "degraded"
  /\ watch' = "swept"
  /\ Sweep(TRUE)
  /\ UNCHANGED <<started, closed, transportErr, degraded, failures, proc,
                 bridge, bridgesUp, starts, cpc, exitAfterClose>>

\* Mutant: the error is recorded but the client stays open.
WatchKeepsOpen ==
  /\ watch = "swept"
  /\ watch' = "done"
  /\ transportErr' = TRUE
  /\ UNCHANGED <<vars, started, closed, degraded, failures, proc, bridge,
                 bridgesUp, starts, cpc, exitAfterClose>>

\* Leave the client closed, with the cause.
WatchMarks ==
  /\ watch = "swept"
  /\ watch' = "done"
  /\ closed' = TRUE
  /\ transportErr' = TRUE
  /\ UNCHANGED <<vars, started, degraded, failures, proc, bridge, bridgesUp,
                 starts, cpc, exitAfterClose>>

Watch == WatchChecks \/ WatchDegrades \/ WatchSweeps \/ WatchMarks

-----------------------------------------------------------------------------
(* Close.                                                                  *)

\* The first section of c.mu: the first Close call goes on, others return nil.
CloseMarks(k) ==
  /\ cpc[k] = "idle"
  /\ cpc' = [cpc EXCEPT ![k] = IF closed THEN "noop" ELSE "marked"]
  /\ closed' = TRUE
  /\ UNCHANGED <<vars, started, transportErr, degraded, failures, proc, bridge,
                 bridgesUp, starts, watch, exitAfterClose>>

\* Mutant: the table is emptied behind the sessions' back.
CloseForgets(k) ==
  /\ cpc[k] = "marked"
  /\ cpc' = [cpc EXCEPT ![k] = "swept"]
  /\ sessions' = [i \in Ids |-> None]
  /\ UNCHANGED <<pending, callVars, hookVars, flushVars, chanVars, commands,
                 disp, sweeps, agentVars, wire, lost, started, closed,
                 transportErr, degraded, failures, proc, bridge, bridgesUp,
                 starts, watch, exitAfterClose>>

\* The section of c.sessionsMu.
CloseSweeps(k) ==
  /\ cpc[k] = "marked"
  /\ cpc' = [cpc EXCEPT ![k] = "swept"]
  /\ Sweep(FALSE)
  /\ UNCHANGED <<started, closed, transportErr, degraded, failures, proc,
                 bridge, bridgesUp, starts, watch, exitAfterClose>>

\* Mutant: the bridge goes first.
CloseHooksAndBridge(k) ==
  /\ cpc[k] = "swept"
  /\ cpc' = [cpc EXCEPT ![k] = "hooked"]
  /\ EndHooks
  /\ bridgesUp' = bridgesUp \ {bridge}
  /\ UNCHANGED <<started, closed, transportErr, degraded, failures, proc,
                 bridge, starts, watch, exitAfterClose>>

CloseHooks(k) ==
  /\ cpc[k] = "swept"
  /\ cpc' = [cpc EXCEPT ![k] = "hooked"]
  /\ EndHooks
  /\ UNCHANGED <<started, closed, transportErr, degraded, failures, proc,
                 bridge, bridgesUp, starts, watch, exitAfterClose>>

\* Mutant: no kill, just waiting for the subprocess to go.
CloseAwaitsExit(k) ==
  /\ cpc[k] = "hooked"
  /\ proc \in {"none", "exited"}
  /\ cpc' = [cpc EXCEPT ![k] = "stopped"]
  /\ UNCHANGED <<vars, started, closed, transportErr, degraded, failures, proc,
                 bridge, bridgesUp, starts, watch, exitAfterClose>>

\* transport.Close: the subprocess is gone, or survived SIGKILL for two seconds
\* and is left behind with an error.
CloseProc(k) ==
  /\ cpc[k] = "hooked"
  /\ cpc' = [cpc EXCEPT ![k] = "stopped"]
  /\ \/ proc # "up" /\ UNCHANGED <<proc, exitAfterClose>>
     \/ proc = "up" /\ proc' = "exited" /\ exitAfterClose' = closed
     \/ proc = "up" /\ proc' = "stuck" /\ UNCHANGED exitAfterClose
  /\ UNCHANGED <<vars, started, closed, transportErr, degraded, failures,
                 bridge, bridgesUp, starts, watch>>

CloseBridge(k) ==
  /\ cpc[k] = "stopped"
  /\ cpc' = [cpc EXCEPT ![k] = "done"]
  /\ bridgesUp' = bridgesUp \ {bridge}
  /\ UNCHANGED <<vars, started, closed, transportErr, degraded, failures, proc,
                 bridge, starts, watch, exitAfterClose>>

CloseContinues(k) ==
  CloseSweeps(k) \/ CloseHooks(k) \/ CloseProc(k) \/ CloseBridge(k)

-----------------------------------------------------------------------------
(* The session calls, with what the client and the subprocess add to them. *)

\* ensureStarted returns nil; refused calls change nothing.
EnsureStarted == started /\ ~closed

SessionCall(h) ==
  /\ EnsureStarted
  /\ CallNew(h) \/ (\E i \in Ids : CallLoad(h, i))
  /\ UNCHANGED lifecycleVars

AgentStep ==
  /\ proc \in {"up", "stuck"}
  /\ \/ \E h \in Handles : AgentCreates(h) \/ AgentLoads(h)
     \/ \E i \in Ids : AgentEmits(i)
  /\ UNCHANGED lifecycleVars

\* Steps of a call that wait for nobody.
CallContinues(h) ==
  /\ \/ Register(h) \/ FlushObserve(h) \/ FlushSend(h) \/ FlushDone(h)
     \/ LoadReturns(h) \/ Deregister(h) \/ TeardownClose(h) \/ TeardownHook(h)
  /\ UNCHANGED lifecycleVars

\* applySessionConfig returns one way or the other.
ConfigStep(h) ==
  /\ ConfigReturns(h) \/ ConfigFails(h)
  /\ UNCHANGED lifecycleVars

\* An RPC may fail at any time; with the transport gone it does.
CallFails(h) == RpcFails(h) /\ UNCHANGED lifecycleVars

DispatchStep == Dispatch /\ UNCHANGED lifecycleVars

ConsumeStep(h) == Consume(h) /\ UNCHANGED lifecycleVars

ClientNext ==
  \/ StartBridgeFails \/ StartTransportFails \/ StartSucceeds
  \/ ProcExits
  \/ Watch
  \/ \E k \in Closers : CloseMarks(k) \/ CloseContinues(k)
  \/ \E h \in Handles : \/ SessionCall(h) \/ CallContinues(h) \/ ConfigStep(h)
                        \/ CallFails(h) \/ ConsumeStep(h)
  \/ AgentStep
  \/ DispatchStep

\* Every goroutine of the SDK that can run does; hooks and subscribers return.
\* Nothing is assumed of the agent, of the application, or of RPCs while the
\* subprocess lives: once it exited the connection fails what is outstanding.
Fairness ==
  /\ WF_clientVars(Watch)
  /\ WF_clientVars(DispatchStep)
  /\ \A k \in Closers : WF_clientVars(CloseContinues(k))
  /\ \A h \in Handles : /\ WF_clientVars(CallContinues(h))
                        /\ WF_clientVars(ConfigStep(h))
                        /\ WF_clientVars(proc = "exited" /\ CallFails(h))

ClientSpec == ClientInit /\ [][ClientNext]_clientVars

FairClientSpec == ClientSpec /\ Fairness

-----------------------------------------------------------------------------
(* Properties.                                                             *)

TearingDown == {"marked", "swept", "hooked", "stopped", "done"}

\* The shape of the lifecycle state, on top of SessionRouting's.
ClientTypeOK ==
  /\ TypeOK
  /\ started \in BOOLEAN /\ closed \in BOOLEAN
  /\ transportErr \in BOOLEAN /\ degraded \in BOOLEAN
  /\ failures \in Nat
  /\ proc \in {"none", "up", "exited", "stuck"}
  /\ starts \in Nat /\ bridge \in Nat /\ bridgesUp \subseteq Nat
  /\ watch \in {"off", "waiting", "crashed", "degraded", "swept", "done"}
  /\ cpc \in [Closers -> TearingDown \cup {"idle", "noop"}]
  /\ exitAfterClose \in BOOLEAN

\* A client that was closed on purpose never reports a crash: health is
\* degraded and a TransportError is recorded only if the subprocess exited
\* before any Close call had set c.closed, however the watcher, the exit and
\* the Close calls interleave.
IntentionalCloseNotCrash ==
  degraded \/ transportErr => proc = "exited" /\ ~exitAfterClose

\* However many Close calls race, with each other and with the watcher, one at
\* most tears the client down: hooks, transport and bridge are not ended twice.
OneTeardown ==
  \A k, l \in Closers :
    cpc[k] \in TearingDown /\ cpc[l] \in TearingDown => k = l

\* Close shuts the bridge down only after the subprocess, which holds a
\* connection to it, is gone or given up on.
BridgeOutlivesProc ==
  bridge # 0 /\ bridge \notin bridgesUp => proc # "up"

\* HookEventSessionEnd is fired only for a session whose Updates() channel is
\* closed, and once at most for a session whose start was announced.
EndHookSound ==
  \A h \in Handles : /\ ended[h] > 0 => shut[h]
                     /\ pc[h] = "live" => ended[h] <= 1

\* The client drives the routing only through SessionRouting's operations, so
\* what is shown of those holds inside the client.
ImplementsRouting == Spec

\* A Close call that does the teardown returns, whatever the subprocess, the
\* watcher, the dispatcher and the session calls do meanwhile.
CloseCompletes ==
  \A k \in Closers : cpc[k] = "marked" ~> cpc[k] = "done"

\* Another call has opened the same session id.
Superseded(h) == \E g \in Handles \ {h} : id[g] = id[h] /\ pc[g] # "idle"

\* watchSubprocess "closes every live session (so callers blocked on Updates()
\* ... unblock)": a session that is routed when the subprocess is found dead
\* has its channel closed, unless a second handle for its id took its route.
CrashUnblocksReaders ==
  \A h \in Handles :
    (~closed /\ watch = "waiting" /\ proc = "exited" /\ h \in Routed)
      ~> (shut[h] \/ Superseded(h))

\* Once the subprocess is gone the client ends up closed and no session call
\* hangs: each one returns a session or an error.
CrashReleasesCallers ==
  /\ (started /\ proc = "exited") ~> closed
  /\ \A h \in Handles :
       (proc = "exited" /\ pc[h] # "idle") ~> pc[h] \in {"live", "failed"}

\* A crash of the subprocess is noticed by everybody who waits on it: the
\* readers of Updates() and the session calls.
CrashIsNoticed == CrashUnblocksReaders /\ CrashReleasesCallers

=============================================================================
