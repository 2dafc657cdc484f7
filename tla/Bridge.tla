------------------------------- MODULE Bridge -------------------------------
(***************************************************************************)
(* The loopback MCP server (internal/mcp/bridge/bridge.go): Start binds    *)
(* and leaves the serving to a goroutine, Close shuts down for at most five*)
(* seconds, and every tool call of the agent is served by a goroutine that *)
(* converts the handler's outcome and records one observation.  net/http   *)
(* (external) is modelled from its use: Serve refuses to serve and closes  *)
(* its listener once Shutdown has begun, Shutdown closes the listener it   *)
(* knows of and waits for running calls.                                   *)
(***************************************************************************)
EXTENDS Naturals, FiniteSets

CONSTANTS
  Calls,   \* tool calls of the agent
  Closers  \* callers of Close

VARIABLES
  started,  \* b.started
  closed,   \* b.closed
  listener, \* "none", "open", "closed"
  server,   \* the serving goroutine: "none", "spawned", "serving", "ended"
  shutdown, \* Server.Shutdown has begun
  closer,   \* caller -> "idle", "shutting", "nil", "failed"
  call,     \* call -> "none", "refused", "unauthorized", "running", "done"
  reply,    \* call -> what the agent gets
  recorded  \* observations: [call, status]

bridgeVars == <<started, closed, listener, server, shutdown, closer, call, reply, recorded>>

BridgeInit ==
  /\ started = FALSE /\ closed = FALSE /\ listener = "none"
  /\ server = "none" /\ shutdown = FALSE
  /\ closer = [k \in Closers |-> "idle"]
  /\ call = [c \in Calls |-> "none"]
  /\ reply = [c \in Calls |-> "none"]
  /\ recorded = {}

\* Refused when started or closed; Listen may fail.
BridgeStart ==
  /\ ~started /\ ~closed
  /\ started' = TRUE /\ listener' = "open" /\ server' = "spawned"
  /\ UNCHANGED <<closed, shutdown, closer, call, reply, recorded>>

\* Mutant: the goroutine serves a bridge that is already shut down.
ServesRegardless ==
  /\ server = "spawned"
  /\ server' = "serving"
  /\ UNCHANGED <<started, closed, listener, shutdown, closer, call, reply, recorded>>

\* The goroutine of Start gets to httpServer.Serve.
Serves ==
  /\ server = "spawned"
  /\ server' = IF shutdown THEN "ended" ELSE "serving"
  /\ listener' = IF shutdown THEN "closed" ELSE listener
  /\ UNCHANGED <<started, closed, shutdown, closer, call, reply, recorded>>

\* Mutant: the flag is not looked at.
BridgeCloseAgain(k) ==
  /\ closer[k] = "idle"
  /\ closed' = TRUE
  /\ closer' = [closer EXCEPT ![k] = "shutting"]
  /\ UNCHANGED <<started, listener, server, shutdown, call, reply, recorded>>

\* Only the first Close shuts down; the others return nil at once.
BridgeClose(k) ==
  /\ closer[k] = "idle"
  /\ closed' = TRUE
  /\ closer' = [closer EXCEPT ![k] = IF closed THEN "nil" ELSE "shutting"]
  /\ UNCHANGED <<started, listener, server, shutdown, call, reply, recorded>>

\* Shutdown: no new call is served from here on.
ShutdownBegins(k) ==
  /\ closer[k] = "shutting" /\ ~shutdown
  /\ shutdown' = TRUE
  /\ listener' = IF server = "serving" THEN "closed" ELSE listener
  /\ server' = IF server = "serving" THEN "ended" ELSE server
  /\ UNCHANGED <<started, closed, closer, call, reply, recorded>>

Running == {c \in Calls : call[c] = "running"}

\* Mutant: Close does not wait for the calls.
ShutdownAtOnce(k) ==
  /\ closer[k] = "shutting" /\ shutdown
  /\ closer' = [closer EXCEPT ![k] = "nil"]
  /\ UNCHANGED <<started, closed, listener, server, shutdown, call, reply, recorded>>

\* All calls are over, or the five seconds or the context are.
ShutdownEnds(k) ==
  /\ closer[k] = "shutting" /\ shutdown
  /\ \/ Running = {} /\ closer' = [closer EXCEPT ![k] = "nil"]
     \/ closer' = [closer EXCEPT ![k] = "failed"]
  /\ UNCHANGED <<started, closed, listener, server, shutdown, call, reply, recorded>>

\* requireBearer comes before the MCP handler.
CallArrives(c) ==
  /\ call[c] = "none" /\ listener # "none"
  /\ \/ server = "serving" /\ call' = [call EXCEPT ![c] = "running"]
     \/ server = "serving" /\ call' = [call EXCEPT ![c] = "unauthorized"]
     \/ listener = "closed" /\ call' = [call EXCEPT ![c] = "refused"]
  /\ UNCHANGED <<started, closed, listener, server, shutdown, closer, reply, recorded>>

\* Mutant: a tool that reports its own failure is recorded as ok.
StatusIgnoresFlag(o) == IF o \in {"bad arguments", "handler error"} THEN "error" ELSE "ok"

\* The observation of an outcome of coerceArguments and the handler.
Status(o) == CASE o \in {"bad arguments", "handler error"} -> "error"
               [] o = "tool error"                        -> "app_error"
               [] o \in {"nil", "output"}                 -> "ok"

\* IsError is set for every failure; the call itself never fails.
CallEnds(c, o) ==
  /\ call[c] = "running"
  /\ call' = [call EXCEPT ![c] = "done"]
  /\ reply' = [reply EXCEPT ![c] = IF o \in {"nil", "output"} THEN "result" ELSE "isError"]
  /\ recorded' = recorded \cup {[call |-> c, status |-> Status(o)]}
  /\ UNCHANGED <<started, closed, listener, server, shutdown, closer>>

Outcomes == {"bad arguments", "handler error", "tool error", "nil", "output"}

BridgeNext ==
  \/ BridgeStart \/ Serves
  \/ \E k \in Closers : BridgeClose(k) \/ ShutdownBegins(k) \/ ShutdownEnds(k)
  \/ \E c \in Calls : CallArrives(c) \/ \E o \in Outcomes : CallEnds(c, o)

BridgeFairness ==
  /\ WF_bridgeVars(Serves)
  /\ \A k \in Closers : WF_bridgeVars(ShutdownBegins(k)) /\ WF_bridgeVars(ShutdownEnds(k))

-----------------------------------------------------------------------------
(* Properties.                                                             *)

\* The Close that shut the bridge down and returned nil left no tool call
\* running, and none starts afterwards although the serving goroutine may only
\* now get to run.
CleanCloseIsQuiet ==
  (\E k \in Closers : closer[k] = "nil") /\ (\A k \in Closers : closer[k] \notin {"shutting", "failed"})
    => Running = {} /\ server # "serving"

\* One Close at most runs Shutdown, however many are called together.
OneShutdown == Cardinality({k \in Closers : closer[k] \in {"shutting", "failed"}}) <= 1

\* Every tool call that was served is observed once, as a failure exactly when
\* the agent was told of one; a call without the token is not.
EveryCallRecorded ==
  \A c \in Calls :
    LET obs == {r \in recorded : r.call = c}
    IN /\ call[c] = "done" <=> Cardinality(obs) = 1
       /\ call[c] # "done" => obs = {}
       /\ \A r \in obs : r.status = "ok" <=> reply[c] = "result"

\* What the bridge promises the client: one shutdown, nothing running after a
\* clean one, and an observation of every call.
BridgeSound == OneShutdown /\ CleanCloseIsQuiet /\ EveryCallRecorded

\* Close frees the port, whichever of Close and the serving goroutine is first.
CloseFreesPort == closed /\ started ~> listener = "closed"
=============================================================================
