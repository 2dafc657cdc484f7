------------------------------- MODULE Serve --------------------------------
(***************************************************************************)
(* ListModelCapabilities (model_capabilities.go): a throw-away `opencode   *)
(* serve` subprocess is spawned, asked for its providers and torn down     *)
(* (internal/serve/serve.go).  Spawn selects over the banner, the exit, a  *)
(* timer and the context; os/exec kills the server, and only it, when the  *)
(* context ends; Close kills the process group and waits for the goroutine *)
(* that reaps the server.  Timers may fire at any moment.                  *)
(***************************************************************************)
EXTENDS Naturals

VARIABLES
  pc,       \* "begin", "select", "fetch", "kill", "reap", "done"
  result,   \* what the call returns
  ctx,      \* the caller's context is done
  leader,   \* the server: "none", "running", "zombie", "reaped"
  helpers,  \* other processes of its group are alive
  pipe,     \* the banner is printed and not read
  urlCh,    \* capacity 1
  waitErr,  \* capacity 1
  waiter,   \* go func() { p.waitErr <- cmd.Wait() }()
  closeErr, \* p.closeErr
  unled     \* ghost: the server died by itself or by the context

serveVars == <<pc, result, ctx, leader, helpers, pipe, urlCh, waitErr, waiter,
               closeErr, unled>>

ServeInit ==
  /\ pc = "begin" /\ result = "none" /\ ctx = FALSE
  /\ leader = "none" /\ helpers = FALSE /\ pipe = FALSE
  /\ urlCh = 0 /\ waitErr = 0 /\ waiter = "none"
  /\ closeErr = "none" /\ unled = FALSE

-----------------------------------------------------------------------------
(* The caller.                                                             *)

\* Discovery or cmd.Start fails, always when the context is over; otherwise
\* the reaping goroutine and the readers of the pipes run.
Spawn ==
  /\ pc = "begin"
  /\ \/ pc' = "done" /\ result' \in {"not found", "not started"}
        /\ UNCHANGED <<leader, waiter>>
     \/ ~ctx /\ pc' = "select" /\ leader' = "running" /\ waiter' = "waiting"
        /\ UNCHANGED result
  /\ UNCHANGED <<ctx, helpers, pipe, urlCh, waitErr, closeErr, unled>>

\* The banner, the exit or the context wins the select: a random choice of
\* those that are ready.
SpawnReady ==
  /\ pc = "select" /\ urlCh = 1
  /\ urlCh' = 0 /\ pc' = "fetch"
  /\ UNCHANGED <<result, ctx, leader, helpers, pipe, waitErr, waiter, closeErr, unled>>

SpawnSeesExit ==
  /\ pc = "select" /\ waitErr = 1
  /\ waitErr' = 0 /\ pc' = "done" /\ result' = "exited"
  /\ UNCHANGED <<ctx, leader, helpers, pipe, urlCh, waiter, closeErr, unled>>

\* Mutant: the timer's case returns without Close.
SpawnTimesOutOpen ==
  /\ pc = "select"
  /\ pc' = "done" /\ result' = "not ready"
  /\ UNCHANGED <<ctx, leader, helpers, pipe, urlCh, waitErr, waiter, closeErr, unled>>

SpawnTimesOut ==
  /\ pc = "select"
  /\ pc' = "kill" /\ result' = "not ready"
  /\ UNCHANGED <<ctx, leader, helpers, pipe, urlCh, waitErr, waiter, closeErr, unled>>

SpawnCancelled ==
  /\ pc = "select" /\ ctx
  /\ pc' = "kill" /\ result' = "cancelled"
  /\ UNCHANGED <<ctx, leader, helpers, pipe, urlCh, waitErr, waiter, closeErr, unled>>

\* The request fails, times out or is decoded; the deferred Close runs.
Fetch ==
  /\ pc = "fetch"
  /\ pc' = "kill"
  /\ \/ leader = "running" /\ ~ctx /\ result' = "models"
     \/ result' = "fetch failed"
  /\ UNCHANGED <<ctx, leader, helpers, pipe, urlCh, waitErr, waiter, closeErr, unled>>

\* Mutant: only the server is killed.
KillLeaderOnly ==
  /\ pc = "kill" /\ pc' = "reap"
  /\ leader' = IF leader = "running" THEN "zombie" ELSE leader
  /\ UNCHANGED <<result, ctx, helpers, pipe, urlCh, waitErr, waiter, closeErr, unled>>

\* Getpgid finds the group as long as the server is not reaped; the signal may
\* be refused; a reaped server is nothing to kill.
KillProcessTree ==
  /\ pc = "kill" /\ pc' = "reap"
  /\ \/ /\ leader \in {"running", "zombie"}
        /\ leader' = "zombie" /\ helpers' = FALSE
        /\ UNCHANGED closeErr
     \/ /\ leader \in {"running", "zombie"}
        /\ closeErr' = "not killed"
        /\ UNCHANGED <<leader, helpers>>
     \/ leader = "reaped" /\ UNCHANGED <<leader, helpers, closeErr>>
  /\ UNCHANGED <<result, ctx, pipe, urlCh, waitErr, waiter, unled>>

CloseReaps ==
  /\ pc = "reap" /\ waitErr = 1
  /\ waitErr' = 0 /\ pc' = "done"
  /\ UNCHANGED <<result, ctx, leader, helpers, pipe, urlCh, waiter, closeErr, unled>>

\* Mutant: a server that does not go is waited for.
CloseNeverGivesUp == FALSE /\ UNCHANGED serveVars

CloseGivesUp ==
  /\ pc = "reap"
  /\ closeErr' = "stuck" /\ pc' = "done"
  /\ UNCHANGED <<result, ctx, leader, helpers, pipe, urlCh, waitErr, waiter, unled>>

-----------------------------------------------------------------------------
(* The goroutines, os/exec and the server.                                 *)

\* cmd.Wait reaps the server and closes the pipe.
Reap ==
  /\ waiter = "waiting" /\ leader = "zombie"
  /\ leader' = "reaped" /\ waiter' = "holding" /\ pipe' = FALSE
  /\ UNCHANGED <<pc, result, ctx, helpers, urlCh, waitErr, closeErr, unled>>

\* Mutant: the channel has no buffer.
SendUnbuffered ==
  /\ waiter = "holding" /\ waitErr = 0 /\ pc \in {"select", "reap"}
  /\ waitErr' = 1 /\ waiter' = "ended"
  /\ UNCHANGED <<pc, result, ctx, leader, helpers, pipe, urlCh, closeErr, unled>>

SendWaitErr ==
  /\ waiter = "holding" /\ waitErr = 0
  /\ waitErr' = 1 /\ waiter' = "ended"
  /\ UNCHANGED <<pc, result, ctx, leader, helpers, pipe, urlCh, closeErr, unled>>

\* The reader of stdout: a second banner is dropped.
Drain ==
  /\ pipe /\ pipe' = FALSE
  /\ urlCh' = 1
  /\ UNCHANGED <<pc, result, ctx, leader, helpers, waitErr, waiter, closeErr, unled>>

CtxDone ==
  /\ ~ctx /\ pc # "done"
  /\ ctx' = TRUE
  /\ UNCHANGED <<pc, result, leader, helpers, pipe, urlCh, waitErr, waiter, closeErr, unled>>

\* exec.CommandContext: Process.Kill, not the group.
CtxKills ==
  /\ ctx /\ leader = "running" /\ waiter = "waiting"
  /\ leader' = "zombie" /\ unled' = TRUE
  /\ UNCHANGED <<pc, result, ctx, helpers, pipe, urlCh, waitErr, waiter, closeErr>>

ServerSteps ==
  /\ leader = "running"
  /\ \/ pipe' = TRUE /\ UNCHANGED <<leader, helpers, unled>>
     \/ helpers' = TRUE /\ UNCHANGED <<leader, pipe, unled>>
     \/ leader' = "zombie" /\ unled' = TRUE /\ UNCHANGED <<helpers, pipe>>
  /\ UNCHANGED <<pc, result, ctx, urlCh, waitErr, waiter, closeErr>>

Caller == \/ SpawnReady \/ SpawnSeesExit \/ SpawnTimesOut \/ SpawnCancelled
          \/ Fetch \/ KillProcessTree \/ CloseReaps \/ CloseGivesUp

ServeNext == \/ Spawn \/ Caller \/ Reap \/ SendWaitErr \/ Drain
             \/ CtxDone \/ CtxKills \/ ServerSteps

\* The timers fire and the goroutines are scheduled.
ServeFairness == WF_serveVars(Caller) /\ WF_serveVars(Reap) /\ WF_serveVars(SendWaitErr)

-----------------------------------------------------------------------------
(* Properties.                                                             *)

\* The state of a ListModelCapabilities call keeps its shape; the two channels
\* of Spawn never hold more than their one slot.
ServeTypeOK ==
  /\ pc \in {"begin", "select", "fetch", "kill", "reap", "done"}
  /\ result \in {"none", "not found", "not started", "exited", "not ready",
                 "cancelled", "models", "fetch failed"}
  /\ leader \in {"none", "running", "zombie", "reaped"}
  /\ waiter \in {"none", "waiting", "holding", "ended"}
  /\ closeErr \in {"none", "not killed", "stuck"}
  /\ urlCh \in {0, 1} /\ waitErr \in {0, 1}

\* When ListModelCapabilities returns, the server it started is dead and reaped
\* on every way out, unless Close gave an error.
NoServerLeft ==
  pc = "done" /\ closeErr = "none" => leader \in {"none", "reaped"}

\* Processes the server started die with it, unless the kill failed or the
\* server was gone before it: then the group cannot be found any more.
HelpersDieWithServer == pc = "done" /\ helpers => closeErr # "none" \/ unled

\* No process of ListModelCapabilities outlives it.
ServerIsGone == NoServerLeft /\ HelpersDieWithServer

\* The call returns although the server may hang, and although the banner, the
\* exit, the timer and the context race.
ServeCallEnds == pc = "select" ~> pc = "done"

\* The goroutine that reaped the server ends even when nobody waits any more.
WaiterEnds == waiter = "holding" ~> waiter = "ended"
=============================================================================
