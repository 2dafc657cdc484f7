------------------------------ MODULE Process ------------------------------
(***************************************************************************)
(* The opencode subprocess as a transport (internal/subprocess/acp.go):    *)
(* Spawn, the goroutine that reaps the child and publishes its exit, and   *)
(* Process.Close with its two timers, run once however many calls race.    *)
(* A timer may fire at any moment: five seconds prove nothing about what   *)
(* the child and the reaping goroutine have done by then.                  *)
(***************************************************************************)
CONSTANT Closers    \* calls of Process.Close

VARIABLES
  child,         \* the OS process: "none", "up" or "dead"
  status,        \* what cmd.Wait will return: "nil" or "err"
  waiter,        \* where the goroutine that calls cmd.Wait is
  shuttingDown,  \* the channel is closed
  stdinOpen,     \* p.stdin
  exited,        \* the channel is closed
  exitErr,       \* p.exitErr
  waitErr,       \* the buffered channel holds the exit
  once,          \* p.closeOnce: "new", "busy" or "done"
  closeErr,      \* p.closeErr
  cpc,           \* where each Close call is
  answer,        \* what each Close call returned
  invited        \* ghost: the child died with its stdin closed

childVars == <<child, status, invited>>
pubVars   == <<waiter, exited, exitErr>>
closeVars == <<shuttingDown, stdinOpen, once, closeErr, cpc, answer>>
vars == <<child, status, waiter, shuttingDown, stdinOpen, exited, exitErr,
          waitErr, once, closeErr, cpc, answer, invited>>

Init ==
  /\ child = "none" /\ status = "nil" /\ waiter = "off"
  /\ shuttingDown = FALSE /\ stdinOpen = TRUE
  /\ exited = FALSE /\ exitErr = "nil" /\ waitErr = FALSE
  /\ once = "new" /\ closeErr = "nil"
  /\ cpc = [k \in Closers |-> "idle"]
  /\ answer = [k \in Closers |-> "none"]
  /\ invited = FALSE

\* Spawn returns a Process; when a pipe or the start fails there is none.
Spawn ==
  /\ child = "none" /\ child' = "up"
  /\ waiter' = "waiting"
  /\ UNCHANGED <<status, invited, exited, exitErr, waitErr, closeVars>>

\* The child exits: by itself, by a signal, with the context given to Spawn, or
\* because its stdin was closed.
ChildExits ==
  /\ child = "up" /\ child' = "dead"
  /\ status' \in {"nil", "err"}
  /\ invited' = ~stdinOpen
  /\ UNCHANGED <<pubVars, waitErr, closeVars>>

-----------------------------------------------------------------------------
(* The reaping goroutine.                                                  *)

WaitReturns ==
  /\ waiter = "waiting" /\ child = "dead"
  /\ waiter' = "reaped"
  /\ UNCHANGED <<childVars, exited, exitErr, waitErr, closeVars>>

\* Mutant: the exit is blamed whoever asked for it.
SetExitErrAlways ==
  /\ waiter = "reaped" /\ waiter' = "recorded"
  /\ exitErr' = status
  /\ UNCHANGED <<childVars, exited, waitErr, closeVars>>

\* setExitErr: an exit after Close began is expected.
SetExitErr ==
  /\ waiter = "reaped" /\ waiter' = "recorded"
  /\ exitErr' = IF shuttingDown THEN exitErr ELSE status
  /\ UNCHANGED <<childVars, exited, waitErr, closeVars>>

CloseExited ==
  /\ waiter = "recorded" /\ waiter' = "signalled"
  /\ exited' = TRUE
  /\ UNCHANGED <<childVars, exitErr, waitErr, closeVars>>

\* Mutant: an unbuffered channel, with nobody there to receive any more.
SendWaitErrUnbuffered ==
  /\ waiter = "signalled" /\ \E k \in Closers : cpc[k] \in {"grace", "killed"}
  /\ waiter' = "done"
  /\ waitErr' = TRUE
  /\ UNCHANGED <<childVars, exited, exitErr, closeVars>>

SendWaitErr ==
  /\ waiter = "signalled" /\ waiter' = "done"
  /\ waitErr' = TRUE
  /\ UNCHANGED <<childVars, exited, exitErr, closeVars>>

Wait == WaitReturns \/ SetExitErr \/ CloseExited \/ SendWaitErr

-----------------------------------------------------------------------------
(* Close.                                                                  *)

\* The first call runs the body of closeOnce.
CloseMarks(k) ==
  /\ cpc[k] = "idle" /\ child # "none" /\ once = "new"
  /\ cpc' = [cpc EXCEPT ![k] = "marked"]
  /\ once' = "busy" /\ shuttingDown' = TRUE
  /\ UNCHANGED <<childVars, pubVars, waitErr, stdinOpen, closeErr, answer>>

\* Any other waits for that body to end.
CloseQueues(k) ==
  /\ cpc[k] = "idle" /\ once # "new"
  /\ cpc' = [cpc EXCEPT ![k] = "queued"]
  /\ UNCHANGED <<childVars, pubVars, waitErr, shuttingDown, stdinOpen, once,
                 closeErr, answer>>

CloseStdin(k) ==
  /\ cpc[k] = "marked"
  /\ cpc' = [cpc EXCEPT ![k] = "grace"]
  /\ stdinOpen' = FALSE
  /\ UNCHANGED <<childVars, pubVars, waitErr, shuttingDown, once, closeErr,
                 answer>>

\* Either select: the exit is received.
SeesExit(k) ==
  /\ cpc[k] \in {"grace", "killed"} /\ waitErr
  /\ waitErr' = FALSE
  /\ cpc' = [cpc EXCEPT ![k] = "ending"]
  /\ UNCHANGED <<childVars, pubVars, shuttingDown, stdinOpen, once, closeErr,
                 answer>>

\* Five seconds passed: SIGKILL to the process group, which kills the child at
\* once, later or (a failed kill, an unkillable child) not at all.
GraceExpires(k) ==
  /\ cpc[k] = "grace"
  /\ cpc' = [cpc EXCEPT ![k] = "killed"]
  /\ UNCHANGED <<childVars, pubVars, waitErr, shuttingDown, stdinOpen, once,
                 closeErr, answer>>

\* Mutants: after the kill there is no timer; giving up is not reported.
KillNeverExpires(k) ==
  /\ cpc[k] = "killed" /\ waitErr
  /\ cpc' = [cpc EXCEPT ![k] = "ending"]
  /\ UNCHANGED <<childVars, pubVars, waitErr, shuttingDown, stdinOpen, once,
                 closeErr, answer>>

KillExpiresSilently(k) ==
  /\ cpc[k] = "killed"
  /\ cpc' = [cpc EXCEPT ![k] = "ending"]
  /\ UNCHANGED <<childVars, pubVars, waitErr, shuttingDown, stdinOpen, once,
                 closeErr, answer>>

\* Two more seconds passed.
KillExpires(k) ==
  /\ cpc[k] = "killed"
  /\ cpc' = [cpc EXCEPT ![k] = "ending"]
  /\ closeErr' = "err"
  /\ UNCHANGED <<childVars, pubVars, waitErr, shuttingDown, stdinOpen, once,
                 answer>>

CloseEnds(k) ==
  /\ cpc[k] = "ending"
  /\ cpc' = [cpc EXCEPT ![k] = "queued"]
  /\ once' = "done"
  /\ UNCHANGED <<childVars, pubVars, waitErr, shuttingDown, stdinOpen, closeErr,
                 answer>>

CloseReturns(k) ==
  /\ cpc[k] = "queued" /\ once = "done"
  /\ cpc' = [cpc EXCEPT ![k] = "returned"]
  /\ answer' = [answer EXCEPT ![k] = closeErr]
  /\ UNCHANGED <<childVars, pubVars, waitErr, shuttingDown, stdinOpen, once,
                 closeErr>>

CloseContinues(k) ==
  \/ CloseStdin(k) \/ SeesExit(k) \/ GraceExpires(k) \/ KillExpires(k)
  \/ CloseEnds(k) \/ CloseReturns(k)

Next ==
  \/ Spawn \/ ChildExits \/ Wait
  \/ \E k \in Closers : CloseMarks(k) \/ CloseQueues(k) \/ CloseContinues(k)

Spec == Init /\ [][Next]_vars

\* Goroutines run and timers fire; nothing is assumed of the child.
FairSpec ==
  /\ Spec
  /\ WF_vars(Wait)
  /\ \A k \in Closers : WF_vars(CloseContinues(k))

-----------------------------------------------------------------------------
(* Properties.                                                             *)

\* The shape of the state.
TypeOK ==
  /\ child \in {"none", "up", "dead"} /\ status \in {"nil", "err"}
  /\ waiter \in {"off", "waiting", "reaped", "recorded", "signalled", "done"}
  /\ shuttingDown \in BOOLEAN /\ stdinOpen \in BOOLEAN
  /\ exited \in BOOLEAN /\ waitErr \in BOOLEAN /\ invited \in BOOLEAN
  /\ exitErr \in {"nil", "err"} /\ closeErr \in {"nil", "err"}
  /\ once \in {"new", "busy", "done"}
  /\ cpc \in [Closers -> {"idle", "marked", "grace", "killed", "ending",
                          "queued", "returned"}]
  /\ answer \in [Closers -> {"none", "nil", "err"}]

\* A child that exits because Close hung up on it is never reported as a crash,
\* whenever the reaping goroutine gets to look.
ShutdownIsNotCrash == exitErr = "err" => ~invited

\* The reaping goroutine publishes and ends, whether or not anybody closes, and
\* also after a Close that gave up on the child: the exit channel is buffered.
ExitIsPublished == child = "dead" ~> (exited /\ waiter = "done")

\* Every Close call returns, whatever the child does.
EveryCloseReturns ==
  \A k \in Closers : cpc[k] # "idle" ~> cpc[k] = "returned"

\* The subprocess's goroutines and callers all end: the reaping one and every
\* Close.
TransportEnds == ExitIsPublished /\ EveryCloseReturns

\* The subprocess is a transport as the Client understands it: Exited and
\* ExitErr in order, nil from Close only when the child is gone, one answer for
\* all Close calls.
T == INSTANCE Transport WITH
       peer    <- IF exited THEN "announced"
                  ELSE IF waiter = "recorded" THEN "gone"
                  ELSE IF child = "none" THEN "none" ELSE "up",
       asked   <- shuttingDown,
       blame   <- exitErr,
       verdict <- IF once = "done" THEN closeErr ELSE "none"

ImplementsTransport == T!TSpec

=============================================================================
