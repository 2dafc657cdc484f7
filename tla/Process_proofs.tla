--------------------------- MODULE Process_proofs ---------------------------
(* The subprocess implements the transport, for any number of Close calls.  *)
EXTENDS Process, TLAPS

USE DEF childVars, pubVars, closeVars

Active == {"marked", "grace", "killed", "ending"}

\* The reaping goroutine's progress, and what it has published at each point.
Reaping ==
  /\ child = "none" <=> waiter = "off"
  /\ waiter \notin {"off", "waiting"} => child = "dead"
  /\ exited <=> waiter \in {"signalled", "done"}
  /\ waitErr => exited
  /\ waiter \in {"off", "waiting", "reaped"} => exitErr = "nil"

\* What closeOnce guarantees: one call is active at most, while it is busy, and
\* it has seen the exit or recorded an error when it ends.
Closing ==
  /\ shuttingDown <=> once # "new"
  /\ \A k \in Closers : cpc[k] \in Active => once = "busy"
  /\ \A k, l \in Closers : cpc[k] \in Active /\ cpc[l] \in Active => k = l
  /\ \A k \in Closers : cpc[k] = "ending" /\ closeErr = "nil" => exited
  /\ \A k \in Closers : cpc[k] # "returned" => answer[k] = "none"

\* Nobody hangs up before the shutdown is announced.
HangingUp ==
  /\ ~shuttingDown => stdinOpen
  /\ invited => shuttingDown /\ child = "dead"

ProcInv == TypeOK /\ Reaping /\ Closing /\ HangingUp /\ ShutdownIsNotCrash

\* Every step keeps the shape of the state.
LEMMA TypeStep == TypeOK /\ [Next]_vars => TypeOK'
<1> SUFFICES ASSUME TypeOK, [Next]_vars PROVE TypeOK'
  OBVIOUS
<1> USE DEF TypeOK
<1>1. CASE UNCHANGED vars
  BY <1>1 DEF vars
<1>2. CASE Spawn \/ ChildExits
  BY <1>2, ZenonT(60) DEF Spawn, ChildExits
<1>3. CASE Wait
  BY <1>3, ZenonT(60) DEF Wait, WaitReturns, SetExitErr, CloseExited, SendWaitErr
<1>4. ASSUME NEW k \in Closers, CloseMarks(k) \/ CloseQueues(k) PROVE TypeOK'
  BY <1>4, ZenonT(60) DEF CloseMarks, CloseQueues
<1>5. ASSUME NEW k \in Closers, CloseStdin(k) \/ SeesExit(k) \/ GraceExpires(k)
      PROVE  TypeOK'
  <2>1. CASE CloseStdin(k)
    BY <2>1, ZenonT(60) DEF CloseStdin
  <2>2. CASE SeesExit(k)
    BY <2>2, ZenonT(60) DEF SeesExit
  <2>3. CASE GraceExpires(k)
    BY <2>3, ZenonT(60) DEF GraceExpires
  <2>4. QED
    BY <1>5, <2>1, <2>2, <2>3
<1>6. ASSUME NEW k \in Closers, KillExpires(k) \/ CloseEnds(k) \/ CloseReturns(k)
      PROVE  TypeOK'
  BY <1>6 DEF KillExpires, CloseEnds, CloseReturns
<1>7. QED
  BY <1>1, <1>2, <1>3, <1>4, <1>5, <1>6 DEF Next, CloseContinues

\* Every step keeps the reaping goroutine and the shutdown in line.
LEMMA ReapingStep ==
  ProcInv /\ [Next]_vars => Reaping' /\ HangingUp' /\ ShutdownIsNotCrash'
<1> SUFFICES ASSUME ProcInv, [Next]_vars
             PROVE  Reaping' /\ HangingUp' /\ ShutdownIsNotCrash'
  OBVIOUS
<1> USE DEF ProcInv, TypeOK, Reaping, HangingUp, ShutdownIsNotCrash
<1>1. CASE UNCHANGED vars
  BY <1>1 DEF vars
<1>2. CASE Spawn \/ ChildExits
  BY <1>2 DEF Spawn, ChildExits
<1>3. CASE Wait
  BY <1>3 DEF Wait, WaitReturns, SetExitErr, CloseExited, SendWaitErr
<1>4. ASSUME NEW k \in Closers, CloseMarks(k) \/ CloseQueues(k)
      PROVE  Reaping' /\ HangingUp' /\ ShutdownIsNotCrash'
  BY <1>4 DEF CloseMarks, CloseQueues
<1>5. ASSUME NEW k \in Closers, CloseContinues(k)
      PROVE  Reaping' /\ HangingUp' /\ ShutdownIsNotCrash'
  BY <1>5 DEF CloseContinues, CloseStdin, SeesExit, GraceExpires, KillExpires,
              CloseEnds, CloseReturns, Closing, Active
<1>6. QED
  BY <1>1, <1>2, <1>3, <1>4, <1>5 DEF Next

\* Every step keeps the guarantees of closeOnce.
LEMMA ClosingStep == ProcInv /\ [Next]_vars => Closing'
<1> SUFFICES ASSUME ProcInv, [Next]_vars PROVE Closing'
  OBVIOUS
<1> USE DEF ProcInv, TypeOK, Closing, Active
<1>1. CASE UNCHANGED vars
  BY <1>1 DEF vars
<1>2. CASE Spawn \/ ChildExits \/ Wait
  BY <1>2 DEF Spawn, ChildExits, Wait, WaitReturns, SetExitErr, CloseExited,
              SendWaitErr
<1>3. ASSUME NEW k \in Closers, CloseMarks(k) \/ CloseQueues(k) PROVE Closing'
  BY <1>3 DEF CloseMarks, CloseQueues
<1>4. ASSUME NEW k \in Closers, CloseStdin(k) \/ SeesExit(k) \/ GraceExpires(k)
      PROVE  Closing'
  BY <1>4 DEF CloseStdin, SeesExit, GraceExpires, Reaping
<1>5. ASSUME NEW k \in Closers, KillExpires(k) \/ CloseEnds(k) \/ CloseReturns(k)
      PROVE  Closing'
  BY <1>5 DEF KillExpires, CloseEnds, CloseReturns
<1>6. QED
  BY <1>1, <1>2, <1>3, <1>4, <1>5 DEF Next, CloseContinues

\* The inductive invariant of the subprocess.
LEMMA ProcessInvariant == Spec => []ProcInv
<1>1. Init => ProcInv
  BY DEF Init, ProcInv, TypeOK, Reaping, Closing, HangingUp, ShutdownIsNotCrash,
         Active
<1>2. ProcInv /\ [Next]_vars => ProcInv'
  BY TypeStep, ReapingStep, ClosingStep DEF ProcInv
<1>3. QED
  BY <1>1, <1>2, PTL DEF Spec

\* An exit that Close asked for is never blamed, however the reaping goroutine
\* and the Close calls interleave.
THEOREM ShutdownIsExpected == Spec => []ShutdownIsNotCrash
<1>1. ProcInv => ShutdownIsNotCrash
  BY DEF ProcInv
<1>2. QED
  BY <1>1, ProcessInvariant, PTL

\* Every step of the subprocess is a step of the transport or none at all.
LEMMA StepRefines == ProcInv /\ [Next]_vars => [T!TNext]_(T!tvars)
<1> SUFFICES ASSUME ProcInv, [Next]_vars PROVE [T!TNext]_(T!tvars)
  OBVIOUS
<1> USE DEF ProcInv, TypeOK, T!tvars
<1>1. CASE UNCHANGED vars
  BY <1>1 DEF vars
<1>2. CASE Spawn
  <2>1. T!Opens
    BY <1>2 DEF Spawn, T!Opens, Reaping
  <2>2. QED
    BY <2>1 DEF T!TNext
<1>3. CASE ChildExits \/ WaitReturns \/ SendWaitErr
  BY <1>3 DEF ChildExits, WaitReturns, SendWaitErr, Reaping
<1>4. CASE SetExitErr
  <2>1. T!Goes
    BY <1>4 DEF SetExitErr, T!Goes, Reaping
  <2>2. QED
    BY <2>1 DEF T!TNext
<1>5. CASE CloseExited
  <2>1. T!Announces
    BY <1>5 DEF CloseExited, T!Announces, Reaping
  <2>2. QED
    BY <2>1 DEF T!TNext
<1>6. ASSUME NEW k \in Closers, CloseMarks(k) PROVE T!TNext
  <2>1. T!CloseBegins
    BY <1>6 DEF CloseMarks, T!CloseBegins, Reaping, Closing
  <2>2. QED
    BY <2>1 DEF T!TNext
<1>7. ASSUME NEW k \in Closers,
             CloseQueues(k) \/ CloseStdin(k) \/ SeesExit(k) \/ GraceExpires(k)
      PROVE  UNCHANGED T!tvars
  BY <1>7 DEF CloseQueues, CloseStdin, SeesExit, GraceExpires
<1>8. ASSUME NEW k \in Closers, KillExpires(k) PROVE UNCHANGED T!tvars
  BY <1>8 DEF KillExpires, Closing, Active
<1>9. ASSUME NEW k \in Closers, CloseEnds(k) PROVE T!TNext
  <2>1. T!Decides
    BY <1>9 DEF CloseEnds, T!Decides, Closing, Active
  <2>2. QED
    BY <2>1 DEF T!TNext
<1>10. ASSUME NEW k \in Closers, CloseReturns(k) PROVE T!TNext
  <2>1. T!Answers(k)
    BY <1>10 DEF CloseReturns, T!Answers, Closing
  <2>2. QED
    BY <2>1 DEF T!TNext
<1>11. QED
  BY <1>1, <1>2, <1>3, <1>4, <1>5, <1>6, <1>7, <1>8, <1>9, <1>10
  DEF Next, Wait, CloseContinues

\* The subprocess transport keeps the promises of WatchableTransport.
THEOREM ProcessImplementsTransport == Spec => ImplementsTransport
<1>1. Init => T!TInit
  BY DEF Init, T!TInit
<1>2. QED
  BY <1>1, ProcessInvariant, StepRefines, PTL DEF Spec, ImplementsTransport, T!TSpec

=============================================================================
