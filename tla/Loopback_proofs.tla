-------------------------- MODULE Loopback_proofs ---------------------------
(* The two loopback servers, for any number of tool calls and Close calls:  *)
(* no process outlives ListModelCapabilities, and the bridge shuts down     *)
(* once, quietly, with every call observed.                                 *)
EXTENDS Loopback, FiniteSetTheorems, TLAPS

USE DEF serveVars, bridgeVars

-----------------------------------------------------------------------------
(* The serve process.                                                      *)

\* What the reaping goroutine knows of the server, and why a server is dead.
Serving ==
  /\ leader = "none" <=> waiter = "none"
  /\ waiter \in {"holding", "ended"} => leader = "reaped"
  /\ waitErr = 1 => waiter = "ended"
  /\ pc = "begin" => leader = "none" /\ ~helpers
  /\ leader = "none" => ~helpers /\ pc \in {"begin", "done"}
  /\ pc \in {"select", "fetch", "kill"} /\ leader \in {"zombie", "reaped"} => unled
  /\ pc \in {"reap", "done"} /\ closeErr = "none" => leader # "running"
  /\ pc = "reap" /\ helpers => closeErr # "none" \/ unled

ServeInv == ServeTypeOK /\ Serving /\ ServerIsGone

\* The call begins with no server.
LEMMA ServeInitially == ServeInit => ServeInv
<1>1. ServeInit => ServeTypeOK
  BY Zenon DEF ServeInit, ServeTypeOK
<1>2. ServeInit => Serving /\ ServerIsGone
  BY DEF ServeInit, Serving, ServerIsGone, NoServerLeft, HelpersDieWithServer
<1>3. QED
  BY <1>1, <1>2 DEF ServeInv

\* Every step keeps the shape of the state.
LEMMA ServeTypeStep == ServeTypeOK /\ [ServeNext]_serveVars => ServeTypeOK'
<1> SUFFICES ASSUME ServeTypeOK, [ServeNext]_serveVars PROVE ServeTypeOK'
  OBVIOUS
<1> USE DEF ServeTypeOK
<1>1. CASE UNCHANGED serveVars
  BY <1>1, ZenonT(30)
<1>2. CASE Spawn
  BY <1>2 DEF Spawn
<1>3. CASE SpawnReady
  BY <1>3 DEF SpawnReady
<1>4. CASE SpawnSeesExit
  BY <1>4 DEF SpawnSeesExit
<1>5. CASE SpawnTimesOut
  BY <1>5 DEF SpawnTimesOut
<1>6. CASE SpawnCancelled
  BY <1>6 DEF SpawnCancelled
<1>7. CASE Fetch
  BY <1>7 DEF Fetch
<1>8. CASE KillProcessTree
  BY <1>8 DEF KillProcessTree
<1>9. CASE CloseReaps
  BY <1>9 DEF CloseReaps
<1>10. CASE CloseGivesUp
  BY <1>10 DEF CloseGivesUp
<1>11. CASE Reap
  BY <1>11 DEF Reap
<1>12. CASE SendWaitErr
  BY <1>12 DEF SendWaitErr
<1>13. CASE Drain
  BY <1>13, ZenonT(30) DEF Drain
<1>14. CASE CtxDone \/ CtxKills
  BY <1>14 DEF CtxDone, CtxKills
<1>15. CASE ServerSteps
  <2>1. CASE pipe' = TRUE /\ UNCHANGED <<leader, helpers, unled>>
    BY <1>15, <2>1 DEF ServerSteps
  <2>2. CASE helpers' = TRUE /\ UNCHANGED <<leader, pipe, unled>>
    BY <1>15, <2>2, ZenonT(30) DEF ServerSteps
  <2>3. CASE leader' = "zombie" /\ unled' = TRUE /\ UNCHANGED <<helpers, pipe>>
    BY <1>15, <2>3, ZenonT(30) DEF ServerSteps
  <2>4. QED
    BY <1>15, <2>1, <2>2, <2>3 DEF ServerSteps
<1>16. QED
  BY <1>1, <1>2, <1>3, <1>4, <1>5, <1>6, <1>7, <1>8, <1>9, <1>10, <1>11, <1>12,
     <1>13, <1>14, <1>15
  DEF ServeNext, Caller

\* Every step keeps the facts about the server.
LEMMA ServeStep == ServeInv /\ [ServeNext]_serveVars => ServeInv'
<1> SUFFICES ASSUME ServeInv, [ServeNext]_serveVars PROVE ServeInv'
  OBVIOUS
<1>t. ServeTypeOK'
  BY ServeTypeStep DEF ServeInv
<1>p. ServeTypeOK
  BY DEF ServeInv
<1>i. Serving /\ ServerIsGone
  BY DEF ServeInv
<1> SUFFICES (Serving /\ ServerIsGone)'
  BY <1>t DEF ServeInv
<1> USE <1>p, <1>i DEF ServeTypeOK, Serving, ServerIsGone, NoServerLeft, HelpersDieWithServer
<1>1. CASE UNCHANGED serveVars
  BY <1>1
<1>2. CASE Spawn
  BY <1>2 DEF Spawn
<1>3. CASE SpawnReady \/ SpawnSeesExit
  BY <1>3 DEF SpawnReady, SpawnSeesExit
<1>4. CASE SpawnTimesOut \/ SpawnCancelled
  BY <1>4 DEF SpawnTimesOut, SpawnCancelled
<1>5. CASE Fetch
  BY <1>5 DEF Fetch
<1>6. CASE KillProcessTree
  BY <1>6 DEF KillProcessTree
<1>7a. CASE CloseReaps
  BY <1>7a DEF CloseReaps
<1>7b. CASE CloseGivesUp
  BY <1>7b DEF CloseGivesUp
<1>8a. CASE Reap
  BY <1>8a DEF Reap
<1>8b. CASE SendWaitErr
  BY <1>8b DEF SendWaitErr
<1>9a. CASE Drain
  BY <1>9a DEF Drain
<1>9b. CASE CtxDone
  BY <1>9b DEF CtxDone
<1>10. CASE CtxKills
  BY <1>10 DEF CtxKills
<1>11. CASE ServerSteps
  BY <1>11 DEF ServerSteps
<1>12. QED
  BY <1>1, <1>2, <1>3, <1>4, <1>5, <1>6, <1>7a, <1>7b, <1>8a, <1>8b, <1>9a, <1>9b, <1>10, <1>11
  DEF ServeNext, Caller

-----------------------------------------------------------------------------
(* The bridge.                                                             *)

\* The shape of what the callers share.
BridgeTypeOK ==
  /\ closer \in [Closers -> {"idle", "shutting", "nil", "failed"}]
  /\ call \in [Calls -> {"none", "refused", "unauthorized", "running", "done"}]
  /\ reply \in [Calls -> {"none", "result", "isError"}]

\* Who shuts down, and what is still running then.
Closing ==
  /\ ~closed => \A k \in Closers : closer[k] = "idle"
  /\ \A k, j \in Closers :
       closer[k] \in {"shutting", "failed"} /\ closer[j] \in {"shutting", "failed"} => k = j
  /\ shutdown => server # "serving"
  /\ closed /\ (\A k \in Closers : closer[k] \notin {"shutting", "failed"})
       => shutdown /\ \A c \in Calls : call[c] # "running"

\* What was recorded of a call, without counting.
Recorded ==
  /\ \A r \in recorded : r.call \in Calls
  /\ \A c \in Calls : call[c] # "done" => \A r \in recorded : r.call # c
  /\ \A c \in Calls : call[c] = "done" =>
       \E r \in recorded : /\ r.call = c
                           /\ \A q \in recorded : q.call = c => q = r
                           /\ r.status = "ok" <=> reply[c] = "result"

BridgeInv == BridgeTypeOK /\ Closing /\ Recorded

\* The bridge begins idle.
LEMMA BridgeInitially == BridgeInit => BridgeInv
  BY DEF BridgeInit, BridgeInv, BridgeTypeOK, Closing, Recorded

\* Every step of the bridge keeps its facts.
LEMMA BridgeStep == BridgeInv /\ [BridgeNext]_bridgeVars => BridgeInv'
<1> SUFFICES ASSUME BridgeInv, [BridgeNext]_bridgeVars PROVE BridgeInv'
  OBVIOUS
<1> USE DEF BridgeInv, BridgeTypeOK
<1>1. CASE UNCHANGED bridgeVars
  BY <1>1 DEF Closing, Recorded
<1>2. CASE BridgeStart \/ Serves
  BY <1>2 DEF BridgeStart, Serves, Closing, Recorded
<1>3. ASSUME NEW k \in Closers, BridgeClose(k) PROVE BridgeInv'
  BY <1>3 DEF BridgeClose, Closing, Recorded
<1>4. ASSUME NEW k \in Closers, ShutdownBegins(k) PROVE BridgeInv'
  BY <1>4 DEF ShutdownBegins, Closing, Recorded
<1>5. ASSUME NEW k \in Closers, ShutdownEnds(k) PROVE BridgeInv'
  BY <1>5 DEF ShutdownEnds, Running, Closing, Recorded
<1>6. ASSUME NEW c \in Calls, CallArrives(c) PROVE BridgeInv'
  BY <1>6 DEF CallArrives, Closing, Recorded
<1>7. ASSUME NEW c \in Calls, NEW o \in Outcomes, CallEnds(c, o) PROVE BridgeInv'
  <2>1. Closing'
    BY <1>7 DEF CallEnds, Closing
  <2>2. BridgeTypeOK'
    BY <1>7 DEF CallEnds
  <2>3. Recorded'
    <3> DEFINE e == [call |-> c, status |-> Status(o)]
    <3>1. /\ call' = [call EXCEPT ![c] = "done"]
          /\ recorded' = recorded \cup {e}
          /\ \A r \in recorded : r.call # c
          /\ \A d \in Calls : d # c => reply'[d] = reply[d]
      BY <1>7 DEF CallEnds, Recorded
    <3>2. e.call = c /\ (e.status = "ok" <=> reply'[c] = "result")
      BY <1>7 DEF CallEnds, Status, Outcomes
    <3> HIDE DEF e
    <3>3. (\A r \in recorded : r.call \in Calls)'
      BY <3>1, <3>2 DEF Recorded
    <3>4. ASSUME NEW d \in Calls, call'[d] # "done"
          PROVE  \A r \in recorded' : r.call # d
      BY <3>1, <3>2, <3>4 DEF Recorded
    <3>5. ASSUME NEW d \in Calls, call'[d] = "done"
          PROVE  \E r \in recorded' :
                   /\ r.call = d
                   /\ \A q \in recorded' : q.call = d => q = r
                   /\ r.status = "ok" <=> reply'[d] = "result"
      <4>1. CASE d = c
        BY <3>1, <3>2, <4>1
      <4>2. CASE d # c
        <5>1. call[d] = "done"
          BY <3>1, <3>5, <4>2
        <5>2. PICK r \in recorded : /\ r.call = d
                                    /\ \A q \in recorded : q.call = d => q = r
                                    /\ r.status = "ok" <=> reply[d] = "result"
          BY <5>1 DEF Recorded
        <5>3. QED
          BY <3>1, <3>2, <4>2, <5>2
      <4>3. QED
        BY <4>1, <4>2
    <3>6. QED
      BY <3>3, <3>4, <3>5 DEF Recorded
  <2>4. QED
    BY <2>1, <2>2, <2>3
<1>8. QED
  BY <1>1, <1>2, <1>3, <1>4, <1>5, <1>6, <1>7 DEF BridgeNext

\* The counts of the properties follow from the facts about members.
LEMMA BridgeCounts == BridgeInv => BridgeSound
<1> SUFFICES ASSUME BridgeInv PROVE BridgeSound
  OBVIOUS
<1>1. OneShutdown
  <2> DEFINE S == {k \in Closers : closer[k] \in {"shutting", "failed"}}
  <2>1. S = {} \/ \E k \in Closers : S = {k}
    BY DEF BridgeInv, Closing
  <2>2. Cardinality(S) <= 1
    <3>1. CASE S = {}
      BY <3>1, FS_EmptySet
    <3>2. ASSUME NEW k \in Closers, S = {k} PROVE Cardinality(S) <= 1
      <4>1. Cardinality({k}) = 1
        BY FS_Singleton
      <4>2. QED
        BY <3>2, <4>1
    <3>3. QED
      BY <2>1, <3>1, <3>2
  <2>3. QED
    BY <2>2 DEF OneShutdown
<1>2. CleanCloseIsQuiet
  BY DEF BridgeInv, BridgeTypeOK, Closing, CleanCloseIsQuiet, Running
<1>3. EveryCallRecorded
  <2> DEFINE obs(c) == {r \in recorded : r.call = c}
             Seen(c) == /\ call[c] = "done" <=> Cardinality(obs(c)) = 1
                        /\ call[c] # "done" => obs(c) = {}
                        /\ \A r \in obs(c) : r.status = "ok" <=> reply[c] = "result"
  <2> SUFFICES ASSUME NEW c \in Calls PROVE Seen(c)
    BY DEF EveryCallRecorded
  <2>1. CASE call[c] = "done"
    <3>1. PICK r \in recorded : /\ r.call = c
                                /\ \A q \in recorded : q.call = c => q = r
                                /\ r.status = "ok" <=> reply[c] = "result"
      BY <2>1 DEF BridgeInv, Recorded
    <3>2. obs(c) = {r}
      BY <3>1
    <3>3. Cardinality(obs(c)) = 1
      BY <3>2, FS_Singleton
    <3>4. QED
      BY <2>1, <3>1, <3>2, <3>3
  <2>2. CASE call[c] # "done"
    <3>1. obs(c) = {}
      BY <2>2 DEF BridgeInv, Recorded
    <3>2. Cardinality(obs(c)) # 1
      BY <3>1, FS_EmptySet
    <3>3. QED
      BY <2>2, <3>1, <3>2
  <2>3. QED
    BY <2>1, <2>2
<1>4. QED
  BY <1>1, <1>2, <1>3 DEF BridgeSound

-----------------------------------------------------------------------------
(* Side by side.                                                           *)

\* A step of one server leaves the other alone.
LEMMA SideBySide == [Next]_<<serveVars, bridgeVars>> =>
                      [ServeNext]_serveVars /\ [BridgeNext]_bridgeVars
  BY DEF Next

\* No process of a ListModelCapabilities call outlives it, whichever of banner,
\* exit, timer and context wins: serve.go's Spawn and Close.
THEOREM NoProcessLeft == Spec => []ServerIsGone
<1>1. Init => ServeInv
  BY ServeInitially DEF Init
<1>2. ServeInv /\ [Next]_<<serveVars, bridgeVars>> => ServeInv'
  BY SideBySide, ServeStep
<1>3. ServeInv => ServerIsGone
  BY DEF ServeInv
<1>4. QED
  BY <1>1, <1>2, <1>3, PTL DEF Spec

\* For any number of tool calls and Close calls the bridge shuts down once, a
\* clean Close leaves nothing running, and every call is observed: bridge.go.
THEOREM BridgeIsSound == Spec => []BridgeSound
<1>1. Init => BridgeInv
  BY BridgeInitially DEF Init
<1>2. BridgeInv /\ [Next]_<<serveVars, bridgeVars>> => BridgeInv'
  BY SideBySide, BridgeStep
<1>3. QED
  BY <1>1, <1>2, BridgeCounts, PTL DEF Spec
=============================================================================
