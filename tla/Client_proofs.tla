--------------------------- MODULE Client_proofs ---------------------------
(***************************************************************************)
(* SessionRouting and the client that composes it with the lifecycle.      *)
(* Part one, for any number of handles, ids and notifications and any      *)
(* capacities: type correctness of SessionRouting, the absence of channel  *)
(* panics, of routes to closed sessions and of stranded notifications,     *)
(* routes that stay, the order of delivery and the account of every        *)
(* notification.  Part two, for any number of Close calls as well: the     *)
(* client implements SessionRouting, so all of that holds of it, and its   *)
(* lifecycle invariants hold.                                              *)
(***************************************************************************)
EXTENDS Client, SequenceTheorems, FiniteSetTheorems, TLAPS

-----------------------------------------------------------------------------
(* Part one: SessionRouting.                                               *)

Registered == Making \cup {"undo"}

\* The strengthening that makes the routing invariants inductive: an id is
\* known from the moment it is used; a flush in progress has something to
\* flush; only registered calls have a route, and a session that was not
\* registered yet cannot have been closed.
Support ==
  /\ \A h \in Handles : pc[h] \notin {"idle", "requested", "failed"} => id[h] \in Ids
  /\ \A h \in Handles : mid[h] => pc[h] = "flushing" /\ todo[h] # <<>>
  /\ \A i \in Ids : sessions[i] # None => pc[sessions[i]] \in Registered
  /\ \A h \in Handles : pc[h] \in {"idle", "requested", "answered"} => ~shut[h]

RoutingInv == TypeOK /\ Support /\ NoPanic /\ RoutedIsOpen /\ NothingStranded

\* The empty client satisfies the invariant.
LEMMA InitEstablishes == Init => RoutingInv
<1> SUFFICES ASSUME Init PROVE RoutingInv
  OBVIOUS
<1>1. TypeOK
  <2>1. <<>> \in Seq(Nat) /\ <<>> \in Seq(Ids \X Nat)
        /\ <<>> \in Seq([n : Nat, via : {"dispatcher", "flush"}])
    BY EmptySeq
  <2>2. QED
    BY <2>1, HistoryAssumption DEF Init, TypeOK, Pcs, Idle
<1>2. Support /\ NoPanic /\ RoutedIsOpen
  BY DEF Init, Support, NoPanic, RoutedIsOpen
<1>3. NothingStranded
  BY CapAssumption, EmptySeq DEF Init, NothingStranded
<1>4. QED
  BY <1>1, <1>2, <1>3 DEF RoutingInv

USE DEF registryVars, callVars, hookVars, flushVars, chanVars, agentVars, exceptPc

\* What the send of s.deliver leaves in the session, whoever runs it.
LEMMA SendType ==
  ASSUME TypeOK, NEW h \in Handles, NEW n \in Nat,
         NEW via \in {"dispatcher", "flush"}, DeliverSend(h, n, via)
  PROVE  /\ sent' \in [Handles -> Seq([n : Nat, via : {"dispatcher", "flush"}])]
         /\ dropped' \in [Handles -> Nat]
         /\ panicked' \in BOOLEAN
<1> DEFINE Entry == [n : Nat, via : {"dispatcher", "flush"}]
<1>1. Append(sent[h], [n |-> n, via |-> via]) \in Seq(Entry)
  <2>1. sent[h] \in Seq(Entry) /\ [n |-> n, via |-> via] \in Entry
    BY DEF TypeOK
  <2> HIDE DEF Entry
  <2>2. QED
    BY <2>1, AppendProperties
<1>2. sent' \in [Handles -> Seq(Entry)]
  BY <1>1 DEF DeliverSend, ChanSend, TypeOK
<1>3. dropped' \in [Handles -> Nat]
  <2>1. dropped' = dropped \/ dropped' = [dropped EXCEPT ![h] = @ + 1]
    BY Zenon DEF DeliverSend
  <2>2. dropped \in [Handles -> Nat]
    BY DEF TypeOK
  <2>3. CASE dropped' = dropped
    BY <2>2, <2>3
  <2>4. CASE dropped' = [dropped EXCEPT ![h] = @ + 1]
    BY <2>2, <2>4
  <2>5. QED
    BY <2>1, <2>3, <2>4
<1>4. panicked' \in BOOLEAN
  BY Zenon DEF DeliverSend, ChanSend, TypeOK
<1>5. QED
  BY <1>2, <1>3, <1>4

\* Every step keeps the state well typed.
LEMMA TypeStep == RoutingInv /\ [Next]_vars => TypeOK'
<1> SUFFICES ASSUME RoutingInv, [Next]_vars PROVE TypeOK'
  OBVIOUS
<1> USE NoneAssumption, CapAssumption DEF RoutingInv, TypeOK, Support, Pcs
<1>1. ASSUME NEW h \in Handles, CallNew(h) PROVE TypeOK'
  BY <1>1 DEF CallNew
<1>2. ASSUME NEW h \in Handles, NEW i \in Ids, CallLoad(h, i) PROVE TypeOK'
  BY <1>2 DEF CallLoad
<1>3. ASSUME NEW h \in Handles, AgentCreates(h) PROVE TypeOK'
  BY <1>3, SMTT(40) DEF AgentCreates
<1>4. ASSUME NEW h \in Handles, AgentLoads(h) PROVE TypeOK'
  BY <1>4 DEF AgentLoads
<1>5. ASSUME NEW h \in Handles, Register(h) PROVE TypeOK'
  <2>1. id[h] \in Ids
    BY <1>5 DEF Register
  <2>2. <<>> \in Seq(Nat)
    BY EmptySeq
  <2>3. /\ sessions' \in [Ids -> Handles \cup {None}]
        /\ pending' \in [Ids -> Seq(Nat)]
        /\ todo' \in [Handles -> Seq(Nat)]
        /\ pc' \in [Handles -> Pcs]
    BY <1>5, <2>1, <2>2 DEF Register
  <2>4. QED
    BY <1>5, <2>3 DEF Register
<1>6. ASSUME NEW h \in Handles, FlushObserve(h) PROVE TypeOK'
  <2>1. Head(todo[h]) \in Nat /\ Tail(todo[h]) \in Seq(Nat)
    BY <1>6, HeadTailProperties DEF FlushObserve
  <2>2. commands' \in [Handles -> Nat]
    BY <1>6, <2>1 DEF FlushObserve, DeliverObserve
  <2>3. todo' \in [Handles -> Seq(Nat)]
    <3>1. todo' = todo \/ todo' = [todo EXCEPT ![h] = Tail(@)]
      BY <1>6, Zenon DEF FlushObserve
    <3>2. CASE todo' = todo
      BY <3>2
    <3>3. CASE todo' = [todo EXCEPT ![h] = Tail(@)]
      BY <2>1, <3>3
    <3>4. QED
      BY <3>1, <3>2, <3>3
  <2>4. mid' \in [Handles -> BOOLEAN]
    BY <1>6 DEF FlushObserve
  <2>5. QED
    BY <1>6, <2>2, <2>3, <2>4 DEF FlushObserve
<1>7. ASSUME NEW h \in Handles, FlushSend(h) PROVE TypeOK'
  <2>1. Head(todo[h]) \in Nat /\ Tail(todo[h]) \in Seq(Nat)
    BY <1>7, HeadTailProperties DEF FlushSend
  <2>2. /\ sent' \in [Handles -> Seq([n : Nat, via : {"dispatcher", "flush"}])]
        /\ dropped' \in [Handles -> Nat]
        /\ panicked' \in BOOLEAN
    BY <1>7, <2>1, SendType DEF FlushSend
  <2>3. todo' \in [Handles -> Seq(Nat)] /\ mid' \in [Handles -> BOOLEAN]
    BY <1>7, <2>1 DEF FlushSend
  <2>4. QED
    BY <1>7, <2>2, <2>3 DEF FlushSend
<1>8. ASSUME NEW h \in Handles, FlushDone(h) PROVE TypeOK'
  BY <1>8 DEF FlushDone
<1>9. ASSUME NEW h \in Handles, LoadReturns(h) PROVE TypeOK'
  BY <1>9 DEF LoadReturns
<1>10. ASSUME NEW h \in Handles, RpcFails(h) PROVE TypeOK'
  BY <1>10 DEF RpcFails
<1>11. ASSUME NEW h \in Handles, ConfigReturns(h) PROVE TypeOK'
  BY <1>11 DEF ConfigReturns
<1>12. ASSUME NEW h \in Handles, ConfigFails(h) PROVE TypeOK'
  BY <1>12 DEF ConfigFails
<1>13. ASSUME NEW h \in Handles, Deregister(h) PROVE TypeOK'
  <2>1. id[h] \in Ids /\ <<>> \in Seq(Nat)
    BY <1>13, EmptySeq DEF Deregister
  <2>2. /\ sessions' \in [Ids -> Handles \cup {None}]
        /\ pending' \in [Ids -> Seq(Nat)]
        /\ pc' \in [Handles -> Pcs]
    BY <1>13, <2>1 DEF Deregister
  <2>3. QED
    BY <1>13, <2>2 DEF Deregister
<1>14. ASSUME NEW h \in Handles, TeardownClose(h) PROVE TypeOK'
  BY <1>14 DEF TeardownClose, CloseAll, ChanClose
<1>15. ASSUME NEW h \in Handles, TeardownHook(h) PROVE TypeOK'
  BY <1>15 DEF TeardownHook
<1>16. ASSUME NEW h \in Handles, Consume(h) PROVE TypeOK'
  BY <1>16, SMTT(40) DEF Consume
<1>17. ASSUME NEW i \in Ids, AgentEmits(i) PROVE TypeOK'
  <2>1. emitted[i] + 1 \in Nat /\ <<i, emitted[i] + 1>> \in Ids \X Nat
    OBVIOUS
  <2>2. wire' \in Seq(Ids \X Nat) /\ emitted' \in [Ids -> Nat]
    BY <1>17, <2>1, AppendProperties DEF AgentEmits
  <2>3. QED
    BY <1>17, <2>2 DEF AgentEmits
<1>18. CASE Route
  <2> DEFINE i == Head(wire)[1]
             n == Head(wire)[2]
  <2>1. i \in Ids /\ n \in Nat /\ Tail(wire) \in Seq(Ids \X Nat)
    BY <1>18, HeadTailProperties, SMTT(40) DEF Route
  <2>2. Append(pending[i], n) \in Seq(Nat)
    BY <2>1, AppendProperties
  <2>3. pending' \in [Ids -> Seq(Nat)]
    <3>1. pending' = pending \/ pending' = [pending EXCEPT ![i] = Append(@, n)]
      BY <1>18 DEF Route
    <3> HIDE DEF i, n
    <3>2. QED
      BY <2>1, <2>2, <3>1
  <2>4. wire' \in Seq(Ids \X Nat)
    BY <1>18, <2>1 DEF Route
  <2>5. /\ disp' \in [at : {"idle", "routed", "observed"},
                      h : Handles \cup {None}, n : Nat]
        /\ disp'.at # "idle" => disp'.h \in Handles
    <3>1. sessions[i] \in Handles \cup {None}
      BY <2>1
    <3>2. \/ sessions[i] # None /\ disp' = [at |-> "routed", h |-> sessions[i], n |-> n]
          \/ disp' = disp
      BY <1>18, Zenon DEF Route
    <3> HIDE DEF i, n
    <3>3. CASE disp' = disp
      BY <3>3
    <3>4. CASE sessions[i] # None /\ disp' = [at |-> "routed", h |-> sessions[i], n |-> n]
      BY <2>1, <3>1, <3>4
    <3>5. QED
      BY <3>2, <3>3, <3>4
  <2>6. QED
    BY <1>18, <2>3, <2>4, <2>5 DEF Route
<1>19. CASE DispatchObserve
  <2>1. disp.h \in Handles /\ disp.n \in Nat
    BY <1>19 DEF DispatchObserve
  <2>2. commands' \in [Handles -> Nat]
    BY <1>19, <2>1 DEF DispatchObserve, DeliverObserve
  <2>3. /\ disp' \in [at : {"idle", "routed", "observed"},
                      h : Handles \cup {None}, n : Nat]
        /\ disp'.at # "idle" => disp'.h \in Handles
    <3>1. disp' = Idle \/ disp' = [disp EXCEPT !.at = "observed"]
      BY <1>19, Zenon DEF DispatchObserve
    <3>2. CASE disp' = Idle
      BY <3>2 DEF Idle
    <3>3. CASE disp' = [disp EXCEPT !.at = "observed"]
      BY <2>1, <3>3
    <3>4. QED
      BY <3>1, <3>2, <3>3
  <2>4. QED
    BY <1>19, <2>2, <2>3 DEF DispatchObserve
<1>20. CASE DispatchSend
  <2>1. disp.h \in Handles /\ disp.n \in Nat
    BY <1>20 DEF DispatchSend
  <2>2. /\ sent' \in [Handles -> Seq([n : Nat, via : {"dispatcher", "flush"}])]
        /\ dropped' \in [Handles -> Nat]
        /\ panicked' \in BOOLEAN
    BY <1>20, <2>1, SendType DEF DispatchSend
  <2>3. /\ disp' \in [at : {"idle", "routed", "observed"},
                      h : Handles \cup {None}, n : Nat]
        /\ disp'.at = "idle"
    BY <1>20 DEF DispatchSend, Idle
  <2>4. QED
    BY <1>20, <2>2, <2>3 DEF DispatchSend
<1>21. ASSUME NEW d \in BOOLEAN, Sweep(d) PROVE TypeOK'
  <2>1. shut' \in [Handles -> BOOLEAN] /\ panicked' \in BOOLEAN
    BY <1>21 DEF Sweep, CloseAll, ChanClose
  <2>2. sessions' \in [Ids -> Handles \cup {None}] /\ ids' \subseteq Handles
    BY <1>21 DEF Sweep, Routed
  <2>3. pending' \in [Ids -> Seq(Nat)]
    <3>1. pending' = pending \/ pending' = [i \in Ids |-> <<>>]
      BY <1>21, Zenon DEF Sweep
    <3>2. CASE pending' = [i \in Ids |-> <<>>]
      BY <3>2, EmptySeq
    <3>3. QED
      BY <3>1, <3>2
  <2>4. sweeps' \in Nat
    BY <1>21 DEF Sweep
  <2>5. QED
    BY <1>21, <2>1, <2>2, <2>3, <2>4 DEF Sweep
<1>22. CASE EndHooks
  BY <1>22 DEF EndHooks
<1>23. CASE UNCHANGED vars
  BY <1>23 DEF vars
<1>24. QED
  BY <1>1, <1>2, <1>3, <1>4, <1>5, <1>6, <1>7, <1>8, <1>9, <1>10, <1>11, <1>12,
     <1>13, <1>14, <1>15, <1>16, <1>17, <1>18, <1>19, <1>20, <1>21, <1>22, <1>23
  DEF Next, HandleStep, Dispatch

-----------------------------------------------------------------------------
(* Which steps touch what.                                                 *)

\* Only registration, rollback and sweep change the routing table, and besides
\* them only routing changes the buffer.
LEMMA RegistrySteps ==
  ASSUME [Next]_vars
  PROVE  \/ UNCHANGED <<sessions, pending>>
         \/ UNCHANGED sessions /\ Route
         \/ \E h \in Handles : Register(h) \/ Deregister(h)
         \/ \E d \in BOOLEAN : Sweep(d)
  BY ZenonT(60) DEF Next, HandleStep, Dispatch, vars, CallNew, CallLoad, AgentCreates,
     AgentLoads, FlushObserve, FlushSend, FlushDone, LoadReturns, RpcFails,
     ConfigReturns, ConfigFails, TeardownClose, TeardownHook, Consume,
     AgentEmits, Route, DispatchObserve, DispatchSend, EndHooks

\* Only rollback and sweep close a channel, and besides them only a delivery
\* could make the runtime panic.
LEMMA CloseSteps ==
  ASSUME [Next]_vars
  PROVE  \/ UNCHANGED <<shut, panicked>>
         \/ UNCHANGED shut /\ \E h \in Handles : FlushSend(h)
         \/ UNCHANGED shut /\ DispatchSend
         \/ \E h \in Handles : TeardownClose(h)
         \/ \E d \in BOOLEAN : Sweep(d)
<1>1. ASSUME NEW h \in Handles, HandleStep(h)
      PROVE  \/ UNCHANGED <<shut, panicked>>
             \/ UNCHANGED shut /\ FlushSend(h)
             \/ TeardownClose(h)
  BY <1>1, Zenon DEF HandleStep, CallNew, CallLoad, AgentCreates, AgentLoads,
     Register, Deregister, FlushObserve, FlushSend, FlushDone, LoadReturns,
     RpcFails, ConfigReturns, ConfigFails, TeardownHook, Consume
<1>2. ASSUME NEW i \in Ids, AgentEmits(i) PROVE UNCHANGED <<shut, panicked>>
  BY <1>2 DEF AgentEmits
<1>3. CASE Dispatch
  BY <1>3, Zenon DEF Dispatch, Route, DispatchObserve, DispatchSend
<1>4. CASE EndHooks
  BY <1>4 DEF EndHooks
<1>5. CASE UNCHANGED vars
  BY <1>5 DEF vars
<1>6. QED
  BY <1>1, <1>2, <1>3, <1>4, <1>5, Zenon DEF Next

\* The strengthening is preserved.
LEMMA SupportStep == RoutingInv /\ [Next]_vars => Support'
<1> SUFFICES ASSUME RoutingInv, [Next]_vars PROVE Support'
  OBVIOUS
<1> USE NoneAssumption DEF RoutingInv, TypeOK, Support, Pcs, Registered, Making,
        RoutedIsOpen
<1>1. ASSUME NEW h \in Handles, CallNew(h) PROVE Support'
  BY <1>1 DEF CallNew
<1>2. ASSUME NEW h \in Handles, NEW i \in Ids, CallLoad(h, i) PROVE Support'
  BY <1>2 DEF CallLoad
<1>3. ASSUME NEW h \in Handles, AgentCreates(h) PROVE Support'
  BY <1>3 DEF AgentCreates
<1>4. ASSUME NEW h \in Handles, AgentLoads(h) PROVE Support'
  BY <1>4 DEF AgentLoads
<1>5. ASSUME NEW h \in Handles, Register(h) PROVE Support'
  BY <1>5 DEF Register
<1>6. ASSUME NEW h \in Handles, FlushObserve(h) PROVE Support'
  <2>1. CASE shut[h]
    BY <1>6, <2>1 DEF FlushObserve
  <2>2. CASE ~shut[h]
    BY <1>6, <2>2, ZenonT(60) DEF FlushObserve
  <2>3. QED
    BY <2>1, <2>2
<1>7. ASSUME NEW h \in Handles, FlushSend(h) PROVE Support'
  BY <1>7 DEF FlushSend
<1>8. ASSUME NEW h \in Handles, FlushDone(h) PROVE Support'
  BY <1>8 DEF FlushDone
<1>9. ASSUME NEW h \in Handles, LoadReturns(h) PROVE Support'
  BY <1>9 DEF LoadReturns
<1>10. ASSUME NEW h \in Handles, RpcFails(h) PROVE Support'
  <2>1. CASE pc' = [pc EXCEPT ![h] = "failed"]
    BY <1>10, <2>1 DEF RpcFails
  <2>2. CASE pc[h] \in {"loading", "loaded"} /\ pc' = [pc EXCEPT ![h] = "undo"]
    BY <1>10, <2>2 DEF RpcFails
  <2>3. QED
    BY <1>10, <2>1, <2>2 DEF RpcFails
<1>11. ASSUME NEW h \in Handles, ConfigReturns(h) PROVE Support'
  BY <1>11 DEF ConfigReturns
<1>12. ASSUME NEW h \in Handles, ConfigFails(h) PROVE Support'
  BY <1>12 DEF ConfigFails
<1>13. ASSUME NEW h \in Handles, Deregister(h) PROVE Support'
  BY <1>13 DEF Deregister
<1>14. ASSUME NEW h \in Handles, TeardownClose(h) PROVE Support'
  BY <1>14 DEF TeardownClose, CloseAll, ChanClose
<1>15. ASSUME NEW h \in Handles, TeardownHook(h) PROVE Support'
  BY <1>15 DEF TeardownHook
<1>16. ASSUME NEW h \in Handles, Consume(h) PROVE Support'
  BY <1>16 DEF Consume
<1>17. ASSUME NEW i \in Ids, AgentEmits(i) PROVE Support'
  BY <1>17 DEF AgentEmits
<1>18. CASE Route
  BY <1>18 DEF Route
<1>19. CASE DispatchObserve
  BY <1>19 DEF DispatchObserve
<1>20. CASE DispatchSend
  BY <1>20 DEF DispatchSend
<1>21. ASSUME NEW d \in BOOLEAN, Sweep(d) PROVE Support'
  <2>1. UNCHANGED <<pc, id, mid, todo>> /\ \A i \in Ids : sessions'[i] = None
    BY <1>21 DEF Sweep
  <2>2. \A h \in Handles : shut'[h] => shut[h] \/ \E i \in Ids : sessions[i] = h
    BY <1>21 DEF Sweep, CloseAll, ChanClose, Routed
  <2>3. ASSUME NEW h \in Handles, pc[h] \in {"idle", "requested", "answered"}
        PROVE  ~shut'[h]
    <3>1. ~shut[h]
      BY <2>3
    <3>2. \A i \in Ids : sessions[i] # h
      BY <2>3
    <3>3. QED
      BY <2>2, <3>1, <3>2
  <2>4. QED
    BY <2>1, <2>3
<1>22. CASE EndHooks
  BY <1>22 DEF EndHooks
<1>23. CASE UNCHANGED vars
  BY <1>23 DEF vars
<1>24. QED
  BY ZenonT(60), <1>1, <1>2, <1>3, <1>4, <1>5, <1>6, <1>7, <1>8, <1>9, <1>10, <1>11, <1>12, <1>13, <1>14, <1>15, <1>16, <1>17, <1>18, <1>19, <1>20, <1>21, <1>22, <1>23
  DEF Next, HandleStep, Dispatch


\* The id of a session is settled before it is registered.
LEMMA IdSteps ==
  ASSUME RoutingInv, [Next]_vars, NEW g \in Handles,
         pc[g] \notin {"idle", "requested"}
  PROVE  id'[g] = id[g]
<1>1. \/ UNCHANGED id
      \/ \E h \in Handles, i \in Ids : CallLoad(h, i)
      \/ \E h \in Handles : AgentCreates(h)
  <2>1. ASSUME NEW h \in Handles, HandleStep(h)
        PROVE  UNCHANGED id \/ (\E i \in Ids : CallLoad(h, i)) \/ AgentCreates(h)
    BY <2>1, Zenon DEF HandleStep, CallNew, AgentLoads, Register, Deregister,
       FlushObserve, FlushSend, FlushDone, LoadReturns, RpcFails, ConfigReturns,
       ConfigFails, TeardownClose, TeardownHook, Consume
  <2>2. ASSUME NEW i \in Ids, AgentEmits(i) PROVE UNCHANGED id
    BY <2>2 DEF AgentEmits
  <2>3. ASSUME NEW d \in BOOLEAN, Sweep(d) PROVE UNCHANGED id
    BY <2>3 DEF Sweep
  <2>4. CASE Dispatch \/ EndHooks \/ UNCHANGED vars
    BY <2>4, Zenon DEF Dispatch, Route, DispatchObserve, DispatchSend, EndHooks, vars
  <2>5. QED
    BY <2>1, <2>2, <2>3, <2>4, Zenon DEF Next
<1>2. ASSUME NEW h \in Handles, NEW i \in Ids, CallLoad(h, i) PROVE id'[g] = id[g]
  BY <1>2 DEF CallLoad, RoutingInv, TypeOK
<1>3. ASSUME NEW h \in Handles, AgentCreates(h) PROVE id'[g] = id[g]
  BY <1>3 DEF AgentCreates, RoutingInv, TypeOK
<1>4. QED
  BY <1>1, <1>2, <1>3

\* Routes lead to open sessions of the right id.
LEMMA RoutedStep == RoutingInv /\ [Next]_vars => RoutedIsOpen'
<1> SUFFICES ASSUME RoutingInv, [Next]_vars, NEW i \in Ids, sessions'[i] # None
             PROVE  ~shut'[sessions'[i]] /\ id'[sessions'[i]] = i
  BY DEF RoutedIsOpen
<1> USE NoneAssumption DEF RoutingInv, TypeOK, Support, Registered, Making,
        RoutedIsOpen
<1>1. ASSUME sessions'[i] = sessions[i]
      PROVE  id'[sessions'[i]] = i
  <2>1. sessions[i] \in Handles /\ id[sessions[i]] = i
    BY <1>1
  <2>2. pc[sessions[i]] \notin {"idle", "requested"}
    BY <1>1
  <2>3. id'[sessions[i]] = id[sessions[i]]
    BY <2>1, <2>2, IdSteps
  <2>4. QED
    BY <1>1, <2>1, <2>3
<1>2. CASE UNCHANGED <<shut, sessions>>
  BY <1>1, <1>2
<1>3. ASSUME NEW h \in Handles, Register(h)
      PROVE  ~shut'[sessions'[i]] /\ id'[sessions'[i]] = i
  BY <1>3 DEF Register
<1>4. ASSUME NEW h \in Handles, Deregister(h)
      PROVE  ~shut'[sessions'[i]] /\ id'[sessions'[i]] = i
  BY <1>4 DEF Deregister
<1>5. ASSUME NEW h \in Handles, TeardownClose(h)
      PROVE  ~shut'[sessions'[i]] /\ id'[sessions'[i]] = i
  BY <1>5 DEF TeardownClose, CloseAll, ChanClose
<1>6. ASSUME NEW d \in BOOLEAN, Sweep(d) PROVE FALSE
  BY <1>6 DEF Sweep
<1>7. QED
  <2>1. \/ UNCHANGED sessions
        \/ \E h \in Handles : Register(h) \/ Deregister(h)
        \/ \E d \in BOOLEAN : Sweep(d)
    BY RegistrySteps
  <2>2. \/ UNCHANGED shut
        \/ \E h \in Handles : TeardownClose(h)
        \/ \E d \in BOOLEAN : Sweep(d)
    BY CloseSteps
  <2>3. QED
    BY <1>2, <1>3, <1>4, <1>5, <1>6, <2>1, <2>2

\* Nothing is stranded, and the buffer keeps to its cap.
LEMMA StrandedStep == RoutingInv /\ [Next]_vars => NothingStranded'
<1> SUFFICES ASSUME RoutingInv, [Next]_vars, NEW i \in Ids
             PROVE  /\ sessions'[i] # None => pending'[i] = <<>>
                    /\ Len(pending'[i]) <= PendingCap
  BY DEF NothingStranded
<1> USE NoneAssumption, CapAssumption DEF RoutingInv, TypeOK, Support,
        NothingStranded
<1>1. CASE UNCHANGED <<sessions, pending>>
  BY <1>1
<1>2. CASE UNCHANGED sessions /\ Route
  <2> DEFINE j == Head(wire)[1]
             n == Head(wire)[2]
  <2>1. j \in Ids /\ n \in Nat
    <3>1. wire # <<>>
      BY <1>2 DEF Route
    <3>2. Head(wire) \in Ids \X Nat
      BY <3>1, HeadTailProperties
    <3>3. QED
      BY <3>2
  <2>2. \/ pending' = pending
        \/ /\ sessions[j] = None /\ Len(pending[j]) < PendingCap
           /\ pending' = [pending EXCEPT ![j] = Append(@, n)]
    BY <1>2, Zenon DEF Route
  <2> HIDE DEF j, n
  <2>3. Len(Append(pending[j], n)) = Len(pending[j]) + 1
    BY <2>1, AppendProperties
  <2>4. CASE pending' = pending
    BY <1>2, <2>4
  <2>5. CASE /\ sessions[j] = None /\ Len(pending[j]) < PendingCap
             /\ pending' = [pending EXCEPT ![j] = Append(@, n)]
    <3>1. Len(pending[j]) \in Nat
      BY <2>1, LenProperties
    <3>2. QED
      BY <1>2, <2>1, <2>3, <2>5, <3>1
  <2>6. QED
    BY <2>2, <2>4, <2>5
<1>3. ASSUME NEW h \in Handles, Register(h) \/ Deregister(h)
      PROVE  /\ sessions'[i] # None => pending'[i] = <<>>
             /\ Len(pending'[i]) <= PendingCap
  <2>1. id[h] \in Ids
    BY <1>3 DEF Register, Deregister
  <2>2. pending' = [pending EXCEPT ![id[h]] = <<>>]
    BY <1>3, Zenon DEF Register, Deregister
  <2>3. i # id[h] => sessions'[i] = sessions[i]
    BY <1>3, <2>1 DEF Register, Deregister
  <2>4. QED
    BY <2>1, <2>2, <2>3, EmptySeq
<1>4. ASSUME NEW d \in BOOLEAN, Sweep(d)
      PROVE  /\ sessions'[i] # None => pending'[i] = <<>>
             /\ Len(pending'[i]) <= PendingCap
  <2>1. sessions'[i] = None
    BY <1>4 DEF Sweep
  <2>2. pending'[i] = pending[i] \/ pending'[i] = <<>>
    BY <1>4 DEF Sweep
  <2>3. QED
    BY <2>1, <2>2, EmptySeq
<1>5. QED
  BY <1>1, <1>2, <1>3, <1>4, RegistrySteps

\* No channel operation panics.
LEMMA PanicStep == RoutingInv /\ [Next]_vars => NoPanic'
<1> SUFFICES ASSUME RoutingInv, [Next]_vars PROVE ~panicked'
  BY DEF NoPanic
<1>1. ~panicked
  BY DEF RoutingInv, NoPanic
<1>2. ASSUME NEW h, NEW n, NEW via, DeliverSend(h, n, via) PROVE ~panicked'
  BY <1>1, <1>2, Zenon DEF DeliverSend, ChanSend
<1>3. ASSUME NEW H, CloseAll(H) PROVE ~panicked'
  BY <1>1, <1>3, Zenon DEF CloseAll, ChanClose
<1>4. ASSUME NEW h \in Handles, FlushSend(h) PROVE ~panicked'
  BY <1>2, <1>4 DEF FlushSend
<1>5. CASE DispatchSend
  BY <1>2, <1>5 DEF DispatchSend
<1>6. ASSUME NEW h \in Handles, TeardownClose(h) PROVE ~panicked'
  BY <1>3, <1>6 DEF TeardownClose
<1>7. ASSUME NEW d \in BOOLEAN, Sweep(d) PROVE ~panicked'
  BY <1>3, <1>7 DEF Sweep
<1>8. CASE UNCHANGED <<shut, panicked>>
  BY <1>1, <1>8
<1>9. QED
  BY <1>4, <1>5, <1>6, <1>7, <1>8, CloseSteps

-----------------------------------------------------------------------------
\* The invariant holds in every state of every behaviour.
LEMMA RoutingInvariant == Spec => []RoutingInv
<1>1. RoutingInv /\ [Next]_vars => RoutingInv'
  BY TypeStep, SupportStep, PanicStep, RoutedStep, StrandedStep DEF RoutingInv
<1>2. QED
  BY InitEstablishes, <1>1, PTL DEF Spec

\* The routing state of the client is well typed at every moment, for every
\* number of sessions, ids and notifications.
THEOREM TypeCorrect == Spec => []TypeOK
  BY RoutingInvariant, PTL DEF RoutingInv

\* No interleaving of session.deliver, registerSession's flush,
\* teardownSession and the sweeps of Close and of the crash watcher sends on,
\* or closes, a closed updates channel.
THEOREM NeverPanics == Spec => []NoPanic
  BY RoutingInvariant, PTL DEF RoutingInv

\* c.sessions never holds a closed session or one filed under another id.
THEOREM RoutesAreOpen == Spec => []RoutedIsOpen
  BY RoutingInvariant, PTL DEF RoutingInv

\* registerSession and routeSessionUpdate leave no notification in
\* pendingUpdates of a routed session and never exceed pendingUpdatesCap.
THEOREM NoneStranded == Spec => []NothingStranded
  BY RoutingInvariant, PTL DEF RoutingInv

\* What c.sessions and pendingUpdates hold agrees with the sessions at every
\* moment: no route to a closed session, nothing buffered for a routed one.
THEOREM TableStaysConsistent == Spec => []TableConsistent
<1>1. RoutedIsOpen /\ NothingStranded => TableConsistent
  BY DEF TableConsistent
<1>2. QED
  BY RoutesAreOpen, NoneStranded, <1>1, PTL
-----------------------------------------------------------------------------
(* A session keeps its route.                                              *)

\* A handle has no id before its call learns one.
Unnamed == \A h \in Handles : pc[h] \in {"idle", "requested"} => id[h] = None

RouteInv == RoutingInv /\ Unnamed /\ SoleHandleStaysRouted

\* Only registration makes a call's session routable.
LEMMA MakingSteps ==
  ASSUME RoutingInv, [Next]_vars, NEW g \in Handles, pc'[g] \in Making
  PROVE  pc[g] \in Making \/ Register(g)
<1> USE DEF RoutingInv, TypeOK, Pcs, Making
<1>1. ASSUME NEW h \in Handles, HandleStep(h)
      PROVE  pc[g] \in Making \/ Register(g)
  <2>1. CASE Register(h) \/ Consume(h) \/ FlushObserve(h) \/ FlushSend(h)
    BY <2>1 DEF Register, Consume, FlushObserve, FlushSend
  <2>2. CASE FlushDone(h)
    BY <2>2 DEF FlushDone
  <2>3. CASE LoadReturns(h) \/ ConfigReturns(h)
    BY <2>3 DEF LoadReturns, ConfigReturns
  <2>4. CASE AgentLoads(h)
    BY <2>4 DEF AgentLoads
  <2>5. CASE \/ CallNew(h) \/ (\E i \in Ids : CallLoad(h, i)) \/ AgentCreates(h)
             \/ RpcFails(h) \/ ConfigFails(h) \/ Deregister(h)
             \/ TeardownClose(h) \/ TeardownHook(h)
    <3>1. \E l \in Pcs \ Making : pc' = [pc EXCEPT ![h] = l]
      BY <2>5, Zenon DEF CallNew, CallLoad, AgentCreates, RpcFails, ConfigFails,
         Deregister, TeardownClose, TeardownHook
    <3>2. QED
      BY <3>1
  <2>6. QED
    BY <1>1, <2>1, <2>2, <2>3, <2>4, <2>5, Zenon DEF HandleStep
<1>2. ASSUME NEW i \in Ids, AgentEmits(i) PROVE UNCHANGED pc
  BY <1>2 DEF AgentEmits
<1>3. ASSUME NEW d \in BOOLEAN, Sweep(d) PROVE UNCHANGED pc
  BY <1>3 DEF Sweep
<1>4. CASE Dispatch \/ EndHooks \/ UNCHANGED vars
  BY <1>4, Zenon DEF Dispatch, Route, DispatchObserve, DispatchSend, EndHooks, vars
<1>5. QED
  BY <1>1, <1>2, <1>3, <1>4, Zenon DEF Next

\* A call keeps the id it has; one that has none gets it before it registers.
LEMMA UnnamedStep == RouteInv /\ [Next]_vars => Unnamed'
<1> SUFFICES ASSUME RouteInv, [Next]_vars, NEW g \in Handles,
                    pc'[g] \in {"idle", "requested"}
             PROVE  id'[g] = None
  BY DEF Unnamed
<1> USE DEF RouteInv, RoutingInv, TypeOK, Pcs, Unnamed
<1>1. ASSUME NEW h \in Handles, HandleStep(h) PROVE id'[g] = None
  <2>1. CASE CallNew(h)
    BY <2>1 DEF CallNew
  <2>2. CASE (\E i \in Ids : CallLoad(h, i)) \/ AgentCreates(h)
    BY <2>2 DEF CallLoad, AgentCreates
  <2>3. CASE Consume(h) \/ FlushObserve(h) \/ FlushSend(h)
    BY <2>3, Zenon DEF Consume, FlushObserve, FlushSend
  <2>4. CASE FlushDone(h)
    BY <2>4 DEF FlushDone
  <2>5. CASE \/ AgentLoads(h) \/ Register(h) \/ LoadReturns(h) \/ RpcFails(h)
             \/ ConfigReturns(h) \/ ConfigFails(h) \/ Deregister(h)
             \/ TeardownClose(h) \/ TeardownHook(h)
    <3>1. /\ UNCHANGED id
          /\ \E l \in Pcs \ {"idle", "requested"} : pc' = [pc EXCEPT ![h] = l]
      BY <2>5, Zenon DEF AgentLoads, Register, LoadReturns, RpcFails,
         ConfigReturns, ConfigFails, Deregister, TeardownClose, TeardownHook
    <3>2. QED
      BY <3>1
  <2>6. QED
    BY <1>1, <2>1, <2>2, <2>3, <2>4, <2>5, Zenon DEF HandleStep
<1>2. ASSUME NEW i \in Ids, AgentEmits(i) PROVE UNCHANGED <<pc, id>>
  BY <1>2 DEF AgentEmits
<1>3. ASSUME NEW d \in BOOLEAN, Sweep(d) PROVE UNCHANGED <<pc, id>>
  BY <1>3 DEF Sweep
<1>4. CASE Dispatch \/ EndHooks \/ UNCHANGED vars
  BY <1>4, Zenon DEF Dispatch, Route, DispatchObserve, DispatchSend, EndHooks, vars
<1>5. QED
  BY <1>1, <1>2, <1>3, <1>4, Zenon DEF Next

\* Sweeps are counted.
LEMMA SweepSteps ==
  ASSUME [Next]_vars
  PROVE  UNCHANGED sweeps \/ \E d \in BOOLEAN : Sweep(d)
<1>1. ASSUME NEW h \in Handles, HandleStep(h) PROVE UNCHANGED sweeps
  BY <1>1, Zenon DEF HandleStep, CallNew, CallLoad, AgentCreates, AgentLoads,
     Register, Deregister, FlushObserve, FlushSend, FlushDone, LoadReturns,
     RpcFails, ConfigReturns, ConfigFails, TeardownClose, TeardownHook, Consume
<1>2. ASSUME NEW i \in Ids, AgentEmits(i) PROVE UNCHANGED sweeps
  BY <1>2 DEF AgentEmits
<1>3. CASE Dispatch \/ EndHooks \/ UNCHANGED vars
  BY <1>3, Zenon DEF Dispatch, Route, DispatchObserve, DispatchSend, EndHooks, vars
<1>4. QED
  BY <1>1, <1>2, <1>3, Zenon DEF Next

\* Nobody but a call of the same id or a sweep takes a route away.
LEMMA SoleStep == RouteInv /\ [Next]_vars => SoleHandleStaysRouted'
<1> SUFFICES ASSUME RouteInv, [Next]_vars, NEW h \in Handles,
                    pc'[h] \in Making, sweeps' = 0,
                    \A g \in Handles \ {h} : id'[g] # id'[h]
             PROVE  sessions'[id'[h]] = h
  BY DEF SoleHandleStaysRouted
<1> USE NoneAssumption DEF RouteInv, RoutingInv, TypeOK, Support
<1>1. CASE Register(h)
  BY <1>1 DEF Register
<1>2. CASE pc[h] \in Making
  <2>1. id[h] \in Ids /\ id'[h] = id[h]
    BY <1>2, IdSteps DEF Making
  <2>2. \A g \in Handles \ {h} : id[g] # id[h]
    <3>1. SUFFICES ASSUME NEW g \in Handles \ {h}, id[g] = id[h] PROVE FALSE
      OBVIOUS
    <3>2. pc[g] \notin {"idle", "requested"}
      BY <2>1, <3>1 DEF Unnamed
    <3>3. id'[g] = id[g]
      BY <3>1, <3>2, IdSteps
    <3>4. QED
      BY <2>1, <3>1, <3>3
  <2>3. ASSUME NEW d \in BOOLEAN, Sweep(d) PROVE FALSE
    BY <2>3 DEF Sweep
  <2>4. sweeps = 0
    BY <2>3, SweepSteps
  <2>5. sessions[id[h]] = h
    BY <1>2, <2>2, <2>4 DEF SoleHandleStaysRouted
  <2>6. ASSUME NEW g \in Handles, Register(g) PROVE sessions'[id[h]] = h
    <3>1. g # h
      BY <1>2, <2>6 DEF Register, Making
    <3>2. QED
      BY <2>1, <2>2, <2>5, <2>6, <3>1 DEF Register
  <2>7. ASSUME NEW g \in Handles, Deregister(g) PROVE sessions'[id[h]] = h
    <3>1. g # h
      BY <2>7 DEF Deregister, Making
    <3>2. QED
      BY <2>1, <2>2, <2>5, <2>7, <3>1 DEF Deregister
  <2>8. QED
    BY <2>1, <2>3, <2>5, <2>6, <2>7, RegistrySteps
<1>3. QED
  BY <1>1, <1>2, MakingSteps

\* The route invariant holds in every state of every behaviour.
LEMMA RouteInvariant == Spec => []RouteInv
<1>1. Init => RouteInv
  BY InitEstablishes DEF Init, RouteInv, Unnamed, SoleHandleStaysRouted, Making
<1>2. RoutingInv' /\ RouteInv /\ [Next]_vars => RouteInv'
  BY UnnamedStep, SoleStep DEF RouteInv
<1>3. QED
  BY RoutingInvariant, <1>1, <1>2, PTL DEF Spec

\* client_impl.go: from registerSession to its own teardownSession a session is
\* in c.sessions under its id, unless the table is swept or another call opens
\* the same id.
THEOREM RoutesAreKept == Spec => []SoleHandleStaysRouted
<1>1. RouteInv => SoleHandleStaysRouted
  BY DEF RouteInv
<1>2. QED
  BY <1>1, RouteInvariant, PTL

-----------------------------------------------------------------------------
(* The order of delivery.                                                  *)

Fresh == {"idle", "requested", "answered"}

\* Everything handed to the session of h so far came before notification n.
Behind(h, n) ==
  /\ \A k \in DOMAIN todo[h] : todo[h][k] < n
  /\ \A k \in DOMAIN sent[h] : sent[h][k].n < n

\* The wire keeps the agent's order.
WireOrder ==
  /\ \A j, k \in DOMAIN wire :
       j < k /\ wire[j][1] = wire[k][1] => wire[j][2] < wire[k][2]
  /\ \A k \in DOMAIN wire : wire[k][2] <= emitted[wire[k][1]]

\* The buffer keeps it too, and is older than the wire.
BufferOrder ==
  \A i \in Ids : \A j \in DOMAIN pending[i] :
    /\ pending[i][j] <= emitted[i]
    /\ \A k \in DOMAIN pending[i] : j < k => pending[i][j] < pending[i][k]
    /\ \A k \in DOMAIN wire : wire[k][1] = i => pending[i][j] < wire[k][2]

\* A session has nothing before its registration; what it has is older than
\* the wire.
SessionOrder ==
  \A h \in Handles :
    /\ pc[h] \in Fresh \/ id[h] = None => todo[h] = <<>> /\ sent[h] = <<>>
    /\ id[h] # None => Behind(h, emitted[id[h]] + 1)
    /\ \A k \in DOMAIN wire : wire[k][1] = id[h] => Behind(h, wire[k][2])

\* What is left of a flush follows what was flushed, and precedes everything
\* the dispatcher sent.
FlushOrder ==
  \A h \in Handles : \A k \in DOMAIN todo[h] :
    /\ \A j \in DOMAIN todo[h] : j < k => todo[h][j] < todo[h][k]
    /\ \A a \in DOMAIN sent[h] : IF sent[h][a].via = "flush"
                                 THEN sent[h][a].n < todo[h][k]
                                 ELSE sent[h][a].n > todo[h][k]

\* The notification in the dispatcher's hands is the latest one its session
\* was given.
DispOrder ==
  disp.at # "idle" =>
    /\ pc[disp.h] \notin Fresh /\ id[disp.h] # None
    /\ Behind(disp.h, disp.n) /\ disp.n <= emitted[id[disp.h]]
    /\ \A k \in DOMAIN wire : wire[k][1] = id[disp.h] => disp.n < wire[k][2]

OrderParts ==
  /\ WireOrder /\ BufferOrder /\ SessionOrder /\ FlushOrder /\ DispOrder
  /\ OnlyFlushIsOvertaken

OrderInv == RoutingInv /\ Unnamed /\ OrderParts

\* Taking the head off a sequence shifts the rest by one.
LEMMA TailShift ==
  ASSUME NEW S, NEW s \in Seq(S), s # <<>>
  PROVE  /\ 1 \in DOMAIN s /\ Head(s) = s[1] /\ s[1] \in S /\ Tail(s) \in Seq(S)
         /\ \A k \in DOMAIN Tail(s) :
              k \in Nat \ {0} /\ k + 1 \in DOMAIN s /\ Tail(s)[k] = s[k + 1]
  OBVIOUS

\* Appending adds one element behind the others.
LEMMA AppendEnd ==
  ASSUME NEW S, NEW s \in Seq(S), NEW e \in S
  PROVE  /\ Append(s, e) \in Seq(S)
         /\ \A k \in DOMAIN Append(s, e) :
              /\ k \in Nat
              /\ \/ k \in DOMAIN s /\ k < Len(s) + 1 /\ Append(s, e)[k] = s[k]
                 \/ k \notin DOMAIN s /\ k = Len(s) + 1 /\ Append(s, e)[k] = e
  OBVIOUS

\* The elements of a sequence over S are in S.
LEMMA SeqElements ==
  ASSUME NEW S, NEW s \in Seq(S)
  PROVE  DOMAIN s \subseteq Nat /\ \A k \in DOMAIN s : s[k] \in S
  OBVIOUS

\* What the sequences of the model hold.
LEMMA Elements ==
  ASSUME TypeOK
  PROVE  /\ DOMAIN wire \subseteq Nat
         /\ \A k \in DOMAIN wire : wire[k][1] \in Ids /\ wire[k][2] \in Nat
         /\ \A i \in Ids : /\ DOMAIN pending[i] \subseteq Nat
                           /\ \A k \in DOMAIN pending[i] : pending[i][k] \in Nat
         /\ \A h \in Handles : /\ DOMAIN todo[h] \subseteq Nat
                               /\ \A k \in DOMAIN todo[h] : todo[h][k] \in Nat
                               /\ DOMAIN sent[h] \subseteq Nat
                               /\ \A k \in DOMAIN sent[h] :
                                    /\ sent[h][k].n \in Nat
                                    /\ sent[h][k].via \in {"dispatcher", "flush"}
         /\ \A i \in Ids : emitted[i] \in Nat
<1> DEFINE Entry == [n : Nat, via : {"dispatcher", "flush"}]
<1>1. /\ wire \in Seq(Ids \X Nat)
      /\ \A i \in Ids : pending[i] \in Seq(Nat) /\ emitted[i] \in Nat
      /\ \A h \in Handles : todo[h] \in Seq(Nat) /\ sent[h] \in Seq(Entry)
  BY DEF TypeOK
<1>2. /\ DOMAIN wire \subseteq Nat
      /\ \A k \in DOMAIN wire : wire[k] \in Ids \X Nat
  BY <1>1, SeqElements
<1>3. \A k \in DOMAIN wire : wire[k][1] \in Ids /\ wire[k][2] \in Nat
  BY <1>2
<1>4. \A i \in Ids : /\ DOMAIN pending[i] \subseteq Nat
                     /\ \A k \in DOMAIN pending[i] : pending[i][k] \in Nat
  BY <1>1, SeqElements
<1>5. ASSUME NEW h \in Handles
      PROVE  /\ DOMAIN todo[h] \subseteq Nat
             /\ \A k \in DOMAIN todo[h] : todo[h][k] \in Nat
             /\ DOMAIN sent[h] \subseteq Nat
             /\ \A k \in DOMAIN sent[h] : sent[h][k] \in Entry
  <2> HIDE DEF Entry
  <2>1. todo[h] \in Seq(Nat) /\ sent[h] \in Seq(Entry)
    BY <1>1
  <2>2. QED
    BY <2>1, SeqElements
<1>6. \A e \in Entry : e.n \in Nat /\ e.via \in {"dispatcher", "flush"}
  OBVIOUS
<1> HIDE DEF Entry
<1>7. QED
  BY <1>1, <1>2, <1>3, <1>4, <1>5, <1>6

\* A step that moves no notification, except that it may empty a buffer.
Quiet ==
  /\ UNCHANGED <<wire, emitted, todo, sent, disp, id>>
  /\ \A i \in Ids :
       \/ /\ pending'[i] = pending[i]
          /\ \A n : <<i, n>> \in lost' <=> <<i, n>> \in lost
       \/ /\ pending'[i] = <<>>
          /\ \A n : <<i, n>> \in lost' <=>
                     <<i, n>> \in lost \/ \E k \in DOMAIN pending[i] : pending[i][k] = n
  /\ \A h \in Handles : pc'[h] \in Fresh => pc[h] \in Fresh

\* The steps that move notifications or settle an id.
LEMMA MoveSteps ==
  ASSUME RoutingInv, [Next]_vars
  PROVE  \/ Quiet
         \/ \E h \in Handles : \/ Register(h) \/ FlushObserve(h) \/ FlushSend(h)
                               \/ AgentCreates(h) \/ \E i \in Ids : CallLoad(h, i)
         \/ \E i \in Ids : AgentEmits(i)
         \/ Dispatch
<1> USE DEF RoutingInv, TypeOK, Pcs, Fresh, Quiet
<1>1. ASSUME NEW h \in Handles, HandleStep(h)
      PROVE  \/ Quiet
             \/ \/ Register(h) \/ FlushObserve(h) \/ FlushSend(h)
                \/ AgentCreates(h) \/ \E i \in Ids : CallLoad(h, i)
  <2>1. CASE CallNew(h)
    BY <2>1 DEF CallNew
  <2>2. CASE FlushDone(h)
    BY <2>2 DEF FlushDone
  <2>3. CASE \/ AgentLoads(h) \/ LoadReturns(h) \/ RpcFails(h) \/ ConfigReturns(h)
             \/ ConfigFails(h) \/ TeardownClose(h) \/ TeardownHook(h)
    <3>1. /\ UNCHANGED <<wire, emitted, todo, sent, disp, id, pending, lost>>
          /\ \E l \in Pcs \ Fresh : pc' = [pc EXCEPT ![h] = l]
      BY <2>3, Zenon DEF AgentLoads, LoadReturns, RpcFails, ConfigReturns,
         ConfigFails, TeardownClose, TeardownHook
    <3>2. QED
      BY <3>1
  <2>4. CASE Deregister(h)
    <3>1. id[h] \in Ids
      BY <2>4 DEF Deregister, Support
    <3>2. /\ UNCHANGED <<wire, emitted, todo, sent, disp, id>>
          /\ \A g \in Handles : pc'[g] \in Fresh => pc[g] \in Fresh
      BY <2>4 DEF Deregister
    <3>3. \A i \in Ids : pending'[i] = IF i = id[h] THEN <<>> ELSE pending[i]
      BY <2>4, <3>1 DEF Deregister
    <3>4. ASSUME NEW i \in Ids, NEW n
          PROVE  <<i, n>> \in lost' <=>
                   \/ <<i, n>> \in lost
                   \/ i = id[h] /\ \E k \in DOMAIN pending[i] : pending[i][k] = n
      <4>1. lost' = lost \cup {<<id[h], pending[id[h]][k]>> : k \in DOMAIN pending[id[h]]}
        BY <2>4, Zenon DEF Deregister
      <4>2. <<i, n>> \in lost' <=>
              \/ <<i, n>> \in lost
              \/ \E k \in DOMAIN pending[id[h]] : <<i, n>> = <<id[h], pending[id[h]][k]>>
        BY <4>1, Zenon
      <4>3. QED
        BY <4>2
    <3>5. ASSUME NEW i \in Ids, i # id[h]
          PROVE  pending'[i] = pending[i] /\ \A n : <<i, n>> \in lost' <=> <<i, n>> \in lost
      BY <3>3, <3>4, <3>5
    <3>6. /\ pending'[id[h]] = <<>>
          /\ \A n : <<id[h], n>> \in lost' <=>
                \/ <<id[h], n>> \in lost
                \/ \E k \in DOMAIN pending[id[h]] : pending[id[h]][k] = n
      BY <3>1, <3>3, <3>4
    <3>7. QED
      BY <3>2, <3>5, <3>6, Zenon
  <2>5. CASE Consume(h)
    BY <2>5, Zenon DEF Consume
  <2>6. QED
    BY <1>1, <2>1, <2>2, <2>3, <2>4, <2>5, Zenon DEF HandleStep
<1>2. ASSUME NEW d \in BOOLEAN, Sweep(d) PROVE Quiet
  <2>1. UNCHANGED <<wire, emitted, todo, sent, disp, id, pc>>
    BY <1>2, Zenon DEF Sweep
  <2>2. CASE UNCHANGED <<pending, lost>>
    BY <2>1, <2>2
  <2>3. CASE /\ pending' = [i \in Ids |-> <<>>]
             /\ lost' = lost \cup UNION {{<<i, pending[i][k]>> : k \in DOMAIN pending[i]}
                                        : i \in Ids}
    <3>1. ASSUME NEW i \in Ids, NEW n
          PROVE  <<i, n>> \in lost' <=>
                   <<i, n>> \in lost \/ \E k \in DOMAIN pending[i] : pending[i][k] = n
      BY <2>3
    <3>2. QED
      BY <2>1, <2>3, <3>1
  <2>4. QED
    BY <1>2, <2>2, <2>3, Zenon DEF Sweep
<1>3. CASE EndHooks \/ UNCHANGED vars
  BY <1>3, Zenon DEF EndHooks, vars
<1>4. QED
  BY <1>1, <1>2, <1>3, Zenon DEF Next

\* Steps that move nothing keep the order.
LEMMA QuietOrder == OrderInv /\ Quiet => OrderParts'
<1> SUFFICES ASSUME OrderInv, Quiet PROVE OrderParts'
  OBVIOUS
<1> USE DEF OrderInv, OrderParts
<1>1. UNCHANGED <<wire, emitted, todo, sent, disp, id>>
  BY DEF Quiet
<1>2. WireOrder'
  BY <1>1 DEF WireOrder
<1>3. FlushOrder' /\ OnlyFlushIsOvertaken'
  BY <1>1 DEF FlushOrder, OnlyFlushIsOvertaken
<1>4. BufferOrder'
  <2>1. \A i \in Ids : \A j \in DOMAIN pending'[i] : pending'[i] = pending[i]
    BY DEF Quiet
  <2>2. QED
    BY <1>1, <2>1, Zenon DEF BufferOrder
<1>5. SessionOrder'
  BY Zenon DEF Quiet, SessionOrder, Behind
<1>6. DispOrder'
  <2>1. disp.at # "idle" => disp.h \in Handles
    BY DEF RoutingInv, TypeOK
  <2>2. QED
    BY <2>1, Zenon DEF Quiet, DispOrder, Behind
<1>7. QED
  BY <1>2, <1>3, <1>4, <1>5, <1>6

\* A call that learns its id has received nothing yet.
LEMMA NamedOrder ==
  ASSUME OrderInv, NEW h \in Handles,
         AgentCreates(h) \/ \E i \in Ids : CallLoad(h, i)
  PROVE  OrderParts'
<1> USE DEF OrderInv, OrderParts
<1>1. /\ pc[h] \in Fresh /\ id[h] = None
      /\ UNCHANGED <<wire, emitted, pending, todo, sent, disp>>
  BY DEF AgentCreates, CallLoad, Fresh, Unnamed
<1>2. /\ pc' = [pc EXCEPT ![h] = "answered"]
      /\ \E i \in Ids : id' = [id EXCEPT ![h] = i]
  BY Zenon DEF AgentCreates, CallLoad
<1>3. WireOrder' /\ BufferOrder' /\ FlushOrder' /\ OnlyFlushIsOvertaken'
  BY <1>1 DEF WireOrder, BufferOrder, FlushOrder, OnlyFlushIsOvertaken
<1>4. todo[h] = <<>> /\ sent[h] = <<>>
  BY <1>1 DEF SessionOrder
<1>5. \A g \in Handles : g # h => pc'[g] = pc[g] /\ id'[g] = id[g]
  BY <1>2 DEF RoutingInv, TypeOK
<1>6. SessionOrder'
  <2>1. ASSUME NEW n PROVE Behind(h, n)'
    BY <1>1, <1>4 DEF Behind
  <2>2. ASSUME NEW g \in Handles, g # h, NEW n, Behind(g, n) PROVE Behind(g, n)'
    BY <1>1, <2>2 DEF Behind
  <2>3. QED
    BY <1>1, <1>4, <1>5, <2>1, <2>2 DEF SessionOrder
<1>7. DispOrder'
  <2>1. disp.at # "idle" => disp.h \in Handles /\ disp.h # h
    BY <1>1 DEF RoutingInv, TypeOK, DispOrder
  <2>2. QED
    BY <1>1, <1>5, <2>1 DEF DispOrder, Behind
<1>8. QED
  BY <1>3, <1>6, <1>7

\* A new notification comes after everything there is.
LEMMA EmitOrder ==
  ASSUME OrderInv, NEW i \in Ids, AgentEmits(i)
  PROVE  OrderParts'
<1> DEFINE m == emitted[i] + 1
<1> USE DEF OrderInv, OrderParts
<1>1. TypeOK
  BY DEF RoutingInv
<1>2. m \in Nat /\ wire \in Seq(Ids \X Nat) /\ <<i, m>> \in Ids \X Nat
  BY <1>1 DEF TypeOK
<1>3. /\ UNCHANGED <<pending, todo, sent, disp, id, pc>>
      /\ wire' = Append(wire, <<i, m>>)
      /\ emitted' = [emitted EXCEPT ![i] = m]
  BY DEF AgentEmits
<1>4. emitted'[i] = m /\ \A j \in Ids : j # i => emitted'[j] = emitted[j]
  BY <1>1, <1>3 DEF TypeOK
<1>5. \A k \in DOMAIN wire' :
        /\ k \in Nat
        /\ \/ k \in DOMAIN wire /\ k < Len(wire) + 1 /\ wire'[k] = wire[k]
           \/ k \notin DOMAIN wire /\ k = Len(wire) + 1 /\ wire'[k] = <<i, m>>
  BY <1>2, <1>3, AppendEnd
<1>6. \A j \in Ids : emitted[j] <= emitted'[j] /\ emitted'[j] \in Nat
  <2>1. \A j \in Ids : emitted[j] \in Nat
    BY <1>1, Elements
  <2>2. QED
    BY <1>4, <2>1
<1>7. WireOrder'
  BY <1>1, <1>4, <1>5, <1>6, Elements DEF WireOrder
<1>8. BufferOrder'
  BY <1>1, <1>3, <1>4, <1>5, <1>6, Elements DEF BufferOrder
<1>9. ASSUME NEW h \in Handles, NEW n \in Nat, NEW l \in Nat, n <= l, Behind(h, n)
      PROVE  Behind(h, l)'
  BY <1>1, <1>3, <1>9, Elements DEF Behind
<1>10. SessionOrder'
  <2> SUFFICES ASSUME NEW h \in Handles
               PROVE  /\ pc[h] \in Fresh \/ id[h] = None => todo[h] = <<>> /\ sent[h] = <<>>
                      /\ id[h] # None => Behind(h, emitted[id[h]] + 1)'
                      /\ \A k \in DOMAIN wire' : wire'[k][1] = id[h] => Behind(h, wire[k][2])'
    BY <1>3 DEF SessionOrder
  <2>1. id[h] # None => id[h] \in Ids
    BY <1>1 DEF TypeOK
  <2>2. id[h] # None => Behind(h, emitted[id[h]] + 1)'
    BY <1>1, <1>3, <1>6, <1>9, <2>1, Elements DEF SessionOrder
  <2>3. ASSUME NEW k \in DOMAIN wire', wire'[k][1] = id[h]
        PROVE  Behind(h, wire[k][2])'
    <3>1. CASE wire'[k] = <<i, m>>
      BY <1>2, <1>9, <2>3, <3>1, NoneAssumption DEF SessionOrder
    <3>2. CASE k \in DOMAIN wire /\ wire'[k] = wire[k]
      BY <1>1, <1>9, <2>3, <3>2, Elements DEF SessionOrder
    <3>3. QED
      BY <1>5, <3>1, <3>2
  <2>4. QED
    BY <2>2, <2>3 DEF SessionOrder
<1>11. FlushOrder' /\ OnlyFlushIsOvertaken'
  BY <1>3 DEF FlushOrder, OnlyFlushIsOvertaken
<1>12. DispOrder'
  <2> SUFFICES ASSUME disp.at # "idle"
               PROVE  /\ pc[disp.h] \notin Fresh /\ id[disp.h] # None
                      /\ Behind(disp.h, disp.n)' /\ disp.n <= emitted'[id[disp.h]]
                      /\ \A k \in DOMAIN wire' : wire'[k][1] = id[disp.h]
                                                 => disp.n < wire'[k][2]
    BY <1>3 DEF DispOrder
  <2>1. disp.h \in Handles /\ disp.n \in Nat /\ id[disp.h] \in Ids
    BY <1>1 DEF TypeOK, DispOrder
  <2>2. disp.n <= emitted[id[disp.h]] /\ emitted[id[disp.h]] \in Nat
    BY <1>1, <2>1 DEF TypeOK, DispOrder
  <2>3. ASSUME NEW k \in DOMAIN wire', wire'[k][1] = id[disp.h]
        PROVE  disp.n < wire'[k][2]
    BY <1>5, <2>1, <2>2, <2>3 DEF DispOrder
  <2>4. QED
    BY <1>3, <1>6, <1>9, <2>1, <2>2, <2>3 DEF DispOrder
<1>13. QED
  BY <1>7, <1>8, <1>10, <1>11, <1>12

\* The flush takes over the buffer as it is.
LEMMA RegisterOrder ==
  ASSUME OrderInv, NEW h \in Handles, Register(h)
  PROVE  OrderParts'
<1> USE DEF OrderInv, OrderParts
<1>1. TypeOK /\ pc[h] = "answered" /\ id[h] \in Ids
  BY DEF RoutingInv, Support, Register
<1>2. sent[h] = <<>>
  BY <1>1 DEF SessionOrder, Fresh
<1>3. UNCHANGED <<wire, emitted, sent, disp, id>>
  BY DEF Register
<1>4. /\ todo'[h] = pending[id[h]]
      /\ \A g \in Handles : g # h => todo'[g] = todo[g]
      /\ pending'[id[h]] = <<>>
      /\ \A i \in Ids : i # id[h] => pending'[i] = pending[i]
      /\ pc'[h] = "flushing"
      /\ \A g \in Handles : g # h => pc'[g] = pc[g]
  BY <1>1 DEF Register, TypeOK
<1>5. WireOrder' /\ OnlyFlushIsOvertaken'
  BY <1>3 DEF WireOrder, OnlyFlushIsOvertaken
<1>6. BufferOrder'
  BY <1>3, <1>4 DEF BufferOrder
<1>7. ASSUME NEW n,
             \A k \in DOMAIN pending[id[h]] : pending[id[h]][k] < n
      PROVE  Behind(h, n)'
  BY <1>2, <1>3, <1>4, <1>7 DEF Behind
<1>8. ASSUME NEW g \in Handles, g # h, NEW n, Behind(g, n) PROVE Behind(g, n)'
  BY <1>3, <1>4, <1>8 DEF Behind
<1>9. SessionOrder'
  <2> SUFFICES ASSUME NEW g \in Handles
               PROVE  /\ pc'[g] \in Fresh \/ id[g] = None => todo'[g] = <<>> /\ sent[g] = <<>>
                      /\ id[g] # None => Behind(g, emitted[id[g]] + 1)'
                      /\ \A k \in DOMAIN wire : wire[k][1] = id[g] => Behind(g, wire[k][2])'
    BY <1>3 DEF SessionOrder
  <2>1. CASE g = h
    <3>1. Behind(h, emitted[id[h]] + 1)'
      BY <1>1, <1>3, <1>7, Elements DEF BufferOrder
    <3>2. \A k \in DOMAIN wire : wire[k][1] = id[h] => Behind(h, wire[k][2])'
      BY <1>1, <1>3, <1>7, Elements DEF BufferOrder
    <3>3. QED
      BY <1>1, <1>4, <2>1, <3>1, <3>2, NoneAssumption DEF Fresh
  <2>2. CASE g # h
    BY <1>3, <1>4, <1>8, <2>2 DEF SessionOrder
  <2>3. QED
    BY <2>1, <2>2
<1>10. FlushOrder'
  <2>1. ASSUME NEW g \in Handles, g # h, NEW k \in DOMAIN todo'[g]
        PROVE  /\ \A j \in DOMAIN todo'[g] : j < k => todo'[g][j] < todo'[g][k]
               /\ \A a \in DOMAIN sent'[g] : IF sent'[g][a].via = "flush"
                                            THEN sent'[g][a].n < todo'[g][k]
                                            ELSE sent'[g][a].n > todo'[g][k]
    BY <1>3, <1>4, <2>1 DEF FlushOrder
  <2>2. \A k, j \in DOMAIN todo'[h] : j < k => todo'[h][j] < todo'[h][k]
    BY <1>1, <1>4 DEF BufferOrder
  <2>3. DOMAIN sent'[h] = {}
    BY <1>2, <1>3
  <2>4. QED
    BY <2>1, <2>2, <2>3 DEF FlushOrder
<1>11. DispOrder'
  <2>1. disp.at # "idle" => disp.h \in Handles /\ disp.h # h
    BY <1>1 DEF TypeOK, DispOrder, Fresh
  <2>2. QED
    BY <1>3, <1>4, <1>8, <2>1 DEF DispOrder
<1>12. QED
  BY <1>5, <1>6, <1>9, <1>10, <1>11

\* Routing takes the oldest notification off the wire: it is newer than the
\* buffer and than everything its session was given.
LEMMA RouteOrder ==
  ASSUME OrderInv, Route
  PROVE  OrderParts'
<1> DEFINE j == Head(wire)[1]
           n == Head(wire)[2]
<1> USE DEF OrderInv, OrderParts
<1>1. TypeOK /\ wire \in Seq(Ids \X Nat) /\ wire # <<>>
  BY DEF RoutingInv, TypeOK, Route
<1>2. /\ UNCHANGED <<emitted, todo, sent, id, pc>>
      /\ wire' = Tail(wire) /\ disp.at = "idle"
  BY DEF Route
<1>3. \/ pending' = pending
      \/ pending' = [pending EXCEPT ![j] = Append(@, n)]
  BY Zenon DEF Route
<1>4. \/ disp' = disp
      \/ sessions[j] # None /\ disp' = [at |-> "routed", h |-> sessions[j], n |-> n]
  BY Zenon DEF Route
<1>5. /\ 1 \in DOMAIN wire /\ j = wire[1][1] /\ n = wire[1][2]
      /\ \A k \in DOMAIN wire' :
           k \in Nat \ {0} /\ k + 1 \in DOMAIN wire /\ wire'[k] = wire[k + 1]
  BY <1>1, <1>2, TailShift
<1>6. j \in Ids /\ n \in Nat
  BY <1>1, <1>5, Elements
<1> HIDE DEF j, n
<1>7. /\ n <= emitted[j]
      /\ \A k \in DOMAIN wire' : wire'[k][1] = j => n < wire'[k][2]
  BY <1>5 DEF WireOrder
<1>8. WireOrder'
  BY <1>2, <1>5 DEF WireOrder
<1>9. FlushOrder' /\ OnlyFlushIsOvertaken'
  BY <1>2 DEF FlushOrder, OnlyFlushIsOvertaken
<1>10. \A h \in Handles : \A l : Behind(h, l) => Behind(h, l)'
  BY <1>2 DEF Behind
<1>11. SessionOrder'
  <2> SUFFICES ASSUME NEW h \in Handles
               PROVE  /\ id[h] # None => Behind(h, emitted[id[h]] + 1)'
                      /\ \A k \in DOMAIN wire' :
                           wire'[k][1] = id[h] => Behind(h, wire[k][2])'
    BY <1>2 DEF SessionOrder
  <2>1. id[h] # None => Behind(h, emitted[id[h]] + 1)'
    BY <1>2, <1>10 DEF SessionOrder
  <2>2. ASSUME NEW k \in DOMAIN wire', wire'[k][1] = id[h]
        PROVE  Behind(h, wire[k][2])'
    BY <1>5, <1>10, <2>2 DEF SessionOrder
  <2>3. QED
    BY <2>1, <2>2
<1>12. BufferOrder'
  <2>1. \A k \in DOMAIN pending[j] : pending[j][k] < n
    BY <1>5, <1>6 DEF BufferOrder
  <2>2. ASSUME NEW i \in Ids, pending'[i] = pending[i]
        PROVE  \A k \in DOMAIN pending'[i] :
                 /\ pending'[i][k] <= emitted'[i]
                 /\ \A l \in DOMAIN pending'[i] : k < l => pending'[i][k] < pending'[i][l]
                 /\ \A l \in DOMAIN wire' : wire'[l][1] = i => pending'[i][k] < wire'[l][2]
    BY <1>2, <1>5, <2>2 DEF BufferOrder
  <2>3. CASE pending' = pending
    BY <2>2, <2>3 DEF BufferOrder
  <2>4. CASE pending' = [pending EXCEPT ![j] = Append(@, n)]
    <3>1. pending'[j] = Append(pending[j], n) /\ \A i \in Ids : i # j => pending'[i] = pending[i]
      BY <1>1, <1>6, <2>4 DEF TypeOK
    <3>2. \A k \in DOMAIN pending'[j] :
            /\ k \in Nat
            /\ \/ /\ k \in DOMAIN pending[j] /\ k < Len(pending[j]) + 1
                  /\ pending'[j][k] = pending[j][k]
               \/ k = Len(pending[j]) + 1 /\ pending'[j][k] = n
      <4>1. pending[j] \in Seq(Nat)
        BY <1>1, <1>6 DEF TypeOK
      <4>2. QED
        BY <1>6, <3>1, <4>1, AppendEnd
    <3>3. ASSUME NEW k \in DOMAIN pending'[j]
          PROVE  /\ pending'[j][k] <= emitted'[j]
                 /\ \A l \in DOMAIN wire' : wire'[l][1] = j => pending'[j][k] < wire'[l][2]
      BY <1>2, <1>5, <1>6, <1>7, <3>2 DEF BufferOrder
    <3>4. ASSUME NEW k \in DOMAIN pending'[j], NEW l \in DOMAIN pending'[j], k < l
          PROVE  pending'[j][k] < pending'[j][l]
      <4>1. Len(pending[j]) \in Nat
        BY <1>1, <1>6 DEF TypeOK
      <4>2. QED
        BY <1>6, <2>1, <3>2, <3>4, <4>1 DEF BufferOrder
    <3>5. QED
      BY <2>2, <3>1, <3>3, <3>4 DEF BufferOrder
  <2>5. QED
    BY <1>3, <2>3, <2>4
<1>13. DispOrder'
  <2>1. CASE disp' = disp
    BY <1>2, <2>1 DEF DispOrder
  <2>2. CASE sessions[j] # None /\ disp' = [at |-> "routed", h |-> sessions[j], n |-> n]
    <3>1. disp'.h = sessions[j] /\ disp'.n = n
      BY <2>2
    <3>2. sessions[j] \in Handles /\ id[sessions[j]] = j
      BY <1>1, <1>6, <2>2 DEF RoutingInv, RoutedIsOpen, TypeOK
    <3>3. pc[sessions[j]] \notin Fresh
      BY <1>6, <2>2 DEF RoutingInv, Support, Registered, Making, Fresh
    <3>4. Behind(sessions[j], n)
      BY <1>5, <3>2 DEF SessionOrder
    <3>5. QED
      BY <1>2, <1>6, <1>7, <3>1, <3>2, <3>3, <3>4, NoneAssumption
      DEF DispOrder, Behind
  <2>3. QED
    BY <1>4, <2>1, <2>2
<1>14. QED
  BY <1>8, <1>9, <1>11, <1>12, <1>13

\* The first section of s.deliver moves nothing.
LEMMA ObserveOrder ==
  ASSUME OrderInv, DispatchObserve
  PROVE  OrderParts'
<1> USE DEF OrderInv, OrderParts
<1>1. UNCHANGED <<wire, emitted, pending, todo, sent, id, pc>>
  BY DEF DispatchObserve
<1>2. \/ disp'.at = "idle"
      \/ disp.at # "idle" /\ disp'.h = disp.h /\ disp'.n = disp.n
  BY DEF DispatchObserve, Idle, RoutingInv, TypeOK
<1>3. WireOrder' /\ BufferOrder' /\ FlushOrder' /\ OnlyFlushIsOvertaken'
  BY <1>1 DEF WireOrder, BufferOrder, FlushOrder, OnlyFlushIsOvertaken
<1>4. SessionOrder'
  BY <1>1 DEF SessionOrder, Behind
<1>5. DispOrder'
  BY <1>1, <1>2 DEF DispOrder, Behind
<1>6. QED
  BY <1>3, <1>4, <1>5

\* What a send leaves in the channel: what was there, or one entry more.
LEMMA SendAppends ==
  ASSUME TypeOK, NEW h \in Handles, NEW n \in Nat,
         NEW via \in {"dispatcher", "flush"}, DeliverSend(h, n, via)
  PROVE  /\ \A g \in Handles : g # h => sent'[g] = sent[g]
         /\ Len(sent[h]) \in Nat
         /\ \A k \in DOMAIN sent'[h] :
              /\ k \in Nat
              /\ \/ /\ k \in DOMAIN sent[h] /\ k < Len(sent[h]) + 1
                    /\ sent'[h][k] = sent[h][k]
                 \/ /\ k = Len(sent[h]) + 1
                    /\ sent'[h][k].n = n /\ sent'[h][k].via = via
<1> DEFINE Entry == [n : Nat, via : {"dispatcher", "flush"}]
           e == [n |-> n, via |-> via]
<1>1. \/ sent' = sent
      \/ sent' = [sent EXCEPT ![h] = Append(@, e)]
  BY Zenon DEF DeliverSend, ChanSend
<1>2. sent \in [Handles -> Seq(Entry)] /\ e \in Entry /\ e.n = n /\ e.via = via
  BY DEF TypeOK
<1> HIDE DEF Entry, e
<1>3. CASE sent' = sent
  BY <1>2, <1>3
<1>4. CASE sent' = [sent EXCEPT ![h] = Append(@, e)]
  <2>1. sent[h] \in Seq(Entry)
    BY <1>2
  <2>2. sent'[h] = Append(sent[h], e) /\ \A g \in Handles : g # h => sent'[g] = sent[g]
    BY <1>2, <1>4
  <2>3. \A k \in DOMAIN sent'[h] :
          /\ k \in Nat
          /\ \/ k \in DOMAIN sent[h] /\ k < Len(sent[h]) + 1 /\ sent'[h][k] = sent[h][k]
             \/ k = Len(sent[h]) + 1 /\ sent'[h][k] = e
    BY <1>2, <2>1, <2>2, AppendEnd
  <2>4. QED
    BY <1>2, <2>1, <2>2, <2>3
<1>5. QED
  BY <1>1, <1>3, <1>4

\* The dispatcher sends the latest notification of the session.
LEMMA DispatchOrder ==
  ASSUME OrderInv, DispatchSend
  PROVE  OrderParts'
<1> USE DEF OrderInv, OrderParts
<1>1. TypeOK /\ disp.at = "observed" /\ disp.h \in Handles /\ disp.n \in Nat
  BY DEF RoutingInv, TypeOK, DispatchSend
<1>2. PICK h \in Handles : h = disp.h
  BY <1>1
<1>3. PICK n \in Nat : n = disp.n
  BY <1>1
<1>4. UNCHANGED <<wire, emitted, pending, todo, id, pc>> /\ disp'.at = "idle"
  BY DEF DispatchSend, Idle
<1>5. DeliverSend(h, n, "dispatcher")
  BY <1>2, <1>3, Zenon DEF DispatchSend
<1>6. /\ \A g \in Handles : g # h => sent'[g] = sent[g]
      /\ Len(sent[h]) \in Nat
      /\ \A k \in DOMAIN sent'[h] :
           /\ k \in Nat
           /\ \/ /\ k \in DOMAIN sent[h] /\ k < Len(sent[h]) + 1
                 /\ sent'[h][k] = sent[h][k]
              \/ /\ k = Len(sent[h]) + 1
                 /\ sent'[h][k].n = n /\ sent'[h][k].via = "dispatcher"
  BY <1>1, <1>5, SendAppends
<1>7. /\ pc[h] \notin Fresh /\ id[h] # None /\ id[h] \in Ids
      /\ Behind(h, n) /\ n <= emitted[id[h]]
      /\ \A k \in DOMAIN wire : wire[k][1] = id[h] => n < wire[k][2]
  BY <1>1, <1>2, <1>3 DEF DispOrder, TypeOK
<1>8. WireOrder' /\ BufferOrder' /\ DispOrder'
  BY <1>4 DEF WireOrder, BufferOrder, DispOrder
<1>9. ASSUME NEW m \in Nat, n < m, Behind(h, m) PROVE Behind(h, m)'
  BY <1>4, <1>6, <1>9 DEF Behind
<1>10. SessionOrder'
  <2> SUFFICES ASSUME NEW g \in Handles
               PROVE  /\ pc[g] \in Fresh \/ id[g] = None => todo[g] = <<>> /\ sent'[g] = <<>>
                      /\ id[g] # None => Behind(g, emitted[id[g]] + 1)'
                      /\ \A k \in DOMAIN wire : wire[k][1] = id[g] => Behind(g, wire[k][2])'
    BY <1>4 DEF SessionOrder
  <2>1. CASE g = h
    <3>1. Behind(h, emitted[id[h]] + 1)'
      BY <1>1, <1>4, <1>7, <1>9, Elements DEF SessionOrder
    <3>2. \A k \in DOMAIN wire : wire[k][1] = id[h] => Behind(h, wire[k][2])'
      BY <1>1, <1>4, <1>7, <1>9, Elements DEF SessionOrder
    <3>3. QED
      BY <1>7, <2>1, <3>1, <3>2
  <2>2. CASE g # h
    BY <1>4, <1>6, <2>2 DEF SessionOrder, Behind
  <2>3. QED
    BY <2>1, <2>2
<1>11. FlushOrder'
  <2>1. ASSUME NEW g \in Handles, g # h, NEW k \in DOMAIN todo'[g]
        PROVE  /\ \A j \in DOMAIN todo'[g] : j < k => todo'[g][j] < todo'[g][k]
               /\ \A a \in DOMAIN sent'[g] : IF sent'[g][a].via = "flush"
                                            THEN sent'[g][a].n < todo'[g][k]
                                            ELSE sent'[g][a].n > todo'[g][k]
    BY <1>4, <1>6, <2>1 DEF FlushOrder
  <2>2. ASSUME NEW k \in DOMAIN todo'[h]
        PROVE  /\ \A j \in DOMAIN todo'[h] : j < k => todo'[h][j] < todo'[h][k]
               /\ \A a \in DOMAIN sent'[h] : IF sent'[h][a].via = "flush"
                                            THEN sent'[h][a].n < todo'[h][k]
                                            ELSE sent'[h][a].n > todo'[h][k]
    <3>1. todo[h][k] < n /\ todo[h][k] \in Nat
      BY <1>1, <1>4, <1>7, <2>2, Elements DEF Behind
    <3>2. QED
      BY <1>4, <1>6, <2>2, <3>1 DEF FlushOrder
  <2>3. QED
    BY <2>1, <2>2 DEF FlushOrder
<1>12. OnlyFlushIsOvertaken'
  <2>1. ASSUME NEW a \in DOMAIN sent'[h], NEW b \in DOMAIN sent'[h], a < b
        PROVE  \/ sent'[h][a].n < sent'[h][b].n
               \/ /\ sent'[h][a].n > sent'[h][b].n
                  /\ sent'[h][a].via = "dispatcher" /\ sent'[h][b].via = "flush"
    <3>1. a \in DOMAIN sent[h] /\ sent'[h][a] = sent[h][a]
      BY <1>6, <2>1
    <3>2. sent[h][a].n < n
      BY <1>7, <3>1 DEF Behind
    <3>3. QED
      BY <1>6, <2>1, <3>1, <3>2 DEF OnlyFlushIsOvertaken
  <2>2. QED
    BY <1>6, <2>1 DEF OnlyFlushIsOvertaken
<1>13. QED
  BY <1>8, <1>10, <1>11, <1>12

\* A flush goes through its notifications in order, ahead of whatever the
\* dispatcher sent meanwhile.
LEMMA FlushStepOrder ==
  ASSUME OrderInv, NEW h \in Handles, FlushObserve(h) \/ FlushSend(h)
  PROVE  OrderParts'
<1> DEFINE Shifted(d) == \A k \in DOMAIN todo'[h] :
             k \in Nat \ {0} /\ k + d \in DOMAIN todo[h] /\ todo'[h][k] = todo[h][k + d]
           Kept(d) == \A k \in DOMAIN sent'[h] :
             /\ k \in Nat
             /\ \/ /\ k \in DOMAIN sent[h] /\ k < Len(sent[h]) + 1
                   /\ sent'[h][k] = sent[h][k]
                \/ /\ d = 1 /\ 1 \in DOMAIN todo[h]
                   /\ k = Len(sent[h]) + 1
                   /\ sent'[h][k].n = todo[h][1] /\ sent'[h][k].via = "flush"
<1> USE DEF OrderInv, OrderParts
<1>1. TypeOK /\ todo \in [Handles -> Seq(Nat)] /\ todo[h] \in Seq(Nat)
  BY DEF RoutingInv, TypeOK
<1>2. pc[h] = "flushing" /\ todo[h] # <<>> /\ id[h] \in Ids /\ id[h] # None
  BY NoneAssumption DEF FlushObserve, FlushSend, RoutingInv, Support
<1>3. UNCHANGED <<wire, emitted, pending, disp, id, pc>>
  BY Zenon DEF FlushObserve, FlushSend
<1>4. /\ 1 \in DOMAIN todo[h] /\ Head(todo[h]) = todo[h][1] /\ todo[h][1] \in Nat
      /\ \A k \in DOMAIN Tail(todo[h]) :
           /\ k \in Nat \ {0} /\ k + 1 \in DOMAIN todo[h]
           /\ Tail(todo[h])[k] = todo[h][k + 1]
  BY <1>1, <1>2, TailShift
<1>5. \/ todo' = todo \/ todo' = [todo EXCEPT ![h] = Tail(@)]
  BY Zenon DEF FlushObserve, FlushSend
<1>6. \A g \in Handles : g # h => todo'[g] = todo[g]
  BY <1>1, <1>5
<1>7. /\ Len(sent[h]) \in Nat
      /\ \A g \in Handles : g # h => sent'[g] = sent[g]
      /\ \E d \in {0, 1} : Shifted(d) /\ Kept(d)
  <2>1. sent[h] \in Seq([n : Nat, via : {"dispatcher", "flush"}])
    BY <1>1 DEF TypeOK
  <2>2. CASE FlushObserve(h)
    <3>1. sent' = sent
      BY <2>2 DEF FlushObserve
    <3>2. Kept(0) /\ Kept(1)
      BY <2>1, <3>1
    <3>3. CASE todo' = todo
      <4>1. Shifted(0)
        BY <1>1, <3>3
      <4>2. QED
        BY <2>1, <3>1, <3>2, <4>1
    <3>4. CASE todo' = [todo EXCEPT ![h] = Tail(@)]
      <4>1. Shifted(1)
        BY <1>1, <1>4, <3>4
      <4>2. QED
        BY <2>1, <3>1, <3>2, <4>1
    <3>5. QED
      BY <1>5, <3>3, <3>4
  <2>3. CASE FlushSend(h)
    <3>1. DeliverSend(h, todo[h][1], "flush") /\ todo' = [todo EXCEPT ![h] = Tail(@)]
      BY <1>4, <2>3, Zenon DEF FlushSend
    <3>2. PICK m \in Nat : m = todo[h][1]
      BY <1>4
    <3>3. DeliverSend(h, m, "flush")
      BY <3>1, <3>2
    <3>4. /\ \A g \in Handles : g # h => sent'[g] = sent[g]
          /\ Len(sent[h]) \in Nat
          /\ \A k \in DOMAIN sent'[h] :
               /\ k \in Nat
               /\ \/ /\ k \in DOMAIN sent[h] /\ k < Len(sent[h]) + 1
                     /\ sent'[h][k] = sent[h][k]
                  \/ /\ k = Len(sent[h]) + 1
                     /\ sent'[h][k].n = m /\ sent'[h][k].via = "flush"
      BY <1>1, <3>3, SendAppends
    <3>5. Shifted(1)
      BY <1>1, <1>4, <3>1
    <3>6. Kept(1)
      BY <1>4, <3>2, <3>4
    <3>7. QED
      BY <3>4, <3>5, <3>6
  <2>4. QED
    BY <2>2, <2>3
<1>8. PICK d \in {0, 1} : Shifted(d) /\ Kept(d)
  BY <1>7
<1>9. WireOrder' /\ BufferOrder'
  BY <1>3 DEF WireOrder, BufferOrder
<1>10. ASSUME NEW n, Behind(h, n) PROVE Behind(h, n)'
  BY <1>8, <1>10 DEF Behind
<1>11. ASSUME NEW g \in Handles, g # h, NEW n, Behind(g, n) PROVE Behind(g, n)'
  BY <1>6, <1>7, <1>11 DEF Behind
<1>12. ASSUME NEW g \in Handles, NEW n, Behind(g, n) PROVE Behind(g, n)'
  BY <1>10, <1>11, <1>12
<1>13. SessionOrder'
  <2>1. \A g \in Handles : pc[g] \in Fresh \/ id[g] = None => g # h
    BY <1>2 DEF Fresh
  <2>2. QED
    BY <1>3, <1>6, <1>7, <1>12, <2>1 DEF SessionOrder
<1>14. DispOrder'
  <2>1. disp.at # "idle" => disp.h \in Handles
    BY <1>1 DEF TypeOK
  <2>2. QED
    BY <1>3, <1>12, <2>1 DEF DispOrder
<1>15. FlushOrder'
  <2>1. ASSUME NEW g \in Handles, g # h, NEW k \in DOMAIN todo'[g]
        PROVE  /\ \A j \in DOMAIN todo'[g] : j < k => todo'[g][j] < todo'[g][k]
               /\ \A a \in DOMAIN sent'[g] : IF sent'[g][a].via = "flush"
                                            THEN sent'[g][a].n < todo'[g][k]
                                            ELSE sent'[g][a].n > todo'[g][k]
    BY <1>6, <1>7, <2>1 DEF FlushOrder
  <2>2. ASSUME NEW k \in DOMAIN todo'[h], NEW j \in DOMAIN todo'[h], j < k
        PROVE  todo'[h][j] < todo'[h][k]
    BY <1>8, <2>2 DEF FlushOrder
  <2>3. ASSUME NEW k \in DOMAIN todo'[h], NEW a \in DOMAIN sent'[h]
        PROVE  IF sent'[h][a].via = "flush" THEN sent'[h][a].n < todo'[h][k]
                                            ELSE sent'[h][a].n > todo'[h][k]
    <3>1. k \in Nat \ {0} /\ k + d \in DOMAIN todo[h] /\ todo'[h][k] = todo[h][k + d]
      BY <1>8
    <3>2. CASE a \in DOMAIN sent[h] /\ sent'[h][a] = sent[h][a]
      BY <3>1, <3>2 DEF FlushOrder
    <3>3. CASE /\ d = 1 /\ 1 \in DOMAIN todo[h]
               /\ sent'[h][a].n = todo[h][1] /\ sent'[h][a].via = "flush"
      BY <3>1, <3>3 DEF FlushOrder
    <3>4. QED
      BY <1>8, <3>2, <3>3
  <2>4. QED
    BY <2>1, <2>2, <2>3 DEF FlushOrder
<1>16. OnlyFlushIsOvertaken'
  <2>1. ASSUME NEW a \in DOMAIN sent'[h], NEW b \in DOMAIN sent'[h], a < b
        PROVE  \/ sent'[h][a].n < sent'[h][b].n
               \/ /\ sent'[h][a].n > sent'[h][b].n
                  /\ sent'[h][a].via = "dispatcher" /\ sent'[h][b].via = "flush"
    <3>1. a \in DOMAIN sent[h] /\ sent'[h][a] = sent[h][a]
      BY <1>7, <1>8, <2>1
    <3>2. sent[h][a].via \in {"dispatcher", "flush"}
      BY <1>1, <3>1, Elements
    <3>3. CASE b \in DOMAIN sent[h] /\ sent'[h][b] = sent[h][b]
      BY <2>1, <3>1, <3>3 DEF OnlyFlushIsOvertaken
    <3>4. CASE /\ 1 \in DOMAIN todo[h]
               /\ sent'[h][b].n = todo[h][1] /\ sent'[h][b].via = "flush"
      BY <3>1, <3>2, <3>4 DEF FlushOrder
    <3>5. QED
      BY <1>8, <3>3, <3>4
  <2>2. QED
    BY <1>7, <2>1 DEF OnlyFlushIsOvertaken
<1>17. QED
  BY <1>9, <1>13, <1>14, <1>15, <1>16

\* There is nothing to be out of order at first.
LEMMA OrderInvInit == Init => OrderInv
<1> SUFFICES ASSUME Init PROVE OrderInv
  OBVIOUS
<1>1. Unnamed
  BY DEF Init, Unnamed
<1>2. WireOrder /\ BufferOrder /\ DispOrder
  BY DEF Init, WireOrder, BufferOrder, DispOrder, Idle
<1>3. SessionOrder
  BY DEF Init, SessionOrder
<1>4. FlushOrder /\ OnlyFlushIsOvertaken
  BY DEF Init, FlushOrder, OnlyFlushIsOvertaken
<1>5. QED
  BY <1>1, <1>2, <1>3, <1>4, InitEstablishes DEF OrderInv, OrderParts

\* The order invariant holds in every state of every behaviour.
LEMMA OrderInvariant == Spec => []OrderInv
<1>1. OrderInv /\ [Next]_vars => OrderParts'
  <2> SUFFICES ASSUME OrderInv, [Next]_vars PROVE OrderParts'
    OBVIOUS
  <2>1. RoutingInv
    BY DEF OrderInv
  <2>2. QED
    BY <2>1, MoveSteps, QuietOrder, NamedOrder, EmitOrder, RegisterOrder,
       RouteOrder, ObserveOrder, DispatchOrder, FlushStepOrder, Zenon DEF Dispatch
<1>2. RouteInv /\ RouteInv' /\ OrderInv /\ [Next]_vars => OrderInv'
  BY <1>1 DEF OrderInv, RouteInv
<1>3. QED
  BY OrderInvInit, <1>2, RouteInvariant, PTL DEF Spec

\* Session.Updates() receives the notifications of its id in the agent's order
\* and none twice, except that those registerSession still flushes may be
\* overtaken by newer ones the dispatcher goroutine routes meanwhile.
THEOREM DeliveryOrder == Spec => []OnlyFlushIsOvertaken
<1>1. OrderInv => OnlyFlushIsOvertaken
  BY DEF OrderInv, OrderParts
<1>2. QED
  BY <1>1, OrderInvariant, PTL

-----------------------------------------------------------------------------
(* Every notification is in one place.                                     *)

\* The places a notification can be in, without the position it has there.
OnWire(i, n)   == \E k \in DOMAIN wire : wire[k] = <<i, n>>
Buffered(i, n) == \E k \in DOMAIN pending[i] : pending[i][k] = n
InHand(i, n)   == disp.at # "idle" /\ id[disp.h] = i /\ disp.n = n
Discarded(i, n) == <<i, n>> \in lost
Flushing(h, n) == \E k \in DOMAIN todo[h] : todo[h][k] = n
Received(h, n) == \E k \in DOMAIN sent[h] : sent[h][k].n = n
Owned(h, i, n) == id[h] = i /\ (Flushing(h, n) \/ Received(h, n))

\* No notification is in two of them.
Exclusive(i, n) ==
  /\ OnWire(i, n) => /\ ~Buffered(i, n) /\ ~InHand(i, n) /\ ~Discarded(i, n)
                     /\ \A h \in Handles : ~Owned(h, i, n)
  /\ Buffered(i, n) => /\ ~InHand(i, n) /\ ~Discarded(i, n)
                       /\ \A h \in Handles : ~Owned(h, i, n)
  /\ InHand(i, n) => ~Discarded(i, n) /\ \A h \in Handles : ~Owned(h, i, n)
  /\ Discarded(i, n) => \A h \in Handles : ~Owned(h, i, n)
  /\ \A g, h \in Handles : Owned(g, i, n) /\ Owned(h, i, n) => g = h

\* The emitted ones, and no others, are in one.
Somewhere(i, n) ==
  1 <= n /\ n <= emitted[i] <=>
    \/ OnWire(i, n) \/ Buffered(i, n) \/ InHand(i, n) \/ Discarded(i, n)
    \/ \E h \in Handles : Owned(h, i, n)

Located == \A i \in Ids, n \in Nat : Exclusive(i, n) /\ Somewhere(i, n)

LocatedInv == OrderInv /\ Located

\* What appending and taking the head do to the elements.
LEMMA AppendHas ==
  ASSUME NEW S, NEW s \in Seq(S), NEW x \in S, NEW e
  PROVE  (\E k \in DOMAIN Append(s, x) : Append(s, x)[k] = e)
           <=> (\E k \in DOMAIN s : s[k] = e) \/ e = x
<1>1. /\ \A k \in DOMAIN s : k \in DOMAIN Append(s, x) /\ Append(s, x)[k] = s[k]
      /\ Len(s) + 1 \in DOMAIN Append(s, x) /\ Append(s, x)[Len(s) + 1] = x
  OBVIOUS
<1>2. \A k \in DOMAIN Append(s, x) :
        \/ k \in DOMAIN s /\ Append(s, x)[k] = s[k]
        \/ Append(s, x)[k] = x
  BY AppendEnd
<1>3. QED
  BY <1>1, <1>2

LEMMA TailHas ==
  ASSUME NEW S, NEW s \in Seq(S), s # <<>>, NEW e
  PROVE  (\E k \in DOMAIN s : s[k] = e)
           <=> (\E k \in DOMAIN Tail(s) : Tail(s)[k] = e) \/ e = Head(s)
<1>1. \A k \in DOMAIN s : k = 1 \/ (k - 1 \in DOMAIN Tail(s) /\ Tail(s)[k - 1] = s[k])
  OBVIOUS
<1>2. /\ 1 \in DOMAIN s /\ Head(s) = s[1]
      /\ \A k \in DOMAIN Tail(s) : k + 1 \in DOMAIN s /\ Tail(s)[k] = s[k + 1]
  BY TailShift
<1>3. QED
  BY <1>1, <1>2

\* Steps that move nothing, or empty a buffer.
LEMMA QuietPlaces == LocatedInv /\ Quiet => Located'
<1> SUFFICES ASSUME LocatedInv, Quiet, NEW i \in Ids, NEW n \in Nat
             PROVE  Exclusive(i, n)' /\ Somewhere(i, n)'
  BY DEF Located
<1>1. Exclusive(i, n) /\ Somewhere(i, n)
  BY DEF LocatedInv, Located
<1>2. UNCHANGED <<wire, emitted, todo, sent, disp, id>>
  BY DEF Quiet
<1>3. OnWire(i, n)' <=> OnWire(i, n)
  BY <1>2 DEF OnWire
<1>4. InHand(i, n)' <=> InHand(i, n)
  BY <1>2 DEF InHand
<1>5. \A h \in Handles : Owned(h, i, n)' <=> Owned(h, i, n)
  BY <1>2 DEF Owned, Flushing, Received
<1>6. \/ (Buffered(i, n)' <=> Buffered(i, n)) /\ (Discarded(i, n)' <=> Discarded(i, n))
      \/ ~Buffered(i, n)' /\ (Discarded(i, n)' <=> Discarded(i, n) \/ Buffered(i, n))
  <2>1. CASE pending'[i] = pending[i] /\ \A l : <<i, l>> \in lost' <=> <<i, l>> \in lost
    BY <2>1 DEF Buffered, Discarded
  <2>2. CASE /\ pending'[i] = <<>>
             /\ \A l : <<i, l>> \in lost' <=>
                       <<i, l>> \in lost \/ \E k \in DOMAIN pending[i] : pending[i][k] = l
    <3>1. ~Buffered(i, n)'
      BY <2>2 DEF Buffered
    <3>2. Discarded(i, n)' <=> Discarded(i, n) \/ Buffered(i, n)
      BY <2>2, Zenon DEF Buffered, Discarded
    <3>3. QED
      BY <3>1, <3>2
  <2>3. QED
    BY <2>1, <2>2 DEF Quiet
<1>7. emitted'[i] = emitted[i]
  BY <1>2
<1>8. QED
  BY <1>1, <1>3, <1>4, <1>5, <1>6, <1>7 DEF Exclusive, Somewhere

\* A call learns its id before anything is handed to its session.
LEMMA NamedPlaces ==
  ASSUME LocatedInv, NEW h \in Handles,
         AgentCreates(h) \/ \E i \in Ids : CallLoad(h, i)
  PROVE  Located'
<1> SUFFICES ASSUME NEW i \in Ids, NEW n \in Nat
             PROVE  Exclusive(i, n)' /\ Somewhere(i, n)'
  BY DEF Located
<1> USE DEF LocatedInv, OrderInv, OrderParts
<1>1. /\ pc[h] \in Fresh
      /\ UNCHANGED <<wire, emitted, pending, todo, sent, disp, lost>>
  BY DEF AgentCreates, CallLoad, Fresh
<1>2. \E j \in Ids : id' = [id EXCEPT ![h] = j]
  BY Zenon DEF AgentCreates, CallLoad
<1>3. \A g \in Handles : g # h => id'[g] = id[g]
  BY <1>2 DEF RoutingInv, TypeOK
<1>4. todo[h] = <<>> /\ sent[h] = <<>>
  BY <1>1 DEF SessionOrder
<1>5. /\ OnWire(i, n)' <=> OnWire(i, n)
      /\ Buffered(i, n)' <=> Buffered(i, n)
      /\ Discarded(i, n)' <=> Discarded(i, n)
  BY <1>1 DEF OnWire, Buffered, Discarded
<1>6. InHand(i, n)' <=> InHand(i, n)
  <2>1. disp.at # "idle" => disp.h \in Handles /\ disp.h # h
    BY <1>1 DEF RoutingInv, TypeOK, DispOrder
  <2>2. QED
    BY <1>1, <1>3, <2>1 DEF InHand
<1>7. ASSUME NEW g \in Handles PROVE Owned(g, i, n)' <=> Owned(g, i, n)
  <2>1. CASE g = h
    BY <1>1, <1>4, <2>1 DEF Owned, Flushing, Received
  <2>2. CASE g # h
    BY <1>1, <1>3, <2>2 DEF Owned, Flushing, Received
  <2>3. QED
    BY <2>1, <2>2
<1>8. Exclusive(i, n) /\ Somewhere(i, n) /\ emitted'[i] = emitted[i]
  BY <1>1 DEF Located
<1> HIDE DEF LocatedInv
<1>9. QED
  BY <1>5, <1>6, <1>7, <1>8 DEF Exclusive, Somewhere

\* A new notification is on the wire and nowhere else.
LEMMA EmitPlaces ==
  ASSUME LocatedInv, NEW j \in Ids, AgentEmits(j)
  PROVE  Located'
<1> SUFFICES ASSUME NEW i \in Ids, NEW n \in Nat
             PROVE  Exclusive(i, n)' /\ Somewhere(i, n)'
  BY DEF Located
<1> DEFINE m == emitted[j] + 1
<1>1. TypeOK /\ Exclusive(i, n) /\ Somewhere(i, n)
  BY DEF LocatedInv, OrderInv, RoutingInv, Located
<1>2. /\ UNCHANGED <<pending, todo, sent, disp, id, lost>>
      /\ wire' = Append(wire, <<j, m>>)
      /\ emitted' = [emitted EXCEPT ![j] = m]
  BY DEF AgentEmits
<1>3. m \in Nat /\ wire \in Seq(Ids \X Nat) /\ <<j, m>> \in Ids \X Nat /\ emitted[i] \in Nat
  BY <1>1 DEF TypeOK
<1>4. emitted'[i] = IF i = j THEN m ELSE emitted[i]
  BY <1>1, <1>2 DEF TypeOK
<1>5. OnWire(i, n)' <=> OnWire(i, n) \/ (i = j /\ n = m)
  <2> DEFINE x == <<j, m>>
             e == <<i, n>>
             S == Ids \X Nat
  <2>1. x \in S /\ wire \in Seq(S) /\ wire' = Append(wire, x)
    BY <1>2, <1>3
  <2>2. (e = x <=> i = j /\ n = m)
    OBVIOUS
  <2> HIDE DEF x, e, S
  <2>3. (\E k \in DOMAIN Append(wire, x) : Append(wire, x)[k] = e)
          <=> (\E k \in DOMAIN wire : wire[k] = e) \/ e = x
    BY <2>1, AppendHas
  <2>4. QED
    BY <2>1, <2>2, <2>3 DEF OnWire, e
<1>6. /\ Buffered(i, n)' <=> Buffered(i, n)
      /\ Discarded(i, n)' <=> Discarded(i, n)
      /\ InHand(i, n)' <=> InHand(i, n)
      /\ \A h \in Handles : Owned(h, i, n)' <=> Owned(h, i, n)
  BY <1>2 DEF Buffered, Discarded, InHand, Owned, Flushing, Received
<1>7. QED
  BY <1>1, <1>3, <1>4, <1>5, <1>6 DEF Exclusive, Somewhere

\* registerSession hands the whole buffer over to the flush.
LEMMA RegisterPlaces ==
  ASSUME LocatedInv, NEW h \in Handles, Register(h)
  PROVE  Located'
<1> SUFFICES ASSUME NEW i \in Ids, NEW n \in Nat
             PROVE  Exclusive(i, n)' /\ Somewhere(i, n)'
  BY DEF Located
<1>1. TypeOK /\ Exclusive(i, n) /\ Somewhere(i, n)
  BY DEF LocatedInv, OrderInv, RoutingInv, Located
<1>2. pc[h] = "answered" /\ id[h] \in Ids
  BY DEF LocatedInv, OrderInv, RoutingInv, Support, Register
<1>3. todo[h] = <<>> /\ sent[h] = <<>>
  BY <1>2 DEF LocatedInv, OrderInv, OrderParts, SessionOrder, Fresh
<1>4. UNCHANGED <<wire, emitted, sent, disp, id, lost>>
  BY DEF Register
<1>5. /\ todo'[h] = pending[id[h]]
      /\ \A g \in Handles : g # h => todo'[g] = todo[g]
      /\ pending'[id[h]] = <<>>
      /\ i # id[h] => pending'[i] = pending[i]
  BY <1>1, <1>2 DEF Register, TypeOK
<1>6. /\ OnWire(i, n)' <=> OnWire(i, n)
      /\ Discarded(i, n)' <=> Discarded(i, n)
      /\ InHand(i, n)' <=> InHand(i, n)
  BY <1>4 DEF OnWire, Discarded, InHand
<1>7. Buffered(i, n)' <=> i # id[h] /\ Buffered(i, n)
  BY <1>5 DEF Buffered
<1>8. \A g \in Handles : g # h => (Owned(g, i, n)' <=> Owned(g, i, n))
  BY <1>4, <1>5 DEF Owned, Flushing, Received
<1>9. ~Owned(h, i, n) /\ (Owned(h, i, n)' <=> id[h] = i /\ Buffered(i, n))
  BY <1>3, <1>4, <1>5 DEF Owned, Flushing, Received, Buffered
<1>10. emitted'[i] = emitted[i]
  BY <1>4
<1>11. QED
  BY <1>1, <1>6, <1>7, <1>8, <1>9, <1>10 DEF Exclusive, Somewhere

\* routeSessionUpdate moves one notification off the wire: to the dispatcher's
\* hand, to the buffer, or away.
LEMMA RoutePlaces ==
  ASSUME LocatedInv, Route
  PROVE  Located'
<1> SUFFICES ASSUME NEW i \in Ids, NEW n \in Nat
             PROVE  Exclusive(i, n)' /\ Somewhere(i, n)'
  BY DEF Located
<1>1. TypeOK /\ Exclusive(i, n) /\ Somewhere(i, n) /\ WireOrder
  BY DEF LocatedInv, OrderInv, OrderParts, RoutingInv, Located
<1>2. wire \in Seq(Ids \X Nat) /\ wire # <<>> /\ wire' = Tail(wire)
  BY <1>1 DEF TypeOK, Route
<1>3. /\ 1 \in DOMAIN wire /\ Head(wire) = wire[1] /\ wire[1] \in Ids \X Nat
      /\ \A k \in DOMAIN wire' :
           k \in Nat \ {0} /\ k + 1 \in DOMAIN wire /\ wire'[k] = wire[k + 1]
  BY <1>2, TailShift
<1>4. PICK j \in Ids, m \in Nat : Head(wire) = <<j, m>>
  BY <1>3
<1>5. UNCHANGED <<emitted, todo, sent, id>> /\ disp.at = "idle"
  BY DEF Route
<1>6. \/ /\ sessions[j] # None
         /\ disp' = [at |-> "routed", h |-> sessions[j], n |-> m]
         /\ UNCHANGED <<pending, lost>>
      \/ /\ pending' = [pending EXCEPT ![j] = Append(@, m)]
         /\ UNCHANGED <<disp, lost>>
      \/ /\ lost' = lost \cup {<<j, m>>}
         /\ UNCHANGED <<pending, disp>>
  <2>1. Head(wire)[1] = j /\ Head(wire)[2] = m
    BY <1>4
  <2>2. QED
    BY <2>1 DEF Route
<1>7. /\ OnWire(i, n) <=> OnWire(i, n)' \/ (i = j /\ n = m)
      /\ i = j /\ n = m => ~OnWire(i, n)'
  <2> DEFINE e == <<i, n>>
             S == Ids \X Nat
  <2>1. wire \in Seq(S) /\ (e = Head(wire) <=> i = j /\ n = m)
    BY <1>2, <1>4
  <2> HIDE DEF e, S
  <2>2. (\E k \in DOMAIN wire : wire[k] = e)
          <=> (\E k \in DOMAIN Tail(wire) : Tail(wire)[k] = e) \/ e = Head(wire)
    BY <1>2, <2>1, TailHas
  <2>3. OnWire(i, n) <=> OnWire(i, n)' \/ (i = j /\ n = m)
    BY <1>2, <2>1, <2>2 DEF OnWire, e
  <2>4. ASSUME NEW k \in DOMAIN wire', wire'[k] = <<j, m>> PROVE FALSE
    <3>1. /\ k + 1 \in DOMAIN wire /\ 1 < k + 1
          /\ wire[k + 1] = <<j, m>> /\ wire[1] = <<j, m>>
      BY <1>3, <1>4, <2>4
    <3>2. wire[1][2] < wire[k + 1][2]
      BY <1>1, <1>3, <3>1 DEF WireOrder
    <3>3. QED
      BY <3>1, <3>2
  <2>5. QED
    BY <2>3, <2>4 DEF OnWire
<1>8. ~InHand(i, n) /\ emitted'[i] = emitted[i]
  BY <1>5 DEF InHand
<1>9. \A h \in Handles : Owned(h, i, n)' <=> Owned(h, i, n)
  BY <1>5 DEF Owned, Flushing, Received
<1>10. CASE /\ sessions[j] # None
            /\ disp' = [at |-> "routed", h |-> sessions[j], n |-> m]
            /\ UNCHANGED <<pending, lost>>
  <2>1. id[sessions[j]] = j
    BY <1>10 DEF LocatedInv, OrderInv, RoutingInv, RoutedIsOpen
  <2>2. InHand(i, n)' <=> i = j /\ n = m
    BY <1>5, <1>10, <2>1 DEF InHand
  <2>3. (Buffered(i, n)' <=> Buffered(i, n)) /\ (Discarded(i, n)' <=> Discarded(i, n))
    BY <1>10 DEF Buffered, Discarded
  <2>4. QED
    BY <1>1, <1>7, <1>8, <1>9, <2>2, <2>3 DEF Exclusive, Somewhere
<1>11. CASE /\ pending' = [pending EXCEPT ![j] = Append(@, m)]
            /\ UNCHANGED <<disp, lost>>
  <2>1. ~InHand(i, n)' /\ (Discarded(i, n)' <=> Discarded(i, n))
    BY <1>5, <1>11 DEF InHand, Discarded
  <2>2. Buffered(i, n)' <=> Buffered(i, n) \/ (i = j /\ n = m)
    <3>1. CASE i # j
      BY <1>1, <1>11, <3>1 DEF Buffered, TypeOK
    <3>2. CASE i = j
      <4> DEFINE s == pending[i]
                 S == Nat
      <4>1. s \in Seq(S) /\ m \in S /\ pending'[i] = Append(s, m)
        BY <1>1, <1>4, <1>11, <3>2 DEF TypeOK
      <4> HIDE DEF s, S
      <4>2. (\E k \in DOMAIN Append(s, m) : Append(s, m)[k] = n)
              <=> (\E k \in DOMAIN s : s[k] = n) \/ n = m
        BY <4>1, AppendHas
      <4>3. QED
        BY <3>2, <4>1, <4>2 DEF Buffered, s
    <3>3. QED
      BY <3>1, <3>2
  <2>3. QED
    BY <1>1, <1>7, <1>8, <1>9, <2>1, <2>2 DEF Exclusive, Somewhere
<1>12. CASE lost' = lost \cup {<<j, m>>} /\ UNCHANGED <<pending, disp>>
  <2>1. ~InHand(i, n)' /\ (Buffered(i, n)' <=> Buffered(i, n))
    BY <1>5, <1>12 DEF InHand, Buffered
  <2>2. Discarded(i, n)' <=> Discarded(i, n) \/ (i = j /\ n = m)
    BY <1>12 DEF Discarded
  <2>3. QED
    BY <1>1, <1>7, <1>8, <1>9, <2>1, <2>2 DEF Exclusive, Somewhere
<1>13. QED
  BY <1>6, <1>10, <1>11, <1>12

\* s.deliver's second section moves a notification into the channel or away.
LEMMA SendPlaces ==
  ASSUME TypeOK, NEW h \in Handles, NEW m \in Nat,
         NEW via \in {"dispatcher", "flush"}, DeliverSend(h, m, via)
  PROVE  \/ sent' = sent /\ lost' = lost \cup {<<id[h], m>>}
         \/ /\ lost' = lost
            /\ \A g \in Handles : g # h => sent'[g] = sent[g]
            /\ \A n : Received(h, n)' <=> Received(h, n) \/ n = m
<1> DEFINE Entry == [n : Nat, via : {"dispatcher", "flush"}]
           e == [n |-> m, via |-> via]
<1>1. \/ sent' = sent /\ lost' = lost \cup {<<id[h], m>>}
      \/ lost' = lost /\ sent' = [sent EXCEPT ![h] = Append(@, e)]
  BY Zenon DEF DeliverSend, ChanSend
<1>2. sent \in [Handles -> Seq(Entry)] /\ e \in Entry /\ e.n = m
  BY DEF TypeOK
<1> HIDE DEF Entry, e
<1>3. CASE lost' = lost /\ sent' = [sent EXCEPT ![h] = Append(@, e)]
  <2>1. sent[h] \in Seq(Entry) /\ sent'[h] = Append(sent[h], e)
    BY <1>2, <1>3
  <2>2. \A g \in Handles : g # h => sent'[g] = sent[g]
    BY <1>2, <1>3
  <2>3. \A k \in DOMAIN sent'[h] : \/ k \in DOMAIN sent[h] /\ sent'[h][k] = sent[h][k]
                                   \/ sent'[h][k] = e
    BY <1>2, <2>1, AppendEnd
  <2>4. /\ \A k \in DOMAIN sent[h] : k \in DOMAIN sent'[h] /\ sent'[h][k] = sent[h][k]
        /\ Len(sent[h]) + 1 \in DOMAIN sent'[h] /\ sent'[h][Len(sent[h]) + 1] = e
    BY <1>2, <2>1
  <2>5. ASSUME NEW n PROVE Received(h, n)' <=> Received(h, n) \/ n = m
    BY <1>2, <2>3, <2>4 DEF Received
  <2>6. QED
    BY <1>3, <2>2, <2>5
<1>4. QED
  BY <1>1, <1>3

\* The dispatcher goroutine's delivery.
LEMMA DispatchPlaces ==
  ASSUME LocatedInv, DispatchObserve \/ DispatchSend
  PROVE  Located'
<1> SUFFICES ASSUME NEW i \in Ids, NEW n \in Nat
             PROVE  Exclusive(i, n)' /\ Somewhere(i, n)'
  BY DEF Located
<1>1. TypeOK /\ Exclusive(i, n) /\ Somewhere(i, n)
  BY DEF LocatedInv, OrderInv, RoutingInv, Located
<1>2. disp.at # "idle" /\ disp.h \in Handles /\ disp.n \in Nat
  BY <1>1 DEF TypeOK, DispatchObserve, DispatchSend
<1>3. PICK h \in Handles, m \in Nat : h = disp.h /\ m = disp.n
  BY <1>2
<1>4. InHand(i, n) <=> id[h] = i /\ n = m
  BY <1>2, <1>3 DEF InHand
<1>5. UNCHANGED <<wire, emitted, pending, todo, id>>
  BY Zenon DEF DispatchObserve, DispatchSend
<1>6. /\ OnWire(i, n)' <=> OnWire(i, n)
      /\ Buffered(i, n)' <=> Buffered(i, n)
      /\ emitted'[i] = emitted[i]
  BY <1>5 DEF OnWire, Buffered
<1>7. CASE sent' = sent /\ lost' = lost /\ disp' = [disp EXCEPT !.at = "observed"]
  <2>1. InHand(i, n)' <=> InHand(i, n)
    BY <1>1, <1>2, <1>5, <1>7 DEF InHand, TypeOK
  <2>2. (Discarded(i, n)' <=> Discarded(i, n))
        /\ \A g \in Handles : Owned(g, i, n)' <=> Owned(g, i, n)
    BY <1>5, <1>7 DEF Discarded, Owned, Flushing, Received
  <2>3. QED
    BY <1>1, <1>6, <2>1, <2>2 DEF Exclusive, Somewhere
<1>8. CASE disp' = Idle /\ sent' = sent /\ lost' = lost \cup {<<id[h], m>>}
  <2>1. ~InHand(i, n)'
    BY <1>8 DEF InHand, Idle
  <2>2. \A g \in Handles : Owned(g, i, n)' <=> Owned(g, i, n)
    BY <1>5, <1>8 DEF Owned, Flushing, Received
  <2>3. Discarded(i, n)' <=> Discarded(i, n) \/ (id[h] = i /\ n = m)
    BY <1>8 DEF Discarded
  <2>4. QED
    BY <1>1, <1>4, <1>6, <2>1, <2>2, <2>3 DEF Exclusive, Somewhere
<1>9. CASE /\ disp' = Idle /\ lost' = lost
           /\ \A g \in Handles : g # h => sent'[g] = sent[g]
           /\ \A l : Received(h, l)' <=> Received(h, l) \/ l = m
  <2>1. ~InHand(i, n)' /\ (Discarded(i, n)' <=> Discarded(i, n))
    BY <1>9 DEF InHand, Idle, Discarded
  <2>2. \A g \in Handles : g # h => (Owned(g, i, n)' <=> Owned(g, i, n))
    BY <1>5, <1>9 DEF Owned, Flushing, Received
  <2>3. Owned(h, i, n)' <=> Owned(h, i, n) \/ (id[h] = i /\ n = m)
    <3>1. (Flushing(h, n)' <=> Flushing(h, n)) /\ id'[h] = id[h]
      BY <1>5 DEF Flushing
    <3>2. QED
      BY <1>9, <3>1 DEF Owned
  <2>4. QED
    BY <1>1, <1>4, <1>6, <2>1, <2>2, <2>3 DEF Exclusive, Somewhere
<1>10. CASE DispatchObserve
  <2>1. sent' = sent
    BY <1>10 DEF DispatchObserve
  <2>2. \/ disp' = Idle /\ lost' = lost \cup {<<id[h], m>>}
        \/ disp' = [disp EXCEPT !.at = "observed"] /\ lost' = lost
    BY <1>3, <1>10, Zenon DEF DispatchObserve
  <2>3. QED
    BY <1>7, <1>8, <2>1, <2>2
<1>11. CASE DispatchSend
  <2>1. DeliverSend(h, m, "dispatcher") /\ disp' = Idle
    BY <1>3, <1>11, Zenon DEF DispatchSend
  <2>2. QED
    BY <1>1, <1>8, <1>9, <2>1, SendPlaces
<1>12. QED
  BY <1>10, <1>11

\* The flush's delivery.
LEMMA FlushPlaces ==
  ASSUME LocatedInv, NEW h \in Handles, FlushObserve(h) \/ FlushSend(h)
  PROVE  Located'
<1> SUFFICES ASSUME NEW i \in Ids, NEW n \in Nat
             PROVE  Exclusive(i, n)' /\ Somewhere(i, n)'
  BY DEF Located
<1>1. TypeOK /\ Exclusive(i, n) /\ Somewhere(i, n) /\ FlushOrder
  BY DEF LocatedInv, OrderInv, OrderParts, RoutingInv, Located
<1>2. todo \in [Handles -> Seq(Nat)] /\ todo[h] \in Seq(Nat) /\ todo[h] # <<>>
  BY <1>1 DEF TypeOK, FlushObserve, FlushSend, LocatedInv, OrderInv, RoutingInv, Support
<1>3. /\ 1 \in DOMAIN todo[h] /\ Head(todo[h]) = todo[h][1] /\ todo[h][1] \in Nat
      /\ \A k \in DOMAIN Tail(todo[h]) :
           /\ k \in Nat \ {0} /\ k + 1 \in DOMAIN todo[h]
           /\ Tail(todo[h])[k] = todo[h][k + 1]
  BY <1>2, TailShift
<1>4. PICK m \in Nat : m = todo[h][1]
  BY <1>3
<1>5. UNCHANGED <<wire, emitted, pending, disp, id>>
  BY Zenon DEF FlushObserve, FlushSend
<1>6. /\ OnWire(i, n)' <=> OnWire(i, n)
      /\ Buffered(i, n)' <=> Buffered(i, n)
      /\ InHand(i, n)' <=> InHand(i, n)
      /\ emitted'[i] = emitted[i]
  BY <1>5 DEF OnWire, Buffered, InHand
<1>7. ASSUME todo' = [todo EXCEPT ![h] = Tail(@)]
      PROVE  /\ \A g \in Handles : g # h => todo'[g] = todo[g]
             /\ Flushing(h, n) <=> Flushing(h, n)' \/ n = m
             /\ ~Flushing(h, m)' /\ ~Received(h, m)
  <2>1. todo'[h] = Tail(todo[h]) /\ \A g \in Handles : g # h => todo'[g] = todo[g]
    BY <1>2, <1>7
  <2>2. (\E k \in DOMAIN todo[h] : todo[h][k] = n)
          <=> (\E k \in DOMAIN Tail(todo[h]) : Tail(todo[h])[k] = n) \/ n = Head(todo[h])
    BY <1>2, TailHas, Zenon
  <2>3. Flushing(h, n) <=> Flushing(h, n)' \/ n = m
    BY <1>3, <1>4, <2>1, <2>2, Zenon DEF Flushing
  <2>4. \A k \in DOMAIN Tail(todo[h]) : m < Tail(todo[h])[k]
    BY <1>1, <1>3, <1>4 DEF FlushOrder
  <2>5. ~Flushing(h, m)'
    BY <2>1, <2>4 DEF Flushing
  <2>6. ~Received(h, m)
    BY <1>1, <1>3, <1>4 DEF FlushOrder, Received
  <2>7. QED
    BY <2>1, <2>3, <2>5, <2>6
<1>8. CASE sent' = sent /\ todo' = todo /\ lost' = lost
  <2>1. (Discarded(i, n)' <=> Discarded(i, n))
        /\ \A g \in Handles : Owned(g, i, n)' <=> Owned(g, i, n)
    BY <1>5, <1>8 DEF Discarded, Owned, Flushing, Received
  <2>2. QED
    BY <1>1, <1>6, <2>1 DEF Exclusive, Somewhere
<1>9. CASE /\ todo' = [todo EXCEPT ![h] = Tail(@)]
           /\ sent' = sent /\ lost' = lost \cup {<<id[h], m>>}
  <2>1. \A g \in Handles : g # h => (Owned(g, i, n)' <=> Owned(g, i, n))
    BY <1>5, <1>7, <1>9 DEF Owned, Flushing, Received
  <2>2. (Received(h, n)' <=> Received(h, n)) /\ id'[h] = id[h]
    BY <1>5, <1>9 DEF Received
  <2>3. /\ Owned(h, i, n) <=> Owned(h, i, n)' \/ (id[h] = i /\ n = m)
        /\ id[h] = i /\ n = m => ~Owned(h, i, n)'
    BY <1>7, <1>9, <2>2 DEF Owned
  <2>4. Discarded(i, n)' <=> Discarded(i, n) \/ (id[h] = i /\ n = m)
    BY <1>9 DEF Discarded
  <2>5. QED
    BY <1>1, <1>6, <2>1, <2>3, <2>4 DEF Exclusive, Somewhere
<1>10. CASE /\ todo' = [todo EXCEPT ![h] = Tail(@)] /\ lost' = lost
            /\ \A g \in Handles : g # h => sent'[g] = sent[g]
            /\ \A l : Received(h, l)' <=> Received(h, l) \/ l = m
  <2>1. \A g \in Handles : g # h => (Owned(g, i, n)' <=> Owned(g, i, n))
    BY <1>5, <1>7, <1>10 DEF Owned, Flushing, Received
  <2>2. id'[h] = id[h]
    BY <1>5
  <2>3. Owned(h, i, n)' <=> Owned(h, i, n)
    BY <1>7, <1>10, <2>2 DEF Owned
  <2>4. Discarded(i, n)' <=> Discarded(i, n)
    BY <1>10 DEF Discarded
  <2>5. QED
    BY <1>1, <1>6, <2>1, <2>3, <2>4 DEF Exclusive, Somewhere
<1>11. CASE FlushObserve(h)
  <2>1. sent' = sent
    BY <1>11 DEF FlushObserve
  <2>2. \/ todo' = [todo EXCEPT ![h] = Tail(@)] /\ lost' = lost \cup {<<id[h], m>>}
        \/ UNCHANGED <<todo, lost>>
    BY <1>3, <1>4, <1>11, Zenon DEF FlushObserve
  <2>3. QED
    BY <1>8, <1>9, <2>1, <2>2
<1>12. CASE FlushSend(h)
  <2>1. DeliverSend(h, m, "flush") /\ todo' = [todo EXCEPT ![h] = Tail(@)]
    BY <1>3, <1>4, <1>12, Zenon DEF FlushSend
  <2>2. QED
    BY <1>1, <1>9, <1>10, <2>1, SendPlaces
<1>13. QED
  BY <1>11, <1>12

\* Every step keeps every notification in exactly one place.
LEMMA LocatedInvariant == Spec => []LocatedInv
<1>1. Init => LocatedInv
  <2> SUFFICES ASSUME Init PROVE Located
    BY OrderInvInit DEF LocatedInv
  <2> SUFFICES ASSUME NEW i \in Ids, NEW n \in Nat
               PROVE  Exclusive(i, n) /\ Somewhere(i, n)
    BY DEF Located
  <2>1. ~OnWire(i, n) /\ ~Buffered(i, n) /\ ~InHand(i, n) /\ ~Discarded(i, n)
    BY DEF Init, OnWire, Buffered, InHand, Discarded, Idle
  <2>2. \A h \in Handles : ~Owned(h, i, n)
    BY DEF Init, Owned, Flushing, Received
  <2>3. ~(1 <= n /\ n <= emitted[i])
    BY DEF Init
  <2>4. QED
    BY <2>1, <2>2, <2>3 DEF Exclusive, Somewhere
<1>2. LocatedInv /\ [Next]_vars => Located'
  <2> SUFFICES ASSUME LocatedInv, [Next]_vars PROVE Located'
    OBVIOUS
  <2>1. RoutingInv
    BY DEF LocatedInv, OrderInv
  <2>2. QED
    BY <2>1, MoveSteps, QuietPlaces, NamedPlaces, EmitPlaces, RegisterPlaces,
       RoutePlaces, DispatchPlaces, FlushPlaces, Zenon DEF Dispatch
<1>3. OrderInv' /\ LocatedInv /\ [Next]_vars => LocatedInv'
  BY <1>2 DEF LocatedInv
<1>4. QED
  BY <1>1, <1>3, OrderInvariant, PTL DEF Spec

\* Positions add nothing: the order invariant leaves one at most in each place.
LEMMA OnePosition ==
  ASSUME LocatedInv, NEW i \in Ids, NEW n \in Nat, 1 <= n, n <= emitted[i]
  PROVE  \E x : Places(i, n) = {x}
<1> DEFINE W == {k \in DOMAIN wire : wire[k] = <<i, n>>}
           B == {k \in DOMAIN pending[i] : pending[i][k] = n}
           D == {x \in {disp} : x.at # "idle" /\ id[x.h] = i /\ x.n = n}
           L == lost \cap {<<i, n>>}
           H == {h \in Handles : id[h] = i}
           S == UNION {SessionPlaces(h, n) : h \in H}
<1>1. Places(i, n) = WirePlaces(i, n) \cup PendingPlaces(i, n)
                       \cup DispPlaces(i, n) \cup LostPlaces(i, n) \cup S
  BY Zenon DEF Places
<1>2. /\ ~OnWire(i, n) => WirePlaces(i, n) = {}
      /\ ~Buffered(i, n) => PendingPlaces(i, n) = {}
      /\ ~InHand(i, n) => DispPlaces(i, n) = {}
      /\ ~Discarded(i, n) => LostPlaces(i, n) = {}
  BY DEF OnWire, Buffered, InHand, Discarded, WirePlaces, PendingPlaces,
         DispPlaces, LostPlaces
<1>3. ASSUME NEW h \in Handles, ~Flushing(h, n), ~Received(h, n)
      PROVE  SessionPlaces(h, n) = {}
  BY <1>3 DEF Flushing, Received, SessionPlaces
<1>4. (\A h \in Handles : ~Owned(h, i, n)) => S = {}
  BY <1>3 DEF Owned
<1>5. TypeOK /\ WireOrder /\ BufferOrder /\ FlushOrder /\ OnlyFlushIsOvertaken
  BY DEF LocatedInv, OrderInv, OrderParts, RoutingInv
<1>6. Exclusive(i, n) /\ Somewhere(i, n)
  BY DEF LocatedInv, Located
<1> HIDE DEF S
<1>7. CASE OnWire(i, n)
  <2>1. PICK k : k \in W
    BY <1>7 DEF OnWire
  <2>2. \A l \in W : l = k
    BY <1>5, <2>1, Elements DEF WireOrder
  <2>3. W = {k}
    BY <2>1, <2>2, Zenon
  <2>4. WirePlaces(i, n) = {<<"wire", l>> : l \in W}
    BY Zenon DEF WirePlaces
  <2> HIDE DEF W
  <2>5. WirePlaces(i, n) = {<<"wire", k>>}
    BY <2>3, <2>4
  <2>6. QED
    BY <1>1, <1>2, <1>4, <1>6, <1>7, <2>5 DEF Exclusive
<1>8. CASE Buffered(i, n)
  <2>1. PICK k : k \in B
    BY <1>8 DEF Buffered
  <2>2. \A l \in B : l = k
    BY <1>5, <2>1, Elements DEF BufferOrder
  <2>3. B = {k}
    BY <2>1, <2>2, Zenon
  <2>4. PendingPlaces(i, n) = {<<"pending", l>> : l \in B}
    BY Zenon DEF PendingPlaces
  <2> HIDE DEF B
  <2>5. PendingPlaces(i, n) = {<<"pending", k>>}
    BY <2>3, <2>4
  <2>6. QED
    BY <1>1, <1>2, <1>4, <1>6, <1>8, <2>5 DEF Exclusive
<1>9. CASE InHand(i, n)
  <2>1. D = {disp}
    BY <1>9 DEF InHand
  <2>2. DispPlaces(i, n) = {<<"disp", x>> : x \in D}
    BY DEF DispPlaces
  <2> HIDE DEF D
  <2>3. DispPlaces(i, n) = {<<"disp", disp>>}
    BY <2>1, <2>2
  <2>4. QED
    BY <1>1, <1>2, <1>4, <1>6, <1>9, <2>3 DEF Exclusive
<1>10. CASE Discarded(i, n)
  <2>1. L = {<<i, n>>}
    BY <1>10 DEF Discarded
  <2>2. LostPlaces(i, n) = {<<"lost", x>> : x \in L}
    BY Zenon DEF LostPlaces
  <2> HIDE DEF L
  <2>3. LostPlaces(i, n) = {<<"lost", <<i, n>>>>}
    BY <2>1, <2>2
  <2>4. QED
    BY <1>1, <1>2, <1>4, <1>6, <1>10, <2>3 DEF Exclusive
<1>11. ASSUME NEW h \in Handles, Owned(h, i, n) PROVE \E x : Places(i, n) = {x}
  <2> DEFINE F == {k \in DOMAIN todo[h] : todo[h][k] = n}
             C == {k \in DOMAIN sent[h] : sent[h][k].n = n}
  <2>1. h \in H /\ \A g \in H : g # h => SessionPlaces(g, n) = {}
    BY <1>3, <1>6, <1>11 DEF Exclusive, Owned
  <2> HIDE DEF H
  <2>2. S = SessionPlaces(h, n)
    BY <2>1 DEF S
  <2>3. /\ SessionPlaces(h, n) = {<<"flush", h, k>> : k \in F} \cup {<<"chan", h, k>> : k \in C}
    BY DEF SessionPlaces
  <2>4. /\ \A k, l \in F : k = l
        /\ \A k \in F, l \in C : FALSE
    BY <1>5, Elements DEF FlushOrder
  <2>5. \A k, l \in C : k = l
    BY <1>5, Elements DEF OnlyFlushIsOvertaken
  <2>6. F # {} \/ C # {}
    BY <1>11 DEF Owned, Flushing, Received
  <2> HIDE DEF F, C
  <2>7. \E x : SessionPlaces(h, n) = {x}
    <3>1. CASE F # {}
      <4>1. PICK k : k \in F
        BY <3>1
      <4>2. F = {k} /\ C = {}
        BY <2>4, <4>1
      <4>3. /\ {<<"flush", h, l>> : l \in F} = {<<"flush", h, k>>}
            /\ {<<"chan", h, l>> : l \in C} = {}
        BY <4>2
      <4>4. SessionPlaces(h, n) = {<<"flush", h, k>>}
        BY <2>3, <4>3, Zenon
      <4>5. QED
        BY <4>4
    <3>2. CASE F = {} /\ C # {}
      <4>1. PICK k : k \in C
        BY <3>2
      <4>2. C = {k}
        BY <2>5, <4>1
      <4>3. /\ {<<"flush", h, l>> : l \in F} = {}
            /\ {<<"chan", h, l>> : l \in C} = {<<"chan", h, k>>}
        BY <3>2, <4>2
      <4>4. SessionPlaces(h, n) = {<<"chan", h, k>>}
        BY <2>3, <4>3, Zenon
      <4>5. QED
        BY <4>4
    <3>3. QED
      BY <2>6, <3>1, <3>2
  <2>8. QED
    BY <1>1, <1>2, <1>6, <1>11, <2>2, <2>7 DEF Exclusive
<1>12. QED
  BY <1>6, <1>7, <1>8, <1>9, <1>10, <1>11 DEF Somewhere

\* client_impl.go, session_impl.go: however registration, flush, rollback,
\* sweeps and the dispatcher interleave, every session/update notification the
\* agent emitted is in exactly one place: none is delivered to two channels or
\* twice to one, and none vanishes where the code does not discard it.
THEOREM NotificationsConserved == Spec => []Conservation
<1>1. LocatedInv => Conservation
  <2> SUFFICES ASSUME LocatedInv, NEW i \in Ids, NEW n \in 1..emitted[i]
               PROVE  Cardinality(Places(i, n)) = 1
    BY DEF Conservation
  <2>1. emitted[i] \in Nat
    BY DEF LocatedInv, OrderInv, RoutingInv, TypeOK
  <2>2. n \in Nat /\ 1 <= n /\ n <= emitted[i]
    BY <2>1
  <2>3. PICK x : Places(i, n) = {x}
    BY <2>2, OnePosition
  <2>4. QED
    BY <2>3, FS_Singleton
<1>2. QED
  BY <1>1, LocatedInvariant, PTL

-----------------------------------------------------------------------------
(* Part two: the client.                                                   *)

\* Every step of the client is a step of the routing specification, or leaves
\* the routing state alone.
LEMMA RoutingSimulation == [ClientNext]_clientVars => [Next]_vars
<1> SUFFICES ASSUME [ClientNext]_clientVars PROVE [Next]_vars
  OBVIOUS
<1> USE DEF Next
<1>1. CASE StartBridgeFails \/ StartTransportFails \/ StartSucceeds \/ ProcExits
  BY <1>1, Zenon DEF StartBridgeFails, StartTransportFails, StartSucceeds, ProcExits
<1>2. CASE Watch
  <2>1. CASE WatchSweeps
    BY <2>1, Zenon DEF WatchSweeps
  <2>2. CASE ~WatchSweeps
    BY <1>2, <2>2, Zenon DEF Watch, WatchChecks, WatchDegrades, WatchMarks
  <2>3. QED
    BY <2>1, <2>2
<1>3. ASSUME NEW k \in Closers, CloseMarks(k) \/ CloseContinues(k) PROVE [Next]_vars
  <2>1. CASE CloseSweeps(k)
    BY <2>1, Zenon DEF CloseSweeps
  <2>2. CASE CloseHooks(k)
    BY <2>2 DEF CloseHooks
  <2>3. CASE CloseMarks(k) \/ CloseProc(k) \/ CloseBridge(k)
    BY <2>3, Zenon DEF CloseMarks, CloseProc, CloseBridge
  <2>4. QED
    BY <1>3, <2>1, <2>2, <2>3 DEF CloseContinues
<1>4. ASSUME NEW h \in Handles,
             \/ SessionCall(h) \/ CallContinues(h) \/ ConfigStep(h)
             \/ CallFails(h) \/ ConsumeStep(h)
      PROVE  [Next]_vars
  BY <1>4, Zenon DEF SessionCall, CallContinues, ConfigStep, CallFails,
     ConsumeStep, HandleStep
<1>5. CASE AgentStep
  BY <1>5, Zenon DEF AgentStep, HandleStep
<1>6. CASE DispatchStep
  BY <1>6 DEF DispatchStep
<1>7. CASE UNCHANGED clientVars
  BY <1>7 DEF clientVars
<1>8. QED
  BY <1>1, <1>2, <1>3, <1>4, <1>5, <1>6, <1>7, Zenon DEF ClientNext

\* The client uses the routing table, the buffer and the sessions only through
\* the operations of SessionRouting.
THEOREM ClientImplementsRouting == ClientSpec => ImplementsRouting
<1>1. ClientInit => Init
  BY DEF ClientInit
<1>2. QED
  BY <1>1, RoutingSimulation, PTL DEF ClientSpec, Spec, ImplementsRouting

\* Inside the client, too, no channel operation panics.
THEOREM ClientNeverPanics == ClientSpec => []NoPanic
  BY ClientImplementsRouting, NeverPanics, PTL DEF ImplementsRouting

\* Nor does the client, with its Close calls and its crash watcher, leave a route to
\* a closed session, take a route from its only session, strand, lose or duplicate
\* a notification, or deliver out of order beyond what a flush allows.
THEOREM ClientRoutesSoundly ==
  ClientSpec => [](TableConsistent /\ SoleHandleStaysRouted /\ Conservation /\ OnlyFlushIsOvertaken)
  BY ClientImplementsRouting, TableStaysConsistent, RoutesAreKept, NotificationsConserved,
     DeliveryOrder, PTL DEF ImplementsRouting

-----------------------------------------------------------------------------
(* The lifecycle.                                                          *)

\* What the code's order of events leaves behind: there is a subprocess only
\* after a successful Start; tearing down, and an exit counted as intended,
\* follow c.closed; the watcher goes on only after an exit that preceded
\* c.closed; the transport is closed before the bridge.
Lifecycle ==
  /\ proc # "none" => started
  /\ \A k \in Closers : cpc[k] \in TearingDown => closed
  /\ exitAfterClose => closed
  /\ watch \in {"crashed", "degraded", "swept"} \/ degraded \/ transportErr
       => proc = "exited" /\ ~exitAfterClose
  /\ \A k \in Closers : cpc[k] \in {"stopped", "done"} => proc # "up"
  /\ bridge # 0 /\ bridge \notin bridgesUp => closed /\ proc # "up"

LifecycleTypeOK ==
  /\ started \in BOOLEAN /\ closed \in BOOLEAN
  /\ transportErr \in BOOLEAN /\ degraded \in BOOLEAN
  /\ failures \in Nat
  /\ proc \in {"none", "up", "exited", "stuck"}
  /\ starts \in Nat /\ bridge \in Nat /\ bridgesUp \subseteq Nat
  /\ watch \in {"off", "waiting", "crashed", "degraded", "swept", "done"}
  /\ cpc \in [Closers -> TearingDown \cup {"idle", "noop"}]
  /\ exitAfterClose \in BOOLEAN

LifecycleInv == LifecycleTypeOK /\ Lifecycle /\ OneTeardown

\* The client starts with nothing running.
LEMMA LifecycleInit == ClientInit => LifecycleInv
<1> SUFFICES ASSUME ClientInit PROVE LifecycleInv
  OBVIOUS
<1>1. LifecycleTypeOK
  BY DEF ClientInit, LifecycleTypeOK, TearingDown
<1>2. Lifecycle
  BY DEF ClientInit, Lifecycle, TearingDown
<1>3. OneTeardown
  BY DEF ClientInit, OneTeardown, TearingDown
<1>4. QED
  BY <1>1, <1>2, <1>3 DEF LifecycleInv

\* Every step of the client preserves the lifecycle invariant.
LEMMA LifecycleStep == LifecycleInv /\ [ClientNext]_clientVars => LifecycleInv'
<1> SUFFICES ASSUME LifecycleInv, [ClientNext]_clientVars PROVE LifecycleInv'
  OBVIOUS
<1> USE DEF LifecycleInv, LifecycleTypeOK, Lifecycle, OneTeardown, TearingDown
<1>1. CASE StartBridgeFails
  BY <1>1 DEF StartBridgeFails, StartBegins
<1>2. CASE StartTransportFails
  BY <1>2 DEF StartTransportFails, StartBegins, BridgeStarts
<1>3. CASE StartSucceeds
  BY <1>3 DEF StartSucceeds, StartBegins, BridgeStarts
<1>4. CASE ProcExits
  BY <1>4 DEF ProcExits
<1>5. CASE WatchChecks
  BY <1>5 DEF WatchChecks
<1>6. CASE WatchDegrades
  BY <1>6 DEF WatchDegrades
<1>7. CASE WatchSweeps
  BY <1>7 DEF WatchSweeps
<1>8. CASE WatchMarks
  BY <1>8 DEF WatchMarks
<1>9. ASSUME NEW k \in Closers, CloseMarks(k) PROVE LifecycleInv'
  BY <1>9 DEF CloseMarks
<1>10. ASSUME NEW k \in Closers, CloseSweeps(k) PROVE LifecycleInv'
  BY <1>10 DEF CloseSweeps
<1>11. ASSUME NEW k \in Closers, CloseHooks(k) PROVE LifecycleInv'
  BY <1>11 DEF CloseHooks
<1>12. ASSUME NEW k \in Closers, CloseProc(k) PROVE LifecycleInv'
  BY <1>12 DEF CloseProc
<1>13. ASSUME NEW k \in Closers, CloseBridge(k) PROVE LifecycleInv'
  BY <1>13 DEF CloseBridge
<1>14. CASE UNCHANGED lifecycleVars
  BY <1>14 DEF lifecycleVars
<1>15. QED
  <2>1. CASE UNCHANGED clientVars
    BY <1>14, <2>1 DEF clientVars
  <2>2. CASE ClientNext
    BY <1>1, <1>2, <1>3, <1>4, <1>5, <1>6, <1>7, <1>8, <1>9, <1>10, <1>11,
       <1>12, <1>13, <1>14, <2>2, Zenon
    DEF ClientNext, Watch, CloseContinues, SessionCall, CallContinues,
        ConfigStep, CallFails, ConsumeStep, AgentStep, DispatchStep
  <2>3. QED
    BY <2>1, <2>2

\* The lifecycle invariant holds in every state of every behaviour.
LEMMA LifecycleInvariant == ClientSpec => []LifecycleInv
  BY LifecycleInit, LifecycleStep, PTL DEF ClientSpec

\* The whole state of the client is well typed at every moment.
THEOREM ClientTypeCorrect == ClientSpec => []ClientTypeOK
<1>1. TypeOK /\ LifecycleInv => ClientTypeOK
  BY DEF ClientTypeOK, LifecycleInv, LifecycleTypeOK
<1>2. QED
  BY <1>1, ClientImplementsRouting, TypeCorrect, LifecycleInvariant, PTL
  DEF ImplementsRouting

\* watchSubprocess never takes an exit that Close brought about, or that came
\* after c.closed was set, for a crash.
THEOREM CloseIsNotACrash == ClientSpec => []IntentionalCloseNotCrash
<1>1. LifecycleInv => IntentionalCloseNotCrash
  BY DEF LifecycleInv, Lifecycle, IntentionalCloseNotCrash
<1>2. QED
  BY <1>1, LifecycleInvariant, PTL

\* Among any number of concurrent Close calls one at most runs the teardown.
THEOREM TeardownIsExclusive == ClientSpec => []OneTeardown
<1>1. LifecycleInv => OneTeardown
  BY DEF LifecycleInv
<1>2. QED
  BY <1>1, LifecycleInvariant, PTL

\* The bridge is shut down only when the subprocess is gone or given up on.
THEOREM BridgeClosesLast == ClientSpec => []BridgeOutlivesProc
<1>1. LifecycleInv => BridgeOutlivesProc
  BY DEF LifecycleInv, Lifecycle, BridgeOutlivesProc
<1>2. QED
  BY <1>1, LifecycleInvariant, PTL

-----------------------------------------------------------------------------
(* HookEventSessionEnd.                                                    *)

\* Where Close stands once it has fired the hooks.
Hooked == {"hooked", "stopped", "done"}

\* Who fired the hook, and what was done before: a session whose end is, or is
\* about to be, announced has its channel closed; only a Close call that has
\* swept holds ids; a call that did not fail was announced by Close alone.
HookOrder ==
  /\ \A h \in Handles : ended[h] > 0 \/ h \in ids \/ pc[h] = "closed" => shut[h]
  /\ ids # {} => \E k \in Closers : cpc[k] = "swept"
  /\ \A h \in Handles : pc[h] # "failed" =>
       /\ ended[h] <= 1
       /\ ended[h] > 0 => \E k \in Closers : cpc[k] \in Hooked

HookInv == RoutingInv /\ LifecycleInv /\ HookOrder

\* A closed channel stays closed.
LEMMA ShutStays ==
  ASSUME RoutingInv, [Next]_vars, NEW h \in Handles, shut[h]
  PROVE  shut'[h]
<1> USE DEF RoutingInv, TypeOK
<1>1. ASSUME NEW g \in Handles, TeardownClose(g) PROVE shut'[h]
  BY <1>1 DEF TeardownClose, CloseAll, ChanClose
<1>2. ASSUME NEW d \in BOOLEAN, Sweep(d) PROVE shut'[h]
  BY <1>2 DEF Sweep, CloseAll, ChanClose
<1>3. QED
  BY <1>1, <1>2, CloseSteps

\* A failed call stays failed, and a rollback is past close only through close.
LEMMA EndSteps ==
  ASSUME RoutingInv, [Next]_vars, NEW g \in Handles
  PROVE  /\ pc[g] = "failed" => pc'[g] = "failed"
         /\ pc'[g] = "closed" => pc[g] = "closed" \/ TeardownClose(g)
<1> USE DEF RoutingInv, TypeOK, Pcs
<1> DEFINE Goal == /\ pc[g] = "failed" => pc'[g] = "failed"
                   /\ pc'[g] = "closed" => pc[g] = "closed" \/ TeardownClose(g)
<1>1. ASSUME NEW h \in Handles, HandleStep(h) PROVE Goal
  <2>1. CASE Register(h) \/ Consume(h) \/ FlushObserve(h) \/ FlushSend(h)
    BY <2>1 DEF Register, Consume, FlushObserve, FlushSend, callVars
  <2>2. CASE TeardownClose(h)
    BY <2>2 DEF TeardownClose
  <2>3. CASE FlushDone(h)
    BY <2>3 DEF FlushDone
  <2>4. CASE \/ LoadReturns(h) \/ ConfigReturns(h) \/ AgentLoads(h) \/ CallNew(h)
             \/ (\E i \in Ids : CallLoad(h, i)) \/ AgentCreates(h)
             \/ RpcFails(h) \/ ConfigFails(h) \/ Deregister(h) \/ TeardownHook(h)
    <3>1. /\ pc[h] # "failed"
          /\ \E l \in Pcs \ {"closed"} : pc' = [pc EXCEPT ![h] = l]
      BY <2>4, Zenon DEF CallNew, CallLoad, AgentCreates, AgentLoads, RpcFails,
         ConfigFails, ConfigReturns, LoadReturns, Deregister, TeardownHook
    <3>2. QED
      BY <3>1
  <2>5. QED
    BY <1>1, <2>1, <2>2, <2>3, <2>4, Zenon DEF HandleStep
<1>2. ASSUME NEW i \in Ids, AgentEmits(i) PROVE UNCHANGED pc
  BY <1>2 DEF AgentEmits, callVars
<1>3. ASSUME NEW d \in BOOLEAN, Sweep(d) PROVE UNCHANGED pc
  BY <1>3 DEF Sweep, callVars
<1>4. CASE Dispatch \/ EndHooks \/ UNCHANGED vars
  BY <1>4, Zenon DEF Dispatch, Route, DispatchObserve, DispatchSend, EndHooks,
     vars, callVars
<1>5. QED
  BY <1>1, <1>2, <1>3, <1>4, Zenon DEF Next

\* Besides Close, only a rollback announces an end, and only Close moves on
\* itself.
LEMMA HookSteps ==
  ASSUME [ClientNext]_clientVars
  PROVE  \/ UNCHANGED <<ended, ids, cpc>>
         \/ UNCHANGED cpc /\ \E h \in Handles : TeardownHook(h)
         \/ /\ UNCHANGED <<ended, ids>>
            /\ \E k \in Closers : CloseMarks(k) \/ CloseProc(k) \/ CloseBridge(k)
         \/ \E k \in Closers : CloseSweeps(k) \/ CloseHooks(k)
<1>1. CASE StartBridgeFails \/ StartTransportFails \/ StartSucceeds \/ ProcExits
  BY <1>1, Zenon DEF StartBridgeFails, StartTransportFails, StartSucceeds,
     ProcExits, vars
<1>2. CASE Watch
  <2>1. CASE WatchSweeps
    BY <2>1 DEF WatchSweeps, Sweep
  <2>2. CASE ~WatchSweeps
    BY <1>2, <2>2, Zenon DEF Watch, WatchChecks, WatchDegrades, WatchMarks, vars
  <2>3. QED
    BY <2>1, <2>2
<1>3. ASSUME NEW k \in Closers, CloseMarks(k) \/ CloseProc(k) \/ CloseBridge(k)
      PROVE  UNCHANGED <<ended, ids>>
  BY <1>3, Zenon DEF CloseMarks, CloseProc, CloseBridge, vars
<1>4. ASSUME NEW h \in Handles, CallContinues(h)
      PROVE  UNCHANGED cpc /\ (TeardownHook(h) \/ UNCHANGED <<ended, ids>>)
  BY <1>4, Zenon DEF CallContinues, Register, FlushObserve, FlushSend,
     FlushDone, LoadReturns, Deregister, TeardownClose, lifecycleVars, hookVars,
     exceptPc
<1>5. ASSUME NEW h \in Handles,
             SessionCall(h) \/ ConfigStep(h) \/ CallFails(h) \/ ConsumeStep(h)
      PROVE  UNCHANGED <<ended, ids, cpc>>
  BY <1>5, Zenon DEF SessionCall, ConfigStep, CallFails, ConsumeStep, CallNew,
     CallLoad, ConfigReturns, ConfigFails, RpcFails, Consume, lifecycleVars,
     hookVars, exceptPc
<1>6. CASE AgentStep \/ DispatchStep
  BY <1>6, Zenon DEF AgentStep, DispatchStep, AgentCreates, AgentLoads, AgentEmits,
     Dispatch, Route, DispatchObserve, DispatchSend, lifecycleVars, hookVars
<1>7. CASE UNCHANGED clientVars
  BY <1>7, Zenon DEF clientVars, vars, lifecycleVars
<1>8. QED
  BY <1>1, <1>2, <1>3, <1>4, <1>5, <1>6, <1>7, Zenon DEF ClientNext, CloseContinues

\* The order of the announcements is kept.
LEMMA HookStep == HookInv /\ [ClientNext]_clientVars => HookOrder'
<1> SUFFICES ASSUME HookInv, [ClientNext]_clientVars PROVE HookOrder'
  OBVIOUS
<1>1. RoutingInv /\ [Next]_vars
  BY RoutingSimulation DEF HookInv
<1>2. \A h \in Handles : shut[h] => shut'[h]
  BY <1>1, ShutStays
<1>3. \A h \in Handles : /\ pc'[h] # "failed" => pc[h] # "failed"
                         /\ pc'[h] = "closed" => pc[h] = "closed" \/ TeardownClose(h)
  BY <1>1, EndSteps
<1>4. \A h \in Handles : pc'[h] = "closed" => shut'[h]
  <2> SUFFICES ASSUME NEW h \in Handles, TeardownClose(h) PROVE shut'[h]
    BY <1>2, <1>3 DEF HookInv, HookOrder
  <2> QED
    BY <1>1 DEF TeardownClose, CloseAll, ChanClose, RoutingInv, TypeOK
<1>5. /\ ended \in [Handles -> Nat] /\ ids \subseteq Handles
      /\ cpc \in [Closers -> TearingDown \cup {"idle", "noop"}]
      /\ OneTeardown
  BY DEF HookInv, RoutingInv, TypeOK, LifecycleInv, LifecycleTypeOK
<1>6. CASE UNCHANGED <<ended, ids, cpc>>
  BY <1>2, <1>3, <1>4, <1>6 DEF HookInv, HookOrder
<1>7. ASSUME UNCHANGED cpc, NEW h \in Handles, TeardownHook(h) PROVE HookOrder'
  <2>1. /\ pc[h] = "closed" /\ ids' = ids
        /\ ended' = [ended EXCEPT ![h] = @ + 1]
        /\ pc' = [pc EXCEPT ![h] = "failed"]
    BY <1>7 DEF TeardownHook
  <2>2. pc'[h] = "failed" /\ shut'[h]
    BY <1>1, <1>2, <2>1 DEF HookInv, HookOrder, RoutingInv, TypeOK
  <2>3. \A g \in Handles : g # h => ended'[g] = ended[g]
    BY <1>5, <2>1
  <2>4. QED
    BY <1>2, <1>3, <1>4, <1>7, <2>1, <2>2, <2>3 DEF HookInv, HookOrder
<1>8. ASSUME UNCHANGED <<ended, ids>>,
             NEW k \in Closers, CloseMarks(k) \/ CloseProc(k) \/ CloseBridge(k)
      PROVE  HookOrder'
  <2>1. /\ cpc[k] # "swept"
        /\ cpc[k] \in Hooked => cpc'[k] \in Hooked
        /\ \A l \in Closers : l # k => cpc'[l] = cpc[l]
    BY <1>5, <1>8 DEF CloseMarks, CloseProc, CloseBridge, Hooked
  <2>2. ids' # {} => \E l \in Closers : cpc'[l] = "swept"
    BY <1>8, <2>1 DEF HookInv, HookOrder
  <2>3. (\E l \in Closers : cpc[l] \in Hooked) => \E l \in Closers : cpc'[l] \in Hooked
    BY <2>1
  <2>4. QED
    BY <1>2, <1>3, <1>4, <1>8, <2>2, <2>3 DEF HookInv, HookOrder
<1>9. ASSUME NEW k \in Closers, CloseSweeps(k) PROVE HookOrder'
  <2>1. /\ cpc[k] = "marked" /\ cpc'[k] = "swept"
        /\ \A l \in Closers : l # k => cpc'[l] = cpc[l]
        /\ ended' = ended /\ ids' = ids \cup Routed
        /\ Routed \subseteq Handles /\ \A h \in Routed : shut'[h]
    <3>1. Routed \subseteq Handles
      BY <1>1 DEF Routed, RoutingInv, TypeOK
    <3>2. /\ cpc' = [cpc EXCEPT ![k] = "swept"] /\ cpc[k] = "marked"
          /\ ended' = ended /\ ids' = ids \cup Routed
          /\ shut' = [h \in Handles |-> shut[h] \/ h \in {g \in Routed : ~shut[g]}]
      BY <1>9, Zenon DEF CloseSweeps, Sweep, CloseAll, ChanClose
    <3> HIDE DEF Routed
    <3>3. \A h \in Routed : shut'[h]
      BY <3>1, <3>2
    <3>4. QED
      BY <1>5, <3>1, <3>2, <3>3
  <2>2. (\E l \in Closers : cpc[l] \in Hooked) => \E l \in Closers : cpc'[l] \in Hooked
    BY <2>1 DEF Hooked
  <2>3. \A h \in Handles : h \in ids' => shut'[h]
    BY <1>2, <2>1 DEF HookInv, HookOrder
  <2>4. QED
    BY <1>2, <1>3, <1>4, <2>1, <2>2, <2>3 DEF HookInv, HookOrder
<1>10. ASSUME NEW k \in Closers, CloseHooks(k) PROVE HookOrder'
  <2>1. /\ cpc[k] = "swept" /\ cpc'[k] = "hooked"
        /\ ids' = {}
        /\ ended' = [h \in Handles |-> IF h \in ids THEN ended[h] + 1 ELSE ended[h]]
    BY <1>5, <1>10 DEF CloseHooks, EndHooks
  <2>2. \A l \in Closers : cpc[l] \notin Hooked
    BY <1>5, <2>1 DEF OneTeardown, TearingDown, Hooked
  <2>3. cpc'[k] \in Hooked
    BY <2>1 DEF Hooked
  <2>4. \A h \in Handles : pc'[h] # "failed" => ended[h] = 0
    BY <1>3, <1>5, <2>2 DEF HookInv, HookOrder
  <2>5. \A h \in Handles : ended'[h] > 0 => ended[h] > 0 \/ h \in ids
    BY <2>1
  <2>6. \A h \in Handles : ended[h] = 0 => ended'[h] <= 1
    BY <2>1
  <2>7. QED
    BY <1>2, <1>4, <2>1, <2>3, <2>4, <2>5, <2>6 DEF HookInv, HookOrder
<1>11. QED
  BY <1>6, <1>7, <1>8, <1>9, <1>10, HookSteps

\* The invariant of the announcements holds in every state.
LEMMA HookInvariant == ClientSpec => []HookInv
<1>1. ClientInit => HookInv
  <2>1. ClientInit => HookOrder
    BY DEF ClientInit, Init, HookOrder
  <2>2. QED
    BY <2>1, LifecycleInit, InitEstablishes DEF ClientInit, HookInv
<1>2. HookInv /\ [ClientNext]_clientVars => HookInv'
  <2>1. RoutingInv /\ [Next]_vars => RoutingInv'
    BY TypeStep, SupportStep, PanicStep, RoutedStep, StrandedStep DEF RoutingInv
  <2>2. QED
    BY <2>1, RoutingSimulation, LifecycleStep, HookStep DEF HookInv
<1>3. QED
  BY <1>1, <1>2, PTL DEF ClientSpec

\* teardownSession and Close: however a failing session call, the Close calls
\* and the crash watcher race, HookEventSessionEnd comes after the Updates()
\* channel is closed, and no session the application was given ends twice.
THEOREM EndIsAnnouncedOnce == ClientSpec => []EndHookSound
<1>1. HookInv => EndHookSound
  BY DEF HookInv, HookOrder, EndHookSound
<1>2. QED
  BY <1>1, HookInvariant, PTL

=============================================================================
