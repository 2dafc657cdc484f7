-------------------------- MODULE PromptTurn_proofs --------------------------
(* What holds of Prompt, its watchers and Cancel for any number of calls.   *)
EXTENDS PromptTurn, TLAPS, SequenceTheorems

USE DEF cancelVars, agentVars, slotVars, watchVars, Empty

\* Before the first call the state has its shape.
LEMMA InitTypes == Init => TypeOK
<1>1. <<>> \in Seq(Message)
  BY EmptySeq
<1>2. SUFFICES ASSUME Init PROVE TypeOK
  OBVIOUS
<1>3. surfaced \in [Prompts -> Slot] /\ payload \in Slot /\ calls \in Nat /\ captures \in Nat
  BY <1>2 DEF Init, Slot
<1>4. QED
  BY <1>1, <1>2, <1>3 DEF Init, TypeOK

\* Writing a message keeps the queue to the agent a sequence of messages.
LEMMA QueueType ==
  ASSUME NEW q \in Seq(Message), NEW m \in Message
  PROVE  /\ Append(q, m) \in Seq(Message)
         /\ q # <<>> => Head(q) \in Message /\ Tail(q) \in Seq(Message)
BY HeadTailProperties, AppendProperties

\* So does a cancel notification, written or lost.
LEMMA CancelQueued ==
  ASSUME toAgent \in Seq(Message), SendCancel
  PROVE  toAgent' \in Seq(Message)
<1>1. <<"cancel", NoTurn>> \in Message
  BY DEF Message
<1>2. QED
  BY <1>1, QueueType DEF SendCancel

\* Every step keeps the shape of the state.
LEMMA TypeStep == TypeOK /\ [Next]_vars => TypeOK'
<1> SUFFICES ASSUME TypeOK, [Next]_vars PROVE TypeOK'
  OBVIOUS
<1> USE DEF TypeOK, Slot
<1>1. CASE UNCHANGED vars
  BY <1>1 DEF vars
<1>2. ASSUME NEW p \in Prompts, PromptRejected(p) PROVE TypeOK'
  BY <1>2 DEF PromptRejected, MayStart
<1>3. ASSUME NEW p \in Prompts, PromptResets(p) PROVE TypeOK'
  BY <1>3 DEF PromptResets, MayStart
<1>4. ASSUME NEW p \in Prompts, PromptSends(p) PROVE TypeOK'
  <2>1. <<"prompt", p>> \in Message
    BY DEF Message
  <2> QED BY <1>4, <2>1, QueueType DEF PromptSends
<1>5. ASSUME NEW p \in Prompts, Classify(p) PROVE TypeOK'
  BY <1>5 DEF Classify, WrapACPErrCtx
<1>6. ASSUME NEW p \in Prompts, Drain(p) PROVE TypeOK'
  BY <1>6 DEF Drain
<1>7. ASSUME NEW p \in Prompts, PromptReturns(p) PROVE TypeOK'
  BY <1>7 DEF PromptReturns
<1>8. ASSUME NEW p \in Prompts, RpcReturns(p) PROVE TypeOK'
  <2>1. PICK e \in {"other", ctx[p], reply[p]} \ {"live", "none"} :
          err' = [err EXCEPT ![p] = e]
    BY <1>8 DEF RpcReturns
  <2>2. e \in {"nil", "other", "aborted", "canceled", "deadline"}
    BY <2>1
  <2> QED BY <1>8, <2>1, <2>2 DEF RpcReturns
<1>9. ASSUME NEW p \in Prompts, WatchQuits(p) PROVE TypeOK'
  BY <1>9 DEF WatchQuits
<1>10. ASSUME NEW p \in Prompts, WatchFlags(p) PROVE TypeOK'
  BY <1>10 DEF WatchFlags, Flag
<1>11. ASSUME NEW p \in Prompts, WatchSends(p) PROVE TypeOK'
  <2>1. toAgent' \in Seq(Message)
    BY <1>11, CancelQueued DEF WatchSends
  <2> QED BY <1>11, <2>1 DEF WatchSends
<1>12. ASSUME NEW p \in Prompts, CtxEnds(p) PROVE TypeOK'
  BY <1>12 DEF CtxEnds
<1>13. ASSUME NEW p \in Prompts, AgentAnswers(p) PROVE TypeOK'
  <2>1. reply' \in [Prompts -> {"none", "nil", "other", "aborted"}]
    BY <1>13 DEF AgentAnswers
  <2> QED BY <1>13, <2>1 DEF AgentAnswers
<1>14. ASSUME NEW p \in Prompts, Store(p) PROVE TypeOK'
  BY <1>14 DEF Store
<1>15. ASSUME NEW c \in Cancels, CancelFlags(c) PROVE TypeOK'
  BY <1>15 DEF CancelFlags, Flag
<1>16. ASSUME NEW c \in Cancels, CancelSends(c) PROVE TypeOK'
  <2>1. toAgent' \in Seq(Message)
    BY <1>16, CancelQueued DEF CancelSends
  <2> QED BY <1>16, <2>1 DEF CancelSends
<1>17. CASE AgentReceives
  <2>1. Head(toAgent) \in Message /\ toAgent' \in Seq(Message)
    BY <1>17, QueueType DEF AgentReceives
  <2>2. running' \subseteq Prompts /\ stopping' \subseteq Prompts
    BY <1>17, <2>1, NamesAssumption DEF AgentReceives, Message
  <2> QED BY <1>17, <2>1, <2>2 DEF AgentReceives
<1> QED BY <1>1, <1>2, <1>3, <1>4, <1>5, <1>6, <1>7, <1>8, <1>9, <1>10, <1>11,
           <1>12, <1>13, <1>14, <1>15, <1>16, <1>17
        DEF Next, PromptContinues, Watch

\* The state of Prompt calls and messages has its shape in every behaviour.
THEOREM TurnTypeCorrect == Spec => []TypeOK
BY InitTypes, TypeStep, PTL DEF Spec

\* The strengthening: the flag is never up without a setter on record for every
\* call that will still read it, and nothing is decided before the answer.
FlagHasSetter ==
  /\ \A p \in Prompts :
       cancelIntended /\ ppc[p] \in {"reset", "waiting", "returned"} => flaggers[p] # {}
  /\ \A p \in Prompts :
       result[p] # "none" => ppc[p] \in {"completing", "done"}

CauseInv == TypeOK /\ FlagHasSetter /\ CancelledHasCause

\* Every step keeps the record of setters.
LEMMA CauseStep == CauseInv /\ [Next]_vars => (FlagHasSetter /\ CancelledHasCause)'
<1> SUFFICES ASSUME CauseInv, [Next]_vars
             PROVE  FlagHasSetter' /\ CancelledHasCause'
  OBVIOUS
<1> USE DEF CauseInv, TypeOK, FlagHasSetter, CancelledHasCause, ShowsCancel
<1>1. ASSUME NEW p \in Prompts, PromptResets(p)
      PROVE  FlagHasSetter' /\ CancelledHasCause'
  BY <1>1 DEF PromptResets, MayStart
<1>2. ASSUME NEW p \in Prompts, Classify(p)
      PROVE  FlagHasSetter' /\ CancelledHasCause'
  BY <1>2 DEF Classify, WrapACPErrCtx
<1>3. ASSUME NEW p \in Prompts, Drain(p)
      PROVE  FlagHasSetter' /\ CancelledHasCause'
  BY <1>3 DEF Drain
<1>4. ASSUME NEW p \in Prompts, RpcReturns(p)
      PROVE  FlagHasSetter' /\ CancelledHasCause'
  BY <1>4 DEF RpcReturns
<1>5. ASSUME NEW p \in Prompts, WatchFlags(p)
      PROVE  FlagHasSetter' /\ CancelledHasCause'
  BY <1>5 DEF WatchFlags, Flag
<1>6. ASSUME NEW c \in Cancels, CancelFlags(c)
      PROVE  FlagHasSetter' /\ CancelledHasCause'
  BY <1>6 DEF CancelFlags, Flag
<1>7. ASSUME NEW p \in Prompts,
             PromptRejected(p) \/ PromptSends(p) \/ PromptReturns(p)
      PROVE  FlagHasSetter' /\ CancelledHasCause'
  BY <1>7 DEF PromptRejected, PromptSends, PromptReturns, MayStart
<1>8. CASE \/ UNCHANGED vars \/ AgentReceives
           \/ \E p \in Prompts : \/ WatchQuits(p) \/ WatchSends(p) \/ CtxEnds(p)
                                 \/ AgentAnswers(p) \/ Store(p)
           \/ \E c \in Cancels : CancelSends(c)
  <2>1. UNCHANGED <<cancelIntended, flaggers, result, ppc, err>>
    BY <1>8, Zenon DEF vars, AgentReceives, WatchQuits, WatchSends, CtxEnds,
                       AgentAnswers, Store, CancelSends
  <2>2. QED
    BY <2>1
<1>9. QED
  BY <1>1, <1>2, <1>3, <1>4, <1>5, <1>6, <1>7, <1>8
  DEF Next, PromptContinues, Watch

\* ErrCancelled always has a cause: the error itself, or somebody who set the
\* flag after this Prompt reset it.
THEOREM CancelledIsCaused == Spec => []CancelledHasCause
<1>1. Init => CauseInv
  BY InitTypes DEF Init, CauseInv, FlagHasSetter, CancelledHasCause
<1>2. CauseInv /\ [Next]_vars => CauseInv'
  BY TypeStep, CauseStep DEF CauseInv
<1>3. CauseInv => CancelledHasCause
  BY DEF CauseInv
<1>4. QED
  BY <1>1, <1>2, <1>3, PTL DEF Spec

\* The strengthening: capture numbers are fresh, and what is in the slot has
\* not surfaced yet.
SlotIsFresh ==
  /\ payload.n <= captures
  /\ \A p \in Prompts : surfaced[p].n <= captures
  /\ \A p \in Prompts : surfaced[p].n # 0 => surfaced[p].n # payload.n
  /\ \A p \in Prompts : surfaced[p] # Empty => ppc[p] \in {"completing", "done"}

SlotInv == TypeOK /\ SlotIsFresh /\ PayloadOnce

\* Storing and draining keep the slot fresh; nothing else touches it.
LEMMA SlotStep == SlotInv /\ [Next]_vars => (SlotIsFresh /\ PayloadOnce)'
<1> SUFFICES ASSUME SlotInv, [Next]_vars PROVE SlotIsFresh' /\ PayloadOnce'
  OBVIOUS
<1> USE DEF SlotInv, TypeOK, SlotIsFresh, PayloadOnce, Slot
<1>1. ASSUME NEW p \in Prompts, Drain(p) PROVE SlotIsFresh' /\ PayloadOnce'
  BY <1>1 DEF Drain
<1>2. ASSUME NEW p \in Prompts, Store(p) PROVE SlotIsFresh' /\ PayloadOnce'
  BY <1>2 DEF Store
<1>3. ASSUME NEW p \in Prompts,
             \/ PromptRejected(p) \/ PromptResets(p) \/ PromptSends(p)
             \/ PromptReturns(p) \/ RpcReturns(p) \/ Classify(p)
      PROVE  SlotIsFresh' /\ PayloadOnce'
  <2>1. UNCHANGED slotVars
    BY <1>3, Zenon DEF PromptRejected, PromptResets, PromptSends, PromptReturns,
                       RpcReturns, Classify
  <2>2. \A q \in Prompts : ppc[q] \in {"completing", "done"}
                            => ppc'[q] \in {"completing", "done"}
    BY <1>3 DEF PromptRejected, PromptResets, PromptSends, PromptReturns,
                RpcReturns, Classify, MayStart
  <2>3. QED
    BY <2>1, <2>2
<1>4. CASE \/ UNCHANGED vars \/ AgentReceives
           \/ \E p \in Prompts : \/ Watch(p) \/ CtxEnds(p) \/ AgentAnswers(p)
           \/ \E c \in Cancels : CancelFlags(c) \/ CancelSends(c)
  <2>1. UNCHANGED <<slotVars, ppc>>
    BY <1>4, Zenon DEF vars, AgentReceives, Watch, WatchQuits, WatchFlags,
                       WatchSends, CtxEnds, AgentAnswers, CancelFlags, CancelSends
  <2>2. QED
    BY <2>1
<1>5. QED
  BY <1>1, <1>2, <1>3, <1>4 DEF Next, PromptContinues

\* No captured payload is returned by two Prompts, however they overlap.
THEOREM PayloadSurfacesOnce == Spec => []PayloadOnce
<1>1. Init => SlotInv
  BY InitTypes DEF Init, SlotInv, SlotIsFresh, PayloadOnce
<1>2. SlotInv /\ [Next]_vars => SlotInv'
  BY TypeStep, SlotStep DEF SlotInv
<1>3. SlotInv => PayloadOnce
  BY DEF SlotInv
<1>4. QED
  BY <1>1, <1>2, <1>3, PTL DEF Spec

-----------------------------------------------------------------------------
(* A session used one Prompt at a time.                                    *)

Reading == {"reset", "waiting", "returned"}

\* The strengthening: one call at most is under way, a cancel on record for a
\* call that will still read the flag has the flag up, and nothing is decided
\* before the answer.
OneReader ==
  /\ \A p, q \in Prompts : ppc[p] \notin Over /\ ppc[q] \notin Over => p = q
  /\ \A p \in Prompts : ppc[p] \in Reading /\ flaggers[p] # {} => cancelIntended
  /\ \A p \in Prompts : result[p] # "none" => ppc[p] \in {"completing", "done"}

ReportInv == TypeOK /\ OneReader /\ CancelIsReported

\* No step of a session used that way takes a cancel back.
LEMMA ReportStep ==
  ASSUME ~Overlap, ReportInv, [Next]_vars
  PROVE  OneReader' /\ CancelIsReported'
<1> USE DEF ReportInv, TypeOK, OneReader, CancelIsReported, Over, Reading
<1>1. ASSUME NEW p \in Prompts, PromptRejected(p) \/ PromptResets(p)
      PROVE  OneReader' /\ CancelIsReported'
  BY <1>1 DEF PromptRejected, PromptResets, MayStart
<1>2. ASSUME NEW p \in Prompts, Classify(p)
      PROVE  OneReader' /\ CancelIsReported'
  <2>1. /\ ppc[p] = "returned" /\ ppc' = [ppc EXCEPT ![p] = "completing"]
        /\ flaggers' = flaggers
    BY <1>2, Zenon DEF Classify
  <2>2. \A q \in Prompts : q # p => ppc[q] \in {"idle", "rejected", "done"}
    BY <2>1
  <2>3. flaggers[p] # {} => cancelIntended
    BY <2>1
  <2>4. PICK r : /\ result' = [result EXCEPT ![p] = r]
                 /\ cancelIntended => r = "cancelled"
    BY <1>2, Zenon DEF Classify
  <2>5. result'[p] = r /\ \A q \in Prompts : q # p => result'[q] = result[q]
    BY <2>4
  <2>6. ppc'[p] = "completing" /\ \A q \in Prompts : q # p => ppc'[q] = ppc[q]
    BY <2>1
  <2>7. CancelIsReported'
    BY <2>1, <2>3, <2>4, <2>5
  <2>8. OneReader'
    BY <2>1, <2>2, <2>5, <2>6
  <2>9. QED
    BY <2>7, <2>8
<1>3. ASSUME NEW p \in Prompts, Drain(p)
      PROVE  OneReader' /\ CancelIsReported'
  BY <1>3 DEF Drain
<1>4. ASSUME NEW p \in Prompts, RpcReturns(p) \/ PromptSends(p) \/ PromptReturns(p)
      PROVE  OneReader' /\ CancelIsReported'
  <2>1. UNCHANGED <<cancelIntended, flaggers, result>>
    BY <1>4, Zenon DEF RpcReturns, PromptSends, PromptReturns
  <2>2. \/ ppc[p] = "waiting" /\ ppc' = [ppc EXCEPT ![p] = "returned"]
        \/ ppc[p] = "reset" /\ ppc' = [ppc EXCEPT ![p] = "waiting"]
        \/ ppc[p] = "completing" /\ ppc' = [ppc EXCEPT ![p] = "done"]
    BY <1>4, Zenon DEF RpcReturns, PromptSends, PromptReturns
  <2>3. \A q \in Prompts : ppc'[q] \notin Over => ppc[q] \notin Over
    BY <2>2
  <2>4. \A q \in Prompts : ppc'[q] \in Reading => ppc[q] \in Reading
    BY <2>2
  <2>5. \A q \in Prompts : ppc[q] \in {"completing", "done"}
                             => ppc'[q] \in {"completing", "done"}
    BY <2>2
  <2>6. QED
    BY <2>1, <2>3, <2>4, <2>5
<1>5. ASSUME NEW p \in Prompts, WatchFlags(p)
      PROVE  OneReader' /\ CancelIsReported'
  BY <1>5 DEF WatchFlags, Flag
<1>6. ASSUME NEW c \in Cancels, CancelFlags(c)
      PROVE  OneReader' /\ CancelIsReported'
  BY <1>6 DEF CancelFlags, Flag
<1>7. CASE \/ UNCHANGED vars \/ AgentReceives
           \/ \E p \in Prompts : \/ WatchQuits(p) \/ WatchSends(p) \/ CtxEnds(p)
                                 \/ AgentAnswers(p) \/ Store(p)
           \/ \E c \in Cancels : CancelSends(c)
  <2>1. UNCHANGED <<cancelIntended, flaggers, result, ppc>>
    BY <1>7, Zenon DEF vars, AgentReceives, WatchQuits, WatchSends, CtxEnds,
                       AgentAnswers, Store, CancelSends
  <2>2. QED
    BY <2>1
<1>8. QED
  BY <1>1, <1>2, <1>3, <1>4, <1>5, <1>6, <1>7 DEF Next, PromptContinues, Watch

\* session_impl.go: while Prompts do not overlap, a Prompt that fails after
\* somebody asked for its cancellation reports ErrCancelled, however many
\* watchers of earlier calls and Cancel calls are about.
THEOREM CancelsAreReported == ASSUME ~Overlap PROVE Spec => []CancelIsReported
<1>1. Init => ReportInv
  BY InitTypes DEF Init, ReportInv, OneReader, CancelIsReported, Over, Reading
<1>2. ReportInv /\ [Next]_vars => ReportInv'
  BY TypeStep, ReportStep DEF ReportInv
<1>3. ReportInv => CancelIsReported
  BY DEF ReportInv
<1>4. QED
  BY <1>1, <1>2, <1>3, PTL DEF Spec

=============================================================================
