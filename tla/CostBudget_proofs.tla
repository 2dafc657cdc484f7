------------------------- MODULE CostBudget_proofs --------------------------
(***************************************************************************)
(* For any number of sessions, saves and crashes: a session that reported  *)
(* usage over the budget is not left running, the totals are sums of what  *)
(* was observed, and SaveSessionCost leaves a whole file unless two saves  *)
(* of one session overlapped.                                              *)
(***************************************************************************)
EXTENDS CostBudget, FiniteSetTheorems, WellFoundedInduction, TLAPS

USE DEF vars, agentVars, diskVars

-----------------------------------------------------------------------------
(* The shape of the state.                                                 *)

\* A call that is over has the shape of a call.
LEMMA EndedShape == \A how \in {"idle", "saved", "failed", "died"} : Ended(how) \in SaveCalls
  BY DEF Ended, SaveCalls, NoRecord, Records

\* The initial state has its shape.
LEMMA TypeInit == Init => TypeOK
<1> SUFFICES ASSUME Init PROVE TypeOK
  OBVIOUS
<1>1. NoSave \in SaveCalls
  BY EndedShape DEF NoSave
<1>2. /\ tracker \in [Sessions -> Records \cup {None}]
      /\ currency \in [Sessions -> {"USD", "EUR"}] /\ spent \in [Sessions -> Nat]
      /\ prompt \in [Sessions -> {"idle", "running", "stopping"}]
  BY BillingsAssumption DEF Init
<1>3. /\ content \in [Savers -> Records \cup {Torn, Empty}]
      /\ name \in [Sessions -> [file : Savers \cup {None}, tmp : Savers \cup {None}]]
  BY DEF Init
<1>4. saver \in [Savers -> SaveCalls]
  BY <1>1 DEF Init
<1>5. \A k \in Savers : ~Busy(k)
  BY DEF Init, Busy, NoSave, Ended
<1>6. QED
  BY <1>2, <1>3, <1>4, <1>5 DEF TypeOK

\* Recording a report gives a record.
LEMMA RecordShape == ASSUME TypeOK, NEW s \in Sessions PROVE Record(s) \in Records
  BY DEF TypeOK, Record, NoRecord, Records

\* Every step keeps the shape.
LEMMA TypeStep == TypeOK /\ [Next]_vars => TypeOK'
<1> SUFFICES ASSUME TypeOK, [Next]_vars PROVE TypeOK'
  OBVIOUS
<1>1. CASE UNCHANGED vars
  BY <1>1 DEF TypeOK, Busy
<1>2. ASSUME NEW s \in Sessions, UsageUpdate(s) PROVE TypeOK'
  <2>1. spent' \in [Sessions -> Nat]
    BY <1>2 DEF UsageUpdate, TypeOK
  <2>2. tracker' \in [Sessions -> Records \cup {None}]
    <3>1. PICK w \in BOOLEAN : tracker' = RecordUsage(s, w)
      BY <1>2 DEF UsageUpdate
    <3>2. [Record(s) EXCEPT !.cost = spent'[s], !.cur = currency[s]] \in Records
      BY <2>1, RecordShape DEF Records, TypeOK
    <3>3. QED
      BY <3>1, <3>2, RecordShape DEF RecordUsage, TypeOK
  <2>3. prompt' \in [Sessions -> {"idle", "running", "stopping"}]
    BY <1>2 DEF UsageUpdate, TypeOK
  <2>4. UNCHANGED <<currency, name, content, saver>>
    BY <1>2 DEF UsageUpdate
  <2>5. QED
    BY <2>1, <2>2, <2>3, <2>4 DEF TypeOK, Busy
<1>3. ASSUME NEW s \in Sessions, PromptStarts(s) \/ PromptEnds(s) PROVE TypeOK'
  BY <1>3 DEF PromptStarts, PromptEnds, TypeOK, Busy
<1>4. ASSUME NEW s \in Sessions, Observe(s) PROVE TypeOK'
  <2>1. PICK u \in 1..MaxUsage : tracker' = [tracker EXCEPT ![s] = ObserveResult(s, u)]
    BY <1>4 DEF Observe
  <2>2. ObserveResult(s, u) \in Records
    <3>1. u \in Nat /\ Record(s) \in Records
      BY RecordShape, BoundAssumption
    <3>2. QED
      BY <3>1 DEF ObserveResult, Records
  <2>3. QED
    BY <1>4, <2>1, <2>2 DEF Observe, TypeOK, Busy
<1>5. ASSUME NEW s \in Sessions, Load(s) PROVE TypeOK'
  <2>1. OnDisk(s) \in Records
    BY <1>5 DEF Load, OnDisk, TypeOK
  <2>2. QED
    BY <1>5, <2>1 DEF Load, TypeOK, Busy
<1>6. ASSUME NEW s \in Sessions, DeleteSessionCost(s) PROVE TypeOK'
  BY <1>6 DEF DeleteSessionCost, TypeOK, Busy
<1>7. ASSUME NEW k \in Savers, NEW s \in Sessions, SaveOpens(k, s) PROVE TypeOK'
  <2> DEFINE i == IF name[s].tmp = None THEN k ELSE name[s].tmp
  <2>1. i \in Savers
    BY DEF TypeOK
  <2>2. /\ name' = [name EXCEPT ![s].tmp = i]
        /\ content' = [content EXCEPT ![i] = Empty]
        /\ saver' = [saver EXCEPT ![k] = [at |-> "opened", s |-> s,
                                          snap |-> tracker[s], ino |-> i]]
        /\ tracker[s] \in Records
        /\ UNCHANGED <<tracker, currency, spent, prompt>>
    BY <1>7 DEF SaveOpens, TypeOK
  <2> HIDE DEF i
  <2>3. QED
    BY <2>1, <2>2 DEF TypeOK, Busy, SaveCalls
<1>8. ASSUME NEW k \in Savers, SaveWrites(k) PROVE TypeOK'
  BY <1>8 DEF SaveWrites, TypeOK, Busy, SaveCalls
<1>9. ASSUME NEW k \in Savers, SaveRenames(k) PROVE TypeOK'
  <2> DEFINE s == saver[k].s
  <2>1. s \in Sessions
    BY <1>9 DEF SaveRenames, TypeOK, Busy
  <2>2. /\ name' = name \/ name' = [name EXCEPT ![s] = [file |-> name[s].tmp, tmp |-> None]]
        /\ \E how \in {"saved", "failed"} : saver' = [saver EXCEPT ![k] = Ended(how)]
        /\ UNCHANGED <<tracker, currency, spent, prompt, content>>
    <3>1. CASE name[s].tmp # None
      BY <1>9, <3>1 DEF SaveRenames
    <3>2. CASE name[s].tmp = None
      BY <1>9, <3>2 DEF SaveRenames
    <3>3. QED
      BY <3>1, <3>2
  <2> HIDE DEF s
  <2>3. name' \in [Sessions -> [file : Savers \cup {None}, tmp : Savers \cup {None}]]
    BY <2>1, <2>2 DEF TypeOK
  <2>4. PICK how \in {"saved", "failed"} : saver' = [saver EXCEPT ![k] = Ended(how)]
    BY <2>2
  <2>5. Ended(how) \in SaveCalls /\ Ended(how).at = how
    BY EndedShape DEF Ended
  <2>6. saver' \in [Savers -> SaveCalls]
    BY <2>4, <2>5 DEF TypeOK
  <2>7. \A j \in Savers : Busy(j)' => saver'[j] = saver[j] /\ Busy(j)
    BY <2>4, <2>5 DEF TypeOK, Busy
  <2>8. QED
    BY <2>2, <2>3, <2>6, <2>7 DEF TypeOK
<1>10. CASE Crash
  BY <1>10 DEF Crash, TypeOK, Busy, NoSave, Ended, NoRecord, Records, SaveCalls
<1>11. QED
  BY <1>1, <1>2, <1>3, <1>4, <1>5, <1>6, <1>7, <1>8, <1>9, <1>10, NamesAssumption DEF Next

-----------------------------------------------------------------------------
(* The budget.                                                             *)

\* A prompt that is not running has no overdue report.
Watching ==
  /\ overdue \subseteq Sessions
  /\ \A s \in Sessions : s \in overdue => prompt[s] # "idle"
  /\ AutoCancel => \A s \in overdue : prompt[s] # "running"

\* Every step keeps an overdue session from running on.
LEMMA WatchingStep == TypeOK /\ Watching /\ [Next]_vars => Watching'
<1> SUFFICES ASSUME TypeOK, Watching, [Next]_vars PROVE Watching'
  OBVIOUS
<1>1. CASE UNCHANGED <<overdue, prompt>>
  BY <1>1 DEF Watching
<1>2. ASSUME NEW s \in Sessions, UsageUpdate(s) PROVE Watching'
  <2>1. /\ overdue' = IF Exceeded(tracker') /\ prompt[s] # "idle" THEN overdue \cup {s}
                                                                ELSE overdue \ {s}
        /\ prompt' = IF (AutoCancel /\ Exceeded(tracker')) /\ prompt[s] = "running"
                     THEN [prompt EXCEPT ![s] = "stopping"] ELSE prompt
    BY <1>2 DEF UsageUpdate, CancelNow
  <2>2. prompt \in [Sessions -> {"idle", "running", "stopping"}]
    BY DEF TypeOK
  <2>3. CASE Exceeded(tracker')
    BY <2>1, <2>2, <2>3 DEF Watching
  <2>4. CASE ~Exceeded(tracker')
    BY <2>1, <2>2, <2>4 DEF Watching
  <2>5. QED
    BY <2>3, <2>4
<1>3. ASSUME NEW s \in Sessions, PromptStarts(s) PROVE Watching'
  BY <1>3 DEF PromptStarts, Watching, TypeOK
<1>4. ASSUME NEW s \in Sessions, PromptEnds(s) PROVE Watching'
  BY <1>4 DEF PromptEnds, Watching, TypeOK
<1>5. CASE Crash
  BY <1>5 DEF Crash, Watching
<1>6. QED
  BY <1>1, <1>2, <1>3, <1>4, <1>5, NamesAssumption
  DEF Next, Observe, Load, DeleteSessionCost, SaveOpens, SaveWrites, SaveRenames

\* attachBudgetTracker: for any number of sessions, a prompt whose usage report
\* found the budget exceeded is not left running.
THEOREM OverBudgetStops == Spec => []BudgetStops
<1>1. Init => Watching
  BY DEF Init, Watching
<1>2. Watching => BudgetStops
  BY DEF Watching, BudgetStops
<1>3. QED
  BY TypeInit, TypeStep, WatchingStep, <1>1, <1>2, PTL DEF Spec

-----------------------------------------------------------------------------
(* The files.                                                              *)

\* Who may hold an inode: a name of one session at most, and savers of that
\* session only; the inode of a saver that has not begun is nobody's.
Names ==
  /\ \A s, t \in Sessions : name[s].file # None => name[s].file # name[t].tmp
  /\ \A s, t \in Sessions : name[s].file # None /\ name[s].file = name[t].file => s = t
  /\ \A s, t \in Sessions : name[s].tmp # None /\ name[s].tmp = name[t].tmp => s = t
  /\ \A k \in Savers, s \in Sessions :
       Busy(k) /\ s # saver[k].s => saver[k].ino \notin {name[s].file, name[s].tmp}
  /\ \A k \in Savers : saver[k].at = "idle" =>
       /\ \A s \in Sessions : k \notin {name[s].file, name[s].tmp}
       /\ \A j \in Savers : Busy(j) => saver[j].ino # k

\* A save that is alone has the temporary file, and in it what it wrote.
Alone ==
  \A k \in Savers : Busy(k) /\ saver[k].s \notin overlapped =>
    /\ name[saver[k].s].tmp = saver[k].ino
    /\ \A j \in Savers : Busy(j) /\ saver[j].s = saver[k].s => j = k
    /\ content[saver[k].ino] = IF saver[k].at = "opened" THEN Empty ELSE saver[k].snap

FilesInv == TypeOK /\ Names /\ Alone /\ TornOnlyByOverlap

\* A record is whole.
LEMMA RecordsAreWhole == \A r \in Records : r \notin {Torn, Empty}
<1>1. Torn.cur = "torn" /\ Empty.cur = "empty"
  BY DEF Torn, Empty
<1>2. \A r \in Records : r.cur \notin {"torn", "empty"}
  BY DEF Records
<1>3. QED
  BY <1>1, <1>2

\* There is no file at first.
LEMMA FilesInit == Init => FilesInv
<1> SUFFICES ASSUME Init PROVE Names /\ Alone /\ TornOnlyByOverlap
  BY TypeInit DEF FilesInv
<1>1. /\ \A k \in Savers : ~Busy(k)
      /\ \A s \in Sessions : name[s].file = None /\ name[s].tmp = None
  BY DEF Init, Busy, NoSave, Ended
<1>2. QED
  BY <1>1, NamesAssumption, NoneAssumption DEF Names, Alone, TornOnlyByOverlap, OnDisk

\* A save begins.
LEMMA OpensKeeps ==
  ASSUME FilesInv, NEW k \in Savers, NEW s \in Sessions, SaveOpens(k, s)
  PROVE  (Names /\ Alone /\ TornOnlyByOverlap)'
<1> DEFINE i == IF name[s].tmp = None THEN k ELSE name[s].tmp
<1>1. i \in Savers /\ i # None /\ (name[s].tmp = None => i = k) /\ (name[s].tmp # None => i = name[s].tmp)
  BY NamesAssumption DEF FilesInv, TypeOK
<1>2. /\ name' = [name EXCEPT ![s].tmp = i]
      /\ content' = [content EXCEPT ![i] = Empty]
      /\ saver' = [saver EXCEPT ![k] = [at |-> "opened", s |-> s,
                                        snap |-> tracker[s], ino |-> i]]
      /\ saver[k].at = "idle"
  BY DEF SaveOpens
<1>3. overlapped' = IF \E j \in Savers : Busy(j) /\ saver[j].s = s
                    THEN overlapped \cup {s} ELSE overlapped
  BY DEF SaveOpens
<1> HIDE DEF i
<1>4. /\ name'[s].tmp = i /\ name'[s].file = name[s].file
      /\ \A t \in Sessions : t # s => name'[t] = name[t]
  BY <1>2 DEF FilesInv, TypeOK
<1>5. /\ content'[i] = Empty
      /\ \A j \in Savers : j # i => content'[j] = content[j]
  BY <1>1, <1>2 DEF FilesInv, TypeOK
<1>6. /\ saver'[k].at = "opened" /\ saver'[k].s = s /\ saver'[k].ino = i
      /\ Busy(k)' /\ ~Busy(k)
      /\ \A j \in Savers : j # k => saver'[j] = saver[j] /\ (Busy(j)' <=> Busy(j))
  BY <1>2 DEF FilesInv, TypeOK, Busy
<1>7. /\ \A t \in Sessions : name[t].file # i
      /\ \A t \in Sessions : t # s => name[t].tmp # i
      /\ \A j \in Savers : j # k /\ saver[j].at = "idle" => j # i
      /\ \A j \in Savers : Busy(j) /\ saver[j].s # s => saver[j].ino # i
  BY <1>1, <1>2 DEF FilesInv, Names
<1>8. Names'
  BY <1>1, <1>4, <1>6, <1>7 DEF FilesInv, Names
<1>9. Alone'
  <2> SUFFICES ASSUME NEW j \in Savers, Busy(j)', saver'[j].s \notin overlapped'
               PROVE  /\ name'[saver'[j].s].tmp = saver'[j].ino
                      /\ \A l \in Savers : Busy(l)' /\ saver'[l].s = saver'[j].s => l = j
                      /\ content'[saver'[j].ino] = IF saver'[j].at = "opened" THEN Empty ELSE saver'[j].snap
    BY DEF Alone
  <2>1. CASE j = k
    <3>1. ~\E l \in Savers : Busy(l) /\ saver[l].s = s
      BY <1>3, <1>6, <2>1
    <3>2. QED
      BY <1>4, <1>5, <1>6, <2>1, <3>1
  <2>2. CASE j # k
    <3>1. /\ Busy(j) /\ saver'[j] = saver[j]
          /\ saver[j].s # s /\ saver[j].s \notin overlapped
      BY <1>3, <1>6, <2>2
    <3>2. /\ name[saver[j].s].tmp = saver[j].ino
          /\ \A l \in Savers : Busy(l) /\ saver[l].s = saver[j].s => l = j
          /\ content[saver[j].ino] = IF saver[j].at = "opened" THEN Empty ELSE saver[j].snap
      BY <3>1 DEF FilesInv, Alone
    <3>3. saver[j].s \in Sessions /\ saver[j].ino \in Savers /\ saver[j].ino # i
      BY <1>7, <3>1 DEF FilesInv, TypeOK
    <3>4. QED
      BY <1>4, <1>5, <1>6, <3>1, <3>2, <3>3
  <2>3. QED
    BY <2>1, <2>2
<1>10. TornOnlyByOverlap'
  BY <1>3, <1>4, <1>5, <1>7 DEF FilesInv, TornOnlyByOverlap, OnDisk, TypeOK
<1>11. QED
  BY <1>8, <1>9, <1>10

\* The data is written.
LEMMA WritesKeeps ==
  ASSUME FilesInv, NEW k \in Savers, SaveWrites(k)
  PROVE  (Names /\ Alone /\ TornOnlyByOverlap)'
<1> DEFINE i == saver[k].ino
<1>1. i \in Savers /\ saver[k].s \in Sessions /\ Busy(k) /\ saver[k].at = "opened"
  BY DEF FilesInv, TypeOK, SaveWrites, Busy
<1>2. /\ saver' = [saver EXCEPT ![k].at = "written"]
      /\ \A j \in Savers : j # i => content'[j] = content[j]
      /\ content[i] = Empty => content'[i] = saver[k].snap
      /\ UNCHANGED <<name, overlapped>>
  BY <1>1 DEF SaveWrites, FilesInv, TypeOK
<1> HIDE DEF i
<1>3. /\ saver'[k].at = "written" /\ saver'[k].s = saver[k].s /\ saver'[k].ino = saver[k].ino
      /\ saver'[k].snap = saver[k].snap
      /\ \A j \in Savers : j # k => saver'[j] = saver[j]
  BY <1>2 DEF FilesInv, TypeOK
<1>4. \A j \in Savers : Busy(j)' <=> Busy(j)
  BY <1>1, <1>3 DEF Busy
<1>5. Names'
  BY <1>1, <1>2, <1>3, <1>4 DEF FilesInv, Names, Busy
<1>6. \A s \in Sessions : s # saver[k].s => i \notin {name[s].file, name[s].tmp}
  BY <1>1 DEF FilesInv, Names, i
<1>7. Alone'
  <2> SUFFICES ASSUME NEW j \in Savers, Busy(j)', saver'[j].s \notin overlapped'
               PROVE  /\ name'[saver'[j].s].tmp = saver'[j].ino
                      /\ \A l \in Savers : Busy(l)' /\ saver'[l].s = saver'[j].s => l = j
                      /\ content'[saver'[j].ino] = IF saver'[j].at = "opened" THEN Empty ELSE saver'[j].snap
    BY DEF Alone
  <2>1. Busy(j) /\ saver[j].s \notin overlapped /\ saver'[j].s = saver[j].s /\ saver'[j].ino = saver[j].ino
    BY <1>2, <1>3, <1>4
  <2>2. /\ name[saver[j].s].tmp = saver[j].ino
        /\ \A l \in Savers : Busy(l) /\ saver[l].s = saver[j].s => l = j
        /\ content[saver[j].ino] = IF saver[j].at = "opened" THEN Empty ELSE saver[j].snap
    BY <2>1 DEF FilesInv, Alone
  <2>3. CASE j = k
    BY <1>1, <1>2, <1>3, <1>4, <2>1, <2>2, <2>3 DEF i
  <2>4. CASE j # k
    <3>1. saver[j].s # saver[k].s
      BY <1>1, <2>2, <2>4
    <3>2. saver[j].ino # i /\ saver[j].ino \in Savers
      BY <1>6, <2>1, <2>2, <3>1 DEF FilesInv, TypeOK
    <3>3. QED
      BY <1>2, <1>3, <1>4, <2>1, <2>2, <2>4, <3>2
  <2>5. QED
    BY <2>3, <2>4
<1>8. TornOnlyByOverlap'
  <2> SUFFICES ASSUME NEW s \in Sessions, s \notin overlapped PROVE OnDisk(s)' \notin {Torn, Empty}
    BY <1>2 DEF TornOnlyByOverlap
  <2>1. name[s].file # i
    <3>1. CASE s # saver[k].s
      BY <1>6, <3>1
    <3>2. CASE s = saver[k].s
      BY <1>1, <3>2, NamesAssumption DEF FilesInv, Alone, Names, i
    <3>3. QED
      BY <3>1, <3>2
  <2>2. OnDisk(s)' = OnDisk(s)
    BY <1>2, <2>1 DEF OnDisk, FilesInv, TypeOK
  <2>3. QED
    BY <2>2 DEF FilesInv, TornOnlyByOverlap
<1>9. QED
  BY <1>5, <1>7, <1>8

\* The file gets its name, or the call fails.
LEMMA RenamesKeeps ==
  ASSUME FilesInv, NEW k \in Savers, SaveRenames(k)
  PROVE  (Names /\ Alone /\ TornOnlyByOverlap)'
<1> DEFINE s == saver[k].s
<1>1. s \in Sessions /\ Busy(k) /\ saver[k].at = "written" /\ UNCHANGED <<content, overlapped>>
  BY DEF FilesInv, TypeOK, SaveRenames, Busy
<1>2. /\ ~Busy(k)' /\ saver'[k].at # "idle"
      /\ \A j \in Savers : j # k => saver'[j] = saver[j] /\ (Busy(j)' <=> Busy(j))
  BY DEF SaveRenames, Ended, Busy, FilesInv, TypeOK
<1>3. \/ name' = name /\ name[s].tmp = None
      \/ /\ name[s].tmp # None /\ name'[s].file = name[s].tmp /\ name'[s].tmp = None
         /\ \A t \in Sessions : t # s => name'[t] = name[t]
  BY <1>1 DEF SaveRenames, FilesInv, TypeOK
<1>n. Names
  BY DEF FilesInv
<1>4. Names'
  <2>1. \A j \in Savers : Busy(j)' => j # k /\ Busy(j) /\ saver'[j] = saver[j]
    BY <1>2
  <2>2. \A j \in Savers : saver'[j].at = "idle" => saver[j].at = "idle"
    BY <1>2
  <2> HIDE DEF s
  <2>3. CASE name' = name
    BY <1>n, <2>1, <2>2, <2>3 DEF Names
  <2>4. CASE /\ name[s].tmp # None /\ name'[s].file = name[s].tmp /\ name'[s].tmp = None
             /\ \A t \in Sessions : t # s => name'[t] = name[t]
    <3>1. /\ \A t \in Sessions : name'[t].file # None =>
                 name'[t].file = name[t].file \/ (t = s /\ name'[t].file = name[s].tmp)
          /\ \A t \in Sessions : name'[t].tmp # None => t # s /\ name'[t].tmp = name[t].tmp
          /\ s \in Sessions
      BY <1>1, <2>4
    <3>2. /\ \A t, u \in Sessions : name'[t].file # None => name'[t].file # name'[u].tmp
          /\ \A t, u \in Sessions : name'[t].file # None /\ name'[t].file = name'[u].file => t = u
          /\ \A t, u \in Sessions : name'[t].tmp # None /\ name'[t].tmp = name'[u].tmp => t = u
      BY <1>n, <2>4, <3>1 DEF Names
    <3>3. ASSUME NEW j \in Savers, NEW t \in Sessions, Busy(j)', t # saver'[j].s
          PROVE  saver'[j].ino \notin {name'[t].file, name'[t].tmp}
      <4>1. Busy(j) /\ saver'[j] = saver[j] /\ saver[j].ino # None
        BY <2>1, <3>3, NamesAssumption DEF FilesInv, TypeOK
      <4>2. QED
        BY <1>n, <2>4, <3>3, <4>1 DEF Names
    <3>4. ASSUME NEW j \in Savers, saver'[j].at = "idle"
          PROVE  /\ \A t \in Sessions : j \notin {name'[t].file, name'[t].tmp}
                 /\ \A l \in Savers : Busy(l)' => saver'[l].ino # j
      BY <1>n, <2>1, <2>2, <2>4, <3>1, <3>4, NamesAssumption DEF Names
    <3>5. QED
      BY <3>2, <3>3, <3>4 DEF Names
  <2>5. QED
    BY <1>3, <2>3, <2>4
<1>5. Alone'
  <2>1. \A j \in Savers : j # k /\ Busy(j) /\ saver[j].s \notin overlapped => saver[j].s # s
    BY <1>1 DEF FilesInv, Alone
  <2>2. \A j \in Savers : Busy(j) => saver[j].s \in Sessions
    BY DEF FilesInv, TypeOK
  <2>3. \A t \in Sessions : t # s => name'[t].tmp = name[t].tmp
    BY <1>3
  <2> HIDE DEF s
  <2>4. Alone
    BY DEF FilesInv
  <2>5. QED
    BY <1>1, <1>2, <2>1, <2>2, <2>3, <2>4 DEF Alone
<1>6. TornOnlyByOverlap'
  <2> SUFFICES ASSUME NEW t \in Sessions, t \notin overlapped PROVE OnDisk(t)' \notin {Torn, Empty}
    BY <1>1 DEF TornOnlyByOverlap
  <2>1. CASE name'[t].file = name[t].file
    BY <1>1, <2>1 DEF FilesInv, TornOnlyByOverlap, OnDisk
  <2>2. CASE t = s /\ name[s].tmp # None /\ name'[s].file = name[s].tmp
    <3>1. name[s].tmp = saver[k].ino /\ content[saver[k].ino] = saver[k].snap
      BY <1>1, <2>2 DEF FilesInv, Alone
    <3>2. saver[k].snap \notin {Torn, Empty}
      BY RecordsAreWhole DEF FilesInv, TypeOK, SaveCalls
    <3>3. QED
      BY <1>1, <2>2, <3>1, <3>2 DEF OnDisk
  <2>3. QED
    BY <1>3, <2>1, <2>2
<1>7. QED
  BY <1>4, <1>5, <1>6

\* Every step keeps the facts about the files.
LEMMA FilesStep == FilesInv /\ [Next]_vars => FilesInv'
<1> SUFFICES ASSUME FilesInv, [Next]_vars PROVE (Names /\ Alone /\ TornOnlyByOverlap)'
  BY TypeStep DEF FilesInv
<1>1. CASE UNCHANGED diskVars
  BY <1>1 DEF FilesInv, Names, Alone, TornOnlyByOverlap, OnDisk, Busy
<1>2. ASSUME NEW s \in Sessions, DeleteSessionCost(s) PROVE (Names /\ Alone /\ TornOnlyByOverlap)'
  <2>1. /\ name'[s].file = None /\ name'[s].tmp = name[s].tmp
        /\ \A t \in Sessions : t # s => name'[t] = name[t]
        /\ UNCHANGED <<content, saver, overlapped>>
    BY <1>2 DEF DeleteSessionCost, FilesInv, TypeOK
  <2>2. \A j \in Savers : Busy(j)' <=> Busy(j)
    BY <2>1 DEF Busy
  <2>3. Names'
    <3>1. Names /\ \A j \in Savers : Busy(j) => saver[j].ino # None
      BY NamesAssumption DEF FilesInv, TypeOK
    <3>2. \A t \in Sessions : /\ name'[t].tmp = name[t].tmp
                              /\ name'[t].file = name[t].file \/ name'[t].file = None
      BY <2>1
    <3>3. None \notin Savers
      BY NamesAssumption
    <3>4. QED
      BY <2>1, <2>2, <3>1, <3>2, <3>3 DEF Names
  <2>4. Alone'
    BY <2>1, <2>2 DEF FilesInv, Alone, TypeOK
  <2>5. TornOnlyByOverlap'
    BY <2>1, NoneAssumption DEF FilesInv, TornOnlyByOverlap, OnDisk
  <2>6. QED
    BY <2>3, <2>4, <2>5
<1>3. CASE Crash
  <2>1. /\ \A k \in Savers : ~Busy(k)' /\ (saver'[k].at = "idle" => saver[k].at = "idle")
        /\ UNCHANGED <<name, content, overlapped>>
    BY <1>3 DEF Crash, Busy, NoSave, Ended
  <2>2. QED
    BY <2>1 DEF FilesInv, Names, Alone, TornOnlyByOverlap, OnDisk
<1>4. QED
  BY <1>1, <1>2, <1>3, OpensKeeps, WritesKeeps, RenamesKeeps, NamesAssumption
  DEF Next, UsageUpdate, PromptStarts, PromptEnds, Observe, Load

\* SaveSessionCost: for any number of saves, deletes and crashes, a reader finds a
\* whole file unless two saves of the session overlapped.
THEOREM FilesStayWhole == Spec => []TornOnlyByOverlap
<1>1. FilesInv => TornOnlyByOverlap
  BY DEF FilesInv
<1>2. QED
  BY FilesInit, FilesStep, <1>1, PTL DEF Spec

\* SaveSessionCost: a save that was alone and returned nil left its snapshot under
\* the session's name.
THEOREM SavesReachDisk == Spec => SuccessIsOnDisk
<1> DEFINE Saving == \A k \in Savers : Busy(k) /\ saver'[k].at = "saved"
                       /\ saver[k].s \notin overlapped
                       => name'[saver[k].s].file # None
                          /\ content'[name'[saver[k].s].file] = saver[k].snap
<1>1. FilesInv /\ [Next]_vars => Saving
  <2> SUFFICES ASSUME FilesInv, [Next]_vars, NEW k \in Savers, Busy(k), saver'[k].at = "saved",
                      saver[k].s \notin overlapped
               PROVE  name'[saver[k].s].file # None
                      /\ content'[name'[saver[k].s].file] = saver[k].snap
    OBVIOUS
  <2>1. SaveRenames(k)
    <3>1. saver'[k] # saver[k] /\ saver[k].at # "saved"
      BY DEF Busy
    <3>2. ASSUME NEW j \in Savers, NEW s \in Sessions, SaveOpens(j, s) PROVE FALSE
      BY <3>1, <3>2 DEF SaveOpens, FilesInv, TypeOK
    <3>3. ASSUME NEW j \in Savers, SaveWrites(j) PROVE FALSE
      BY <3>1, <3>3 DEF SaveWrites, FilesInv, TypeOK
    <3>4. ASSUME NEW j \in Savers, SaveRenames(j), j # k PROVE FALSE
      BY <3>1, <3>4 DEF SaveRenames, FilesInv, TypeOK
    <3>5. ~Crash
      BY <3>1 DEF Crash, NoSave, Ended
    <3>6. saver' # saver
      BY <3>1
    <3>7. QED
      BY <3>2, <3>3, <3>4, <3>5, <3>6, NamesAssumption
      DEF Next, UsageUpdate, PromptStarts, PromptEnds, Observe, Load, DeleteSessionCost
  <2>2. saver[k].s \in Sessions /\ saver[k].ino \in Savers /\ saver[k].at = "written"
    BY <2>1 DEF FilesInv, TypeOK, SaveRenames, SaveCalls
  <2>3. name[saver[k].s].tmp = saver[k].ino /\ content[saver[k].ino] = saver[k].snap
    BY <2>2 DEF FilesInv, Alone
  <2>4. name'[saver[k].s].file = saver[k].ino /\ content' = content
    BY <2>1, <2>2, <2>3, NamesAssumption DEF SaveRenames, FilesInv, TypeOK
  <2>5. QED
    BY <2>2, <2>3, <2>4, NamesAssumption
<1>2. QED
  BY FilesInit, FilesStep, <1>1, PTL DEF Spec, SuccessIsOnDisk

-----------------------------------------------------------------------------
(* The accounts.                                                           *)

\* A set of naturals that is not empty has a least element.
LEMMA LeastElement ==
  ASSUME NEW S, S \subseteq Nat, S # {}
  PROVE  \E m \in S : \A k \in S : m <= k
<1> DEFINE R == OpToRel(<, Nat)
<1>1. IsWellFoundedOn(R, Nat)
  BY NatLessThanWellFounded, Zenon
<1>2. \A k, m \in Nat : k < m => <<k, m>> \in R
  BY DEF OpToRel
<1> HIDE DEF R
<1>3. PICK m \in S : \A k \in S : ~ (<<k, m>> \in R)
  BY <1>1, WFMin
<1>4. \A k \in S : ~ (k < m)
  BY <1>2, <1>3
<1>5. QED
  BY <1>3, <1>4

\* The element Snapshot's loop takes first, and what is left after it.
First(T) == CHOOSE x \in T : TRUE
Rest(T)  == T \ {First(T)}

\* One turn of the loop.
Added(f, h, T) == IF T = {} THEN 0 ELSE f[First(T)] + h[Rest(T)]

\* The subsets of S with at most n elements.
UpTo(S, n) == {T \in SUBSET S : Cardinality(T) <= n}

\* The loop shortens what is left.
LEMMA RestIsSmaller ==
  ASSUME NEW S, IsFiniteSet(S), NEW T \in SUBSET S
  PROVE  /\ Cardinality(T) \in Nat
         /\ T = {} <=> Cardinality(T) = 0
         /\ T # {} => /\ First(T) \in S /\ Rest(T) \in SUBSET S
                      /\ Cardinality(Rest(T)) = Cardinality(T) - 1
<1>1. IsFiniteSet(T) /\ Cardinality(T) \in Nat
  BY FS_Subset, FS_CardinalityType
<1>2. T = {} <=> Cardinality(T) = 0
  BY <1>1, FS_EmptySet
<1>3. ASSUME T # {}
      PROVE  First(T) \in T /\ Cardinality(Rest(T)) = Cardinality(T) - 1
  <2>1. First(T) \in T
    BY <1>3 DEF First
  <2>2. QED
    BY <1>1, <2>1, FS_RemoveElement DEF Rest
<1>4. QED
  BY <1>1, <1>2, <1>3 DEF Rest

\* The loop's recursion is well founded, so it has a result.
LEMMA LoopDefined ==
  ASSUME NEW f, IsFiniteSet(DOMAIN f), NEW n \in Nat
  PROVE  \E h : h = [T \in UpTo(DOMAIN f, n) |-> Added(f, h, T)]
<1> DEFINE S == DOMAIN f
           Good(k) == \E h : h = [T \in UpTo(S, k) |-> Added(f, h, T)]
           Bad == {k \in Nat : ~Good(k)}
<1> SUFFICES ASSUME Bad # {} PROVE FALSE
  OBVIOUS
<1> HIDE DEF S
<1>1. \A T \in SUBSET S : /\ Cardinality(T) \in Nat
                          /\ T = {} <=> Cardinality(T) = 0
                          /\ T # {} => /\ First(T) \in S /\ Rest(T) \in SUBSET S
                                       /\ Cardinality(Rest(T)) = Cardinality(T) - 1
  BY RestIsSmaller DEF S
<1>2. PICK m \in Bad : \A k \in Bad : m <= k
  <2>1. Bad \subseteq Nat
    OBVIOUS
  <2> HIDE DEF Bad
  <2>2. QED
    BY <2>1, LeastElement
<1>3. m # 0
  <2>1. Good(0)
    <3> DEFINE h == [T \in UpTo(S, 0) |-> 0]
    <3>1. h = [T \in UpTo(S, 0) |-> Added(f, h, T)]
      BY <1>1 DEF UpTo, Added
    <3>2. QED
      BY <3>1
  <2>2. QED
    BY <1>2, <2>1
<1>4. m \in Nat /\ m - 1 \in Nat /\ Good(m - 1)
  BY <1>2, <1>3
<1>5. PICK h : h = [T \in UpTo(S, m - 1) |-> Added(f, h, T)]
  BY <1>4
<1> DEFINE e == [T \in UpTo(S, m) |-> Added(f, h, T)]
<1>6. ASSUME NEW T \in UpTo(S, m) PROVE Added(f, h, T) = Added(f, e, T)
  <2>1. CASE T = {}
    BY <2>1 DEF Added
  <2>2. CASE T # {}
    <3>1. Rest(T) \in UpTo(S, m - 1) /\ Rest(T) \in UpTo(S, m)
      BY <1>1, <1>4, <2>2 DEF UpTo
    <3>2. h[Rest(T)] = Added(f, h, Rest(T)) /\ e[Rest(T)] = Added(f, h, Rest(T))
      BY <1>5, <3>1
    <3> HIDE DEF e
    <3>3. QED
      BY <2>2, <3>2 DEF Added
  <2>3. QED
    BY <2>1, <2>2
<1>7. e = [T \in UpTo(S, m) |-> Added(f, e, T)]
  <2>1. e = [T \in UpTo(S, m) |-> Added(f, h, T)]
    OBVIOUS
  <2> HIDE DEF e
  <2>2. QED
    BY <1>6, <2>1
<1>8. QED
  BY <1>2, <1>7

\* The sum of naturals over a finite map is a natural.
LEMMA SumOfNaturals ==
  ASSUME NEW S, IsFiniteSet(S), NEW f \in [S -> Nat]
  PROVE  SumOf(f) \in Nat
<1> DEFINE sum == CHOOSE h : h = [T \in SUBSET DOMAIN f |-> Added(f, h, T)]
<1>1. DOMAIN f = S
  OBVIOUS
<1>2. \A T \in SUBSET S : /\ Cardinality(T) \in Nat
                          /\ T = {} <=> Cardinality(T) = 0
                          /\ T # {} => /\ First(T) \in S /\ Rest(T) \in SUBSET S
                                       /\ Cardinality(Rest(T)) = Cardinality(T) - 1
  BY RestIsSmaller
<1>3. sum = [T \in SUBSET DOMAIN f |-> Added(f, sum, T)]
  <2>1. UpTo(S, Cardinality(S)) = SUBSET S
    BY FS_Subset DEF UpTo
  <2>2. \E h : h = [T \in UpTo(S, Cardinality(S)) |-> Added(f, h, T)]
    BY <1>1, <1>2, LoopDefined
  <2>3. QED
    BY <1>1, <2>1, <2>2
<1>4. SumOf(f) = sum[DOMAIN f]
  BY Zenon DEF SumOf, Added, First, Rest
<1> HIDE DEF sum
<1> DEFINE Bad == {k \in Nat : \E T \in SUBSET S : Cardinality(T) = k /\ sum[T] \notin Nat}
<1>5. Bad = {}
  <2> SUFFICES ASSUME Bad # {} PROVE FALSE
    OBVIOUS
  <2>1. PICK m \in Bad : \A k \in Bad : m <= k
    <3>1. Bad \subseteq Nat
      OBVIOUS
    <3> HIDE DEF Bad
    <3>2. QED
      BY <3>1, LeastElement
  <2>2. PICK T \in SUBSET S : Cardinality(T) = m /\ sum[T] \notin Nat
    BY <2>1
  <2>3. sum[T] = Added(f, sum, T)
    BY <1>1, <1>3, <2>2
  <2>4. T # {}
    BY <2>2, <2>3 DEF Added
  <2>5. Rest(T) \in SUBSET S /\ Cardinality(Rest(T)) = m - 1 /\ m - 1 \in Nat /\ First(T) \in S
    BY <1>2, <2>2, <2>4
  <2>6. sum[Rest(T)] \in Nat
    BY <2>1, <2>5
  <2>7. QED
    BY <2>2, <2>3, <2>4, <2>5, <2>6 DEF Added
<1>6. sum[S] \in Nat
  BY <1>2, <1>5
<1>7. QED
  BY <1>1, <1>4, <1>6

\* So are the totals of Snapshot.
LEMMA TotalsAreNaturals == TypeOK => TotalCostUSD(tracker) \in Nat /\ TotalTokens(tracker) \in Nat
<1> SUFFICES ASSUME TypeOK PROVE TotalCostUSD(tracker) \in Nat /\ TotalTokens(tracker) \in Nat
  OBVIOUS
<1> DEFINE c == [s \in Sessions |-> IF tracker[s] = None \/ tracker[s].cur \notin {"", "USD"}
                                    THEN 0 ELSE tracker[s].cost]
           k == [s \in Sessions |-> IF tracker[s] = None THEN 0 ELSE tracker[s].tokens]
<1>1. c \in [Sessions -> Nat] /\ k \in [Sessions -> Nat]
  BY DEF TypeOK, Records
<1>2. TotalCostUSD(tracker) = SumOf(c) /\ TotalTokens(tracker) = SumOf(k)
  BY Zenon DEF TotalCostUSD, TotalTokens
<1> HIDE DEF c, k
<1>3. QED
  BY <1>1, <1>2, SumOfNaturals, SessionsAssumption

\* A record not yet made has nothing observed; one that is has its maximum.
Observed ==
  \A s \in Sessions :
    /\ observed[s] \in SUBSET Nat
    /\ tracker[s] = None => observed[s] = {0}
    /\ tracker[s] # None => /\ tracker[s].tokens \in observed[s]
                            /\ \A u \in observed[s] : u <= tracker[s].tokens

\* Every step keeps the counts.
LEMMA ObservedStep ==
  TypeOK /\ observed \in [Sessions -> SUBSET Nat] /\ Observed /\ [Next]_vars
    => observed' \in [Sessions -> SUBSET Nat] /\ Observed'
<1> SUFFICES ASSUME TypeOK, observed \in [Sessions -> SUBSET Nat], Observed, [Next]_vars
             PROVE  observed' \in [Sessions -> SUBSET Nat] /\ Observed'
  OBVIOUS
<1>1. CASE UNCHANGED <<tracker, observed>>
  BY <1>1 DEF Observed
<1>2. ASSUME NEW s \in Sessions
      PROVE  /\ Record(s) \in Records /\ Record(s).tokens \in observed[s]
             /\ \A u \in observed[s] : u <= Record(s).tokens
  <2>1. Record(s) \in Records
    BY RecordShape
  <2>2. CASE tracker[s] = None
    <3>1. Record(s) = NoRecord /\ observed[s] = {0} /\ NoRecord.tokens = 0
      BY <2>2 DEF Record, Observed, NoRecord
    <3>2. QED
      BY <2>1, <3>1
  <2>3. CASE tracker[s] # None
    BY <2>1, <2>3 DEF Record, Observed
  <2>4. QED
    BY <2>2, <2>3
<1>3. ASSUME NEW s \in Sessions, NEW r \in Records, NEW O \in SUBSET Nat,
             tracker' = [tracker EXCEPT ![s] = r], observed' = [observed EXCEPT ![s] = O],
             r.tokens \in O, \A u \in O : u <= r.tokens
      PROVE  observed' \in [Sessions -> SUBSET Nat] /\ Observed'
  <2>1. observed' \in [Sessions -> SUBSET Nat]
    BY <1>3
  <2>2. r # None
    BY NoneAssumption
  <2>3. ASSUME NEW t \in Sessions
        PROVE  /\ observed'[t] \in SUBSET Nat
               /\ tracker'[t] = None => observed'[t] = {0}
               /\ tracker'[t] # None => /\ tracker'[t].tokens \in observed'[t]
                                        /\ \A u \in observed'[t] : u <= tracker'[t].tokens
    <3>1. CASE t = s
      <4>1. tracker'[t] = r /\ observed'[t] = O
        BY <1>3, <3>1 DEF TypeOK
      <4>2. QED
        BY <1>3, <2>2, <4>1
    <3>2. CASE t # s
      <4>1. tracker'[t] = tracker[t] /\ observed'[t] = observed[t]
        BY <1>3, <3>2 DEF TypeOK
      <4>2. QED
        BY <4>1 DEF Observed
    <3>3. QED
      BY <3>1, <3>2
  <2>4. QED
    BY <2>1, <2>3 DEF Observed
<1>4. ASSUME NEW s \in Sessions, UsageUpdate(s)
      PROVE  observed' \in [Sessions -> SUBSET Nat] /\ Observed'
  <2>1. spent' \in [Sessions -> Nat] /\ observed' = observed
    BY <1>4 DEF UsageUpdate, TypeOK
  <2>2. PICK w \in BOOLEAN : tracker' = RecordUsage(s, w)
    BY <1>4 DEF UsageUpdate
  <2> DEFINE r == IF w THEN [Record(s) EXCEPT !.cost = spent'[s], !.cur = currency[s]]
                       ELSE Record(s)
  <2>3. r \in Records /\ r.tokens = Record(s).tokens
    BY <1>2, <2>1 DEF Records, TypeOK
  <2>4. tracker' = [tracker EXCEPT ![s] = r]
    BY <2>2 DEF RecordUsage
  <2>5. observed' = [observed EXCEPT ![s] = observed[s]] /\ observed[s] \in SUBSET Nat
    BY <2>1
  <2> HIDE DEF r
  <2>6. r.tokens \in observed[s] /\ \A u \in observed[s] : u <= r.tokens
    BY <1>2, <2>3
  <2>7. QED
    BY <1>3, <2>3, <2>4, <2>5, <2>6
<1>5. ASSUME NEW s \in Sessions, Observe(s)
      PROVE  observed' \in [Sessions -> SUBSET Nat] /\ Observed'
  <2>1. PICK u \in 1..MaxUsage : /\ tracker' = [tracker EXCEPT ![s] = ObserveResult(s, u)]
                                 /\ observed' = [observed EXCEPT ![s] = @ \cup {u}]
    BY <1>5 DEF Observe
  <2> DEFINE r == ObserveResult(s, u)
             O == observed[s] \cup {u}
  <2>a. u \in Nat
    BY <2>1, BoundAssumption
  <2>b. observed[s] \in SUBSET Nat
    BY <1>5
  <2>c. Record(s).tokens \in Nat
    BY <1>2 DEF Records
  <2>2. u \in Nat /\ observed[s] \in SUBSET Nat /\ Record(s).tokens \in Nat
    BY <2>a, <2>b, <2>c
  <2>3. r \in Records /\ r.tokens = IF u > Record(s).tokens THEN u ELSE Record(s).tokens
    BY <1>2, <2>2 DEF ObserveResult, Records
  <2>4. observed' = [observed EXCEPT ![s] = O] /\ O \in SUBSET Nat
    BY <2>1, <2>2
  <2>5. tracker' = [tracker EXCEPT ![s] = r]
    BY <2>1
  <2> HIDE DEF r
  <2>6. r.tokens \in O /\ \A v \in O : v <= r.tokens
    BY <1>2, <2>2, <2>3
  <2> HIDE DEF O
  <2>7. QED
    BY <1>3, <2>3, <2>4, <2>5, <2>6
<1>6. ASSUME NEW s \in Sessions, Load(s)
      PROVE  observed' \in [Sessions -> SUBSET Nat] /\ Observed'
  <2> DEFINE r == OnDisk(s)
  <2>1. r \in Records
    BY <1>6 DEF Load, OnDisk, TypeOK
  <2>2. /\ tracker' = [tracker EXCEPT ![s] = r]
        /\ observed' = [observed EXCEPT ![s] = {r.tokens}]
    BY <1>6 DEF Load
  <2>3. r.tokens \in Nat
    BY <2>1 DEF Records
  <2> DEFINE O == {r.tokens}
  <2>4. O \in SUBSET Nat /\ r.tokens \in O /\ \A v \in O : v <= r.tokens
    BY <2>3
  <2>5. observed' = [observed EXCEPT ![s] = O]
    BY <2>2
  <2> HIDE DEF r, O
  <2>6. QED
    BY <1>3, <2>1, <2>2, <2>4, <2>5
<1>7. CASE Crash
  BY <1>7 DEF Crash, Observed
<1>8. QED
  BY <1>1, <1>4, <1>5, <1>6, <1>7, NamesAssumption
  DEF Next, PromptStarts, PromptEnds, DeleteSessionCost, SaveOpens, SaveWrites, SaveRenames


\* What CostTracker and BudgetTracker report is what was observed: a token count is
\* the largest one handed over, and the ratio reaches one exactly at a cap.
THEOREM AccountsAreExact == Spec => []AccountingExact
<1> DEFINE Counts == observed \in [Sessions -> SUBSET Nat] /\ Observed
<1>1. Init => Counts
  BY DEF Init, Observed
<1>2. TypeOK /\ Counts => TokensAreMaximum
  BY DEF Observed, TokensAreMaximum
<1>3. TypeOK => RatioAgrees
  <2> SUFFICES ASSUME TypeOK PROVE RatioAgrees
    OBVIOUS
  <2> DEFINE c == TotalCostUSD(tracker)
             k == TotalTokens(tracker)
  <2>1. c \in Nat /\ k \in Nat
    BY TotalsAreNaturals
  <2>2. /\ Exceeded(tracker) <=> (MaxCost > 0 /\ c >= MaxCost) \/ (MaxTokens > 0 /\ k >= MaxTokens)
        /\ RatioAtLeast(tracker, 1, 1) <=> \/ MaxCost > 0 /\ c * 1 >= 1 * MaxCost
                                           \/ MaxTokens > 0 /\ k * 1 >= 1 * MaxTokens
                                           \/ 1 = 0
    BY Zenon DEF Exceeded, RatioAtLeast
  <2> HIDE DEF c, k
  <2>3. Exceeded(tracker) <=> RatioAtLeast(tracker, 1, 1)
    BY <2>1, <2>2, CapAssumption
  <2>4. Reason(tracker) = "within_budget" => ~Exceeded(tracker)
    BY DEF Reason
  <2>5. QED
    BY <2>3, <2>4 DEF RatioAgrees
<1>4. TypeOK /\ Counts /\ [Next]_vars => Counts'
  BY ObservedStep
<1> HIDE DEF Counts
<1>5. QED
  BY TypeInit, TypeStep, <1>1, <1>2, <1>3, <1>4, PTL DEF Spec, AccountingExact

=============================================================================
