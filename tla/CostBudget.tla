----------------------------- MODULE CostBudget -----------------------------
(***************************************************************************)
(* Cost accounting: CostTracker and its files (cost_tracker.go), the       *)
(* budget over it (budget_tracker.go) and the subscription that cancels a  *)
(* session once the budget is gone (client_impl.go, attachBudgetTracker).  *)
(* The tracker is a map under a mutex, so an observation is one step; a    *)
(* save is several calls of the file system, between which another save    *)
(* may run or the process may die.  The file system is external: a name    *)
(* refers to an inode, and WriteFile truncates and then writes the inode   *)
(* its name had when it was opened.  The six token counters follow one     *)
(* rule and are one field here.                                            *)
(***************************************************************************)
EXTENDS Naturals, FiniteSets

CONSTANTS
  Sessions,   \* session ids, all matching sessionIDPattern
  Savers,     \* calls of SaveSessionCost
  Saved,      \* the sessions they save, and whose results the caller observes
  Prompted,   \* the sessions that run prompts
  Billings,   \* currencies the agent may bill the sessions in
  None,       \* no record, no inode
  MaxCost,    \* MaxCostUSD, 0 when there is no cap
  MaxTokens,  \* MaxTotalTokens, 0 when there is no cap
  AutoCancel, \* WithMaxBudgetUSD rather than WithBudgetTracker
  MaxSpend,   \* bound: what a session costs
  MaxUsage,   \* bound: tokens of a turn
  MaxCrashes  \* bound: restarts of the process

ASSUME NamesAssumption == None \notin Nat \cup Savers 
                          /\ Saved \cup Prompted \subseteq Sessions
ASSUME SessionsAssumption == IsFiniteSet(Sessions)
ASSUME CapAssumption  == MaxCost \in Nat /\ MaxTokens \in Nat /\ AutoCancel \in BOOLEAN
ASSUME BoundAssumption == MaxSpend \in Nat /\ MaxUsage \in Nat /\ MaxCrashes \in Nat
ASSUME BillingsAssumption == Billings \subseteq [Sessions -> {"USD", "EUR"}]

VARIABLES
  tracker,   \* CostTracker.sessions
  currency,  \* the currency the agent bills a session in
  spent,     \* agent: cumulative cost of a session
  prompt,    \* "idle", "running" or, asked to cancel, "stopping"
  overdue,   \* ghost: prompts whose last usage report found the budget exceeded
  name,      \* file system: inode of a session's file and of its .tmp file
  content,   \* file system: what an inode holds
  saver,     \* the SaveSessionCost calls
  overlapped,\* ghost: sessions two of whose saves ran at the same time
  observed,  \* ghost: token counts observed, and restored, per session
  crashes    \* restarts so far

agentVars == <<currency, spent>>
diskVars  == <<name, content, saver, overlapped>>
vars == <<tracker, agentVars, prompt, overdue, diskVars, observed, crashes>>

NoRecord == [cost |-> 0, cur |-> "", tokens |-> 0]
Torn     == [cost |-> 0, cur |-> "torn", tokens |-> 0]
Empty    == [cost |-> 0, cur |-> "empty", tokens |-> 0]
Records  == [cost : Nat, cur : {"", "USD", "EUR"}, tokens : Nat]
ASSUME NoneAssumption == None \notin Records \cup {Torn, Empty}

Ended(how) == [at |-> how, s |-> None, snap |-> NoRecord, ino |-> None]
NoSave     == Ended("idle")

Init ==
  /\ tracker = [s \in Sessions |-> None]
  /\ currency \in Billings
  /\ spent = [s \in Sessions |-> 0]
  /\ prompt = [s \in Sessions |-> "idle"] /\ overdue = {}
  /\ name = [s \in Sessions |-> [file |-> None, tmp |-> None]]
  /\ content = [k \in Savers |-> Empty]
  /\ saver = [k \in Savers |-> NoSave]
  /\ overlapped = {}
  /\ observed = [s \in Sessions |-> {0}]
  /\ crashes = 0

-----------------------------------------------------------------------------
(* The tracker and the budget.                                             *)

Record(s) == IF tracker[s] = None THEN NoRecord ELSE tracker[s]

\* Snapshot sums over the sessions, cost only where it is in dollars or in no
\* currency at all.
SumOf(f) ==
  LET sum[T \in SUBSET DOMAIN f] ==
        IF T = {} THEN 0
        ELSE LET x == CHOOSE x \in T : TRUE IN f[x] + sum[T \ {x}]
  IN sum[DOMAIN f]

TotalCostUSD(t) ==
  SumOf([s \in Sessions |-> IF t[s] = None \/ t[s].cur \notin {"", "USD"} THEN 0
                                                                     ELSE t[s].cost])
TotalTokens(t) == SumOf([s \in Sessions |-> IF t[s] = None THEN 0 ELSE t[s].tokens])

\* Mutant: a cap that is just reached does not count.
ExceededStrictly(t) ==
  \/ MaxCost > 0 /\ TotalCostUSD(t) > MaxCost
  \/ MaxTokens > 0 /\ TotalTokens(t) > MaxTokens

\* exceededLocked; a cap of zero is no cap.
Exceeded(t) ==
  \/ MaxCost > 0 /\ TotalCostUSD(t) >= MaxCost
  \/ MaxTokens > 0 /\ TotalTokens(t) >= MaxTokens

\* statusLocked's CompletionRatio, compared with num/den without dividing.
RatioAtLeast(t, num, den) ==
  \/ MaxCost > 0 /\ TotalCostUSD(t) * den >= num * MaxCost
  \/ MaxTokens > 0 /\ TotalTokens(t) * den >= num * MaxTokens
  \/ num = 0

\* Status.Reason with the default threshold of nine tenths.
Reason(t) == IF Exceeded(t) THEN "budget_exceeded"
             ELSE IF RatioAtLeast(t, 9, 10) THEN "near_completion"
             ELSE "within_budget"

\* recordUsageUpdate: cumulative values overwrite; a report may omit the cost.
RecordUsage(s, withCost) ==
  [tracker EXCEPT ![s] = IF withCost
     THEN [Record(s) EXCEPT !.cost = spent'[s], !.cur = currency[s]]
     ELSE Record(s)]

\* Mutant: the budget is looked at before the report is recorded.
CancelOnStale(s) == AutoCancel /\ Exceeded(tracker)

CancelNow(s) == AutoCancel /\ Exceeded(tracker')

\* A usage_update: tracked, then, over budget, Session.Cancel on this session.
UsageUpdate(s) ==
  /\ \E c \in {0, 1} : spent[s] + c <= MaxSpend /\ spent' = [spent EXCEPT ![s] = @ + c]
  /\ \E withCost \in BOOLEAN : tracker' = RecordUsage(s, withCost)
  /\ overdue' = IF Exceeded(tracker') /\ prompt[s] # "idle" THEN overdue \cup {s}
                                                           ELSE overdue \ {s}
  /\ prompt' = IF CancelNow(s) /\ prompt[s] = "running"
               THEN [prompt EXCEPT ![s] = "stopping"] ELSE prompt
  /\ UNCHANGED <<currency, diskVars, observed, crashes>>

\* Session.Prompt does not ask the budget.
PromptStarts(s) ==
  /\ prompt[s] = "idle"
  /\ prompt' = [prompt EXCEPT ![s] = "running"]
  /\ UNCHANGED <<tracker, agentVars, overdue, diskVars, observed, crashes>>

\* Mutant: the usage of the turn is added up.
ObserveAdds(s, u) == [Record(s) EXCEPT !.tokens = @ + u]

\* ObservePromptResult: each counter keeps its maximum.
ObserveResult(s, u) == [Record(s) EXCEPT !.tokens = IF u > @ THEN u ELSE @]

\* The turn ends; the caller may hand the result to the tracker, more than once.
PromptEnds(s) ==
  /\ prompt[s] \in {"running", "stopping"}
  /\ prompt' = [prompt EXCEPT ![s] = "idle"]
  /\ overdue' = overdue \ {s}
  /\ UNCHANGED <<tracker, agentVars, diskVars, observed, crashes>>

Observe(s) ==
  /\ \E u \in 1..MaxUsage :
       /\ tracker' = [tracker EXCEPT ![s] = ObserveResult(s, u)]
       /\ observed' = [observed EXCEPT ![s] = @ \cup {u}]
  /\ UNCHANGED <<agentVars, prompt, overdue, diskVars, crashes>>

-----------------------------------------------------------------------------
(* The files.                                                              *)

Busy(k) == saver[k].at \in {"opened", "written"}

\* Mutant: the file is written in place.
SaveOpensInPlace(k, s) ==
  /\ saver[k].at = "idle" /\ tracker[s] # None
  /\ LET i == IF name[s].file = None THEN k ELSE name[s].file
     IN /\ name' = [name EXCEPT ![s] = [file |-> i, tmp |-> i]]
        /\ content' = [content EXCEPT ![i] = Empty]
        /\ saver' = [saver EXCEPT ![k] = [at |-> "opened", s |-> s,
                                          snap |-> tracker[s], ino |-> i]]
  /\ UNCHANGED <<tracker, agentVars, prompt, overdue, overlapped, observed, crashes>>

\* SessionSnapshot, then WriteFile opens and truncates the .tmp file.
SaveOpens(k, s) ==
  /\ saver[k].at = "idle" /\ tracker[s] # None
  /\ LET i == IF name[s].tmp = None THEN k ELSE name[s].tmp
     IN /\ name' = [name EXCEPT ![s].tmp = i]
        /\ content' = [content EXCEPT ![i] = Empty]
        /\ saver' = [saver EXCEPT ![k] = [at |-> "opened", s |-> s,
                                          snap |-> tracker[s], ino |-> i]]
  /\ overlapped' = IF \E j \in Savers : Busy(j) /\ saver[j].s = s
                   THEN overlapped \cup {s} ELSE overlapped
  /\ UNCHANGED <<tracker, agentVars, prompt, overdue, observed, crashes>>

\* The data goes to the inode that was opened, from its start: over the longer
\* data of another save it leaves a tail.
SaveWrites(k) ==
  /\ saver[k].at = "opened"
  /\ content' = [content EXCEPT ![saver[k].ino] =
       IF @ # Empty /\ @ # saver[k].snap /\ @.tokens >= saver[k].snap.tokens
       THEN Torn ELSE saver[k].snap]
  /\ saver' = [saver EXCEPT ![k].at = "written"]
  /\ UNCHANGED <<tracker, agentVars, prompt, overdue, name, overlapped, observed,
                 crashes>>

\* Mutant: the rename does not wait for the write.
SaveRenamesEarly(k) ==
  /\ Busy(k) /\ name[saver[k].s].tmp # None
  /\ name' = [name EXCEPT ![saver[k].s] = [file |-> name[saver[k].s].tmp, tmp |-> None]]
  /\ saver' = [saver EXCEPT ![k] = Ended("saved")]
  /\ UNCHANGED <<tracker, agentVars, prompt, overdue, content, overlapped, observed,
                 crashes>>

\* Rename moves whatever .tmp names now; without one it fails.
SaveRenames(k) ==
  /\ saver[k].at = "written"
  /\ LET s == saver[k].s
     IN \/ /\ name[s].tmp # None
           /\ name' = [name EXCEPT ![s] = [file |-> name[s].tmp, tmp |-> None]]
           /\ saver' = [saver EXCEPT ![k] = Ended("saved")]
        \/ /\ name[s].tmp = None
           /\ saver' = [saver EXCEPT ![k] = Ended("failed")]
           /\ UNCHANGED name
  /\ UNCHANGED <<tracker, agentVars, prompt, overdue, content, overlapped, observed,
                 crashes>>

OnDisk(s) == IF name[s].file = None THEN None ELSE content[name[s].file]

\* CostTracker.LoadSessionCost: a file that parses replaces the record.
Load(s) ==
  /\ OnDisk(s) \notin {None, Torn, Empty}
  /\ tracker' = [tracker EXCEPT ![s] = OnDisk(s)]
  /\ observed' = [observed EXCEPT ![s] = {OnDisk(s).tokens}]
  /\ UNCHANGED <<agentVars, prompt, overdue, diskVars, crashes>>

DeleteSessionCost(s) ==
  /\ name[s].file # None
  /\ name' = [name EXCEPT ![s].file = None]
  /\ UNCHANGED <<tracker, agentVars, prompt, overdue, content, saver, overlapped,
                 observed, crashes>>

\* The process dies, with its tracker and its calls, and starts again.
Crash ==
  /\ crashes < MaxCrashes
  /\ crashes' = crashes + 1
  /\ tracker' = [s \in Sessions |-> None]
  /\ observed' = [s \in Sessions |-> {0}]
  /\ prompt' = [s \in Sessions |-> "idle"] /\ overdue' = {}
  /\ saver' = [k \in Savers |-> IF saver[k].at = "idle" THEN NoSave
                                ELSE Ended("died")]
  /\ UNCHANGED <<agentVars, name, content, overlapped>>

-----------------------------------------------------------------------------

Next ==
  \/ \E s \in Sessions : UsageUpdate(s)
  \/ \E s \in Prompted : PromptStarts(s) \/ PromptEnds(s)
  \/ \E s \in Saved : Observe(s) \/ Load(s) \/ DeleteSessionCost(s)
                      \/ \E k \in Savers : SaveOpens(k, s)
  \/ \E k \in Savers : SaveWrites(k) \/ SaveRenames(k)
  \/ Crash

Spec == Init /\ [][Next]_vars

-----------------------------------------------------------------------------
(* Properties.                                                             *)

SaveCalls == [at : {"idle", "opened", "written", "saved", "failed", "died"},
              s : Sessions \cup {None}, snap : Records, ino : Savers \cup {None}]

\* The variables have the types the code gives them.
TypeOK ==
  /\ tracker \in [Sessions -> Records \cup {None}]
  /\ currency \in [Sessions -> {"USD", "EUR"}] /\ spent \in [Sessions -> Nat]
  /\ prompt \in [Sessions -> {"idle", "running", "stopping"}]
  /\ content \in [Savers -> Records \cup {Torn, Empty}]
  /\ name \in [Sessions -> [file : Savers \cup {None}, tmp : Savers \cup {None}]]
  /\ saver \in [Savers -> SaveCalls]
  /\ \A k \in Savers : Busy(k) => saver[k].s \in Sessions /\ saver[k].ino \in Savers

\* attachBudgetTracker: a session whose usage report found the budget exceeded
\* is not left running; sessions that report nothing are not covered.
BudgetStops == AutoCancel => \A s \in overdue : prompt[s] # "running"

\* The token count of a session is the largest usage observed or restored, so
\* handing over a result twice or out of order changes nothing.
TokensAreMaximum ==
  \A s \in Sessions : tracker[s] # None =>
    /\ tracker[s].tokens \in observed[s]
    /\ \A u \in observed[s] : u <= tracker[s].tokens

\* CompletionRatio and BudgetExceeded agree: the ratio reaches one exactly when
\* a cap is crossed, and a budget that is exceeded was near completion.
RatioAgrees ==
  /\ Exceeded(tracker) <=> RatioAtLeast(tracker, 1, 1)
  /\ Reason(tracker) = "within_budget" => ~RatioAtLeast(tracker, 1, 1)

\* What the trackers report is what was observed.
AccountingExact == TokensAreMaximum /\ RatioAgrees

\* The file a reader finds is whole, whatever crashed, unless two saves of that
\* session ran at the same time and shared the .tmp file.
TornOnlyByOverlap ==
  \A s \in Sessions : s \notin overlapped => OnDisk(s) \notin {Torn, Empty}

\* A save that reported success left its snapshot, or a later save's, or a
\* delete came after; a leftover .tmp of a crash is never taken for it.
SuccessIsOnDisk ==
  [][\A k \in Savers : Busy(k) /\ saver'[k].at = "saved"
       /\ saver[k].s \notin overlapped
       => name'[saver[k].s].file # None
          /\ content'[name'[saver[k].s].file] = saver[k].snap]_vars

=============================================================================
