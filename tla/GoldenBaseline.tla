---------------------------- MODULE GoldenBaseline ----------------------------
(***************************************************************************)
(* The golden baseline of one agent: the run that later runs are compared  *)
(* with. An admin pins a completed run (api/routes/evaluation.py, one      *)
(* transaction under READ COMMITTED); the analyzer of a running evaluation *)
(* takes the pinned run, or else falls back to an old one with a good score*)
(* (agents/analyzer.py, _resolve_baseline). Runs are numbered in the order *)
(* of their created_at.                                                    *)
(***************************************************************************)
EXTENDS Integers, FiniteSets, Sequences, SequencesExt

CONSTANTS
    NumRuns,   \* runs of the agent
    Requests   \* concurrent requests to pin a baseline

ASSUME NumRunsAssumption == NumRuns \in Nat \ {0}

Runs == 1 .. NumRuns

VARIABLES
    status, score,  \* columns of the runs; score is avg_score
    flag,           \* is_baseline, as committed
    req,            \* the requests: their step, run, the rows to unset and those locked
    work,           \* work[r]: how far the worker that executes r has come
    chosen          \* chosen[r]: the baseline its analyzer resolved, 0 for none

rowVars == <<status, score, flag>>
workVars == <<work, chosen>>
vars == <<rowVars, req, workVars>>

Statuses == {"running", "completed", "failed", "cancelled", "deleted"}
\* "fallback" is between the two queries of _resolve_baseline.
Progress == {"before", "fallback", "analysed", "saved", "gone"}
Scores == {"null", "low", "decent", "good"}  \* low < 70 <= decent < 80 <= good
NoReq == [step |-> "idle", run |-> 1, todo |-> <<>>, held |-> {}]

Init ==
    /\ status = [r \in Runs |-> "running"]
    /\ score = [r \in Runs |-> "null"]
    /\ flag = [r \in Runs |-> FALSE]
    /\ req = [q \in Requests |-> NoReq]
    /\ work = [r \in Runs |-> "before"]
    /\ chosen = [r \in Runs |-> 0]

-----------------------------------------------------------------------------
(* Requests about a run, and the sweep                                     *)

\* Transactions that have locked a row; they keep it until they end.
LockedBy(r) == {q \in Requests : r \in req[q].held}

\* The sweep gives up on the worker; a user cancels, or the enqueue is taken for failed,
\* in requests that may have read the row before it was settled. The worker learns of
\* none of this.
SettledByOthers(r) ==
    /\ status[r] # "deleted" /\ LockedBy(r) = {}
    /\ \E end \in {"failed", "cancelled"} : status' = [status EXCEPT ![r] = end]
    /\ UNCHANGED <<score, flag, req, workVars>>

DeleteRun(r) ==
    /\ status[r] # "deleted" /\ LockedBy(r) = {}
    /\ status' = [status EXCEPT ![r] = "deleted"]
    /\ flag' = [flag EXCEPT ![r] = FALSE]
    /\ UNCHANGED <<score, req, workVars>>

-----------------------------------------------------------------------------
(* set_golden_baseline                                                     *)

AnyScore(r) == score[r] # "null"  \* mutant: no minimum
DecentScore(r) == score[r] \in {"decent", "good"}

PinnableAny(r) == status[r] # "deleted"  \* mutant: neither status nor score is looked at
Pinnable(r) == status[r] = "completed" /\ DecentScore(r)

ReadRun(q) ==
    /\ req[q].step = "idle"
    /\ \E r \in Runs :
          /\ Pinnable(r)
          /\ req' = [req EXCEPT ![q] = [NoReq EXCEPT !.step = "read", !.run = r]]
    /\ UNCHANGED <<status, score, flag, workVars>>

\* The UPDATE takes its snapshot of the committed rows, in the order of its scan.
FindBaselines(q) ==
    /\ req[q].step = "read"
    /\ \E scan \in SetToSeqs({r \in Runs : flag[r]}) :
          req' = [req EXCEPT ![q].step = "update", ![q].todo = scan]
    /\ UNCHANGED <<status, score, flag, workVars>>

\* The row the transaction wants next: of the UPDATE, then the new baseline's own.
Wanted(q) == IF req[q].todo = <<>> THEN req[q].run ELSE Head(req[q].todo)

\* Nothing of the transaction is visible before its commit.
UnsetVisible(q) == [r \in Runs |-> flag[r] /\ r # Wanted(q)]  \* mutant: each row commits by itself
BeforeCommit(q) == flag

\* The UPDATE takes the rows of its snapshot one by one and keeps the earlier ones while
\* it waits. A row that has lost its flag meanwhile is locked all the same.
LockRow(q) ==
    /\ req[q].step = "update" /\ req[q].todo # <<>>
    /\ LockedBy(Wanted(q)) = {}
    /\ req' = [req EXCEPT ![q].todo = Tail(@),
                          ![q].held = IF status[Wanted(q)] = "deleted" THEN @ ELSE @ \union {Wanted(q)}]
    /\ flag' = BeforeCommit(q)
    /\ UNCHANGED <<status, score, workVars>>

\* run.is_baseline = True and the commit, which make both changes visible at once;
\* a run that was deleted meanwhile makes it fail.
Committed(q) == [r \in Runs |-> r = req[q].run \/ (flag[r] /\ r \notin req[q].held)]

SetBaseline(q) ==
    /\ req[q].step = "update" /\ req[q].todo = <<>>
    /\ LockedBy(req[q].run) \subseteq {q}
    /\ flag' = IF status[req[q].run] = "deleted" THEN flag ELSE Committed(q)
    /\ req' = [req EXCEPT ![q] = NoReq]
    /\ UNCHANGED <<status, score, workVars>>

\* Requests each of which wants a row that another of them has locked.
Deadlocked(q) == \E D \in SUBSET Requests :
    /\ q \in D
    /\ \A p \in D : /\ req[p].step = "update"
                    /\ \E h \in D \ {p} : Wanted(p) \in req[h].held

KeepsLocks(q) == [req EXCEPT ![q] = [NoReq EXCEPT !.held = req[q].held]]  \* mutant: the session stays in its transaction
RolledBack(q) == [req EXCEPT ![q] = NoReq]

\* PostgreSQL aborts one of them, whichever notices first: get_db rolls back, the admin
\* gets a 500 and no flag has changed.
DeadlockAborts(q) ==
    /\ Deadlocked(q)
    /\ req' = RolledBack(q)
    /\ UNCHANGED <<rowVars, workVars>>

-----------------------------------------------------------------------------
(* The worker of a run, and _resolve_baseline within its graph             *)

Pinned == {r \in Runs : flag[r]}

\* The newest pinned run; the query does not leave the run itself out.
ResolvePinned(r) ==
    /\ work[r] = "before"
    /\ IF Pinned # {}
       THEN chosen' = [chosen EXCEPT ![r] = Max(Pinned)] /\ work' = [work EXCEPT ![r] = "analysed"]
       ELSE UNCHANGED chosen /\ work' = [work EXCEPT ![r] = "fallback"]
    /\ UNCHANGED <<rowVars, req>>

\* The oldest other run with at least 80, whatever its status.
Fallback(r) == {b \in Runs \ {r} : status[b] # "deleted" /\ score[b] = "good"}

ResolveFallback(r) ==
    /\ work[r] = "fallback"
    /\ chosen' = [chosen EXCEPT ![r] = IF Fallback(r) = {} THEN 0 ELSE Min(Fallback(r))]
    /\ work' = [work EXCEPT ![r] = "analysed"]
    /\ UNCHANGED <<rowVars, req>>

\* The scores are saved in a transaction of their own after the graph has ended, with
\* the analysis or, when a node failed or the budget was spent, before it; a run that
\* was cancelled, or given up by the sweep, still gets them.
SaveScores(r) ==
    /\ work[r] \in {"before", "analysed"}
    /\ work' = [work EXCEPT ![r] = "saved"]
    /\ IF status[r] = "deleted"
       THEN UNCHANGED score
       ELSE \E v \in Scores : score' = [score EXCEPT ![r] = v]
    /\ UNCHANGED <<status, flag, req, chosen>>

\* The terminal update, WHERE status IN ('running', 'cancelled'): a run is completed
\* only after its scores were saved. A worker that dies writes nothing.
WorkerEnds(r) ==
    /\ work[r] # "gone"
    /\ work' = [work EXCEPT ![r] = "gone"]
    /\ \/ UNCHANGED status
       \/ /\ status[r] \in {"running", "cancelled"}
          /\ \E end \in {"completed", "failed", "cancelled"} :
                /\ end = "completed" => work[r] = "saved"
                /\ end = "cancelled" => status[r] = "cancelled"
                /\ status' = [status EXCEPT ![r] = end]
    /\ UNCHANGED <<score, flag, req, chosen>>

-----------------------------------------------------------------------------

Request(q) ==
    ReadRun(q) \/ FindBaselines(q) \/ LockRow(q) \/ SetBaseline(q) \/ DeadlockAborts(q)

Next ==
    \/ \E r \in Runs : SettledByOthers(r) \/ DeleteRun(r)
    \/ \E r \in Runs : ResolvePinned(r) \/ ResolveFallback(r) \/ SaveScores(r) \/ WorkerEnds(r)
    \/ \E q \in Requests : Request(q)

Spec == Init /\ [][Next]_vars

\* A request goes on, and of a deadlock somebody is aborted. The lock of a row may be free
\* and taken again and again, but a request that waits for it has its place in the queue.
FairSpec == Spec /\ \A q \in Requests :
    /\ WF_vars(FindBaselines(q)) /\ WF_vars(DeadlockAborts(q))
    /\ SF_vars(LockRow(q)) /\ SF_vars(SetBaseline(q))

-----------------------------------------------------------------------------
(* Properties                                                              *)

ReqType == [step : {"idle", "read", "update"}, run : Runs, todo : Seq(Runs), held : SUBSET Runs]

\* Every variable stays in its type.
TypeOK ==
    /\ status \in [Runs -> Statuses] /\ score \in [Runs -> Scores]
    /\ flag \in [Runs -> BOOLEAN]
    /\ req \in [Requests -> ReqType]
    /\ work \in [Runs -> Progress] /\ chosen \in [Runs -> 0 .. NumRuns]

\* Replacing the baseline never leaves the agent without one: whoever looks, looks
\* at the old one or at a new one. Only deleting the pinned run takes it away.
NeverWithoutBaseline ==
    [][Pinned # {} /\ Pinned' = {} => \E r \in Pinned : status'[r] = "deleted"]_vars

\* What the analyzer compares with has a decent score, whatever is pinned, deleted or
\* saved between the check of the score and the commit, or between the two queries.
BaselineIsDecent ==
    /\ \A r \in Pinned : score[r] \in {"decent", "good"}
    /\ \A r \in Runs : chosen[r] # 0 => score[chosen[r]] \in {"decent", "good"}

\* No run is compared with itself, although the query for the pinned run does not
\* exclude it (analyzer.py): a run can be pinned only once it is completed, and it is
\* completed only by a worker that is past the analysis, whoever settles the row.
NotItsOwnBaseline == \A r \in Runs : chosen[r] # r

\* Every request ends, although each locks the rows of its own snapshot one after the
\* other and keeps them while it waits for the next: with several baselines flagged
\* (see OneBaseline) two of them can wait for each other.
PinsEnd == \A q \in Requests : (req[q].step # "idle") ~> (req[q].step = "idle")

-----------------------------------------------------------------------------
(* What the repository says and the code does not do                       *)

\* evaluation.py: "ensuring only one baseline exists at a time (Atomic operation)".
OneBaseline == Cardinality(Pinned) <= 1

===============================================================================
