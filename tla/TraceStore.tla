------------------------------ MODULE TraceStore ------------------------------
(***************************************************************************)
(* Trace objects in S3 and the rows that point to them. The worker of a run*)
(* uploads its traces while it simulates and inserts the rows at the end   *)
(* (worker/tasks.py). Objects are removed by the task that the delete      *)
(* endpoint enqueues, and every ten minutes by the cleanup of orphaned     *)
(* traces (worker/beat.py), for failed or cancelled runs that have counted *)
(* no scenario for an hour. S3 and the database share no transaction.      *)
(***************************************************************************)
EXTENDS Integers, FiniteSets

CONSTANTS
    Runs, Traces,
    Batch,         \* LIMIT of the cleanup's query (10)
    Unwanted       \* bound: runs that users try to delete, each once

ASSUME BatchAssumption == Batch \in Nat \ {0}
ASSUME BoundsAssumption == Unwanted \subseteq Runs

VARIABLES
    status,     \* status column, "deleted" without a row
    counted,    \* total_scenarios > 0
    aged,       \* updated_at is more than an hour ago
    worker,     \* the executor of the run
    held,       \* traces in the worker's state
    objects,    \* traces stored under the run's prefix
    refs,       \* traces of the run's trace_metadata rows
    deletion,   \* delete_s3_traces of the run
    deleting,   \* the endpoint is between its enqueue and its commit
    batch,      \* runs the cleanup selected and has not handled
    late,       \* history: traces uploaded after the run's deletion task
    raced       \* history: runs the cleanup selected while their worker executed

rowVars == <<status, counted, aged, refs>>
workerVars == <<worker, held>>
vars == <<rowVars, workerVars, objects, deletion, deleting, batch, late, raced>>

Statuses == {"running", "completed", "failed", "cancelled", "deleted"}
Executing(r) == worker[r] \in {"simulating", "judging", "saved", "unsaved"}

Init ==
    /\ status = [r \in Runs |-> "running"]
    /\ counted = [r \in Runs |-> FALSE] /\ aged = [r \in Runs |-> FALSE]
    /\ worker = [r \in Runs |-> "simulating"]
    /\ held = [r \in Runs |-> {}] /\ objects = [r \in Runs |-> {}] /\ refs = [r \in Runs |-> {}]
    /\ deletion = [r \in Runs |-> "none"] /\ deleting = [r \in Runs |-> FALSE]
    /\ batch = {}
    /\ late = [r \in Runs |-> {}] /\ raced = {}

MoveTo(r, phase) == worker' = [worker EXCEPT ![r] = phase]
Forgets(r) == held' = [held EXCEPT ![r] = {}]
Writes(r, value) == status' = [status EXCEPT ![r] = value] /\ aged' = [aged EXCEPT ![r] = FALSE]

-----------------------------------------------------------------------------
(* The worker                                                              *)

UploadTrace(r, t) ==
    /\ worker[r] = "simulating" /\ t \notin held[r]
    /\ objects' = [objects EXCEPT ![r] = @ \cup {t}]
    /\ held' = [held EXCEPT ![r] = @ \cup {t}]
    /\ late' = IF deletion[r] = "done" THEN [late EXCEPT ![r] = @ \cup {t}] ELSE late
    /\ UNCHANGED <<rowVars, worker, deletion, deleting, batch, raced>>

\* The graph goes on to the judge, or the worker drops the update of the node and
\* ends: the user has cancelled.
SimulationEnds(r) ==
    /\ worker[r] = "simulating"
    /\ MoveTo(r, "judging")
    /\ \/ UNCHANGED held
       \/ status[r] = "cancelled" /\ held' = [held EXCEPT ![r] = {}]
    /\ UNCHANGED <<rowVars, objects, deletion, deleting, batch, late, raced>>

\* _persist_final_state. The traces were judged, or the graph ended before (budget,
\* cancellation): then the run has trace rows and counts no scenario.
Persist(r) ==
    /\ worker[r] = "judging"
    /\ MoveTo(r, "saved") /\ Forgets(r)
    /\ IF status[r] = "deleted" THEN UNCHANGED rowVars
       ELSE /\ refs' = [refs EXCEPT ![r] = held[r]]
            /\ \E judged \in BOOLEAN : counted' = [counted EXCEPT ![r] = judged /\ held[r] # {}]
            /\ aged' = [aged EXCEPT ![r] = FALSE]
            /\ UNCHANGED status
    /\ UNCHANGED <<objects, deletion, deleting, batch, late, raced>>

PersistRaises(r) ==
    /\ worker[r] \in {"simulating", "judging"}
    /\ MoveTo(r, "unsaved") /\ Forgets(r)
    /\ UNCHANGED <<rowVars, objects, deletion, deleting, batch, late, raced>>

\* The terminal update, which a failed or deleted run refuses.
Settle(r) ==
    /\ worker[r] \in {"saved", "unsaved"}
    /\ MoveTo(r, "gone")
    /\ IF status[r] \notin {"running", "cancelled"} THEN UNCHANGED rowVars
       ELSE /\ \/ Writes(r, IF worker[r] = "saved" THEN "completed" ELSE "failed")
               \/ status[r] = "cancelled" /\ Writes(r, "cancelled")
            /\ UNCHANGED <<counted, refs>>
    /\ UNCHANGED <<held, objects, deletion, deleting, batch, late, raced>>

WorkerDies(r) ==
    /\ Executing(r)
    /\ MoveTo(r, "gone") /\ Forgets(r)
    /\ UNCHANGED <<rowVars, objects, deletion, deleting, batch, late, raced>>

-----------------------------------------------------------------------------
(* Users and the sweep                                                     *)

\* cancel_evaluation_run writes over whatever the run has become since the request read
\* its status; the handler of a failed enqueue writes although the broker may have taken
\* the task.
Cancel(r) ==
    /\ status[r] # "deleted"
    /\ Writes(r, "cancelled")
    /\ UNCHANGED <<counted, refs, workerVars, objects, deletion, deleting, batch, late, raced>>

EnqueueFailed(r) ==
    /\ status[r] # "deleted"
    /\ Writes(r, "failed")
    /\ UNCHANGED <<counted, refs, workerVars, objects, deletion, deleting, batch, late, raced>>

GivenUp == "failed"

SweepZombie(r) ==
    /\ status[r] = "running"
    /\ Writes(r, GivenUp)
    /\ UNCHANGED <<counted, refs, workerVars, objects, deletion, deleting, batch, late, raced>>

\* delete_evaluation_run up to its commit: no task, no deletion.
IgnoresEnqueueFailure == TRUE  \* mutant: logs the error and deletes the row
AbortsOnEnqueueFailure == FALSE

DeleteEnqueues(r) ==
    /\ r \in Unwanted /\ status[r] # "deleted" /\ deletion[r] = "none" /\ ~deleting[r]
    /\ \/ /\ deletion' = [deletion EXCEPT ![r] = "queued"]
          /\ deleting' = [deleting EXCEPT ![r] = TRUE]
       \/ /\ AbortsOnEnqueueFailure
          /\ deleting' = [deleting EXCEPT ![r] = TRUE]
          /\ UNCHANGED deletion
    /\ UNCHANGED <<rowVars, workerVars, objects, batch, late, raced>>

\* The row goes and its trace rows with it, or the request dies first.
DeleteCommits(r) ==
    /\ deleting[r]
    /\ deleting' = [deleting EXCEPT ![r] = FALSE]
    /\ \/ /\ Writes(r, "deleted")
          /\ refs' = [refs EXCEPT ![r] = {}]
          /\ counted' = [counted EXCEPT ![r] = FALSE]
       \/ UNCHANGED rowVars
    /\ UNCHANGED <<workerVars, objects, deletion, batch, late, raced>>

\* delete_s3_traces: an error is logged and the task ends.
DeleteTraces(r) ==
    /\ deletion[r] = "queued"
    /\ \/ /\ objects' = [objects EXCEPT ![r] = {}]
          /\ deletion' = [deletion EXCEPT ![r] = "done"]
       \/ /\ deletion' = [deletion EXCEPT ![r] = "failed"]
          /\ UNCHANGED objects
    /\ UNCHANGED <<rowVars, workerVars, deleting, batch, late, raced>>

-----------------------------------------------------------------------------
(* cleanup_orphaned_traces                                                 *)

\* A worker that goes on after its run was given up writes nothing meanwhile: heartbeats
\* stop when the status is not running, and nothing limits the time it takes.
HourPasses(r) ==
    /\ status[r] \in {"failed", "cancelled"} /\ ~aged[r]
    /\ aged' = [aged EXCEPT ![r] = TRUE]
    /\ UNCHANGED <<status, counted, refs, workerVars, objects, deletion, deleting, batch, late, raced>>

CountedToo == {r \in Runs : status[r] \in {"failed", "cancelled"} /\ aged[r]}  \* mutant: no test of total_scenarios
FailedOnly == {r \in Runs : status[r] = "failed" /\ aged[r] /\ ~counted[r]}  \* mutant: forgets cancelled runs
Orphans == {r \in Runs : status[r] \in {"failed", "cancelled"} /\ aged[r] /\ ~counted[r]}

\* LIMIT without ORDER BY: the database chooses.
CleanupSelects ==
    /\ batch = {} /\ Orphans # {}
    /\ \E chosen \in SUBSET Orphans :
          /\ Cardinality(chosen) <= Batch
          /\ Cardinality(chosen) = Batch \/ chosen = Orphans
          /\ batch' = chosen
          /\ raced' = raced \cup {r \in chosen : Executing(r)}
    /\ UNCHANGED <<rowVars, workerVars, objects, deletion, deleting, late>>

CleanupDeletes(r) ==
    /\ r \in batch
    /\ batch' = batch \ {r}
    /\ objects' = [objects EXCEPT ![r] = {}]
    /\ UNCHANGED <<rowVars, workerVars, deletion, deleting, late, raced>>

\* An error of S3 is logged, the run stays as it is.
CleanupFails(r) ==
    /\ r \in batch
    /\ batch' = batch \ {r}
    /\ UNCHANGED <<rowVars, workerVars, objects, deletion, deleting, late, raced>>

-----------------------------------------------------------------------------

WorkerStep(r) ==
    \/ \E t \in Traces : UploadTrace(r, t)
    \/ SimulationEnds(r) \/ Persist(r) \/ PersistRaises(r) \/ Settle(r) \/ WorkerDies(r)

UserStep(r) ==
    \/ Cancel(r) \/ EnqueueFailed(r) \/ SweepZombie(r)
    \/ DeleteEnqueues(r) \/ DeleteCommits(r) \/ DeleteTraces(r)

Cleanup == CleanupSelects \/ \E r \in Runs : CleanupDeletes(r) \/ CleanupFails(r)

Next == (\E r \in Runs : WorkerStep(r) \/ UserStep(r) \/ HourPasses(r)) \/ Cleanup

Spec == Init /\ [][Next]_vars

\* Beat schedules the cleanup for ever, and S3 does not fail for ever.
FairSpec == Spec /\ WF_vars(CleanupSelects) /\ \A r \in Runs : SF_vars(CleanupDeletes(r))

-----------------------------------------------------------------------------
(* Properties                                                              *)

\* Every variable stays in its type.
TypeOK ==
    /\ status \in [Runs -> Statuses]
    /\ counted \in [Runs -> BOOLEAN] /\ aged \in [Runs -> BOOLEAN]
    /\ worker \in [Runs -> {"simulating", "judging", "saved", "unsaved", "gone"}]
    /\ held \in [Runs -> SUBSET Traces] /\ objects \in [Runs -> SUBSET Traces]
    /\ refs \in [Runs -> SUBSET Traces] /\ late \in [Runs -> SUBSET Traces]
    /\ deletion \in [Runs -> {"none", "queued", "done", "failed"}] /\ deleting \in [Runs -> BOOLEAN]
    /\ batch \subseteq Runs /\ raced \subseteq Runs

\* beat.py, "Safety": no trace that judgments refer to is removed, unless the user
\* deletes the run. One race is excused, which the test of total_scenarios does not
\* exclude: the cleanup selects a run that was given up while its worker goes on, and
\* the worker saves its results before the objects are removed, or after.
JudgedTracesKept ==
    \A r \in Runs : counted[r] /\ deletion[r] = "none" => refs[r] \subseteq objects[r] \/ r \in raced

\* "Deletion aborted to prevent orphaned S3 data": a deleted run left its task behind,
\* and what is in S3 after a successful task was uploaded later.
DeletedRunsCleaned ==
    \A r \in Runs : status[r] = "deleted" =>
        /\ deletion[r] # "none"
        /\ deletion[r] = "done" => objects[r] \subseteq late[r]

\* No failed or cancelled run that counted no scenario keeps its traces for ever while
\* such runs fit into the query's LIMIT. Runs are not marked when their traces are gone,
\* and the query orders nothing: with one run too many, the database may choose the
\* others for ever.
Forgotten(r) == status[r] \in {"failed", "cancelled"} /\ aged[r] /\ ~counted[r]
FitIntoBatch == Cardinality({r \in Runs : Forgotten(r)}) <= Batch
OrphansRemoved ==
    \A r \in Runs : []<>(Forgotten(r) /\ FitIntoBatch => objects[r] = {})

===============================================================================
