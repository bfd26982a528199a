---------------------------- MODULE RunLifecycle ----------------------------
(***************************************************************************)
(* The life of an evaluation run: the rows of table evaluation_runs and    *)
(* everybody who writes them.                                              *)
(*                                                                         *)
(*  API      create, cancel and delete requests                            *)
(*           (api/routes/evaluation.py), each a few database transactions  *)
(*           with other requests and workers between them;                 *)
(*  broker   Celery over Redis, at-least-once: late acknowledgement,       *)
(*           requeue on worker loss, redelivery after the visibility       *)
(*           timeout (worker/celery_app.py);                               *)
(*  workers  execute_evaluation_run (worker/tasks.py): claim, run the      *)
(*           graph, persist, write the terminal status, with a heartbeat   *)
(*           task beside it;                                               *)
(*  beat     sweep_zombie_runs (worker/beat.py).                           *)
(*                                                                         *)
(* The graph itself is one step here: of its outcome the row only learns   *)
(* whether it ended, raised, or was abandoned for a cancellation.          *)
(***************************************************************************)
EXTENDS Integers, FiniteSets

CONSTANTS
    Runs,             \* identities of evaluation runs
    Tenants,          \* tenants
    Owner,            \* the tenant of each run
    Workers,          \* Celery worker processes
    NoRun,            \* what a worker without a task executes
    MaxActive,        \* active runs a tenant may have (2 in the code)
    MaxCrashes,       \* bound: worker processes that die
    MaxDbFaults,      \* bound: database errors that escape a task
    MaxRedeliveries   \* bound: extra deliveries of one run's task

ASSUME RunsAssumption == IsFiniteSet(Runs)
ASSUME NoRunAssumption == NoRun \notin Runs
ASSUME OwnerAssumption == Owner \in [Runs -> Tenants]
ASSUME MaxActiveAssumption == MaxActive \in Nat \ {0}
ASSUME BoundsAssumption ==
    MaxCrashes \in Nat /\ MaxDbFaults \in Nat /\ MaxRedeliveries \in Nat

VARIABLES
    status,       \* status[r]: the column, or "none" before and "deleted" after the row
    heartbeat,    \* heartbeat[r]: last_heartbeat_at: null, recent, or before the cutoff
    error,        \* error[r]: is error_message set
    results,      \* results[r]: times _persist_final_state committed for r
    creating,     \* creating[r]: progress of the POST that creates r
    cancelling,   \* cancelling[r]: a cancel request has read r and not yet written
    deleting,     \* deleting[r]: a delete request has read r and not yet deleted
    queue,        \* queue[r]: deliverable messages of r's task
    redelivered,  \* redelivered[r]: extra deliveries of r's task so far
    worker,       \* worker[w]: the task a worker process is executing
    crashes,      \* workers that died so far
    dbFaults      \* database errors that escaped a task so far

rowVars == <<status, heartbeat, error, results>>
apiVars == <<creating, cancelling, deleting>>
brokerVars == <<queue, redelivered>>
faultVars == <<crashes, dbFaults>>
vars == <<rowVars, apiVars, brokerVars, worker, faultVars>>

Terminal == {"completed", "failed", "cancelled"}
ActiveStatus == {"pending", "running"}
RowStatus == ActiveStatus \cup Terminal
Creating == {"idle", "locked", "admitted", "inserted", "failing", "done", "died"}
\* A claim is won on leaving "claiming"; from then on the worker owns the run.
Executing == {"claimed", "streaming", "persisting", "publishing", "terminal"}

Idle == [phase |-> "idle", run |-> NoRun, cancelled |-> FALSE, fatal |-> FALSE]

RowExists(r) == status[r] \in RowStatus
RunsOf(t) == {r \in Runs : Owner[r] = t}
ActiveRuns(t) == {r \in RunsOf(t) : status[r] \in ActiveStatus}

\* The tenant's advisory transaction lock is held from the lock to the commit.
NeverHeld(t) == FALSE  \* mutant: no advisory lock
LockHeld(t) == \E r \in RunsOf(t) : creating[r] \in {"locked", "admitted"}

Init ==
    /\ status = [r \in Runs |-> "none"]
    /\ heartbeat = [r \in Runs |-> "null"]
    /\ error = [r \in Runs |-> FALSE]
    /\ results = [r \in Runs |-> 0]
    /\ creating = [r \in Runs |-> "idle"]
    /\ cancelling = [r \in Runs |-> FALSE]
    /\ deleting = [r \in Runs |-> FALSE]
    /\ queue = [r \in Runs |-> 0]
    /\ redelivered = [r \in Runs |-> 0]
    /\ worker = [w \in Workers |-> Idle]
    /\ crashes = 0
    /\ dbFaults = 0

-----------------------------------------------------------------------------
(* API: POST /evaluations/                                                 *)

\* pg_advisory_xact_lock: waits until no other create of the tenant is in its
\* transaction.
LockTenant(r) ==
    /\ creating[r] = "idle"
    /\ status[r] = "none"
    /\ ~ LockHeld(Owner[r])
    /\ creating' = [creating EXCEPT ![r] = "locked"]
    /\ UNCHANGED <<rowVars, cancelling, deleting, brokerVars, worker, faultVars>>

\* The active runs are counted; at the limit the request ends with a 429 and its
\* transaction, with the lock, is rolled back.
CountActive(r) ==
    /\ creating[r] = "locked"
    /\ creating' = [creating EXCEPT ![r] =
                      IF Cardinality(ActiveRuns(Owner[r])) >= MaxActive THEN "idle" ELSE "admitted"]
    /\ UNCHANGED <<rowVars, cancelling, deleting, brokerVars, worker, faultVars>>

\* The pending row is committed, which releases the lock.
InsertRun(r) ==
    /\ creating[r] = "admitted"
    /\ creating' = [creating EXCEPT ![r] = "inserted"]
    /\ status' = [status EXCEPT ![r] = "pending"]
    /\ UNCHANGED <<heartbeat, error, results, cancelling, deleting, brokerVars, worker, faultVars>>

\* execute_evaluation_run.delay succeeded.
EnqueueRun(r) ==
    /\ creating[r] = "inserted"
    /\ creating' = [creating EXCEPT ![r] = "done"]
    /\ queue' = [queue EXCEPT ![r] = @ + 1]
    /\ UNCHANGED <<rowVars, cancelling, deleting, redelivered, worker, faultVars>>

\* delay raised: the broker may have taken the message before the connection broke.
EnqueueRaises(r) ==
    /\ creating[r] = "inserted"
    /\ creating' = [creating EXCEPT ![r] = "failing"]
    /\ \E taken \in {0, 1} : queue' = [queue EXCEPT ![r] = @ + taken]
    /\ UNCHANGED <<rowVars, cancelling, deleting, redelivered, worker, faultVars>>

EnqueueLogsOnly(r) ==  \* mutant: the handler of the exception leaves the row alone
    /\ creating[r] = "failing"
    /\ creating' = [creating EXCEPT ![r] = "done"]
    /\ UNCHANGED <<rowVars, cancelling, deleting, brokerVars, worker, faultVars>>

\* The handler of that exception writes "failed" whatever the row holds by now.
EnqueueFailed(r) ==
    /\ creating[r] = "failing"
    /\ creating' = [creating EXCEPT ![r] = "done"]
    /\ IF RowExists(r)
       THEN /\ status' = [status EXCEPT ![r] = "failed"]
            /\ error' = [error EXCEPT ![r] = TRUE]
       ELSE UNCHANGED <<status, error>>
    /\ UNCHANGED <<heartbeat, results, cancelling, deleting, brokerVars, worker, faultVars>>

\* The API process dies in the middle of a create: before the commit the
\* transaction is undone, after it the row stays as it is.
CreateAborts(r) ==
    /\ creating[r] \in {"locked", "admitted", "inserted", "failing"}
    /\ creating' = [creating EXCEPT ![r] = IF @ \in {"locked", "admitted"} THEN "idle" ELSE "died"]
    /\ UNCHANGED <<rowVars, cancelling, deleting, brokerVars, worker, faultVars>>

-----------------------------------------------------------------------------
(* API: POST /evaluations/{id}/cancel and DELETE /evaluations/{id}         *)

\* The row is read and its status found not to be terminal.
CancelReads(r) ==
    /\ ~ cancelling[r]
    /\ status[r] \in ActiveStatus
    /\ cancelling' = [cancelling EXCEPT ![r] = TRUE]
    /\ UNCHANGED <<rowVars, creating, deleting, brokerVars, worker, faultVars>>

\* UPDATE ... WHERE id: the status of the row is not looked at again.
CancelWrites(r) ==
    /\ cancelling[r]
    /\ cancelling' = [cancelling EXCEPT ![r] = FALSE]
    /\ status' = IF RowExists(r) THEN [status EXCEPT ![r] = "cancelled"] ELSE status
    /\ UNCHANGED <<heartbeat, error, results, creating, deleting, brokerVars, worker, faultVars>>

\* The row is read and delete_s3_traces enqueued (TraceStore models that task);
\* any status will do.
DeleteReads(r) ==
    /\ ~ deleting[r]
    /\ RowExists(r)
    /\ deleting' = [deleting EXCEPT ![r] = TRUE]
    /\ UNCHANGED <<rowVars, creating, cancelling, brokerVars, worker, faultVars>>

DeleteRow(r) ==
    /\ deleting[r]
    /\ deleting' = [deleting EXCEPT ![r] = FALSE]
    /\ status' = [status EXCEPT ![r] = "deleted"]
    /\ UNCHANGED <<heartbeat, error, results, creating, cancelling, brokerVars, worker, faultVars>>

-----------------------------------------------------------------------------
(* Broker (external)                                                       *)

Receive(w, r) ==
    /\ worker[w] = Idle
    /\ queue[r] > 0
    /\ queue' = [queue EXCEPT ![r] = @ - 1]
    /\ worker' = [worker EXCEPT ![w] = [Idle EXCEPT !.phase = "claiming", !.run = r]]
    /\ UNCHANGED <<rowVars, apiVars, redelivered, faultVars>>

\* The visibility timeout passes while a worker still executes the task.
Redeliver(w) ==
    /\ worker[w] # Idle
    /\ redelivered[worker[w].run] < MaxRedeliveries
    /\ redelivered' = [redelivered EXCEPT ![worker[w].run] = @ + 1]
    /\ queue' = [queue EXCEPT ![worker[w].run] = @ + 1]
    /\ UNCHANGED <<rowVars, apiVars, worker, faultVars>>

WorkerCrashAfterAck(w) ==  \* mutant: acknowledged on receipt
    /\ worker[w] # Idle
    /\ crashes < MaxCrashes
    /\ crashes' = crashes + 1
    /\ worker' = [worker EXCEPT ![w] = Idle]
    /\ UNCHANGED <<rowVars, apiVars, brokerVars, dbFaults>>

\* The process dies; task_reject_on_worker_lost puts its message back.
WorkerCrash(w) ==
    /\ worker[w] # Idle
    /\ crashes < MaxCrashes
    /\ crashes' = crashes + 1
    /\ queue' = [queue EXCEPT ![worker[w].run] = @ + 1]
    /\ worker' = [worker EXCEPT ![w] = Idle]
    /\ UNCHANGED <<rowVars, apiVars, redelivered, dbFaults>>

-----------------------------------------------------------------------------
(* Worker: _execute_evaluation_run_async                                   *)

Moves(w, phase) == worker' = [worker EXCEPT ![w].phase = phase]

\* The WHERE clause of the claim.
ClaimUnfinished == ActiveStatus  \* mutant: a redelivered task resumes its run
ClaimFrom == {"pending"}

\* UPDATE ... WHERE id AND status = 'pending'; without a row, or without a row
\* in that state, the task returns and its message is acknowledged.
Claim(w) ==
    LET r == worker[w].run IN
    /\ worker[w].phase = "claiming"
    /\ IF status[r] \in ClaimFrom
       THEN status' = [status EXCEPT ![r] = "running"] /\ Moves(w, "claimed")
       ELSE UNCHANGED status /\ worker' = [worker EXCEPT ![w] = Idle]
    /\ UNCHANGED <<heartbeat, error, results, apiVars, brokerVars, faultVars>>

\* The row is reloaded and celery_task_id written. If it was deleted meanwhile
\* the task ends with an AttributeError; otherwise heartbeat and graph start.
Setup(w) ==
    /\ worker[w].phase = "claimed"
    /\ IF RowExists(worker[w].run)
       THEN Moves(w, "streaming")
       ELSE worker' = [worker EXCEPT ![w] = Idle]
    /\ UNCHANGED <<rowVars, apiVars, brokerVars, faultVars>>

\* A database error before the try block: the task fails, and a failed task is
\* acknowledged.
TaskRaises(w) ==
    /\ worker[w].phase \in {"claiming", "claimed"}
    /\ dbFaults < MaxDbFaults
    /\ dbFaults' = dbFaults + 1
    /\ worker' = [worker EXCEPT ![w] = Idle]
    /\ UNCHANGED <<rowVars, apiVars, brokerVars, crashes>>

\* _heartbeat_loop, until the finally block cancels it.
Heartbeat(w) ==
    /\ worker[w].phase \in {"streaming", "persisting", "publishing"}
    /\ status[worker[w].run] = "running"
    /\ heartbeat' = [heartbeat EXCEPT ![worker[w].run] = "recent"]
    /\ UNCHANGED <<status, error, results, apiVars, brokerVars, worker, faultVars>>

\* The poll after a node reads "cancelled". Nodes after which the 5 s throttle
\* suppressed the poll, or the poll read anything else, change nothing here.
SeeCancel(w) ==
    /\ worker[w].phase = "streaming"
    /\ status[worker[w].run] = "cancelled"
    /\ worker' = [worker EXCEPT ![w].phase = "persisting", ![w].cancelled = TRUE]
    /\ UNCHANGED <<rowVars, apiVars, brokerVars, faultVars>>

StreamEnds(w) ==
    /\ worker[w].phase = "streaming"
    /\ Moves(w, "persisting")
    /\ UNCHANGED <<rowVars, apiVars, brokerVars, faultVars>>

StreamRaisesUncaught(w) ==  \* mutant: no except and finally around the graph
    /\ worker[w].phase = "streaming"
    /\ worker' = [worker EXCEPT ![w] = Idle]
    /\ UNCHANGED <<rowVars, apiVars, brokerVars, faultVars>>

StreamRaises(w) ==
    /\ worker[w].phase = "streaming"
    /\ worker' = [worker EXCEPT ![w].phase = "terminal", ![w].fatal = TRUE]
    /\ UNCHANGED <<rowVars, apiVars, brokerVars, faultVars>>

\* _persist_final_state and its commit; skipped without a row, and under no
\* condition on the status.
Persist(w) ==
    LET r == worker[w].run IN
    /\ worker[w].phase = "persisting"
    /\ results' = IF RowExists(r) THEN [results EXCEPT ![r] = @ + 1] ELSE results
    /\ Moves(w, "publishing")
    /\ UNCHANGED <<status, heartbeat, error, apiVars, brokerVars, faultVars>>

\* The save transaction fails and is rolled back.
PersistRaises(w) ==
    /\ worker[w].phase = "persisting"
    /\ RowExists(worker[w].run)
    /\ worker' = [worker EXCEPT ![w].phase = "terminal", ![w].fatal = TRUE]
    /\ UNCHANGED <<rowVars, apiVars, brokerVars, faultVars>>

\* The terminal event: EvaluationEventV1 has no status "cancelled", so for a
\* cancelled run its construction raises and the except block runs.
PublishEnd(w) ==
    /\ worker[w].phase = "publishing"
    /\ worker' = [worker EXCEPT ![w].phase = "terminal", ![w].fatal = @ \/ worker[w].cancelled]
    /\ UNCHANGED <<rowVars, apiVars, brokerVars, faultVars>>

OutcomeIgnoresFatal(w) ==  \* mutant: the exception is logged only
    IF worker[w].cancelled THEN "cancelled" ELSE "completed"

Outcome(w) ==
    IF worker[w].cancelled THEN "cancelled" ELSE IF worker[w].fatal THEN "failed" ELSE "completed"

\* "Stale Writer Rejection": the WHERE clause of the terminal update.
WriteUnguarded == RowStatus  \* mutant: no stale writer rejection
WriteFrom == {"running", "cancelled"}

\* error_message is written too, NULL unless the task saw an exception.
ErrorKept(w) == error[worker[w].run] \/ worker[w].fatal  \* mutant: only ever set
ErrorAfter(w) == worker[w].fatal

\* UPDATE ... WHERE status IN ('running', 'cancelled'), then the task returns
\* and its message is acknowledged.
WriteTerminal(w) ==
    LET r == worker[w].run IN
    /\ worker[w].phase = "terminal"
    /\ IF status[r] \in WriteFrom
       THEN /\ status' = [status EXCEPT ![r] = Outcome(w)]
            /\ error' = [error EXCEPT ![r] = ErrorAfter(w)]
       ELSE UNCHANGED <<status, error>>
    /\ worker' = [worker EXCEPT ![w] = Idle]
    /\ UNCHANGED <<heartbeat, results, apiVars, brokerVars, faultVars>>

\* The commit of the terminal transaction is lost; the task fails, acknowledged.
WriteTerminalRaises(w) ==
    /\ worker[w].phase = "terminal"
    /\ dbFaults < MaxDbFaults
    /\ dbFaults' = dbFaults + 1
    /\ worker' = [worker EXCEPT ![w] = Idle]
    /\ UNCHANGED <<rowVars, apiVars, brokerVars, crashes>>

-----------------------------------------------------------------------------
(* Beat: sweep_zombie_runs                                                 *)

\* Time passes without a heartbeat reaching the row: its worker is gone, its
\* event loop is blocked, or its database errors are being swallowed.
HeartbeatAges(r) ==
    /\ heartbeat[r] = "recent"
    /\ heartbeat' = [heartbeat EXCEPT ![r] = "old"]
    /\ UNCHANGED <<status, error, results, apiVars, brokerVars, worker, faultVars>>

\* The sweep's second statement asks for started_at < cutoff, and no code writes
\* started_at: a NULL satisfies no comparison.
StartedBeforeCutoff(r) == FALSE

NullZombies ==  \* mutant: only the second statement
    {r \in Runs : status[r] = "running" /\ heartbeat[r] = "null" /\ StartedBeforeCutoff(r)}

Zombies ==
    {r \in Runs : /\ status[r] = "running"
                  /\ \/ heartbeat[r] = "old"
                     \/ heartbeat[r] = "null" /\ StartedBeforeCutoff(r)}

SweptToPending == "pending"  \* mutant: requeue instead of fail
SweptToUnknown == "zombie"  \* mutant: a value the enum does not have
SweptStatus == "failed"

Sweep ==
    /\ Zombies # {}
    /\ status' = [r \in Runs |-> IF r \in Zombies THEN SweptStatus ELSE status[r]]
    /\ error' = [r \in Runs |-> error[r] \/ r \in Zombies]
    /\ UNCHANGED <<heartbeat, results, apiVars, brokerVars, worker, faultVars>>

-----------------------------------------------------------------------------

ApiStep(r) ==
    \/ LockTenant(r) \/ CountActive(r) \/ InsertRun(r)
    \/ EnqueueRun(r) \/ EnqueueRaises(r) \/ EnqueueFailed(r) \/ CreateAborts(r)
    \/ CancelReads(r) \/ CancelWrites(r)
    \/ DeleteReads(r) \/ DeleteRow(r)

BrokerStep(w) ==
    \/ \E r \in Runs : Receive(w, r)
    \/ Redeliver(w)
    \/ WorkerCrash(w)

TaskStep(w) ==
    \/ Claim(w) \/ Setup(w) \/ TaskRaises(w)
    \/ Heartbeat(w)
    \/ SeeCancel(w) \/ StreamEnds(w) \/ StreamRaises(w)
    \/ Persist(w) \/ PersistRaises(w) \/ PublishEnd(w)
    \/ WriteTerminal(w) \/ WriteTerminalRaises(w)

Next ==
    \/ \E r \in Runs : ApiStep(r) \/ HeartbeatAges(r)
    \/ \E w \in Workers : BrokerStep(w) \/ TaskStep(w)
    \/ Sweep

Spec == Init /\ [][Next]_vars

-----------------------------------------------------------------------------
(* Fairness: an idle worker process takes waiting messages; a live one     *)
(* makes progress (every call of the pipeline has a timeout and a bounded  *)
(* number of retries); Beat fires every minute; and time passes for a run  *)
(* nobody executes. API clients and all failures are left unfair.          *)

WorkerStep(w) ==
    \/ Claim(w) \/ Setup(w)
    \/ SeeCancel(w) \/ StreamEnds(w) \/ StreamRaises(w)
    \/ Persist(w) \/ PersistRaises(w) \/ PublishEnd(w)
    \/ WriteTerminal(w)

Executes(w, r) == worker[w].run = r /\ worker[w].phase \in Executing

AbandonedAges(r) == (\A w \in Workers : ~ Executes(w, r)) /\ HeartbeatAges(r)

Fairness ==
    /\ \A w \in Workers : WF_vars(WorkerStep(w))
    /\ \A r \in Runs : WF_vars(\E w \in Workers : Receive(w, r))
    /\ \A r \in Runs : WF_vars(AbandonedAges(r))
    /\ WF_vars(Sweep)

FairSpec == Spec /\ Fairness

-----------------------------------------------------------------------------
(* Properties                                                              *)

\* What a worker process executes, if anything.
Tasks == [phase : {"claiming"} \cup Executing, run : Runs, cancelled : BOOLEAN, fatal : BOOLEAN]

\* Every variable stays in its type.
TypeOK ==
    /\ status \in [Runs -> RowStatus \cup {"none", "deleted"}]
    /\ heartbeat \in [Runs -> {"null", "recent", "old"}]
    /\ error \in [Runs -> BOOLEAN]
    /\ results \in [Runs -> Nat]
    /\ creating \in [Runs -> Creating]
    /\ cancelling \in [Runs -> BOOLEAN]
    /\ deleting \in [Runs -> BOOLEAN]
    /\ queue \in [Runs -> Nat]
    /\ redelivered \in [Runs -> 0 .. MaxRedeliveries]
    /\ worker \in [Workers -> Tasks \cup {Idle}]
    /\ crashes \in 0 .. MaxCrashes
    /\ dbFaults \in 0 .. MaxDbFaults

\* However often the broker delivers a run's task, at most one worker executes
\* it (tasks.py, the atomic pending -> running claim).
SingleExecutor ==
    \A r \in Runs : \A v, w \in Workers : Executes(v, r) /\ Executes(w, r) => v = w

\* A tenant never has more than MaxActive pending or running runs: the count and
\* the insert of concurrent creates do not interleave, and no later write makes a
\* settled run active again (evaluation.py, the concurrency limit).
ActiveLimit == \A t \in Tenants : Cardinality(ActiveRuns(t)) <= MaxActive

\* The totals are increments, so results committed twice would be counted twice:
\* they are committed at most once whatever is crashed, swept or redelivered.
ResultsAtMostOnce == \A r \in Runs : results[r] <= 1

\* A completed row has its scenarios, traces and judgments behind it, also when
\* its worker raced with a cancel, a sweep or a failed save.
CompletedHasResults == \A r \in Runs : status[r] = "completed" => results[r] = 1

\* error_message tells the truth about the status: a row that was failed by the
\* sweep, cancelled by a late request and completed by its worker has none.
ErrorMatchesStatus ==
    \A r \in Runs : /\ status[r] = "completed" => ~ error[r]
                    /\ status[r] = "failed" => error[r]

\* Without crashes and escaped database errors, a running row has a worker that
\* will write its terminal status: no path through the task forgets it.
RunningHasExecutor ==
    crashes = 0 /\ dbFaults = 0 =>
        \A r \in Runs : status[r] = "running" => \E w \in Workers : Executes(w, r)

\* Somebody is to start r, or the one who was has died with the request.
Expected(r) ==
    \/ creating[r] \in {"inserted", "failing", "died"}
    \/ queue[r] > 0
    \/ \E w \in Workers : worker[w].phase = "claiming" /\ worker[w].run = r

\* A run is left pending for nobody only in two ways: its API process died between
\* the commit of the row and the enqueue (evaluation.py), or a database error failed
\* its task before the claim (tasks.py). Otherwise its message is in the broker, a
\* worker is about to claim it, or the request that created it is still going.
PendingHasTask == \A r \in Runs : status[r] = "pending" => Expected(r) \/ dbFaults > 0

\* A step never makes a settled run active again, and a deleted row stays
\* deleted: late cancels, late enqueue failures, sweeps and stale workers included.
NoReactivation ==
    [][\A r \in Runs :
          /\ status[r] \in Terminal => status'[r] \notin ActiveStatus \cup {"none"}
          /\ status[r] = "deleted" => status'[r] = "deleted"]_vars

\* "Stale Writer Rejection" (tasks.py): the worker of a run that the sweep or a
\* failed enqueue has marked failed does not turn it into a completed one.
StaleWriterRejected ==
    [][\A r \in Runs : status[r] = "failed" => status'[r] # "completed"]_vars

\* Only a worker that executes a run, and that saved its results, completes it;
\* no API request and no sweep does.
CompletedByExecutor ==
    [][\A r \in Runs : status[r] # "completed" /\ status'[r] = "completed" =>
          \E w \in Workers : Executes(w, r) /\ ~ worker[w].fatal /\ results[r] = 1]_vars

\* The lifecycle implements the abstract promise of RunContract.
PhaseOf(st) ==
    CASE st = "none" -> "absent"
      [] st = "pending" -> "queued"
      [] st = "running" -> "executing"
      [] st = "deleted" -> "removed"
      [] OTHER -> "settled"

Contract == INSTANCE RunContract WITH
    phase <- [r \in Runs |-> PhaseOf(status[r])], stored <- results

ContractKept == Contract!Spec

\* A run whose task is in the broker leaves "pending", through worker crashes and
\* redeliveries (task_acks_late, task_reject_on_worker_lost), unless a database error
\* fails a task: a failed task is acknowledged.
EnqueuedRunStarts ==
    \A r \in Runs : (status[r] = "pending" /\ queue[r] > 0) ~> (status[r] # "pending" \/ dbFaults > 0)

Settled(r) == status[r] \in Terminal \cup {"deleted"}

\* A run that has recorded a heartbeat is settled in the end, by its worker or,
\* when the worker dies, by the sweep.
HeartbeatedRunSettles ==
    \A r \in Runs : (status[r] = "running" /\ heartbeat[r] # "null") ~> Settled(r)

-----------------------------------------------------------------------------
(* What the repository says and the code does not do                       *)

\* scripts/test_chaos.py on a killed worker: "Task remains 'running' until Beat
\* Sweeper detects missing heartbeat, then transitions to 'failed'".
RunningRunSettles == \A r \in Runs : (status[r] = "running") ~> Settled(r)

=============================================================================
