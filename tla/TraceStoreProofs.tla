--------------------------- MODULE TraceStoreProofs ---------------------------
(* What the deletion of a run and the cleanup of orphans leave in S3, for any  *)
(* number of runs and traces, and however long a worker executes.              *)
EXTENDS TraceStore, TLAPS

\* A request that will delete the row has enqueued its task, and so has one that did.
TaskFirst ==
  \A r \in Runs : deleting[r] \/ status[r] = "deleted" => deletion[r] # "none"

\* What a task leaves was uploaded after it.
OnlyLate == \A r \in Runs : deletion[r] = "done" => objects[r] \subseteq late[r]

DInv == TypeOK /\ TaskFirst /\ OnlyLate

\* A run the cleanup has selected has no executor, or has raced with it: nobody will
\* count a scenario for it.
NobodySaves ==
  \A r \in batch : r \in raced \/ (~Executing(r) /\ ~counted[r])

\* The traces an executor holds are in S3.
HeldStored ==
  \A r \in Runs : Executing(r) /\ deletion[r] = "none" => held[r] \subseteq objects[r] \/ r \in raced

KInv == TypeOK /\ NobodySaves /\ HeldStored /\ JudgedTracesKept

-----------------------------------------------------------------------------
(* Types                                                                   *)

LEMMA TypeStep == TypeOK /\ [Next]_vars => TypeOK'
  <1> SUFFICES ASSUME TypeOK, [Next]_vars PROVE TypeOK'
    OBVIOUS
  <1> USE BoundsAssumption DEF TypeOK, rowVars, workerVars, MoveTo, Forgets, Writes, Statuses, GivenUp
  <1>1. ASSUME NEW r \in Runs, NEW t \in Traces, UploadTrace(r, t) PROVE TypeOK'
    BY <1>1 DEF UploadTrace
  <1>2. ASSUME NEW r \in Runs, SimulationEnds(r) \/ PersistRaises(r) \/ WorkerDies(r) PROVE TypeOK'
    BY <1>2 DEF SimulationEnds, PersistRaises, WorkerDies
  <1>3. ASSUME NEW r \in Runs, Persist(r) PROVE TypeOK'
    BY <1>3, ZenonT(60) DEF Persist
  <1>4. ASSUME NEW r \in Runs, Settle(r) PROVE TypeOK'
    BY <1>4 DEF Settle
  <1>5. ASSUME NEW r \in Runs, Cancel(r) \/ EnqueueFailed(r) \/ SweepZombie(r) \/ HourPasses(r) PROVE TypeOK'
    BY <1>5 DEF Cancel, EnqueueFailed, SweepZombie, HourPasses
  <1>6. ASSUME NEW r \in Runs, DeleteEnqueues(r) \/ DeleteCommits(r) PROVE TypeOK'
    BY <1>6 DEF DeleteEnqueues, DeleteCommits
  <1>7. ASSUME NEW r \in Runs, DeleteTraces(r) PROVE TypeOK'
    BY <1>7 DEF DeleteTraces
  <1>8. CASE CleanupSelects
    BY <1>8 DEF CleanupSelects, Orphans
  <1>9. ASSUME NEW r \in Runs, CleanupDeletes(r) \/ CleanupFails(r) PROVE TypeOK'
    BY <1>9 DEF CleanupDeletes, CleanupFails
  <1>10. CASE UNCHANGED vars
    BY <1>10 DEF vars
  <1> QED
    BY <1>1, <1>2, <1>3, <1>4, <1>5, <1>6, <1>7, <1>8, <1>9, <1>10 DEF Next, WorkerStep, UserStep, Cleanup

-----------------------------------------------------------------------------
(* Deleted runs                                                            *)

LEMMA InitDInv == Init => DInv
  BY DEF Init, DInv, TypeOK, TaskFirst, OnlyLate, Statuses

LEMMA DStep == DInv /\ [Next]_vars => DInv'
  <1> SUFFICES ASSUME DInv, [Next]_vars PROVE TaskFirst' /\ OnlyLate'
    BY TypeStep DEF DInv
  <1> USE DEF DInv, TypeOK, TaskFirst, OnlyLate, rowVars, workerVars, MoveTo, Forgets, Writes, GivenUp
  <1>1. ASSUME NEW r \in Runs, NEW t \in Traces, UploadTrace(r, t) PROVE TaskFirst' /\ OnlyLate'
    BY <1>1 DEF UploadTrace
  <1>2. ASSUME NEW r \in Runs, SimulationEnds(r) \/ PersistRaises(r) \/ WorkerDies(r) \/ Persist(r)
        PROVE  TaskFirst' /\ OnlyLate'
    BY <1>2 DEF SimulationEnds, PersistRaises, WorkerDies, Persist
  <1>3. ASSUME NEW r \in Runs, Settle(r) PROVE TaskFirst' /\ OnlyLate'
    BY <1>3 DEF Settle
  <1>4. ASSUME NEW r \in Runs, Cancel(r) \/ EnqueueFailed(r) \/ SweepZombie(r) \/ HourPasses(r)
        PROVE  TaskFirst' /\ OnlyLate'
    BY <1>4 DEF Cancel, EnqueueFailed, SweepZombie, HourPasses
  <1>5. ASSUME NEW r \in Runs, DeleteEnqueues(r) PROVE TaskFirst' /\ OnlyLate'
    BY <1>5 DEF DeleteEnqueues, AbortsOnEnqueueFailure
  <1>6. ASSUME NEW r \in Runs, DeleteCommits(r) PROVE TaskFirst' /\ OnlyLate'
    BY <1>6 DEF DeleteCommits
  <1>7. ASSUME NEW r \in Runs, DeleteTraces(r) PROVE TaskFirst' /\ OnlyLate'
    BY <1>7 DEF DeleteTraces
  <1>8. ASSUME NEW r \in Runs, CleanupDeletes(r) \/ CleanupFails(r) PROVE TaskFirst' /\ OnlyLate'
    BY <1>8 DEF CleanupDeletes, CleanupFails
  <1>9. CASE CleanupSelects \/ UNCHANGED vars
    BY <1>9 DEF CleanupSelects, vars
  <1> QED
    BY <1>1, <1>2, <1>3, <1>4, <1>5, <1>6, <1>7, <1>8, <1>9 DEF Next, WorkerStep, UserStep, Cleanup

\* "Deletion aborted to prevent orphaned S3 data" (evaluation.py): whatever a deletion
\* runs into, its task comes before the row goes, and leaves only later uploads.
THEOREM DeletedRunsLeaveNothing == Spec => []DeletedRunsCleaned
  <1>1. DInv => DeletedRunsCleaned
    BY DEF DInv, TaskFirst, OnlyLate, DeletedRunsCleaned
  <1> QED
    BY InitDInv, DStep, <1>1, PTL DEF Spec

-----------------------------------------------------------------------------
(* Judged traces                                                           *)

LEMMA InitKInv == Init => KInv
  BY DEF Init, KInv, TypeOK, NobodySaves, HeldStored, JudgedTracesKept, Statuses, Executing

LEMMA NobodySavesStep ==
  ASSUME TypeOK, NobodySaves, [Next]_vars PROVE NobodySaves'
  <1> USE DEF TypeOK, NobodySaves, Executing, rowVars, workerVars, Writes, MoveTo, Forgets, GivenUp
  <1>1. ASSUME NEW r \in Runs, NEW t \in Traces, UploadTrace(r, t) PROVE NobodySaves'
    BY <1>1 DEF UploadTrace
  <1>2. ASSUME NEW r \in Runs, SimulationEnds(r) \/ PersistRaises(r) \/ WorkerDies(r) PROVE NobodySaves'
    BY <1>2 DEF SimulationEnds, PersistRaises, WorkerDies
  <1>3. ASSUME NEW r \in Runs, Persist(r) PROVE NobodySaves'
    BY <1>3 DEF Persist
  <1>4. ASSUME NEW r \in Runs, Settle(r) PROVE NobodySaves'
    BY <1>4 DEF Settle
  <1>5. ASSUME NEW r \in Runs, Cancel(r) \/ EnqueueFailed(r) \/ SweepZombie(r) PROVE NobodySaves'
    BY <1>5 DEF Cancel, EnqueueFailed, SweepZombie
  <1>6. ASSUME NEW r \in Runs, HourPasses(r) PROVE NobodySaves'
    BY <1>6 DEF HourPasses
  <1>7. ASSUME NEW r \in Runs, DeleteEnqueues(r) \/ DeleteTraces(r) PROVE NobodySaves'
    BY <1>7 DEF DeleteEnqueues, DeleteTraces
  <1>8. ASSUME NEW r \in Runs, DeleteCommits(r) PROVE NobodySaves'
    BY <1>8 DEF DeleteCommits
  <1>9. CASE CleanupSelects
    <2>1. /\ batch' \subseteq Orphans /\ UNCHANGED <<rowVars, workerVars>>
          /\ {r \in batch' : Executing(r)} \subseteq raced'
      BY <1>9 DEF CleanupSelects
    <2> QED
      BY <2>1 DEF Orphans
  <1>10. ASSUME NEW r \in Runs, CleanupDeletes(r) \/ CleanupFails(r) PROVE NobodySaves'
    BY <1>10 DEF CleanupDeletes, CleanupFails
  <1>11. CASE UNCHANGED vars
    BY <1>11 DEF vars
  <1> QED
    BY <1>1, <1>2, <1>3, <1>4, <1>5, <1>6, <1>7, <1>8, <1>9, <1>10, <1>11 DEF Next, WorkerStep, UserStep, Cleanup

LEMMA StoredStep ==
  ASSUME KInv, [Next]_vars PROVE HeldStored' /\ JudgedTracesKept'
  <1> USE DEF KInv, TypeOK, NobodySaves, HeldStored, JudgedTracesKept, Executing, rowVars, workerVars, Writes, MoveTo, Forgets, GivenUp
  <1>1. ASSUME NEW r \in Runs, NEW t \in Traces, UploadTrace(r, t) PROVE HeldStored' /\ JudgedTracesKept'
    BY <1>1 DEF UploadTrace
  <1>2. ASSUME NEW r \in Runs, SimulationEnds(r) \/ PersistRaises(r) \/ WorkerDies(r)
        PROVE  HeldStored' /\ JudgedTracesKept'
    BY <1>2 DEF SimulationEnds, PersistRaises, WorkerDies
  <1>3. ASSUME NEW r \in Runs, Persist(r) PROVE HeldStored' /\ JudgedTracesKept'
    BY <1>3 DEF Persist
  <1>4. ASSUME NEW r \in Runs, Settle(r) PROVE HeldStored' /\ JudgedTracesKept'
    BY <1>4 DEF Settle
  <1>5. ASSUME NEW r \in Runs, Cancel(r) \/ EnqueueFailed(r) \/ SweepZombie(r) \/ HourPasses(r)
        PROVE  HeldStored' /\ JudgedTracesKept'
    BY <1>5 DEF Cancel, EnqueueFailed, SweepZombie, HourPasses
  <1>6. ASSUME NEW r \in Runs, DeleteEnqueues(r) PROVE HeldStored' /\ JudgedTracesKept'
    BY <1>6 DEF DeleteEnqueues
  <1>7. ASSUME NEW r \in Runs, DeleteTraces(r) PROVE HeldStored' /\ JudgedTracesKept'
    BY <1>7 DEF DeleteTraces
  <1>8. ASSUME NEW r \in Runs, DeleteCommits(r) PROVE HeldStored' /\ JudgedTracesKept'
    BY <1>8 DEF DeleteCommits
  <1>9. ASSUME NEW r \in Runs, CleanupDeletes(r) \/ CleanupFails(r) PROVE HeldStored' /\ JudgedTracesKept'
    BY <1>9 DEF CleanupDeletes, CleanupFails
  <1>10. CASE CleanupSelects \/ UNCHANGED vars
    BY <1>10 DEF CleanupSelects, vars
  <1> QED
    BY <1>1, <1>2, <1>3, <1>4, <1>5, <1>6, <1>7, <1>8, <1>9, <1>10 DEF Next, WorkerStep, UserStep, Cleanup

\* "Safety" of the cleanup (beat.py), and its limit: a run keeps the traces its judgments
\* refer to unless the user deletes it, or the cleanup selected it while its worker was
\* still executing. No bound on the time a worker takes is assumed.
THEOREM JudgedTracesStay == Spec => []JudgedTracesKept
  <1>1. KInv /\ [Next]_vars => KInv'
    BY TypeStep, NobodySavesStep, StoredStep DEF KInv
  <1>2. KInv => JudgedTracesKept
    BY DEF KInv
  <1> QED
    BY InitKInv, <1>1, <1>2, PTL DEF Spec

===============================================================================
