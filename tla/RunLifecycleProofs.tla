-------------------------- MODULE RunLifecycleProofs --------------------------
(***************************************************************************)
(* Proofs about RunLifecycle, for any number of runs, workers and tenants, *)
(* any limit and any number of crashes, faults and redeliveries.           *)
(***************************************************************************)
EXTENDS RunLifecycle, FiniteSetTheorems, TLAPS

-----------------------------------------------------------------------------
(* Type correctness                                                        *)

LEMMA IdleTask == Idle.phase = "idle" /\ Idle.run = NoRun /\ Idle \notin Tasks
  BY DEF Idle, Tasks, Executing

\* A worker in any other phase has a task.
LEMMA BusyWorker ==
  ASSUME TypeOK, NEW w \in Workers, worker[w].phase # "idle" \/ worker[w] # Idle
  PROVE  worker[w] \in Tasks /\ worker[w].run \in Runs
  BY IdleTask DEF TypeOK, Tasks

\* Advancing a task, or flagging it, gives a task.
LEMMA TaskUpdate ==
  ASSUME NEW t \in Tasks, NEW p \in Executing, NEW c \in BOOLEAN, NEW f \in BOOLEAN
  PROVE  /\ [t EXCEPT !.phase = p] \in Tasks
         /\ [t EXCEPT !.phase = p, !.cancelled = c] \in Tasks
         /\ [t EXCEPT !.phase = p, !.fatal = f] \in Tasks
         /\ [t EXCEPT !.phase = p].run = t.run
         /\ t.cancelled \in BOOLEAN /\ t.fatal \in BOOLEAN
  BY DEF Tasks

LEMMA NewTask ==
  ASSUME NEW r \in Runs
  PROVE  [Idle EXCEPT !.phase = "claiming", !.run = r] \in Tasks
  BY DEF Idle, Tasks

LEMMA InitTypeOK == Init => TypeOK
  BY BoundsAssumption DEF Init, TypeOK, Creating, RowStatus

\* Every action of the code keeps every variable in its type.
LEMMA NextTypeOK == TypeOK /\ [Next]_vars => TypeOK'
  <1> SUFFICES ASSUME TypeOK, [Next]_vars PROVE TypeOK'
    OBVIOUS
  <1> USE NoRunAssumption, BoundsAssumption
      DEF TypeOK, rowVars, apiVars, brokerVars, faultVars,
          RowStatus, ActiveStatus, Terminal, Creating
  <1>1. CASE UNCHANGED vars
    BY <1>1 DEF vars
  <1>2. ASSUME NEW r \in Runs, LockTenant(r) PROVE TypeOK'
    BY <1>2 DEF LockTenant
  <1>3. ASSUME NEW r \in Runs, CountActive(r) PROVE TypeOK'
    BY <1>3 DEF CountActive
  <1>4. ASSUME NEW r \in Runs, InsertRun(r) PROVE TypeOK'
    BY <1>4 DEF InsertRun
  <1>5. ASSUME NEW r \in Runs, EnqueueRun(r) PROVE TypeOK'
    BY <1>5 DEF EnqueueRun
  <1>6. ASSUME NEW r \in Runs, EnqueueRaises(r) PROVE TypeOK'
    BY <1>6 DEF EnqueueRaises
  <1>7. ASSUME NEW r \in Runs, EnqueueFailed(r) PROVE TypeOK'
    BY <1>7 DEF EnqueueFailed
  <1>8. ASSUME NEW r \in Runs, CreateAborts(r) PROVE TypeOK'
    BY <1>8 DEF CreateAborts
  <1>9. ASSUME NEW r \in Runs, CancelReads(r) PROVE TypeOK'
    BY <1>9 DEF CancelReads
  <1>10. ASSUME NEW r \in Runs, CancelWrites(r) PROVE TypeOK'
    BY <1>10 DEF CancelWrites
  <1>11. ASSUME NEW r \in Runs, DeleteReads(r) PROVE TypeOK'
    BY <1>11 DEF DeleteReads
  <1>12. ASSUME NEW r \in Runs, DeleteRow(r) PROVE TypeOK'
    BY <1>12 DEF DeleteRow
  <1>13. ASSUME NEW r \in Runs, HeartbeatAges(r) PROVE TypeOK'
    BY <1>13 DEF HeartbeatAges
  <1>14. ASSUME NEW w \in Workers, NEW r \in Runs, Receive(w, r) PROVE TypeOK'
    <2>1. worker' \in [Workers -> Tasks \cup {Idle}]
      BY <1>14, NewTask DEF Receive
    <2> QED
      BY <1>14, <2>1 DEF Receive
  <1>15. ASSUME NEW w \in Workers, Redeliver(w) PROVE TypeOK'
    BY <1>15, BusyWorker DEF Redeliver
  <1>16. ASSUME NEW w \in Workers, WorkerCrash(w) PROVE TypeOK'
    BY <1>16, BusyWorker DEF WorkerCrash
  <1>17. ASSUME NEW w \in Workers, Claim(w) PROVE TypeOK'
    <2>1. worker' \in [Workers -> Tasks \cup {Idle}]
      <3>1. worker[w] \in Tasks /\ [worker[w] EXCEPT !.phase = "claimed"] \in Tasks
        BY <1>17, BusyWorker, TaskUpdate DEF Claim, Executing
      <3>2. CASE Moves(w, "claimed")
        BY <3>1, <3>2 DEF Moves
      <3>3. CASE worker' = [worker EXCEPT ![w] = Idle]
        BY <3>3
      <3> QED
        BY <1>17, <3>2, <3>3 DEF Claim
    <2> QED
      BY <1>17, <2>1, BusyWorker, IdleTask DEF Claim
  <1>18. ASSUME NEW w \in Workers, Setup(w) PROVE TypeOK'
    <2>1. worker' \in [Workers -> Tasks \cup {Idle}]
      <3>1. worker[w] \in Tasks /\ [worker[w] EXCEPT !.phase = "streaming"] \in Tasks
        BY <1>18, BusyWorker, TaskUpdate DEF Setup, Executing
      <3>2. CASE Moves(w, "streaming")
        BY <3>1, <3>2 DEF Moves
      <3>3. CASE worker' = [worker EXCEPT ![w] = Idle]
        BY <3>3
      <3> QED
        BY <1>18, <3>2, <3>3 DEF Setup
    <2> QED
      BY <1>18, <2>1 DEF Setup
  <1>19. ASSUME NEW w \in Workers, TaskRaises(w) PROVE TypeOK'
    BY <1>19, BusyWorker DEF TaskRaises
  <1>20. ASSUME NEW w \in Workers, Heartbeat(w) PROVE TypeOK'
    BY <1>20, BusyWorker DEF Heartbeat
  <1>21. ASSUME NEW w \in Workers, SeeCancel(w) PROVE TypeOK'
    BY <1>21, BusyWorker, TaskUpdate, IdleTask, ZenonT(60) DEF SeeCancel, Executing
  <1>22. ASSUME NEW w \in Workers, StreamEnds(w) PROVE TypeOK'
    BY <1>22, BusyWorker, TaskUpdate, IdleTask DEF StreamEnds, Moves, Executing
  <1>23. ASSUME NEW w \in Workers, StreamRaises(w) PROVE TypeOK'
    BY <1>23, BusyWorker, TaskUpdate, IdleTask, ZenonT(60) DEF StreamRaises, Executing
  <1>24. ASSUME NEW w \in Workers, Persist(w) PROVE TypeOK'
    <2>1. worker' \in [Workers -> Tasks \cup {Idle}]
      BY <1>24, BusyWorker, TaskUpdate, IdleTask DEF Persist, Moves, Executing
    <2> QED
      BY <1>24, <2>1, BusyWorker, IdleTask DEF Persist
  <1>25. ASSUME NEW w \in Workers, PersistRaises(w) PROVE TypeOK'
    BY <1>25, BusyWorker, TaskUpdate, IdleTask, ZenonT(60) DEF PersistRaises, Executing
  <1>26. ASSUME NEW w \in Workers, PublishEnd(w) PROVE TypeOK'
    BY <1>26, BusyWorker, TaskUpdate, IdleTask, ZenonT(60) DEF PublishEnd, Executing
  <1>27. ASSUME NEW w \in Workers, WriteTerminal(w) PROVE TypeOK'
    <2>1. worker' \in [Workers -> Tasks \cup {Idle}]
      BY <1>27, BusyWorker, TaskUpdate, IdleTask DEF WriteTerminal
    <2> QED
      <3>1. worker[w] \in Tasks
        BY <1>27, BusyWorker DEF WriteTerminal
      <3>2. Outcome(w) \in Terminal /\ ErrorAfter(w) \in BOOLEAN
        BY <3>1, TaskUpdate DEF Outcome, ErrorAfter, Tasks
      <3>3. status' \in [Runs -> RowStatus \cup {"none", "deleted"}] /\ error' \in [Runs -> BOOLEAN]
        BY <1>27, <3>2 DEF WriteTerminal
      <3> QED
        BY <1>27, <2>1, <3>3 DEF WriteTerminal
  <1>28. ASSUME NEW w \in Workers, WriteTerminalRaises(w) PROVE TypeOK'
    BY <1>28 DEF WriteTerminalRaises
  <1>29. CASE Sweep
    BY <1>29 DEF Sweep, SweptStatus
  <1> QED
    BY <1>1, <1>2, <1>3, <1>4, <1>5, <1>6, <1>7, <1>8, <1>9, <1>10, <1>11,
       <1>12, <1>13, <1>14, <1>15, <1>16, <1>17, <1>18, <1>19, <1>20, <1>21,
       <1>22, <1>23, <1>24, <1>25, <1>26, <1>27, <1>28, <1>29 DEF Next, ApiStep, BrokerStep, TaskStep

\* Every reachable state of the run lifecycle is well typed.
THEOREM TypeCorrect == Spec => []TypeOK
  BY InitTypeOK, NextTypeOK, PTL DEF Spec

-----------------------------------------------------------------------------
(* What a step can do to a row and to a worker                             *)

\* A create is in its transaction only before its row exists, and a delete that
\* has read a row finds it again: nobody else deletes.
RequestInv ==
  \A r \in Runs : /\ creating[r] \in {"locked", "admitted"} => status[r] = "none"
                  /\ deleting[r] => RowExists(r)

\* A row appears as pending, is claimed once, and after that is only settled or
\* deleted.
StatusStep(r) ==
  \/ status'[r] = status[r]
  \/ status[r] = "none" /\ status'[r] = "pending" /\ creating[r] = "admitted" /\ creating'[r] = "inserted"
  \/ status[r] = "pending" /\ status'[r] = "running"
  \/ RowExists(r) /\ status'[r] \in {"failed", "cancelled"}
  \/ /\ status[r] \in WriteFrom /\ status'[r] = "completed"
     /\ \E w \in Workers : Executes(w, r) /\ worker[w].phase = "terminal" /\ ~ worker[w].fatal
  \/ RowExists(r) /\ status'[r] = "deleted" /\ ~ deleting'[r]

\* Every write of the status column, by any of its writers, is one of these.
LEMMA StatusSteps ==
  ASSUME TypeOK, RequestInv, [Next]_vars
  PROVE  \A r \in Runs : StatusStep(r)
  <1> SUFFICES ASSUME NEW s \in Runs PROVE StatusStep(s)
    OBVIOUS
  <1> USE DEF StatusStep, rowVars
  <1>1. CASE UNCHANGED vars
    BY <1>1 DEF vars
  <1>2. ASSUME NEW r \in Runs, ApiStep(r) PROVE StatusStep(s)
    <2>1. CASE InsertRun(r)
      BY <2>1 DEF InsertRun, RequestInv, TypeOK
    <2>2. CASE EnqueueFailed(r) \/ CancelWrites(r)
      BY <2>2 DEF EnqueueFailed, CancelWrites, TypeOK, Terminal
    <2>3. CASE DeleteRow(r)
      BY <2>3 DEF DeleteRow, RequestInv, TypeOK
    <2>4. CASE LockTenant(r) \/ CountActive(r) \/ EnqueueRun(r) \/ EnqueueRaises(r)
      BY <2>4 DEF LockTenant, CountActive, EnqueueRun, EnqueueRaises
    <2>5. CASE CreateAborts(r) \/ CancelReads(r) \/ DeleteReads(r)
      BY <2>5 DEF CreateAborts, CancelReads, DeleteReads
    <2> QED
      BY <1>2, <2>1, <2>2, <2>3, <2>4, <2>5 DEF ApiStep
  <1>3. ASSUME NEW r \in Runs, HeartbeatAges(r) PROVE StatusStep(s)
    BY <1>3 DEF HeartbeatAges
  <1>4. ASSUME NEW w \in Workers, BrokerStep(w) PROVE StatusStep(s)
    BY <1>4 DEF BrokerStep, Receive, Redeliver, WorkerCrash
  <1>5. ASSUME NEW w \in Workers, TaskStep(w) PROVE StatusStep(s)
    <2>1. CASE Claim(w)
      BY <2>1 DEF Claim, ClaimFrom, TypeOK
    <2>2. CASE WriteTerminal(w)
      <3>1. worker[w].run \in Runs
        BY <2>2, BusyWorker DEF WriteTerminal
      <3>2. CASE s = worker[w].run /\ status[s] \in WriteFrom
        <4>1. status'[s] = Outcome(w)
          BY <2>2, <3>2 DEF WriteTerminal, TypeOK
        <4>2. Executes(w, s) /\ worker[w].phase = "terminal"
          BY <2>2, <3>2 DEF WriteTerminal, Executes, Executing
        <4> QED
          BY <3>2, <4>1, <4>2 DEF Outcome, WriteFrom, RowExists, RowStatus, ActiveStatus, Terminal
      <3>3. CASE ~ (s = worker[w].run /\ status[s] \in WriteFrom)
        BY <2>2, <3>1, <3>3 DEF WriteTerminal, TypeOK
      <3> QED
        BY <3>2, <3>3
    <2>3. CASE Setup(w) \/ TaskRaises(w) \/ Heartbeat(w) \/ SeeCancel(w) \/ StreamEnds(w)
      BY <2>3 DEF Setup, TaskRaises, Heartbeat, SeeCancel, StreamEnds
    <2>4. CASE StreamRaises(w) \/ Persist(w) \/ PersistRaises(w) \/ PublishEnd(w) \/ WriteTerminalRaises(w)
      BY <2>4 DEF StreamRaises, Persist, PersistRaises, PublishEnd, WriteTerminalRaises
    <2> QED
      BY <1>5, <2>1, <2>2, <2>3, <2>4 DEF TaskStep
  <1>6. CASE Sweep
    BY <1>6 DEF Sweep, SweptStatus, Zombies, RowExists, RowStatus, ActiveStatus, Terminal
  <1> QED
    BY <1>1, <1>2, <1>3, <1>4, <1>5, <1>6 DEF Next

\* One worker moves at a time, and it gets to execute a run only by claiming the
\* pending row; it never goes back before the save, and gets past it without an
\* exception only by saving.
Unsaved(w) == worker[w].phase \in {"claimed", "streaming", "persisting"}
Saved(w) == worker[w].phase = "publishing" \/ (worker[w].phase = "terminal" /\ ~ worker[w].fatal)

WorkerStepOf(w) ==
  /\ \A v \in Workers \ {w} : worker'[v] = worker[v]
  /\ \A r \in Runs :
        Executes(w, r)' =>
          \/ /\ Executes(w, r)
             /\ Unsaved(w)' => Unsaved(w)
             /\ Saved(w)' => Saved(w) \/ ~ RowExists(r) \/ results'[r] = results[r] + 1
          \/ /\ status[r] = "pending" /\ status'[r] = "running" /\ results' = results
             /\ ~ Saved(w)'

\* Writing one worker's entry leaves the others alone.
LEMMA OneWorkerWritten ==
  ASSUME TypeOK, NEW w \in Workers, NEW t, worker' = [worker EXCEPT ![w] = t]
  PROVE  worker'[w] = t /\ \A v \in Workers \ {w} : worker'[v] = worker[v]
  BY DEF TypeOK

\* Advancing a task that owns its run.
LEMMA TaskAdvanced ==
  ASSUME TypeOK, NEW w \in Workers, NEW p \in Executing,
         worker[w].phase \in Executing,
         p \in {"claimed", "streaming", "persisting"} => Unsaved(w),
         worker'[w].phase = p, worker'[w].run = worker[w].run,
         Saved(w)' => \/ Saved(w) \/ ~ RowExists(worker[w].run)
                      \/ results'[worker[w].run] = results[worker[w].run] + 1,
         \A v \in Workers \ {w} : worker'[v] = worker[v]
  PROVE  WorkerStepOf(w)
  BY DEF WorkerStepOf, Executes, Unsaved

\* Every step of the system moves at most one worker, in that way.
LEMMA WorkerSteps ==
  ASSUME TypeOK, [Next]_vars
  PROVE  worker' = worker \/ \E w \in Workers : WorkerStepOf(w)
  <1>1. CASE UNCHANGED vars
    BY <1>1 DEF vars
  <1>2. ASSUME NEW r \in Runs, ApiStep(r) PROVE worker' = worker
    <2>1. CASE LockTenant(r) \/ CountActive(r) \/ InsertRun(r) \/ EnqueueRun(r) \/ EnqueueRaises(r) \/ EnqueueFailed(r)
      BY <2>1 DEF LockTenant, CountActive, InsertRun, EnqueueRun, EnqueueRaises, EnqueueFailed
    <2>2. CASE CreateAborts(r) \/ CancelReads(r) \/ CancelWrites(r) \/ DeleteReads(r) \/ DeleteRow(r)
      BY <2>2 DEF CreateAborts, CancelReads, CancelWrites, DeleteReads, DeleteRow
    <2> QED
      BY <1>2, <2>1, <2>2 DEF ApiStep
  <1>3. ASSUME NEW r \in Runs, HeartbeatAges(r) \/ Sweep PROVE worker' = worker
    BY <1>3 DEF HeartbeatAges, Sweep
  <1>4. ASSUME NEW w \in Workers, BrokerStep(w) PROVE worker' = worker \/ WorkerStepOf(w)
    <2>1. ASSUME NEW r \in Runs, Receive(w, r) PROVE WorkerStepOf(w)
      BY <2>1, NewTask DEF Receive, WorkerStepOf, Executes, Executing, Idle, TypeOK, Tasks
    <2>2. CASE Redeliver(w)
      BY <2>2 DEF Redeliver
    <2>3. CASE WorkerCrash(w)
      BY <2>3, IdleTask DEF WorkerCrash, WorkerStepOf, Executes, Executing, TypeOK
    <2> QED
      BY <1>4, <2>1, <2>2, <2>3 DEF BrokerStep
  <1>5. ASSUME NEW w \in Workers, TaskStep(w) PROVE worker' = worker \/ WorkerStepOf(w)
    <2> USE IdleTask DEF WorkerStepOf, Executes, Executing, Unsaved, Saved, Moves
    <2>1. CASE Claim(w)
      <3>1. worker[w] \in Tasks /\ worker[w].run \in Runs
        BY <2>1, BusyWorker DEF Claim
      <3>2. CASE status[worker[w].run] = "pending"
        <4>1. worker' = [worker EXCEPT ![w] = [worker[w] EXCEPT !.phase = "claimed"]]
          BY <2>1, <3>2 DEF Claim, ClaimFrom
        <4>2. /\ worker'[w].run = worker[w].run /\ worker'[w].phase = "claimed"
              /\ \A v \in Workers \ {w} : worker'[v] = worker[v]
          <5>1. /\ worker'[w] = [worker[w] EXCEPT !.phase = "claimed"]
                /\ \A v \in Workers \ {w} : worker'[v] = worker[v]
            BY <4>1, OneWorkerWritten
          <5> QED
            BY <3>1, <5>1 DEF Tasks
        <4>3. status'[worker[w].run] = "running" /\ results' = results
          BY <2>1, <3>1, <3>2 DEF Claim, ClaimFrom, TypeOK
        <4> QED
          BY <3>2, <4>2, <4>3
      <3>3. CASE status[worker[w].run] # "pending"
        BY <2>1, <3>3, OneWorkerWritten DEF Claim, ClaimFrom
      <3> QED
        BY <3>2, <3>3
    <2>2. CASE Setup(w)
      <3>1. worker[w] \in Tasks
        BY <2>2, BusyWorker DEF Setup
      <3>2. CASE Moves(w, "streaming")
        BY <2>2, <3>1, <3>2, TaskAdvanced, SMTT(30) DEF Setup, TypeOK, Tasks
      <3>3. CASE worker' = [worker EXCEPT ![w] = Idle]
        BY <3>3, OneWorkerWritten
      <3> QED
        BY <2>2, <3>2, <3>3 DEF Setup
    <2>3. CASE TaskRaises(w) \/ WriteTerminal(w) \/ WriteTerminalRaises(w)
      BY <2>3 DEF TaskRaises, WriteTerminal, WriteTerminalRaises, TypeOK
    <2>4. CASE Heartbeat(w)
      BY <2>4 DEF Heartbeat
    <2>5. CASE SeeCancel(w) \/ StreamEnds(w) \/ StreamRaises(w)
      <3>1. worker[w] \in Tasks
        BY <2>5, BusyWorker DEF SeeCancel, StreamEnds, StreamRaises
      <3>2. CASE SeeCancel(w)
        BY <3>1, <3>2, TaskAdvanced, ZenonT(60) DEF SeeCancel, TypeOK, Tasks
      <3>3. CASE StreamEnds(w)
        BY <3>1, <3>3, TaskAdvanced DEF StreamEnds, TypeOK, Tasks
      <3>4. CASE StreamRaises(w)
        BY <3>1, <3>4, TaskAdvanced, ZenonT(60) DEF StreamRaises, TypeOK, Tasks
      <3> QED
        BY <2>5, <3>2, <3>3, <3>4
    <2>6. CASE Persist(w) \/ PersistRaises(w)
      <3>1. worker[w] \in Tasks
        BY <2>6, BusyWorker DEF Persist, PersistRaises
      <3>2. CASE Persist(w)
        BY <3>1, <3>2, TaskAdvanced, ZenonT(60) DEF Persist, TypeOK, Tasks
      <3>3. CASE PersistRaises(w)
        BY <3>1, <3>3, TaskAdvanced, ZenonT(60) DEF PersistRaises, TypeOK, Tasks
      <3> QED
        BY <2>6, <3>2, <3>3
    <2>7. CASE PublishEnd(w)
      BY <2>7, BusyWorker DEF PublishEnd, TypeOK
    <2> QED
      BY <1>5, <2>1, <2>2, <2>3, <2>4, <2>5, <2>6, <2>7 DEF TaskStep
  <1>6. CASE Sweep
    BY <1>6 DEF Sweep
  <1> QED
    BY <1>1, <1>2, <1>3, <1>4, <1>5, <1>6 DEF Next

\* Results are written by a worker that saves them for the run it executes, and by
\* nobody else; that step leaves the status alone.
SaveBy(w, r) ==
  /\ Executes(w, r) /\ worker[w].phase = "persisting" /\ RowExists(r)
  /\ results'[r] = results[r] + 1 /\ status' = status
  /\ worker'[w].phase = "publishing"
  /\ \A v \in Workers \ {w} : worker'[v] = worker[v]

LEMMA ResultSteps ==
  ASSUME TypeOK, [Next]_vars
  PROVE  \A r \in Runs : results'[r] = results[r] \/ \E w \in Workers : SaveBy(w, r)
  <1> SUFFICES ASSUME NEW s \in Runs PROVE results'[s] = results[s] \/ \E w \in Workers : SaveBy(w, s)
    OBVIOUS
  <1> USE DEF rowVars
  <1>1. CASE UNCHANGED vars
    BY <1>1 DEF vars
  <1>2. ASSUME NEW r \in Runs, ApiStep(r) PROVE results' = results
    BY <1>2 DEF ApiStep, LockTenant, CountActive, InsertRun, EnqueueRun, EnqueueRaises, EnqueueFailed,
                CreateAborts, CancelReads, CancelWrites, DeleteReads, DeleteRow
  <1>3. ASSUME NEW r \in Runs, HeartbeatAges(r) PROVE results' = results
    BY <1>3 DEF HeartbeatAges
  <1>4. ASSUME NEW w \in Workers, BrokerStep(w) PROVE results' = results
    BY <1>4 DEF BrokerStep, Receive, Redeliver, WorkerCrash
  <1>5. ASSUME NEW w \in Workers, TaskStep(w) PROVE results'[s] = results[s] \/ SaveBy(w, s)
    <2>1. CASE Persist(w)
      <3>1. worker[w] \in Tasks /\ worker[w].run \in Runs
        BY <2>1, BusyWorker DEF Persist
      <3>2. worker'[w].phase = "publishing" /\ \A v \in Workers \ {w} : worker'[v] = worker[v]
        BY <2>1, <3>1 DEF Persist, Moves, TypeOK, Tasks
      <3>3. CASE s = worker[w].run /\ RowExists(s)
        BY <2>1, <3>2, <3>3 DEF Persist, SaveBy, Executes, Executing, TypeOK
      <3>4. CASE ~ (s = worker[w].run /\ RowExists(s))
        BY <2>1, <3>1, <3>4 DEF Persist, TypeOK
      <3> QED
        BY <3>3, <3>4
    <2>2. CASE ~ Persist(w)
      BY <1>5, <2>2 DEF TaskStep, Claim, Setup, TaskRaises, Heartbeat, SeeCancel, StreamEnds, StreamRaises,
                        PersistRaises, PublishEnd, WriteTerminal, WriteTerminalRaises
    <2> QED
      BY <2>1, <2>2
  <1>6. CASE Sweep
    BY <1>6 DEF Sweep
  <1> QED
    BY <1>1, <1>2, <1>3, <1>4, <1>5, <1>6 DEF Next

-----------------------------------------------------------------------------
(* The inductive invariant                                                 *)

\* A run that is executed has been claimed.
ExecInv == \A w \in Workers, r \in Runs : Executes(w, r) => status[r] \notin {"none", "pending"}

\* Nothing is saved for a run before its one executor saves it.
ResultInv ==
  \A r \in Runs :
    /\ results[r] <= 1
    /\ status[r] \in {"none", "pending"} => results[r] = 0
    /\ \A w \in Workers : Executes(w, r) /\ Unsaved(w) => results[r] = 0

\* An executor past the save without an exception has saved, if there is a row.
DoneInv ==
  \A r \in Runs :
    /\ status[r] = "completed" => results[r] = 1
    /\ \A w \in Workers : Executes(w, r) /\ Saved(w) /\ RowExists(r) => results[r] = 1

IInv == TypeOK /\ RequestInv /\ ExecInv /\ SingleExecutor /\ ResultInv /\ DoneInv

LEMMA InitIInv == Init => IInv
  <1> SUFFICES ASSUME Init PROVE IInv
    OBVIOUS
  <1>1. TypeOK
    BY InitTypeOK
  <1>2. \A w \in Workers, r \in Runs : ~ Executes(w, r)
    BY IdleTask DEF Init, Executes, Executing
  <1> QED
    BY <1>1, <1>2 DEF Init, IInv, RequestInv, ExecInv, SingleExecutor, ResultInv, DoneInv,
                      RowExists, RowStatus, ActiveStatus, Terminal

\* The progress of requests changes only in their handlers.
LEMMA OnlyApiStep == [Next]_vars => UNCHANGED apiVars \/ \E r \in Runs : ApiStep(r)
  BY DEF Next, vars, apiVars, HeartbeatAges, BrokerStep, Receive, Redeliver, WorkerCrash, TaskStep,
         Claim, Setup, TaskRaises, Heartbeat, SeeCancel, StreamEnds, StreamRaises, Persist,
         PersistRaises, PublishEnd, WriteTerminal, WriteTerminalRaises, Sweep

LEMMA RequestInvStep == TypeOK /\ RequestInv /\ [Next]_vars => RequestInv'
  <1> SUFFICES ASSUME TypeOK, RequestInv, [Next]_vars, NEW s \in Runs
               PROVE  /\ creating'[s] \in {"locked", "admitted"} => status'[s] = "none"
                      /\ deleting'[s] => RowExists(s)'
    BY DEF RequestInv
  <1>1. StatusStep(s)
    BY StatusSteps
  <1>2. creating'[s] \in {"locked", "admitted"} => creating[s] \in {"locked", "admitted"} \/ status[s] = "none"
    <2>1. CASE UNCHANGED creating
      BY <2>1
    <2>2. ASSUME NEW r \in Runs, ApiStep(r)
          PROVE  creating'[s] \in {"locked", "admitted"} => creating[s] \in {"locked", "admitted"} \/ status[s] = "none"
      BY <2>2 DEF ApiStep, LockTenant, CountActive, InsertRun, EnqueueRun, EnqueueRaises, EnqueueFailed,
                  CreateAborts, CancelReads, CancelWrites, DeleteReads, DeleteRow, TypeOK
    <2> QED
      BY <2>1, <2>2, OnlyApiStep DEF apiVars
  <1>3. deleting'[s] => deleting[s] \/ RowExists(s)
    <2>1. CASE UNCHANGED deleting
      BY <2>1
    <2>2. ASSUME NEW r \in Runs, ApiStep(r) PROVE deleting'[s] => deleting[s] \/ RowExists(s)
      BY <2>2 DEF ApiStep, LockTenant, CountActive, InsertRun, EnqueueRun, EnqueueRaises, EnqueueFailed,
                  CreateAborts, CancelReads, CancelWrites, DeleteReads, DeleteRow, TypeOK
    <2> QED
      BY <2>1, <2>2, OnlyApiStep DEF apiVars
  <1> QED
    BY <1>1, <1>2, <1>3 DEF RequestInv, StatusStep, RowExists, RowStatus, ActiveStatus, Terminal, WriteFrom

LEMMA ExecInvStep == IInv /\ [Next]_vars => ExecInv' /\ SingleExecutor'
  <1> SUFFICES ASSUME IInv, [Next]_vars PROVE ExecInv' /\ SingleExecutor'
    OBVIOUS
  <1> USE DEF IInv
  <1>1. \A r \in Runs : StatusStep(r)
    BY StatusSteps
  <1>2. worker' = worker \/ \E w \in Workers : WorkerStepOf(w)
    BY WorkerSteps
  <1>3. \A r \in Runs : status[r] \notin {"none", "pending"} => status'[r] \notin {"none", "pending"}
    BY <1>1 DEF StatusStep, WriteFrom
  <1>4. CASE worker' = worker
    BY <1>3, <1>4 DEF ExecInv, SingleExecutor, Executes
  <1>5. ASSUME NEW w \in Workers, WorkerStepOf(w) PROVE ExecInv' /\ SingleExecutor'
    <2>1. \A r \in Runs : Executes(w, r)' => Executes(w, r) \/ (status[r] = "pending" /\ status'[r] = "running")
      BY <1>5 DEF WorkerStepOf
    <2>2. \A v \in Workers \ {w}, r \in Runs : Executes(v, r)' <=> Executes(v, r)
      BY <1>5 DEF WorkerStepOf, Executes
    <2>3. ExecInv'
      BY <1>3, <2>1, <2>2 DEF ExecInv
    <2>4. SingleExecutor'
      BY <2>1, <2>2 DEF ExecInv, SingleExecutor
    <2> QED
      BY <2>3, <2>4
  <1> QED
    BY <1>2, <1>4, <1>5

LEMMA ResultInvStep == IInv /\ [Next]_vars => ResultInv'
  <1> SUFFICES ASSUME IInv, [Next]_vars, NEW r \in Runs
               PROVE  /\ results'[r] <= 1
                      /\ status'[r] \in {"none", "pending"} => results'[r] = 0
                      /\ \A w \in Workers : (Executes(w, r) /\ Unsaved(w))' => results'[r] = 0
    BY DEF ResultInv
  <1> USE DEF IInv
  <1>1. StatusStep(r)
    BY StatusSteps
  <1>2. worker' = worker \/ \E w \in Workers : WorkerStepOf(w)
    BY WorkerSteps
  <1>3. CASE results'[r] = results[r]
    <2>1. results[r] <= 1
      BY DEF ResultInv
    <2>2. status'[r] \in {"none", "pending"} => results[r] = 0
      BY <1>1 DEF StatusStep, ResultInv, Terminal, WriteFrom
    <2>3. ASSUME NEW v \in Workers, (Executes(v, r) /\ Unsaved(v))' PROVE results[r] = 0
      <3>1. CASE worker'[v] = worker[v]
        BY <2>3, <3>1 DEF Executes, Unsaved, ResultInv
      <3>2. CASE WorkerStepOf(v)
        BY <2>3, <3>2 DEF WorkerStepOf, ResultInv
      <3> QED
        BY <1>2, <3>1, <3>2 DEF WorkerStepOf
    <2> QED
      BY <1>3, <2>1, <2>2, <2>3
  <1>4. ASSUME NEW w \in Workers, SaveBy(w, r)
        PROVE  /\ results'[r] = 1
               /\ status'[r] \notin {"none", "pending"}
               /\ \A v \in Workers : ~ (Executes(v, r) /\ Unsaved(v))'
    <2>1. results[r] = 0
      BY <1>4 DEF SaveBy, Unsaved, ResultInv
    <2>2. status'[r] \notin {"none", "pending"}
      BY <1>4 DEF SaveBy, ExecInv
    <2>3. ASSUME NEW v \in Workers, (Executes(v, r) /\ Unsaved(v))' PROVE FALSE
      BY <1>4, <2>3 DEF SaveBy, Executes, Unsaved, SingleExecutor
    <2> QED
      BY <1>4, <2>1, <2>2, <2>3 DEF SaveBy
  <1> QED
    BY <1>3, <1>4, ResultSteps

LEMMA DoneInvStep == IInv /\ [Next]_vars => DoneInv'
  <1> SUFFICES ASSUME IInv, [Next]_vars, NEW r \in Runs
               PROVE  /\ status'[r] = "completed" => results'[r] = 1
                      /\ \A v \in Workers : (Executes(v, r) /\ Saved(v) /\ RowExists(r))' => results'[r] = 1
    BY DEF DoneInv
  <1> USE DEF IInv
  <1>1. StatusStep(r)
    BY StatusSteps
  <1>2. worker' = worker \/ \E w \in Workers : WorkerStepOf(w)
    BY WorkerSteps
  <1>3. /\ results'[r] \in {0, 1}
        /\ results[r] = 1 => results'[r] = 1
    <2>1. results'[r] <= 1
      BY ResultInvStep DEF ResultInv
    <2>2. results[r] \in Nat /\ (results'[r] = results[r] \/ results'[r] = results[r] + 1)
      BY ResultSteps DEF SaveBy, TypeOK
    <2> QED
      BY <2>1, <2>2
  <1>4. status'[r] = "completed" => results'[r] = 1
    <2>1. CASE status[r] = "completed"
      BY <1>3, <2>1 DEF DoneInv
    <2>2. CASE status[r] # "completed"
      BY <1>1, <1>3, <2>2 DEF StatusStep, DoneInv, Saved, RowExists, WriteFrom, RowStatus, ActiveStatus, Terminal
    <2> QED
      BY <2>1, <2>2
  <1>5. ASSUME NEW v \in Workers, (Executes(v, r) /\ Saved(v) /\ RowExists(r))' PROVE results'[r] = 1
    <2>1. Executes(v, r) => RowExists(r)
      BY <1>1, <1>5 DEF StatusStep, ExecInv, RowExists, TypeOK, WriteFrom, RowStatus, ActiveStatus, Terminal
    <2>2. CASE worker'[v] = worker[v]
      BY <1>3, <1>5, <2>1, <2>2 DEF Executes, Saved, DoneInv
    <2>3. CASE WorkerStepOf(v)
      <3>1. Executes(v, r) /\ (Saved(v) \/ results'[r] = results[r] + 1)
        BY <1>5, <2>1, <2>3 DEF WorkerStepOf
      <3>2. results[r] \in Nat
        BY DEF TypeOK
      <3> QED
        BY <1>3, <2>1, <3>1, <3>2 DEF DoneInv
    <2> QED
      BY <1>2, <2>2, <2>3 DEF WorkerStepOf
  <1> QED
    BY <1>4, <1>5

LEMMA NextIInv == IInv /\ [Next]_vars => IInv'
  BY NextTypeOK, RequestInvStep, ExecInvStep, ResultInvStep, DoneInvStep DEF IInv

LEMMA InvariantIInv == Spec => []IInv
  BY InitIInv, NextIInv, PTL DEF Spec

-----------------------------------------------------------------------------
(* Safety                                                                  *)

\* However many deliveries, crashes and sweeps there are, a run has at most one
\* executing worker (tasks.py, the claim).
THEOREM OneExecutorPerRun == Spec => []SingleExecutor
  <1>1. IInv => SingleExecutor
    BY DEF IInv
  <1> QED
    BY <1>1, InvariantIInv, PTL

\* The totals of a run are incremented at most once.
THEOREM ResultsSavedOnce == Spec => []ResultsAtMostOnce
  <1>1. IInv => ResultsAtMostOnce
    BY DEF IInv, ResultInv, ResultsAtMostOnce
  <1> QED
    BY <1>1, InvariantIInv, PTL

\* A run that reads "completed" has its results in the database.
THEOREM CompletedRunsHaveResults == Spec => []CompletedHasResults
  <1>1. IInv => CompletedHasResults
    BY DEF IInv, DoneInv, CompletedHasResults
  <1> QED
    BY <1>1, InvariantIInv, PTL

\* No step makes a settled run active again or brings a deleted row back.
THEOREM SettledStaysSettled == Spec => NoReactivation
  <1>1. IInv /\ [Next]_vars =>
          \A r \in Runs :
            /\ status[r] \in Terminal => status'[r] \notin ActiveStatus \cup {"none"}
            /\ status[r] = "deleted" => status'[r] = "deleted"
    BY StatusSteps DEF IInv, StatusStep, RowExists, RowStatus, ActiveStatus, Terminal, WriteFrom
  <1> QED
    BY <1>1, InvariantIInv, PTL DEF Spec, NoReactivation

\* The stale writer rejection works in every single step: "failed" never turns
\* into "completed".
THEOREM FailedNotCompleted == Spec => StaleWriterRejected
  <1>1. IInv /\ [Next]_vars => \A r \in Runs : status[r] = "failed" => status'[r] # "completed"
    BY StatusSteps DEF IInv, StatusStep, WriteFrom
  <1> QED
    BY <1>1, InvariantIInv, PTL DEF Spec, StaleWriterRejected

\* Only an executor that saved the results completes a run.
THEOREM CompletionByExecutor == Spec => CompletedByExecutor
  <1>1. IInv /\ [Next]_vars =>
          \A r \in Runs : status[r] # "completed" /\ status'[r] = "completed" =>
             \E w \in Workers : Executes(w, r) /\ ~ worker[w].fatal /\ results[r] = 1
    BY StatusSteps DEF IInv, StatusStep, DoneInv, Saved, RowExists, WriteFrom, RowStatus, ActiveStatus, Terminal
  <1> QED
    BY <1>1, InvariantIInv, PTL DEF Spec, CompletedByExecutor

-----------------------------------------------------------------------------
(* The concurrency limit                                                   *)

\* One create of a tenant is in its transaction; if it has been admitted there is
\* still room for its row.
QuotaInv ==
  /\ \A r, s \in Runs : /\ Owner[r] = Owner[s]
                        /\ creating[r] \in {"locked", "admitted"}
                        /\ creating[s] \in {"locked", "admitted"}
                        => r = s
  /\ \A r \in Runs : creating[r] = "admitted" => Cardinality(ActiveRuns(Owner[r])) < MaxActive
  /\ ActiveLimit

LEMMA ActiveRunsFinite ==
  \A t : IsFiniteSet(ActiveRuns(t)) /\ Cardinality(ActiveRuns(t)) \in Nat
  <1> TAKE t
  <1>1. ActiveRuns(t) \subseteq Runs
    BY DEF ActiveRuns, RunsOf
  <1> QED
    BY <1>1, RunsAssumption, FS_Subset, FS_CardinalityType

\* Without an insert, no tenant's active runs grow.
LEMMA ActiveRunsShrink ==
  ASSUME \A r \in Runs : StatusStep(r), \A r \in Runs : status[r] = "none" => status'[r] = "none"
  PROVE  \A t : /\ Cardinality(ActiveRuns(t)') \in Nat
                /\ Cardinality(ActiveRuns(t)') <= Cardinality(ActiveRuns(t))
  <1> TAKE t
  <1>1. ActiveRuns(t)' \subseteq ActiveRuns(t)
    BY DEF ActiveRuns, RunsOf, StatusStep, ActiveStatus, Terminal
  <1> QED
    BY <1>1, ActiveRunsFinite, FS_Subset, FS_CardinalityType

LEMMA InitQuotaInv == Init => QuotaInv
  <1> SUFFICES ASSUME Init PROVE QuotaInv
    OBVIOUS
  <1>1. \A t : ActiveRuns(t) = {}
    BY DEF Init, ActiveRuns, RunsOf, ActiveStatus
  <1>2. ActiveLimit
    BY <1>1, FS_EmptySet, MaxActiveAssumption DEF ActiveLimit
  <1> QED
    BY <1>2 DEF Init, QuotaInv

LEMMA NextQuotaInv == IInv /\ QuotaInv /\ [Next]_vars => QuotaInv'
  <1> SUFFICES ASSUME IInv, QuotaInv, [Next]_vars PROVE QuotaInv'
    OBVIOUS
  <1> USE DEF IInv
  <1>1. \A r \in Runs : StatusStep(r)
    BY StatusSteps
  <1>2. \A r \in Runs : Owner[r] \in Tenants
    BY OwnerAssumption
  <1>3. ASSUME \A r \in Runs : status[r] = "none" => status'[r] = "none",
               \A r \in Runs : creating'[r] \in {"locked", "admitted"} => creating[r] = creating'[r]
        PROVE  QuotaInv'
    <2>1. \A t : Cardinality(ActiveRuns(t)') \in Nat /\ Cardinality(ActiveRuns(t)') <= Cardinality(ActiveRuns(t))
      BY <1>1, <1>3, ActiveRunsShrink
    <2>2. ActiveLimit'
      BY <2>1, ActiveRunsFinite, MaxActiveAssumption DEF QuotaInv, ActiveLimit
    <2>3. \A r \in Runs : creating'[r] = "admitted" => Cardinality(ActiveRuns(Owner[r])') < MaxActive
      BY <1>3, <2>1, ActiveRunsFinite, MaxActiveAssumption DEF QuotaInv
    <2> QED
      BY <1>3, <2>2, <2>3 DEF QuotaInv
  <1>4. CASE UNCHANGED apiVars
    BY <1>1, <1>3, <1>4 DEF apiVars, StatusStep, RowExists, RowStatus, ActiveStatus, Terminal, WriteFrom
  <1>5. ASSUME NEW q \in Runs, LockTenant(q) PROVE QuotaInv'
    <2>1. status' = status /\ creating' = [creating EXCEPT ![q] = "locked"] /\ ~ LockHeld(Owner[q])
      BY <1>5 DEF LockTenant, rowVars
    <2>2. \A t : ActiveRuns(t)' = ActiveRuns(t)
      BY <2>1 DEF ActiveRuns, RunsOf
    <2>3. \A r \in Runs : r # q => creating'[r] = creating[r]
      BY <2>1 DEF TypeOK
    <2>4. creating'[q] = "locked"
      BY <2>1 DEF TypeOK
    <2>5. \A r \in Runs : creating[r] \in {"locked", "admitted"} => Owner[r] # Owner[q]
      BY <2>1 DEF LockHeld, RunsOf
    <2> QED
      BY <2>2, <2>3, <2>4, <2>5 DEF QuotaInv, ActiveLimit
  <1>6. ASSUME NEW q \in Runs, CountActive(q) PROVE QuotaInv'
    <2>1. status' = status /\ creating[q] = "locked"
      BY <1>6 DEF CountActive, rowVars
    <2>2. \A t : ActiveRuns(t)' = ActiveRuns(t)
      BY <2>1 DEF ActiveRuns, RunsOf
    <2>3. \A r \in Runs : r # q => creating'[r] = creating[r]
      BY <1>6 DEF CountActive, TypeOK
    <2>4. creating'[q] = "admitted" => Cardinality(ActiveRuns(Owner[q])) < MaxActive
      BY <1>6, ActiveRunsFinite, MaxActiveAssumption DEF CountActive, TypeOK
    <2> QED
      BY <2>1, <2>2, <2>3, <2>4 DEF QuotaInv, ActiveLimit
  <1>7. ASSUME NEW q \in Runs, InsertRun(q) PROVE QuotaInv'
    <2>1. creating[q] = "admitted" /\ creating' = [creating EXCEPT ![q] = "inserted"]
          /\ status' = [status EXCEPT ![q] = "pending"]
      BY <1>7 DEF InsertRun
    <2>2. \A r \in Runs : creating'[r] \in {"locked", "admitted"} => r # q /\ creating'[r] = creating[r]
      BY <2>1 DEF TypeOK
    <2>3. ActiveRuns(Owner[q])' = ActiveRuns(Owner[q]) \cup {q}
      BY <2>1 DEF ActiveRuns, RunsOf, ActiveStatus, TypeOK
    <2>4. \A t : t # Owner[q] => ActiveRuns(t)' = ActiveRuns(t)
      BY <2>1 DEF ActiveRuns, RunsOf, TypeOK
    <2>5. Cardinality(ActiveRuns(Owner[q])) < MaxActive
      BY <2>1 DEF QuotaInv
    <2>6. Cardinality(ActiveRuns(Owner[q])') <= Cardinality(ActiveRuns(Owner[q])) + 1
      BY <2>3, ActiveRunsFinite, FS_AddElement
    <2>7. Cardinality(ActiveRuns(Owner[q])') \in Nat
      BY <2>3, ActiveRunsFinite, FS_AddElement, SMTT(30)
    <2>8. Cardinality(ActiveRuns(Owner[q])') <= MaxActive
      BY <2>5, <2>6, <2>7, ActiveRunsFinite, MaxActiveAssumption
    <2>9. ActiveLimit'
      BY <2>4, <2>8 DEF QuotaInv, ActiveLimit
    <2>10. \A r \in Runs : creating'[r] = "admitted" => Owner[r] # Owner[q]
      BY <2>1, <2>2 DEF QuotaInv
    <2> QED
      BY <2>2, <2>4, <2>9, <2>10 DEF QuotaInv
  <1>8. ASSUME NEW q \in Runs, ApiStep(q), ~ LockTenant(q), ~ CountActive(q), ~ InsertRun(q)
        PROVE  QuotaInv'
    <2>1. \A r \in Runs : creating'[r] \in {"locked", "admitted"} => creating[r] = creating'[r]
      BY <1>8 DEF ApiStep, EnqueueRun, EnqueueRaises, EnqueueFailed, CreateAborts, CancelReads,
                  CancelWrites, DeleteReads, DeleteRow, TypeOK
    <2>2. \A r \in Runs : creating'[r] = "inserted" => creating[r] = "inserted"
      BY <1>8 DEF ApiStep, EnqueueRun, EnqueueRaises, EnqueueFailed, CreateAborts, CancelReads,
                  CancelWrites, DeleteReads, DeleteRow, TypeOK
    <2> QED
      BY <1>1, <1>3, <2>1, <2>2 DEF StatusStep, RowExists, RowStatus, ActiveStatus, Terminal, WriteFrom
  <1> QED
    BY <1>4, <1>5, <1>6, <1>7, <1>8, OnlyApiStep

\* No tenant ever has more than MaxActive pending or running runs, for any number
\* of concurrent creates: the advisory lock makes count and insert atomic
\* (evaluation.py).
THEOREM ActiveLimitHolds == Spec => []ActiveLimit
  <1>1. QuotaInv => ActiveLimit
    BY DEF QuotaInv
  <1> QED
    BY <1>1, InitQuotaInv, NextQuotaInv, InvariantIInv, PTL DEF Spec

-----------------------------------------------------------------------------
(* error_message and the executor of a running row                         *)

LEMMA ErrorMatchesStep == IInv /\ ErrorMatchesStatus /\ [Next]_vars => ErrorMatchesStatus'
  <1> SUFFICES ASSUME IInv, ErrorMatchesStatus, [Next]_vars, NEW s \in Runs
               PROVE  /\ status'[s] = "completed" => ~ error'[s]
                      /\ status'[s] = "failed" => error'[s]
    BY DEF ErrorMatchesStatus
  <1> DEFINE Goal == /\ status'[s] = "completed" => ~ error'[s]
                     /\ status'[s] = "failed" => error'[s]
  <1> USE DEF IInv, rowVars
  <1>1. CASE status' = status /\ error' = error
    BY <1>1 DEF ErrorMatchesStatus
  <1>2. ASSUME NEW r \in Runs, ApiStep(r) PROVE Goal
    <2>1. CASE EnqueueFailed(r)
      BY <2>1 DEF EnqueueFailed, ErrorMatchesStatus, TypeOK
    <2>2. CASE InsertRun(r) \/ CancelWrites(r) \/ DeleteRow(r)
      BY <2>2 DEF InsertRun, CancelWrites, DeleteRow, ErrorMatchesStatus, TypeOK
    <2>3. CASE ~ EnqueueFailed(r) /\ ~ InsertRun(r) /\ ~ CancelWrites(r) /\ ~ DeleteRow(r)
      BY <1>1, <1>2, <2>3 DEF ApiStep, LockTenant, CountActive, EnqueueRun, EnqueueRaises,
                              CreateAborts, CancelReads, DeleteReads
    <2> QED
      BY <2>1, <2>2, <2>3
  <1>3. ASSUME NEW w \in Workers, BrokerStep(w) \/ TaskStep(w) PROVE Goal
    <2>1. CASE Claim(w)
      BY <2>1 DEF Claim, ErrorMatchesStatus, TypeOK
    <2>2. CASE WriteTerminal(w)
      <3>1. worker[w].run \in Runs
        BY <2>2, BusyWorker DEF WriteTerminal
      <3>2. CASE s = worker[w].run /\ status[s] \in WriteFrom
        <4>1. status'[s] = Outcome(w) /\ error'[s] = worker[w].fatal
          BY <2>2, <3>2 DEF WriteTerminal, ErrorAfter, TypeOK
        <4> QED
          BY <4>1 DEF Outcome
      <3>3. CASE ~ (s = worker[w].run /\ status[s] \in WriteFrom)
        BY <2>2, <3>1, <3>3 DEF WriteTerminal, ErrorMatchesStatus, TypeOK
      <3> QED
        BY <3>2, <3>3
    <2>3. CASE ~ Claim(w) /\ ~ WriteTerminal(w)
      BY <1>1, <1>3, <2>3 DEF BrokerStep, Receive, Redeliver, WorkerCrash, TaskStep, Setup, TaskRaises,
                  Heartbeat, SeeCancel, StreamEnds, StreamRaises, Persist, PersistRaises, PublishEnd,
                  WriteTerminalRaises
    <2> QED
      BY <2>1, <2>2, <2>3
  <1>4. CASE Sweep
    BY <1>4 DEF Sweep, SweptStatus, Zombies, ErrorMatchesStatus
  <1>5. ASSUME NEW r \in Runs, HeartbeatAges(r) PROVE Goal
    BY <1>1, <1>5 DEF HeartbeatAges
  <1>6. CASE UNCHANGED vars
    BY <1>1, <1>6 DEF vars
  <1> QED
    BY <1>2, <1>3, <1>4, <1>5, <1>6 DEF Next

\* A completed run never carries an error message and a failed one always does,
\* through every race of sweep, cancel, failed enqueue and worker.
THEOREM ErrorMessagesMatch == Spec => []ErrorMatchesStatus
  <1>1. Init => ErrorMatchesStatus
    BY DEF Init, ErrorMatchesStatus
  <1> QED
    BY <1>1, ErrorMatchesStep, InvariantIInv, PTL DEF Spec

\* An executor of a running row stays its executor, unless something failed.
LEMMA ExecutorStays ==
  ASSUME IInv, [Next]_vars, NEW v \in Workers, NEW s \in Runs, Executes(v, s), status'[s] = "running"
  PROVE  crashes' > 0 \/ dbFaults' > 0 \/ Executes(v, s)'
  <1> USE DEF IInv, Executes, Executing
  <1>0. status[s] = "running"
    BY StatusSteps DEF StatusStep, ExecInv, Terminal
  <1>1. CASE worker' = worker
    BY <1>1
  <1>2. ASSUME NEW w \in Workers, BrokerStep(w) PROVE crashes' > 0 \/ Executes(v, s)'
    <2>1. CASE WorkerCrash(w)
      BY <2>1, BoundsAssumption DEF WorkerCrash, TypeOK
    <2>2. CASE Redeliver(w)
      BY <2>2 DEF Redeliver
    <2>3. ASSUME NEW r \in Runs, Receive(w, r) PROVE Executes(v, s)'
      BY <2>3, IdleTask DEF Receive, TypeOK
    <2> QED
      BY <1>2, <2>1, <2>2, <2>3 DEF BrokerStep
  <1>3. ASSUME NEW w \in Workers, TaskStep(w) PROVE dbFaults' > 0 \/ Executes(v, s)'
    <2>1. CASE w # v
      BY <1>3, <2>1 DEF TaskStep, Claim, Setup, TaskRaises, Heartbeat, SeeCancel, StreamEnds, StreamRaises,
                  Persist, PersistRaises, PublishEnd, WriteTerminal, WriteTerminalRaises, Moves, TypeOK
    <2>2. CASE w = v
      <3>1. worker[v] \in Tasks
        BY BusyWorker
      <3>2. CASE TaskRaises(w) \/ WriteTerminalRaises(w)
        BY <3>2, BoundsAssumption DEF TaskRaises, WriteTerminalRaises, TypeOK
      <3>3. ~ WriteTerminal(w)
        BY <1>0, <2>2 DEF WriteTerminal, WriteFrom, Outcome, TypeOK
      <3>4. CASE Setup(w)
        <4>1. Moves(w, "streaming")
          BY <1>0, <2>2, <3>4 DEF Setup, RowExists, RowStatus, ActiveStatus
        <4> QED
          BY <2>2, <3>1, <4>1 DEF Moves, Tasks, TypeOK
      <3>5. CASE Heartbeat(w)
        BY <3>5 DEF Heartbeat
      <3>6. CASE SeeCancel(w) \/ StreamEnds(w) \/ StreamRaises(w)
        BY <2>2, <3>1, <3>6 DEF SeeCancel, StreamEnds, StreamRaises, Moves, Tasks, TypeOK
      <3>7. CASE Persist(w)
        BY <2>2, <3>1, <3>7 DEF Persist, Moves, Tasks, TypeOK
      <3>8. CASE PersistRaises(w) \/ PublishEnd(w)
        BY <2>2, <3>1, <3>8 DEF PersistRaises, PublishEnd, Moves, Tasks, TypeOK
      <3>9. ~ Claim(w)
        BY <2>2 DEF Claim
      <3> QED
        BY <1>3, <3>2, <3>3, <3>4, <3>5, <3>6, <3>7, <3>8, <3>9 DEF TaskStep
    <2> QED
      BY <2>1, <2>2
  <1>4. UNCHANGED vars \/ Sweep \/ (\E r \in Runs : ApiStep(r) \/ HeartbeatAges(r)) => worker' = worker
    BY DEF vars, Sweep, HeartbeatAges, ApiStep, LockTenant, CountActive, InsertRun, EnqueueRun,
           EnqueueRaises, EnqueueFailed, CreateAborts, CancelReads, CancelWrites, DeleteReads, DeleteRow
  <1> QED
    BY <1>1, <1>2, <1>3, <1>4 DEF Next

\* A row starts running in the hands of the worker that claimed it.
LEMMA ClaimedByExecutor ==
  ASSUME IInv, [Next]_vars, NEW s \in Runs, status[s] # "running", status'[s] = "running"
  PROVE  \E w \in Workers : Executes(w, s)'
  <1> USE DEF IInv, rowVars
  <1>1. ASSUME NEW w \in Workers, Claim(w) PROVE Executes(w, s)'
    <2>1. worker[w] \in Tasks /\ worker[w].run \in Runs
      BY <1>1, BusyWorker DEF Claim
    <2>2. s = worker[w].run /\ Moves(w, "claimed")
      BY <1>1, <2>1 DEF Claim, TypeOK
    <2> QED
      BY <2>1, <2>2 DEF Moves, Executes, Executing, Tasks, TypeOK
  <1>2. ASSUME NEW w \in Workers, BrokerStep(w) \/ TaskStep(w), ~ Claim(w) PROVE FALSE
    <2>1. CASE WriteTerminal(w)
      BY <2>1 DEF WriteTerminal, Outcome, TypeOK
    <2>2. CASE ~ WriteTerminal(w)
      BY <1>2, <2>2 DEF BrokerStep, Receive, Redeliver, WorkerCrash, TaskStep, Setup, TaskRaises,
                  Heartbeat, SeeCancel, StreamEnds, StreamRaises, Persist, PersistRaises, PublishEnd,
                  WriteTerminalRaises
    <2> QED
      BY <2>1, <2>2
  <1>3. ASSUME NEW r \in Runs, ApiStep(r) \/ HeartbeatAges(r) PROVE FALSE
    BY <1>3 DEF ApiStep, LockTenant, CountActive, InsertRun, EnqueueRun, EnqueueRaises, EnqueueFailed,
                CreateAborts, CancelReads, CancelWrites, DeleteReads, DeleteRow, HeartbeatAges, TypeOK
  <1>4. ~ Sweep
    BY DEF Sweep, SweptStatus
  <1>5. ~ UNCHANGED vars
    BY DEF vars
  <1> QED
    BY <1>1, <1>2, <1>3, <1>4, <1>5 DEF Next

\* Faults are counted up only.
LEMMA FaultsGrow ==
  ASSUME TypeOK, [Next]_vars
  PROVE  (crashes' = 0 => crashes = 0) /\ (dbFaults' = 0 => dbFaults = 0)
  <1> USE BoundsAssumption DEF faultVars, TypeOK
  <1>1. ASSUME NEW r \in Runs, ApiStep(r) \/ HeartbeatAges(r) PROVE UNCHANGED faultVars
    BY <1>1 DEF ApiStep, LockTenant, CountActive, InsertRun, EnqueueRun, EnqueueRaises, EnqueueFailed,
                CreateAborts, CancelReads, CancelWrites, DeleteReads, DeleteRow, HeartbeatAges
  <1>2. ASSUME NEW w \in Workers, BrokerStep(w)
        PROVE  dbFaults' = dbFaults /\ (crashes' = crashes \/ crashes' = crashes + 1)
    BY <1>2 DEF BrokerStep, Receive, Redeliver, WorkerCrash
  <1>3. ASSUME NEW w \in Workers, TaskStep(w)
        PROVE  crashes' = crashes /\ (dbFaults' = dbFaults \/ dbFaults' = dbFaults + 1)
    BY <1>3 DEF TaskStep, Claim, Setup, TaskRaises, Heartbeat, SeeCancel, StreamEnds, StreamRaises,
                Persist, PersistRaises, PublishEnd, WriteTerminal, WriteTerminalRaises
  <1>4. UNCHANGED vars \/ Sweep => UNCHANGED faultVars
    BY DEF vars, Sweep
  <1> QED
    BY <1>1, <1>2, <1>3, <1>4 DEF Next

\* Without crashes and escaped database errors no path through the task leaves its
\* row running (tasks.py, the except and finally blocks).
THEOREM NoRunForgotten == Spec => []RunningHasExecutor
  <1>1. Init => RunningHasExecutor
    BY DEF Init, RunningHasExecutor
  <1>2. IInv /\ RunningHasExecutor /\ [Next]_vars => RunningHasExecutor'
    <2> SUFFICES ASSUME IInv, RunningHasExecutor, [Next]_vars, crashes' = 0, dbFaults' = 0,
                        NEW s \in Runs, status'[s] = "running"
                 PROVE  \E w \in Workers : Executes(w, s)'
      BY DEF RunningHasExecutor
    <2>1. CASE status[s] = "running"
      <3>1. PICK v \in Workers : Executes(v, s)
        BY <2>1, FaultsGrow DEF IInv, RunningHasExecutor
      <3> QED
        BY <3>1, ExecutorStays
    <2>2. CASE status[s] # "running"
      BY <2>2, ClaimedByExecutor
    <2> QED
      BY <2>1, <2>2
  <1> QED
    BY <1>1, <1>2, InvariantIInv, PTL DEF Spec

-----------------------------------------------------------------------------
(* Pending runs                                                            *)

\* A step of a request or of the broker takes a run from one that is to start it
\* to the next.
LEMMA ExpectedApi ==
  ASSUME TypeOK, NEW r \in Runs, NEW s \in Runs, ApiStep(r), status'[s] = "pending",
         status[s] = "pending" => Expected(s)
  PROVE  Expected(s)'
  <1>1. CASE InsertRun(r) \/ EnqueueRaises(r) \/ CreateAborts(r) \/ LockTenant(r) \/ CountActive(r)
    BY <1>1 DEF InsertRun, EnqueueRaises, CreateAborts, LockTenant, CountActive, Expected, TypeOK, rowVars, faultVars, brokerVars
  <1>2. CASE EnqueueRun(r)
    BY <1>2 DEF EnqueueRun, Expected, TypeOK, rowVars
  <1>3. CASE EnqueueFailed(r)
    <2>1. CASE s = r
      BY <1>3, <2>1 DEF EnqueueFailed, TypeOK, RowExists, RowStatus, ActiveStatus
    <2>2. CASE s # r
      BY <1>3, <2>2 DEF EnqueueFailed, Expected, TypeOK, brokerVars
    <2> QED
      BY <2>1, <2>2
  <1>4. CASE CancelReads(r) \/ CancelWrites(r) \/ DeleteReads(r) \/ DeleteRow(r)
    BY <1>4 DEF CancelReads, CancelWrites, DeleteReads, DeleteRow, Expected, TypeOK, rowVars, brokerVars
  <1> QED
    BY <1>1, <1>2, <1>3, <1>4 DEF ApiStep

LEMMA ExpectedBroker ==
  ASSUME TypeOK, NEW w \in Workers, NEW s \in Runs, BrokerStep(w), Expected(s)
  PROVE  Expected(s)'
  <1>1. ASSUME NEW r \in Runs, Receive(w, r) PROVE Expected(s)'
    <2>1. worker'[w].phase = "claiming" /\ worker'[w].run = r /\ \A v \in Workers \ {w} : worker'[v] = worker[v]
      BY <1>1 DEF Receive, Idle, TypeOK
    <2>2. worker[w].phase # "claiming"
      BY <1>1, IdleTask DEF Receive
    <2> QED
      BY <1>1, <2>1, <2>2 DEF Receive, Expected, TypeOK, apiVars
  <1>2. CASE Redeliver(w)
    <2>1. worker[w].run \in Runs
      BY <1>2, BusyWorker DEF Redeliver
    <2> QED
      BY <1>2, <2>1 DEF Redeliver, Expected, TypeOK, apiVars
  <1>3. CASE WorkerCrash(w)
    <2>1. worker[w].run \in Runs
      BY <1>3, BusyWorker DEF WorkerCrash
    <2>2. \A v \in Workers \ {w} : worker'[v] = worker[v]
      BY <1>3 DEF WorkerCrash, TypeOK
    <2>3. queue'[worker[w].run] > 0 /\ \A r \in Runs : queue'[r] >= queue[r]
      BY <1>3, <2>1 DEF WorkerCrash, TypeOK
    <2> QED
      BY <1>3, <2>2, <2>3 DEF WorkerCrash, Expected, TypeOK, apiVars
  <1> QED
    BY <1>1, <1>2, <1>3 DEF BrokerStep

LEMMA ExpectedTask ==
  ASSUME TypeOK, NEW w \in Workers, NEW s \in Runs, TaskStep(w), Expected(s), status'[s] = "pending"
  PROVE  Expected(s)' \/ dbFaults' > 0
  <1>1. CASE TaskRaises(w)
    BY <1>1 DEF TaskRaises, TypeOK
  <1>2. CASE Claim(w)
    <2>1. worker[w].run \in Runs
      BY <1>2, BusyWorker DEF Claim
    <2>2. s # worker[w].run \/ status[s] # "pending"
      BY <1>2, <2>1 DEF Claim, ClaimFrom, TypeOK
    <2>3. status[s] = "pending"
      BY <1>2, <2>1 DEF Claim, ClaimFrom, TypeOK
    <2>4. \A v \in Workers \ {w} : worker'[v] = worker[v]
      BY <1>2 DEF Claim, Moves, TypeOK
    <2> QED
      BY <1>2, <2>2, <2>3, <2>4 DEF Claim, Expected, apiVars, brokerVars
  <1>3. CASE ~ TaskRaises(w) /\ ~ Claim(w)
    <2>1. worker[w].phase # "claiming"
      BY <1>3 DEF TaskStep, Setup, Heartbeat, SeeCancel, StreamEnds, StreamRaises, Persist, PersistRaises,
                  PublishEnd, WriteTerminal, WriteTerminalRaises
    <2>2. \A v \in Workers \ {w} : worker'[v] = worker[v]
      BY <1>3 DEF TaskStep, Setup, Heartbeat, SeeCancel, StreamEnds, StreamRaises, Persist, PersistRaises,
                  PublishEnd, WriteTerminal, WriteTerminalRaises, Moves, TypeOK
    <2>3. UNCHANGED <<creating, queue>>
      BY <1>3 DEF TaskStep, Setup, Heartbeat, SeeCancel, StreamEnds, StreamRaises, Persist, PersistRaises,
                  PublishEnd, WriteTerminal, WriteTerminalRaises, apiVars, brokerVars
    <2> QED
      BY <2>1, <2>2, <2>3 DEF Expected
  <1> QED
    BY <1>1, <1>2, <1>3

LEMMA PendingStep == IInv /\ PendingHasTask /\ [Next]_vars => PendingHasTask'
  <1> SUFFICES ASSUME IInv, PendingHasTask, [Next]_vars, NEW s \in Runs, status'[s] = "pending"
               PROVE  Expected(s)' \/ dbFaults' > 0
    BY DEF PendingHasTask
  <1>1. TypeOK /\ RequestInv
    BY DEF IInv
  <1>2. dbFaults > 0 => dbFaults' > 0
    <2>1. dbFaults \in Nat /\ dbFaults' \in Nat
      BY <1>1, NextTypeOK, BoundsAssumption DEF TypeOK
    <2> QED
      BY <1>1, <2>1, FaultsGrow
  <1>3. status[s] = "pending" => Expected(s) \/ dbFaults > 0
    BY DEF PendingHasTask
  <1>4. CASE dbFaults > 0
    BY <1>2, <1>4
  <1>5. CASE dbFaults = 0
    <2>1. status[s] = "pending" \/ creating'[s] # creating[s]
      BY <1>1, StatusSteps DEF StatusStep
    <2>2. status[s] = "pending" => Expected(s)
      BY <1>3, <1>5
    <2>3. ASSUME NEW r \in Runs, ApiStep(r) PROVE Expected(s)'
      BY <1>1, <2>2, <2>3, ExpectedApi
    <2>4. ASSUME NEW w \in Workers, BrokerStep(w) PROVE Expected(s)'
      <3>1. creating' = creating
        BY <2>4 DEF BrokerStep, Receive, Redeliver, WorkerCrash, apiVars
      <3> QED
        BY <1>1, <2>1, <2>2, <2>4, <3>1, ExpectedBroker
    <2>5. ASSUME NEW w \in Workers, TaskStep(w) PROVE Expected(s)' \/ dbFaults' > 0
      <3>1. creating' = creating
        BY <2>5 DEF TaskStep, Claim, Setup, TaskRaises, Heartbeat, SeeCancel, StreamEnds, StreamRaises,
                    Persist, PersistRaises, PublishEnd, WriteTerminal, WriteTerminalRaises, apiVars
      <3> QED
        BY <1>1, <2>1, <2>2, <2>5, <3>1, ExpectedTask
    <2>6. CASE UNCHANGED <<creating, queue, worker>>
      BY <2>1, <2>2, <2>6 DEF Expected
    <2>7. ASSUME NEW r \in Runs, HeartbeatAges(r) \/ Sweep \/ UNCHANGED vars PROVE UNCHANGED <<creating, queue, worker>>
      BY <2>7 DEF HeartbeatAges, Sweep, vars, apiVars, brokerVars
    <2> QED
      BY <2>3, <2>4, <2>5, <2>6, <2>7 DEF Next
  <1> QED
    BY <1>1, <1>4, <1>5 DEF TypeOK

\* A run stays pending with nobody to start it only if its API process died after the
\* commit or a database error failed its task (evaluation.py, tasks.py).
THEOREM NoPendingForgotten == Spec => []PendingHasTask
  <1>1. Init => PendingHasTask
    BY DEF Init, PendingHasTask
  <1> QED
    BY <1>1, PendingStep, InvariantIInv, PTL DEF Spec

-----------------------------------------------------------------------------
(* Refinement of RunContract                                               *)

Abs == [r \in Runs |-> PhaseOf(status[r])]

LEMMA PhaseOfStatus ==
  /\ PhaseOf("none") = "absent"
  /\ PhaseOf("pending") = "queued"
  /\ PhaseOf("running") = "executing"
  /\ PhaseOf("deleted") = "removed"
  /\ \A st \in Terminal : PhaseOf(st) = "settled"
  BY DEF PhaseOf, Terminal

LEMMA ActivePhase ==
  \A st \in RowStatus \cup {"none", "deleted"} : PhaseOf(st) \in {"queued", "executing"} <=> st \in ActiveStatus
  BY PhaseOfStatus DEF RowStatus, ActiveStatus

LEMMA SameActive ==
  ASSUME TypeOK PROVE \A t : Contract!ActiveRuns(t) = ActiveRuns(t)
  BY ActivePhase DEF Contract!ActiveRuns, Contract!Active, ActiveRuns, RunsOf, TypeOK

LEMMA InitContract == Init => Contract!Init
  BY PhaseOfStatus DEF Init, Contract!Init

\* Settling a set of active rows, and nothing else, is the abstract Settle.
LEMMA SettleStep ==
  ASSUME results' = results, NEW S \in SUBSET Runs,
         \A r \in S : status[r] \in ActiveStatus /\ status'[r] \in Terminal,
         \A r \in Runs \ S : status'[r] = status[r] \/ (status[r] \in Terminal /\ status'[r] \in Terminal)
  PROVE  [Contract!Next]_(Contract!contractVars)
  <1>1. \A r \in Runs : PhaseOf(status'[r]) = IF r \in S THEN "settled" ELSE PhaseOf(status[r])
    BY PhaseOfStatus
  <1>2. Abs' = [r \in Runs |-> IF r \in S THEN "settled" ELSE Abs[r]]
    BY <1>1 DEF Abs
  <1>3. CASE S = {}
    BY <1>2, <1>3 DEF Abs, Contract!contractVars
  <1>4. CASE S # {}
    <2>1. \A r \in S : Abs[r] \in {"queued", "executing"}
      BY ActivePhase DEF Abs, RowStatus
    <2>2. Contract!Settle(S)
      BY <1>2, <1>4, <2>1 DEF Abs, Contract!Settle, Contract!Active
    <2> QED
      BY <2>2 DEF Contract!Next
  <1> QED
    BY <1>3, <1>4

LEMMA SettleOne ==
  ASSUME results' = results, NEW q \in Runs,
         status[q] \in ActiveStatus, status'[q] \in Terminal,
         \A r \in Runs : r # q => status'[r] = status[r]
  PROVE  [Contract!Next]_(Contract!contractVars)
  <1> DEFINE S == {q}
  <1>1. S \in SUBSET Runs
    OBVIOUS
  <1>2. \A r \in S : status[r] \in ActiveStatus /\ status'[r] \in Terminal
    OBVIOUS
  <1>3. \A r \in Runs \ S : status'[r] = status[r] \/ (status[r] \in Terminal /\ status'[r] \in Terminal)
    OBVIOUS
  <1> HIDE DEF S
  <1> QED
    BY <1>1, <1>2, <1>3, SettleStep

LEMMA SettleNone ==
  ASSUME results' = results,
         \A r \in Runs : status'[r] = status[r] \/ (status[r] \in Terminal /\ status'[r] \in Terminal)
  PROVE  [Contract!Next]_(Contract!contractVars)
  <1> DEFINE S == {}
  <1>1. S \in SUBSET Runs /\ S = {}
    OBVIOUS
  <1> HIDE DEF S
  <1> QED
    BY <1>1, SettleStep

LEMMA NextContract ==
  IInv /\ IInv' /\ QuotaInv /\ [Next]_vars => [Contract!Next]_(Contract!contractVars)
  <1> SUFFICES ASSUME IInv, IInv', QuotaInv, [Next]_vars PROVE [Contract!Next]_(Contract!contractVars)
    OBVIOUS
  <1> USE DEF IInv, rowVars
  <1>1. CASE status' = status /\ results' = results
    BY <1>1 DEF Contract!contractVars
  <1>2. ASSUME NEW q \in Runs, InsertRun(q) PROVE Contract!Next
    <2>1. status[q] = "none" /\ status' = [status EXCEPT ![q] = "pending"]
      BY <1>2 DEF InsertRun, RequestInv
    <2>2. Abs[q] = "absent" /\ Abs' = [Abs EXCEPT ![q] = "queued"]
      BY <2>1, PhaseOfStatus DEF Abs, TypeOK
    <2>3. Cardinality(Contract!ActiveRuns(Owner[q])) < MaxActive
      BY <1>2, SameActive DEF InsertRun, QuotaInv
    <2>4. Contract!Submit(q)
      <3>1. results' = results
        BY <1>2 DEF InsertRun
      <3> QED
        BY <2>2, <2>3, <3>1 DEF Contract!Submit, Contract!Cardinality, Cardinality, Abs
    <2> QED
      BY <2>4 DEF Contract!Next
  <1>3. ASSUME NEW q \in Runs, EnqueueFailed(q) \/ CancelWrites(q)
        PROVE  [Contract!Next]_(Contract!contractVars)
    <2>1. results' = results /\ (status'[q] = status[q] \/ (RowExists(q) /\ status'[q] \in Terminal))
      BY <1>3 DEF EnqueueFailed, CancelWrites, TypeOK, Terminal
    <2>2. \A r \in Runs : r # q => status'[r] = status[r]
      BY <1>3 DEF EnqueueFailed, CancelWrites, TypeOK
    <2>3. CASE status[q] \in ActiveStatus /\ status'[q] \in Terminal
      BY <2>1, <2>2, <2>3, SettleOne
    <2>4. CASE ~ (status[q] \in ActiveStatus /\ status'[q] \in Terminal)
      <3>1. \A r \in Runs : status'[r] = status[r] \/ (status[r] \in Terminal /\ status'[r] \in Terminal)
        BY <2>1, <2>2, <2>4 DEF RowExists, RowStatus
      <3> QED
        BY <2>1, <3>1, SettleNone
    <2> QED
      BY <2>3, <2>4
  <1>4. ASSUME NEW q \in Runs, DeleteRow(q) PROVE Contract!Next
    <2>1. RowExists(q) /\ status' = [status EXCEPT ![q] = "deleted"] /\ results' = results
      BY <1>4 DEF DeleteRow, RequestInv
    <2>2. Abs[q] \in {"queued", "executing", "settled"}
      BY <2>1, PhaseOfStatus DEF Abs, RowExists, RowStatus, ActiveStatus
    <2>3. Abs' = [Abs EXCEPT ![q] = "removed"]
      BY <2>1, PhaseOfStatus DEF Abs, TypeOK
    <2>4. Contract!Remove(q)
      BY <2>1, <2>2, <2>3 DEF Contract!Remove, Abs
    <2> QED
      BY <2>4 DEF Contract!Next
  <1>5. ASSUME NEW w \in Workers, Claim(w) PROVE [Contract!Next]_(Contract!contractVars)
    <2> DEFINE q == worker[w].run
    <2>1. q \in Runs
      BY <1>5, BusyWorker DEF Claim
    <2>2. CASE status[q] = "pending"
      <3>1. status' = [status EXCEPT ![q] = "running"] /\ results' = results
        BY <1>5, <2>2 DEF Claim, ClaimFrom
      <3>2. Abs[q] = "queued" /\ Abs' = [Abs EXCEPT ![q] = "executing"]
        BY <2>1, <2>2, <3>1, PhaseOfStatus DEF Abs, TypeOK
      <3>3. Contract!Start(q)
        BY <3>1, <3>2 DEF Contract!Start, Abs
      <3> QED
        BY <2>1, <3>3 DEF Contract!Next
    <2>3. CASE status[q] # "pending"
      BY <1>1, <1>5, <2>3 DEF Claim, ClaimFrom
    <2> QED
      BY <2>2, <2>3
  <1>6. ASSUME NEW w \in Workers, WriteTerminal(w) PROVE [Contract!Next]_(Contract!contractVars)
    <2> DEFINE q == worker[w].run
    <2>1. q \in Runs /\ results' = results
      BY <1>6, BusyWorker DEF WriteTerminal
    <2>2. \A r \in Runs : r # q => status'[r] = status[r]
      BY <1>6, <2>1 DEF WriteTerminal, TypeOK
    <2>3. status'[q] = status[q] \/ (status[q] \in {"running", "cancelled"} /\ status'[q] \in Terminal)
      BY <1>6, <2>1 DEF WriteTerminal, WriteFrom, Outcome, Terminal, TypeOK
    <2>4. CASE status[q] = "running" /\ status'[q] \in Terminal
      BY <2>1, <2>2, <2>4, SettleOne DEF ActiveStatus
    <2>5. CASE ~ (status[q] = "running" /\ status'[q] \in Terminal)
      <3>1. \A r \in Runs : status'[r] = status[r] \/ (status[r] \in Terminal /\ status'[r] \in Terminal)
        BY <2>2, <2>3, <2>5 DEF Terminal
      <3> QED
        BY <2>1, <3>1, SettleNone
    <2> QED
      BY <2>4, <2>5
  <1>7. ASSUME NEW w \in Workers, Persist(w) PROVE [Contract!Next]_(Contract!contractVars)
    <2> DEFINE q == worker[w].run
    <2>1. q \in Runs /\ Executes(w, q) /\ Unsaved(w) /\ status' = status
      BY <1>7, BusyWorker DEF Persist, Executes, Executing, Unsaved
    <2>2. CASE RowExists(q)
      <3>1. results[q] = 0 /\ results' = [results EXCEPT ![q] = 1]
        <4>1. results[q] = 0
          BY <2>1 DEF ResultInv
        <4>2. results' = [results EXCEPT ![q] = @ + 1]
          BY <1>7, <2>2 DEF Persist
        <4> QED
          BY <4>1, <4>2
      <3>2. Abs[q] \in {"executing", "settled"} /\ Abs' = Abs
        BY <2>1, <2>2, PhaseOfStatus DEF Abs, ExecInv, RowExists, RowStatus, ActiveStatus
      <3>3. Contract!Record(q)
        BY <3>1, <3>2 DEF Contract!Record, Abs
      <3> QED
        BY <2>1, <3>3 DEF Contract!Next
    <2>3. CASE ~ RowExists(q)
      BY <1>1, <1>7, <2>1, <2>3 DEF Persist
    <2> QED
      BY <2>2, <2>3
  <1>8. CASE Sweep
    <2>1. \A r \in Zombies : status[r] \in ActiveStatus /\ status'[r] \in Terminal
      BY <1>8 DEF Sweep, SweptStatus, Zombies, ActiveStatus, Terminal
    <2>2. \A r \in Runs \ Zombies : status'[r] = status[r]
      BY <1>8 DEF Sweep
    <2>3. Zombies \in SUBSET Runs /\ results' = results
      BY <1>8 DEF Sweep, Zombies
    <2> QED
      BY <2>1, <2>2, <2>3, SettleStep
  <1>9. ASSUME NEW q \in Runs, ApiStep(q), ~ InsertRun(q), ~ EnqueueFailed(q), ~ CancelWrites(q), ~ DeleteRow(q)
        PROVE  status' = status /\ results' = results
    BY <1>9 DEF ApiStep, LockTenant, CountActive, EnqueueRun, EnqueueRaises, CreateAborts, CancelReads, DeleteReads
  <1>10. ASSUME NEW w \in Workers, BrokerStep(w) \/ TaskStep(w), ~ Claim(w), ~ Persist(w), ~ WriteTerminal(w)
         PROVE  status' = status /\ results' = results
    BY <1>10 DEF BrokerStep, Receive, Redeliver, WorkerCrash, TaskStep, Setup, TaskRaises, Heartbeat,
                 SeeCancel, StreamEnds, StreamRaises, PersistRaises, PublishEnd, WriteTerminalRaises
  <1>11. ASSUME NEW q \in Runs, HeartbeatAges(q) PROVE status' = status /\ results' = results
    BY <1>11 DEF HeartbeatAges
  <1>12. UNCHANGED vars => status' = status /\ results' = results
    BY DEF vars
  <1> QED
    BY <1>1, <1>2, <1>3, <1>4, <1>5, <1>6, <1>7, <1>8, <1>9, <1>10, <1>11, <1>12 DEF Next

\* The whole lifecycle implements the contract: an atomic quota, one execution and
\* one recording of results per run, no way back to activity.
THEOREM LifecycleImplementsContract == Spec => ContractKept
  <1>1. Spec => [](IInv /\ QuotaInv)
    BY InitQuotaInv, NextQuotaInv, InvariantIInv, PTL DEF Spec
  <1> QED
    BY <1>1, InitContract, NextContract, PTL DEF Spec, ContractKept, Contract!Spec

=============================================================================
