------------------------------ MODULE Simulation ------------------------------
(***************************************************************************)
(* The scenarios of several runs, simulated concurrently against one target*)
(* agent (agents/simulator.py) through a connector with retries and a      *)
(* circuit breaker (connectors/target_agent.py). The breaker is a counter  *)
(* in Redis, shared by all workers that talk to the same host: INCR on a   *)
(* failure, EXPIRE when the counter is new, DEL on a success. Each of these*)
(* is a call of its own, any of them may fail, and a failure is ignored. A *)
(* worker may die anywhere; its scenarios are not simulated again, because *)
(* the redelivered task finds its run running and gives up.                *)
(***************************************************************************)
EXTENDS Integers, FiniteSets

CONSTANTS
    Scenarios, Runs,
    RunOf,           \* the run of a scenario
    Slots,           \* scenarios of a run simulated at a time (10)
    Threshold,       \* failure_threshold (4)
    MaxTurns,        \* max_turns (5)
    MaxAttempts,     \* stop_after_attempt (3), for requests and for uploads
    Window,          \* seconds until the counter expires (60), in clock ticks
    MaxRedisFaults   \* bound: Redis calls that fail

ASSUME RunOfAssumption == IsFiniteSet(Scenarios) /\ IsFiniteSet(Runs) /\ RunOf \in [Scenarios -> Runs]
ASSUME LimitsAssumption ==
    /\ Slots \in Nat \ {0} /\ Threshold \in Nat \ {0} /\ MaxTurns \in Nat \ {0}
    /\ MaxAttempts \in Nat \ {0} /\ Window \in Nat \ {0}
ASSUME BoundsAssumption == MaxRedisFaults \in Nat

VARIABLES
    pc,           \* where simulate_scenario of each scenario is
    turn, tries,  \* its turn, and the attempts of its current request or upload
    counter,      \* the breaker's key, 0 if it does not exist
    ttl,          \* ticks until the key expires, 0 if none is set
    culprits,     \* history: scenarios to which the target failed to answer
    expireLost,   \* history: a worker died between its INCR and its EXPIRE
    redisFaults

breaker == <<counter, ttl, culprits, expireLost>>
vars == <<pc, turn, tries, breaker, redisFaults>>

\* Inside the semaphore.
Busy == {"check", "send", "failed", "armed", "answered", "upload"}
Done == {"stored", "lost"}
Ended == Done \cup {"dead"}
Steps == Busy \cup Ended \cup {"queued"}

Init ==
    /\ pc = [s \in Scenarios |-> "queued"]
    /\ turn = [s \in Scenarios |-> 0] /\ tries = [s \in Scenarios |-> 0]
    /\ counter = 0 /\ ttl = 0 /\ culprits = {} /\ expireLost = FALSE
    /\ redisFaults = 0

\* A call that raises; Redis may have executed it all the same.
RedisFault == redisFaults < MaxRedisFaults /\ redisFaults' = redisFaults + 1

GoTo(s, p) == pc' = [pc EXCEPT ![s] = p] /\ tries' = [tries EXCEPT ![s] = 0]

-----------------------------------------------------------------------------
(* simulate_scenario and send_interaction                                  *)

WorkingOrLost(r) ==  \* mutant: a failed upload keeps its slot
    {s \in Scenarios : RunOf[s] = r /\ pc[s] \in Busy \cup {"lost"}}
Working(r) == {s \in Scenarios : RunOf[s] = r /\ pc[s] \in Busy}

\* async with semaphore.
SlotFree(r) == Cardinality(Working(r)) < Slots

Begin(s) ==
    /\ pc[s] = "queued" /\ SlotFree(RunOf[s])
    /\ GoTo(s, "check")
    /\ UNCHANGED <<turn, breaker, redisFaults>>

\* is_open, which fails open. A rejected scenario still uploads its trace.
OpenAbove(n) == n > Threshold  \* mutant: > for >=
IsOpen(n) == n >= Threshold

CheckBreaker(s) ==
    /\ pc[s] = "check"
    /\ \/ IsOpen(counter) /\ GoTo(s, "upload") /\ UNCHANGED redisFaults
       \/ ~IsOpen(counter) /\ GoTo(s, "send") /\ UNCHANGED redisFaults
       \/ RedisFault /\ GoTo(s, "send")
    /\ UNCHANGED <<turn, breaker>>

\* _send_with_retry: a request that gets no answer is tried again.
SendAgain(s) ==
    /\ pc[s] = "send" /\ tries[s] + 1 < MaxAttempts
    /\ tries' = [tries EXCEPT ![s] = @ + 1]
    /\ UNCHANGED <<pc, turn, breaker, redisFaults>>

\* The target does not answer the last attempt, or answers 5xx.
TargetFails(s) ==
    /\ pc[s] = "send"
    /\ GoTo(s, "failed")
    /\ culprits' = culprits \cup {s}
    /\ UNCHANGED <<turn, counter, ttl, expireLost, redisFaults>>

\* A 4xx answer, or an address the connector refuses: the scenario ends, the target
\* is not to blame.
RejectedCounts == "failed"  \* mutant: 4xx recorded as a failure
AfterRejection == "upload"

TargetRejects(s) ==
    /\ pc[s] = "send"
    /\ GoTo(s, AfterRejection)
    /\ UNCHANGED <<turn, breaker, redisFaults>>

TargetAnswers(s) ==
    /\ pc[s] = "send"
    /\ GoTo(s, "answered")
    /\ UNCHANGED <<turn, breaker, redisFaults>>

NeverFresh(n) == FALSE  \* mutant: no EXPIRE
FreshOnceOpen(n) == n = Threshold  \* mutant: EXPIRE when the breaker has opened
Fresh(n) == n = 0

\* record_failure: INCR, and EXPIRE if the counter was absent.
Incr(s) ==
    /\ pc[s] = "failed"
    /\ \/ /\ counter' = counter + 1
          /\ GoTo(s, IF Fresh(counter) THEN "armed" ELSE "upload")
          /\ UNCHANGED redisFaults
       \/ RedisFault /\ GoTo(s, "upload") /\ counter' \in {counter, counter + 1}
    /\ UNCHANGED <<turn, ttl, culprits, expireLost>>

Lifetime(n) == IF n > 0 THEN Window ELSE 0

Expire(s) ==
    /\ pc[s] = "armed"
    /\ GoTo(s, "upload")
    /\ \/ ttl' = Lifetime(counter) /\ UNCHANGED redisFaults
       \/ RedisFault /\ ttl' \in {ttl, Lifetime(counter)}
    /\ UNCHANGED <<turn, counter, culprits, expireLost>>

KeyGone == counter' = 0 /\ ttl' = 0

MoreTurns(n) == n + 1 < MaxTurns

\* record_success, then the turn ends: the last one, a complete or an unreadable
\* answer goes on to the upload.
RecordSuccess(s) ==
    /\ pc[s] = "answered"
    /\ \/ KeyGone /\ UNCHANGED <<culprits, expireLost, redisFaults>>
       \/ RedisFault /\ UNCHANGED breaker
    /\ \/ GoTo(s, "upload") /\ UNCHANGED turn
       \/ /\ MoreTurns(turn[s])
          /\ turn' = [turn EXCEPT ![s] = @ + 1]
          /\ GoTo(s, "check")

\* upload_trace_with_retry.
UploadAgain(s) ==
    /\ pc[s] = "upload" /\ tries[s] + 1 < MaxAttempts
    /\ tries' = [tries EXCEPT ![s] = @ + 1]
    /\ UNCHANGED <<pc, turn, breaker, redisFaults>>

Upload(s) ==
    /\ pc[s] = "upload"
    /\ \/ GoTo(s, "stored")
       \/ tries[s] + 1 = MaxAttempts /\ GoTo(s, "lost")
    /\ UNCHANGED <<turn, breaker, redisFaults>>

-----------------------------------------------------------------------------
(* The worker's process, and Redis                                         *)

\* The process that simulates a run is killed. A call to Redis it was waiting for has
\* been executed (the step of that call, then this one) or never will be.
Unfinished(r) == {s \in Scenarios : RunOf[s] = r /\ pc[s] \notin Ended}

WorkerDies(r) ==
    /\ Unfinished(r) # {}
    /\ pc' = [s \in Scenarios |-> IF s \in Unfinished(r) THEN "dead" ELSE pc[s]]
    /\ expireLost' = (expireLost \/ \E s \in Unfinished(r) : pc[s] = "armed")
    /\ UNCHANGED <<turn, tries, counter, ttl, culprits, redisFaults>>

Tick ==
    /\ ttl > 0
    /\ IF ttl = 1 THEN KeyGone ELSE ttl' = ttl - 1 /\ UNCHANGED counter
    /\ UNCHANGED <<pc, turn, tries, culprits, expireLost, redisFaults>>

-----------------------------------------------------------------------------

Interacts(s) ==
    \/ CheckBreaker(s) \/ SendAgain(s) \/ TargetFails(s) \/ TargetRejects(s) \/ TargetAnswers(s)
    \/ Incr(s) \/ Expire(s) \/ RecordSuccess(s)

ScenarioStep(s) == Begin(s) \/ Interacts(s) \/ UploadAgain(s) \/ Upload(s)

Next ==
    \/ \E s \in Scenarios : ScenarioStep(s)
    \/ \E r \in Runs : WorkerDies(r)
    \/ Tick

Spec == Init /\ [][Next]_vars

\* A live worker's event loop goes on: requests and uploads have timeouts (httpx 30 s,
\* S3), a call to Redis is assumed to return or to raise (the client sets no timeout),
\* and Redis has a clock. Nothing forces a worker to die.
FairSpec == Spec /\ (\A s \in Scenarios : WF_vars(ScenarioStep(s))) /\ WF_vars(Tick)

-----------------------------------------------------------------------------
(* Properties                                                              *)

\* Every variable stays in its type.
TypeOK ==
    /\ pc \in [Scenarios -> Steps]
    /\ turn \in [Scenarios -> 0 .. MaxTurns - 1]
    /\ tries \in [Scenarios -> 0 .. MaxAttempts - 1]
    /\ counter \in Nat /\ ttl \in 0 .. Window
    /\ culprits \subseteq Scenarios /\ expireLost \in BOOLEAN
    /\ redisFaults \in 0 .. MaxRedisFaults

\* The breaker stops the workers together: check and record are separate calls, so
\* those that had checked may add to the count, and nobody else.
InFlight == {s \in Scenarios : pc[s] \in {"send", "failed"}}
BreakerBoundsFailures ==
    counter + Cardinality(InFlight) <= Threshold - 1 + Slots * Cardinality(Runs) + redisFaults

\* "Only 5xx errors should trip the circuit breaker": each unit of the counter comes
\* from another scenario, to which the target failed to answer.
OnlyTargetTrips == counter <= Cardinality(culprits)

\* A counter without a lifetime would hold the breaker open for every worker, with
\* nobody left to delete it: however the INCRs, EXPIREs and DELs of several workers
\* interleave, someone is about to give it one, unless a call to Redis failed or a
\* worker died right there.
CounterHasLifetime ==
    counter > 0 /\ ttl = 0 =>
        (\E s \in Scenarios : pc[s] = "armed") \/ redisFaults > 0 \/ expireLost

\* Every scenario gives back its slot and ends with a trace, stored or lost, unless
\* its worker dies.
EveryScenarioEnds == \A s \in Scenarios : <>(pc[s] \in Ended)

\* An open breaker closes again: a success or the key's lifetime removes the failures,
\* unless a call to Redis failed or a worker died between INCR and EXPIRE (an EXPIRE
\* that is lost is never sent again).
FailuresExpire == (counter > 0) ~> (counter = 0 \/ redisFaults > 0 \/ expireLost)

===============================================================================
