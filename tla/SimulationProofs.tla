--------------------------- MODULE SimulationProofs ---------------------------
(* What the breaker counts, for any number of runs, scenarios, slots, turns,   *)
(* retries and Redis faults, and any threshold.                                *)
EXTENDS Simulation, FiniteSetTheorems, TLAPS

\* Semaphores: a run has as many scenarios under way as it has slots, at most.
SlotsHeld == \A r \in Runs : Cardinality(Working(r)) <= Slots

Failed == {s \in Scenarios : pc[s] = "failed"}

\* A scenario to which the target failed to answer sends no other request, and is
\* counted once it has left "failed".
CountedOnce ==
  /\ \A s \in culprits : pc[s] \in {"failed", "armed", "upload", "stored", "lost", "dead"}
  /\ Failed \subseteq culprits
  /\ counter <= Cardinality(culprits \ Failed)

CInv == TypeOK /\ SlotsHeld /\ CountedOnce /\ BreakerBoundsFailures /\ CounterHasLifetime

-----------------------------------------------------------------------------
(* Sizes                                                                   *)

LEMMA Finite ==
  ASSUME NEW S, S \subseteq Scenarios
  PROVE  IsFiniteSet(S) /\ Cardinality(S) \in Nat
  BY RunOfAssumption, FS_Subset, FS_CardinalityType

LEMMA Smaller ==
  ASSUME NEW T, T \subseteq Scenarios, NEW S, S \subseteq T
  PROVE  Cardinality(S) <= Cardinality(T)
  BY Finite, FS_Subset

\* Scenarios under way have a slot each.
LEMMA EveryoneSeated ==
  ASSUME NEW All, All \subseteq Scenarios,
         \A r \in Runs : Cardinality({s \in All : RunOf[s] = r}) <= Slots
  PROVE  Cardinality(All) <= Slots * Cardinality(Runs)
  <1> DEFINE Mine(r) == {s \in All : RunOf[s] = r}
             Size(r) == Cardinality(Mine(r))
             Numbering(r) == CHOOSE g : g \in Bijection(1 .. Size(r), Mine(r))
             Number(s) == CHOOSE i \in 1 .. Size(RunOf[s]) : Numbering(RunOf[s])[i] = s
             Seat == [s \in All |-> <<RunOf[s], Number(s)>>]
  <1>1. ASSUME NEW r \in Runs
        PROVE  Numbering(r) \in Bijection(1 .. Size(r), Mine(r)) /\ Size(r) \in Nat /\ Size(r) <= Slots
    <2>1. IsFiniteSet(Mine(r)) /\ Size(r) \in Nat
      BY Finite
    <2>2. Bijection(1 .. Size(r), Mine(r)) # {}
      BY <2>1, FS_CardinalityType DEF ExistsBijection
    <2> QED
      BY <2>1, <2>2
  <1>2. ASSUME NEW s \in All
        PROVE  RunOf[s] \in Runs /\ Number(s) \in 1 .. Slots /\ Numbering(RunOf[s])[Number(s)] = s
    <2>1. RunOf[s] \in Runs /\ s \in Mine(RunOf[s])
      BY RunOfAssumption
    <2>2. Numbering(RunOf[s]) \in Surjection(1 .. Size(RunOf[s]), Mine(RunOf[s]))
      BY <1>1, <2>1 DEF Bijection
    <2>3. PICK i \in 1 .. Size(RunOf[s]) : Numbering(RunOf[s])[i] = s
      <3> HIDE DEF Numbering, Size
      <3> QED BY <2>1, <2>2 DEF Surjection
    <2>4. Number(s) \in 1 .. Size(RunOf[s]) /\ Numbering(RunOf[s])[Number(s)] = s
      <3> HIDE DEF Numbering, Size
      <3> QED BY <2>3
    <2>5. Size(RunOf[s]) \in Nat /\ Size(RunOf[s]) <= Slots
      BY <1>1, <2>1
    <2> HIDE DEF Number, Numbering, Size
    <2> QED
      BY <2>1, <2>4, <2>5, LimitsAssumption
  <1>3. Seat \in Injection(All, Runs \X (1 .. Slots))
    <2> HIDE DEF Number, Numbering, Size
    <2>1. Seat \in [All -> Runs \X (1 .. Slots)]
      BY <1>2
    <2>2. ASSUME NEW s \in All, NEW t \in All, Seat[s] = Seat[t] PROVE s = t
      <3>1. RunOf[s] = RunOf[t] /\ Number(s) = Number(t)
        BY <2>2
      <3> QED BY <1>2, <3>1
    <2> HIDE DEF Seat
    <2> QED
      BY <2>1, <2>2 DEF Injection, IsInjective
  <1>4. /\ IsFiniteSet(Runs \X (1 .. Slots))
        /\ Cardinality(Runs \X (1 .. Slots)) = Cardinality(Runs) * Slots
    <2>1. IsFiniteSet(1 .. Slots) /\ Cardinality(1 .. Slots) = Slots
      BY LimitsAssumption, FS_Interval
    <2> QED
      BY <2>1, RunOfAssumption, FS_Product
  <1>5. Cardinality(All) <= Cardinality(Runs) * Slots
    <2> HIDE DEF Seat
    <2> QED BY <1>3, <1>4, FS_Injection
  <1>6. Cardinality(Runs) \in Nat /\ Slots \in Nat
    BY LimitsAssumption, RunOfAssumption, FS_CardinalityType
  <1> QED
    BY <1>5, <1>6

-----------------------------------------------------------------------------
(* The inductive invariant                                                 *)

LEMMA CInit == Init => CInv
  <1> SUFFICES ASSUME Init PROVE CInv
    OBVIOUS
  <1>1. TypeOK
    <2>1. pc \in [Scenarios -> Steps] /\ expireLost \in BOOLEAN
      BY DEF Init, Steps
    <2>2. turn \in [Scenarios -> 0 .. MaxTurns - 1] /\ tries \in [Scenarios -> 0 .. MaxAttempts - 1]
      BY LimitsAssumption DEF Init
    <2>3. /\ counter \in Nat /\ ttl \in 0 .. Window /\ culprits \subseteq Scenarios
          /\ redisFaults \in 0 .. MaxRedisFaults
      BY LimitsAssumption, BoundsAssumption DEF Init
    <2> QED BY <2>1, <2>2, <2>3 DEF TypeOK
  <1>2. \A r \in Runs : Working(r) = {}
    BY DEF Init, Working, Busy
  <1>3. InFlight = {} /\ Failed = {}
    BY DEF Init, InFlight, Failed
  <1>4. culprits \ Failed = {}
    BY DEF Init
  <1>5. Cardinality({}) = 0 /\ Cardinality(Runs) \in Nat
    BY FS_EmptySet, FS_CardinalityType, RunOfAssumption
  <1>6. Slots * Cardinality(Runs) \in Nat
    BY <1>5, LimitsAssumption
  <1>7. SlotsHeld
    BY <1>2, <1>5, LimitsAssumption DEF SlotsHeld
  <1>8. CountedOnce
    BY <1>3, <1>4, <1>5 DEF CountedOnce, Init
  <1>9. BreakerBoundsFailures
    BY <1>3, <1>5, <1>6, LimitsAssumption DEF BreakerBoundsFailures, Init
  <1>10. CounterHasLifetime
    BY DEF Init, CounterHasLifetime
  <1> QED
    BY <1>1, <1>7, <1>8, <1>9, <1>10 DEF CInv

LEMMA TypeStep ==
  ASSUME TypeOK, [Next]_vars
  PROVE  TypeOK'
  <1> USE LimitsAssumption, BoundsAssumption DEF TypeOK, Steps, Busy, Ended, Done
  <1>1. ASSUME NEW s \in Scenarios, Begin(s) PROVE TypeOK'
    BY <1>1 DEF Begin, GoTo, breaker
  <1>2. ASSUME NEW s \in Scenarios, CheckBreaker(s) PROVE TypeOK'
    BY <1>2 DEF CheckBreaker, GoTo, breaker, RedisFault
  <1>3. ASSUME NEW s \in Scenarios, SendAgain(s) \/ UploadAgain(s) PROVE TypeOK'
    BY <1>3 DEF SendAgain, UploadAgain, breaker
  <1>4. ASSUME NEW s \in Scenarios, TargetFails(s) PROVE TypeOK'
    BY <1>4 DEF TargetFails, GoTo
  <1>5. ASSUME NEW s \in Scenarios, TargetRejects(s) \/ TargetAnswers(s) PROVE TypeOK'
    BY <1>5 DEF TargetRejects, TargetAnswers, AfterRejection, GoTo, breaker
  <1>6. ASSUME NEW s \in Scenarios, Incr(s) PROVE TypeOK'
    BY <1>6 DEF Incr, GoTo, RedisFault
  <1>7. ASSUME NEW s \in Scenarios, Expire(s) PROVE TypeOK'
    BY <1>7 DEF Expire, GoTo, RedisFault, Lifetime
  <1>8. ASSUME NEW s \in Scenarios, RecordSuccess(s) PROVE TypeOK'
    <2>1. pc' \in [Scenarios -> Steps] /\ tries' \in [Scenarios -> 0 .. MaxAttempts - 1]
      BY <1>8 DEF RecordSuccess, GoTo
    <2>2. turn' \in [Scenarios -> 0 .. MaxTurns - 1]
      BY <1>8 DEF RecordSuccess, MoreTurns
    <2>3. /\ counter' \in Nat /\ ttl' \in 0 .. Window /\ culprits' \subseteq Scenarios
          /\ redisFaults' \in 0 .. MaxRedisFaults
      BY <1>8 DEF RecordSuccess, KeyGone, RedisFault, breaker
    <2>4. expireLost' \in BOOLEAN
      BY <1>8 DEF RecordSuccess, breaker
    <2> QED BY <2>1, <2>2, <2>3, <2>4
  <1>9. ASSUME NEW s \in Scenarios, Upload(s) PROVE TypeOK'
    BY <1>9 DEF Upload, GoTo, breaker
  <1>10. CASE Tick
    BY <1>10 DEF Tick, KeyGone
  <1>11. CASE UNCHANGED vars
    BY <1>11 DEF vars, breaker
  <1>12. ASSUME NEW r \in Runs, WorkerDies(r) PROVE TypeOK'
    BY <1>12 DEF WorkerDies
  <1> QED
    BY <1>1, <1>2, <1>3, <1>4, <1>5, <1>6, <1>7, <1>8, <1>9, <1>10, <1>11, <1>12
    DEF Next, ScenarioStep, Interacts

\* Nobody but Begin takes a slot.
LEMMA SlotsStep ==
  ASSUME CInv, [Next]_vars
  PROVE  SlotsHeld'
  <1> SUFFICES ASSUME NEW r \in Runs PROVE Cardinality(Working(r)') <= Slots
    BY DEF SlotsHeld
  <1>1. /\ Cardinality(Working(r)) \in Nat /\ Cardinality(Working(r)') \in Nat
        /\ IsFiniteSet(Working(r)) /\ Cardinality(Working(r)) <= Slots /\ Slots \in Nat
    <2>1. Working(r) \subseteq Scenarios /\ Working(r)' \subseteq Scenarios
      BY DEF Working
    <2> QED BY <2>1, Finite, LimitsAssumption DEF CInv, SlotsHeld
  <1>2. CASE Working(r)' \subseteq Working(r)
    <2>1. Cardinality(Working(r)') <= Cardinality(Working(r))
      BY <1>2, Smaller DEF Working
    <2> QED BY <1>1, <2>1
  <1>3. ASSUME NEW s \in Scenarios, Begin(s), ~(Working(r)' \subseteq Working(r))
        PROVE  Cardinality(Working(r)') <= Slots
    <2>1. Working(r)' \subseteq Working(r) \cup {s} /\ RunOf[s] = r /\ s \notin Working(r)
      BY <1>3 DEF Begin, GoTo, Working, Busy, CInv, TypeOK
    <2>2. Cardinality(Working(r)) < Slots
      BY <1>3, <2>1 DEF Begin, SlotFree
    <2>3. /\ Cardinality(Working(r) \cup {s}) = Cardinality(Working(r)) + 1
          /\ Working(r) \cup {s} \subseteq Scenarios
      BY <1>1, <2>1, FS_AddElement DEF Working
    <2>4. Cardinality(Working(r)') <= Cardinality(Working(r) \cup {s})
      BY <2>1, <2>3, Smaller
    <2> QED BY <1>1, <2>2, <2>3, <2>4
  <1>4. ASSUME NEW s \in Scenarios, Interacts(s) \/ UploadAgain(s) \/ Upload(s)
        PROVE  Working(r)' \subseteq Working(r)
    <2>1. pc[s] \in Busy /\ \A t \in Scenarios : t # s => pc'[t] = pc[t]
      BY <1>4 DEF Interacts, UploadAgain, Upload, CheckBreaker, SendAgain, TargetFails, TargetRejects,
        TargetAnswers, Incr, Expire, RecordSuccess, GoTo, Busy, CInv, TypeOK
    <2> QED BY <2>1 DEF Working
  <1>5. CASE Tick \/ UNCHANGED vars
    BY <1>2, <1>5 DEF Tick, vars, Working
  <1>6. ASSUME NEW w \in Runs, WorkerDies(w) PROVE Working(r)' \subseteq Working(r)
    BY <1>6 DEF WorkerDies, Working, Busy
  <1> QED
    BY <1>2, <1>3, <1>4, <1>5, <1>6 DEF Next, ScenarioStep

\* A failure is recorded once, when its scenario leaves "failed".
LEMMA CountedStep ==
  ASSUME CInv, [Next]_vars
  PROVE  CountedOnce'
  <1> DEFINE Counted == culprits \ Failed
  <1>1. /\ TypeOK /\ TypeOK' /\ CountedOnce /\ Counted \subseteq Scenarios /\ Counted' \subseteq Scenarios
    BY TypeStep DEF CInv, TypeOK
  <1>2. /\ IsFiniteSet(Counted) /\ Cardinality(Counted) \in Nat /\ Cardinality(Counted') \in Nat
        /\ counter \in Nat /\ counter' \in Nat /\ counter <= Cardinality(Counted)
    <2> HIDE DEF Counted
    <2>1. IsFiniteSet(Counted) /\ Cardinality(Counted) \in Nat /\ Cardinality(Counted') \in Nat
      BY <1>1, Finite
    <2> QED BY <1>1, <2>1 DEF TypeOK, CountedOnce, Counted
  <1>3. SUFFICES
          /\ \A s \in culprits' : pc'[s] \in {"failed", "armed", "upload", "stored", "lost", "dead"}
          /\ Failed' \subseteq culprits'
          /\ \/ Counted \subseteq Counted' /\ counter' <= counter
             \/ counter' = 0
             \/ \E s \in Scenarios \ Counted : Counted' = Counted \cup {s} /\ counter' <= counter + 1
    <2> DEFINE grown == \E s \in Scenarios \ Counted : Counted' = Counted \cup {s} /\ counter' <= counter + 1
    <2>1. CASE Counted \subseteq Counted' /\ counter' <= counter
      <3>1. Cardinality(Counted) <= Cardinality(Counted')
        <4> HIDE DEF Counted
        <4> QED BY <1>1, <2>1, Smaller
      <3> QED BY <1>2, <1>3, <2>1, <3>1 DEF CountedOnce
    <2>2. CASE counter' = 0
      BY <1>2, <1>3, <2>2 DEF CountedOnce
    <2>3. CASE grown
      <3>1. PICK s \in Scenarios \ Counted : Counted' = Counted \cup {s} /\ counter' <= counter + 1
        BY <2>3
      <3>2. Cardinality(Counted') = Cardinality(Counted) + 1
        <4> HIDE DEF Counted
        <4> QED BY <1>2, <3>1, FS_AddElement
      <3> QED BY <1>2, <1>3, <3>1, <3>2 DEF CountedOnce
    <2> QED BY <1>3, <2>1, <2>2, <2>3
  <1> USE DEF TypeOK, CountedOnce, Failed
  <1>4. ASSUME NEW s \in Scenarios,
               \/ Begin(s) \/ CheckBreaker(s) \/ SendAgain(s) \/ TargetRejects(s) \/ TargetAnswers(s)
               \/ Expire(s) \/ UploadAgain(s) \/ Upload(s)
        PROVE  /\ pc[s] # "failed" /\ pc'[s] # "failed" /\ culprits' = culprits /\ counter' = counter
               /\ \A t \in Scenarios : t # s => pc'[t] = pc[t]
               /\ s \in culprits => pc'[s] \in {"armed", "upload", "stored", "lost", "dead"}
    BY <1>1, <1>4 DEF Begin, CheckBreaker, SendAgain, TargetRejects, TargetAnswers, Expire, UploadAgain,
      Upload, GoTo, AfterRejection, breaker
  <1>5. ASSUME NEW s \in Scenarios, TargetFails(s)
        PROVE  /\ pc' = [pc EXCEPT ![s] = "failed"] /\ culprits' = culprits \cup {s}
               /\ counter' = counter /\ s \notin culprits
    BY <1>1, <1>5 DEF TargetFails, GoTo
  <1>6. ASSUME NEW s \in Scenarios, Incr(s)
        PROVE  /\ pc[s] = "failed" /\ s \in culprits /\ culprits' = culprits /\ counter' <= counter + 1
               /\ pc'[s] \in {"armed", "upload"} /\ \A t \in Scenarios : t # s => pc'[t] = pc[t]
    BY <1>1, <1>6 DEF Incr, GoTo
  <1>7. ASSUME NEW s \in Scenarios, RecordSuccess(s)
        PROVE  /\ pc[s] = "answered" /\ pc'[s] \in {"upload", "check"} /\ culprits' = culprits
               /\ counter' = 0 \/ counter' = counter
               /\ s \notin culprits
               /\ \A t \in Scenarios : t # s => pc'[t] = pc[t]
    BY <1>1, <1>7 DEF RecordSuccess, GoTo, KeyGone, breaker
  <1>8. CASE Tick \/ UNCHANGED vars
    BY <1>1, <1>2, <1>8 DEF Tick, KeyGone, vars, breaker
  <1>9. ASSUME NEW s \in Scenarios, Begin(s) \/ Interacts(s) \/ UploadAgain(s) \/ Upload(s)
        PROVE  /\ \A t \in culprits' : pc'[t] \in {"failed", "armed", "upload", "stored", "lost", "dead"}
               /\ Failed' \subseteq culprits'
               /\ \/ Counted \subseteq Counted' /\ counter' <= counter
                  \/ counter' = 0
                  \/ \E t \in Scenarios \ Counted : Counted' = Counted \cup {t} /\ counter' <= counter + 1
    <2>1. CASE TargetFails(s)
      BY <1>1, <1>2, <1>5, <2>1
    <2>2. CASE Incr(s)
      <3>1. s \in Scenarios \ Counted /\ Counted' = Counted \cup {s}
        BY <1>1, <1>6, <2>2
      <3> QED BY <1>1, <1>6, <2>2, <3>1
    <2>3. CASE RecordSuccess(s)
      BY <1>1, <1>2, <1>7, <2>3
    <2>4. CASE \/ Begin(s) \/ CheckBreaker(s) \/ SendAgain(s) \/ TargetRejects(s) \/ TargetAnswers(s)
               \/ Expire(s) \/ UploadAgain(s) \/ Upload(s)
      BY <1>1, <1>2, <1>4, <2>4
    <2> QED BY <1>9, <2>1, <2>2, <2>3, <2>4 DEF Interacts
  <1>10. ASSUME NEW r \in Runs, WorkerDies(r)
         PROVE  /\ \A s \in culprits' : pc'[s] \in {"failed", "armed", "upload", "stored", "lost", "dead"}
                /\ Failed' \subseteq culprits' /\ Counted \subseteq Counted' /\ counter' <= counter
    <2>1. /\ culprits' = culprits /\ counter' = counter
          /\ \A s \in Scenarios : pc'[s] = "dead" \/ pc'[s] = pc[s]
      BY <1>10 DEF WorkerDies
    <2>2. Failed' \subseteq Failed
      BY <2>1
    <2> QED BY <1>1, <1>2, <2>1, <2>2
  <1> QED
    BY <1>8, <1>9, <1>10 DEF Next, ScenarioStep

\* Either the scenario passed the check with the counter below the threshold, and then
\* the slots bound those under way, or Redis raised.
LEMMA BreakerStep ==
  ASSUME CInv, [Next]_vars
  PROVE  BreakerBoundsFailures'
  <1>1. TypeOK /\ TypeOK' /\ SlotsHeld' /\ BreakerBoundsFailures
    BY TypeStep, SlotsStep DEF CInv
  <1>2. /\ IsFiniteSet(InFlight) /\ Cardinality(InFlight) \in Nat /\ Cardinality(InFlight') \in Nat
        /\ InFlight \subseteq Scenarios /\ InFlight' \subseteq Scenarios
    BY Finite DEF InFlight
  <1>3. Slots * Cardinality(Runs) \in Nat
    <2>1. Cardinality(Runs) \in Nat
      BY RunOfAssumption, FS_CardinalityType
    <2> QED BY <2>1, LimitsAssumption
  <1>4. Cardinality(InFlight') <= Slots * Cardinality(Runs)
    <2> DEFINE All == {s \in Scenarios : pc'[s] \in Busy}
    <2>1. \A r \in Runs : {s \in All : RunOf[s] = r} = Working(r)'
      BY DEF Working
    <2>2. All \subseteq Scenarios /\ InFlight' \subseteq All
      BY DEF InFlight, Busy
    <2>3. \A r \in Runs : Cardinality({s \in All : RunOf[s] = r}) <= Slots
      BY <1>1, <2>1 DEF SlotsHeld
    <2> HIDE DEF All
    <2>4. Cardinality(All) <= Slots * Cardinality(Runs)
      BY <2>2, <2>3, EveryoneSeated
    <2>5. Cardinality(InFlight') <= Cardinality(All) /\ Cardinality(All) \in Nat
      BY <2>2, Smaller, Finite
    <2> QED BY <1>2, <1>3, <2>4, <2>5
  <1>5. /\ counter \in Nat /\ counter' \in Nat /\ redisFaults \in Nat /\ redisFaults' \in Nat
        /\ Threshold \in Nat \ {0}
    BY <1>1, LimitsAssumption, BoundsAssumption DEF TypeOK
  <1>6. CASE counter' < Threshold
    BY <1>3, <1>4, <1>5, <1>2, <1>6 DEF BreakerBoundsFailures
  <1>7. CASE InFlight' \subseteq InFlight /\ counter' <= counter /\ redisFaults' >= redisFaults
    <2>1. Cardinality(InFlight') <= Cardinality(InFlight)
      BY <1>2, <1>7, Smaller
    <2> QED BY <1>1, <1>2, <1>3, <1>5, <1>7, <2>1 DEF BreakerBoundsFailures
  <1> USE DEF TypeOK
  <1>8. ASSUME NEW s \in Scenarios, CheckBreaker(s) PROVE BreakerBoundsFailures'
    <2>1. CASE IsOpen(counter) /\ GoTo(s, "upload") /\ UNCHANGED redisFaults
      <3>1. InFlight' \subseteq InFlight /\ counter' = counter
        BY <1>1, <1>8, <2>1 DEF CheckBreaker, GoTo, InFlight, breaker
      <3> QED BY <1>5, <1>7, <2>1, <3>1
    <2>2. CASE ~IsOpen(counter)
      BY <1>5, <1>6, <1>8, <2>2 DEF CheckBreaker, IsOpen, breaker
    <2>3. CASE RedisFault /\ GoTo(s, "send")
      <3>1. /\ InFlight' \subseteq InFlight \cup {s} /\ s \notin InFlight
            /\ counter' = counter /\ redisFaults' = redisFaults + 1
        BY <1>1, <1>8, <2>3 DEF CheckBreaker, GoTo, InFlight, breaker, RedisFault
      <3>2. Cardinality(InFlight \cup {s}) = Cardinality(InFlight) + 1 /\ InFlight \cup {s} \subseteq Scenarios
        BY <1>2, <3>1, FS_AddElement
      <3>3. Cardinality(InFlight') <= Cardinality(InFlight \cup {s})
        BY <3>1, <3>2, Smaller
      <3> QED BY <1>1, <1>2, <1>3, <1>5, <3>1, <3>2, <3>3 DEF BreakerBoundsFailures
    <2> QED BY <1>8, <2>1, <2>2, <2>3 DEF CheckBreaker
  <1>9. ASSUME NEW s \in Scenarios, Incr(s) PROVE BreakerBoundsFailures'
    <2>1. /\ InFlight' = InFlight \ {s} /\ s \in InFlight
          /\ counter' <= counter + 1 /\ redisFaults' >= redisFaults
      BY <1>1, <1>5, <1>9 DEF Incr, GoTo, InFlight, RedisFault
    <2>2. Cardinality(InFlight') = Cardinality(InFlight) - 1
      BY <1>2, <2>1, FS_RemoveElement
    <2> QED BY <1>1, <1>2, <1>3, <1>5, <2>1, <2>2 DEF BreakerBoundsFailures
  <1>10. ASSUME NEW s \in Scenarios,
                \/ Begin(s) \/ SendAgain(s) \/ TargetFails(s) \/ TargetRejects(s) \/ TargetAnswers(s)
                \/ Expire(s) \/ UploadAgain(s) \/ Upload(s)
         PROVE  InFlight' \subseteq InFlight /\ counter' <= counter /\ redisFaults' >= redisFaults
    <2> USE <1>1, <1>5 DEF InFlight
    <2>1. CASE Begin(s) \/ TargetRejects(s) \/ TargetAnswers(s) \/ TargetFails(s)
      BY <2>1 DEF Begin, TargetRejects, TargetAnswers, TargetFails, GoTo, AfterRejection, breaker
    <2>2. CASE SendAgain(s) \/ UploadAgain(s) \/ Upload(s)
      BY <2>2 DEF SendAgain, UploadAgain, Upload, GoTo, breaker
    <2>3. CASE Expire(s)
      BY <2>3 DEF Expire, GoTo, RedisFault
    <2> QED BY <1>10, <2>1, <2>2, <2>3
  <1>11. ASSUME NEW s \in Scenarios, RecordSuccess(s)
         PROVE  counter' = 0 \/ (InFlight' \subseteq InFlight /\ counter' = counter /\ redisFaults' >= redisFaults)
    <2>1. pc[s] = "answered" /\ (GoTo(s, "upload") \/ GoTo(s, "check"))
      BY <1>11 DEF RecordSuccess
    <2>2. InFlight' \subseteq InFlight
      BY <1>1, <2>1 DEF GoTo, InFlight
    <2>3. counter' = 0 \/ (counter' = counter /\ redisFaults' >= redisFaults)
      BY <1>5, <1>11 DEF RecordSuccess, KeyGone, RedisFault, breaker
    <2> QED BY <2>2, <2>3
  <1>12. CASE Tick \/ UNCHANGED vars
    BY <1>1, <1>5, <1>6, <1>7, <1>12 DEF Tick, KeyGone, vars, breaker, InFlight
  <1>13. ASSUME NEW r \in Runs, WorkerDies(r)
         PROVE  InFlight' \subseteq InFlight /\ counter' <= counter /\ redisFaults' >= redisFaults
    BY <1>5, <1>13 DEF WorkerDies, InFlight
  <1> QED
    BY <1>5, <1>6, <1>7, <1>8, <1>9, <1>10, <1>11, <1>12, <1>13 DEF Next, ScenarioStep, Interacts

\* The EXPIRE of whoever found the key absent is under way until it is executed, its
\* call raises or its worker dies; until then others only add to the key or delete it.
LEMMA LifetimeStep ==
  ASSUME CInv, [Next]_vars
  PROVE  CounterHasLifetime'
  <1>1. TypeOK /\ CounterHasLifetime /\ Window \in Nat \ {0}
    BY LimitsAssumption DEF CInv
  <1> USE <1>1 DEF TypeOK
  <1>2. SUFFICES ASSUME counter' > 0, ttl' = 0, ~(redisFaults' > 0), expireLost' # TRUE
                 PROVE  \E t \in Scenarios : pc'[t] = "armed"
    BY DEF CounterHasLifetime
  <1>3. ASSUME counter > 0, ttl = 0, redisFaults' = redisFaults, expireLost' = expireLost
        PROVE  \E t \in Scenarios : pc[t] = "armed"
    BY <1>2, <1>3 DEF CounterHasLifetime
  <1>4. ASSUME NEW s \in Scenarios, redisFaults' # redisFaults, ScenarioStep(s) PROVE FALSE
    <2>1. redisFaults' = redisFaults + 1
      BY <1>4 DEF ScenarioStep, Interacts, Begin, CheckBreaker, SendAgain, TargetRejects, TargetAnswers, TargetFails,
        Incr, Expire, RecordSuccess, UploadAgain, Upload, RedisFault
    <2> QED BY <1>2, <2>1, BoundsAssumption
  <1>5. ASSUME NEW s \in Scenarios,
               \/ Begin(s) \/ CheckBreaker(s) \/ SendAgain(s) \/ TargetRejects(s) \/ TargetAnswers(s)
               \/ TargetFails(s) \/ UploadAgain(s) \/ Upload(s)
        PROVE  /\ counter' = counter /\ ttl' = ttl /\ expireLost' = expireLost /\ pc[s] # "armed"
               /\ \A t \in Scenarios : t # s => pc'[t] = pc[t]
    BY <1>5 DEF Begin, CheckBreaker, SendAgain, TargetRejects, TargetAnswers, TargetFails, UploadAgain,
      Upload, GoTo, breaker
  <1>6. ASSUME NEW s \in Scenarios, ScenarioStep(s) PROVE \E t \in Scenarios : pc'[t] = "armed"
    <2>1. CASE \/ Begin(s) \/ CheckBreaker(s) \/ SendAgain(s) \/ TargetRejects(s) \/ TargetAnswers(s)
               \/ TargetFails(s) \/ UploadAgain(s) \/ Upload(s)
      BY <1>2, <1>3, <1>4, <1>5, <1>6, <2>1
    <2>2. CASE Incr(s)
      <3>1. CASE counter = 0
        BY <1>2, <1>4, <1>6, <2>2, <3>1, BoundsAssumption DEF Incr, Fresh, GoTo, RedisFault
      <3>2. CASE counter # 0
        <4>1. PICK t \in Scenarios : pc[t] = "armed"
          BY <1>2, <1>3, <1>4, <1>6, <2>2, <3>2 DEF Incr
        <4> QED BY <2>2, <4>1 DEF Incr, GoTo
      <3> QED BY <3>1, <3>2
    <2>3. CASE Expire(s)
      BY <1>2, <1>4, <1>6, <2>3 DEF Expire, Lifetime, RedisFault
    <2>4. CASE RecordSuccess(s)
      <3>1. UNCHANGED breaker /\ pc[s] = "answered" /\ \A t \in Scenarios : t # s => pc'[t] = pc[t]
        BY <1>2, <2>4 DEF RecordSuccess, KeyGone, GoTo
      <3> QED BY <1>2, <1>3, <1>4, <1>6, <3>1 DEF breaker
    <2> QED BY <1>6, <2>1, <2>2, <2>3, <2>4 DEF ScenarioStep, Interacts
  <1>7. ASSUME NEW r \in Runs, WorkerDies(r) PROVE \E t \in Scenarios : pc'[t] = "armed"
    <2>1. /\ counter' = counter /\ ttl' = ttl /\ redisFaults' = redisFaults
          /\ expireLost = FALSE /\ ~\E s \in Unfinished(r) : pc[s] = "armed"
      BY <1>2, <1>7 DEF WorkerDies
    <2>2. PICK t \in Scenarios : pc[t] = "armed"
      BY <1>2, <2>1 DEF CounterHasLifetime
    <2> QED BY <1>7, <2>1, <2>2 DEF WorkerDies, Unfinished
  <1>8. CASE Tick
    BY <1>2, <1>8 DEF Tick, KeyGone
  <1>9. CASE UNCHANGED vars
    BY <1>2, <1>3, <1>9 DEF vars, breaker
  <1> QED
    BY <1>6, <1>7, <1>8, <1>9 DEF Next

LEMMA CStep == CInv /\ [Next]_vars => CInv'
  BY TypeStep, SlotsStep, CountedStep, BreakerStep, LifetimeStep DEF CInv

LEMMA CInvariant == Spec => []CInv
  BY CInit, CStep, PTL DEF Spec

-----------------------------------------------------------------------------
(* Theorems                                                                *)

\* check and record_failure of target_agent.py are separate calls to Redis, yet the
\* failures recorded and those still to be recorded stay below the threshold plus one
\* per slot of each run, plus one per call to Redis that raised.
THEOREM BreakerBounds == Spec => []BreakerBoundsFailures
  <1>1. CInv => BreakerBoundsFailures
    BY DEF CInv
  <1> QED
    BY <1>1, CInvariant, PTL

\* A 4xx answer, a success or an expiry never adds to the breaker: it counts no more
\* than the scenarios to which the target failed to answer.
THEOREM OnlyTargetCounts == Spec => []OnlyTargetTrips
  <1>1. CInv => OnlyTargetTrips
    <2> SUFFICES ASSUME CInv PROVE OnlyTargetTrips
      OBVIOUS
    <2>1. culprits \subseteq Scenarios /\ culprits \ Failed \subseteq culprits /\ counter \in Nat
      BY DEF CInv, TypeOK
    <2>2. /\ Cardinality(culprits \ Failed) <= Cardinality(culprits)
          /\ Cardinality(culprits) \in Nat /\ Cardinality(culprits \ Failed) \in Nat
      <3>1. culprits \ Failed \subseteq Scenarios
        BY <2>1
      <3> QED BY <2>1, <3>1, Smaller, Finite
    <2> QED
      BY <2>1, <2>2 DEF CInv, CountedOnce, OnlyTargetTrips
  <1> QED
    BY <1>1, CInvariant, PTL

\* No interleaving of the workers' INCRs, EXPIREs and DELs leaves a counter without a
\* lifetime and without someone about to set it; a failed call to Redis or a worker's
\* death between the two calls does.
THEOREM FailuresHaveLifetime == Spec => []CounterHasLifetime
  <1>1. CInv => CounterHasLifetime
    BY DEF CInv
  <1> QED
    BY <1>1, CInvariant, PTL

===============================================================================
