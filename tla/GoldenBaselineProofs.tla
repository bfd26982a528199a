------------------------- MODULE GoldenBaselineProofs -------------------------
(* The baseline of an agent is decent, is there once pinned, and is never the  *)
(* run it is compared with: for any number of runs and of requests.            *)
EXTENDS GoldenBaseline, WellFoundedInduction, FiniteSetTheorems, TLAPS

PastAnalysis == {"saved", "gone"}

\* A score is written by the worker of the run, once, when the analysis is behind it.
ScoredIsSaved == \A r \in Runs : score[r] # "null" => work[r] \in PastAnalysis

\* The score a request has checked.
RequestsChecked == \A q \in Requests : req[q].step # "idle" => DecentScore(req[q].run)

BInv == TypeOK /\ ScoredIsSaved /\ RequestsChecked /\ BaselineIsDecent /\ NotItsOwnBaseline

-----------------------------------------------------------------------------
(* The first and the last of some runs                                     *)

LEMMA FirstRun ==
  ASSUME NEW S, S \subseteq Runs, S # {} PROVE Min(S) \in S
  <1>1. S \subseteq Nat
    BY NumRunsAssumption DEF Runs
  <1>2. PICK x \in S : \A y \in S : ~ (<<y, x>> \in OpToRel(<, Nat))
    BY <1>1, NatLessThanWellFounded, WFMin, Zenon
  <1>3. \A y \in S : x =< y
    <2> SUFFICES ASSUME NEW y \in S PROVE x =< y
      OBVIOUS
    <2>1. x \in Nat /\ y \in Nat
      BY <1>1
    <2>2. ~ (y < x)
      BY <1>2, <2>1 DEF OpToRel
    <2> QED
      BY <2>1, <2>2
  <1> QED
    BY <1>3 DEF Min

LEMMA LastRun ==
  ASSUME NEW S, S \subseteq Runs, S # {} PROVE Max(S) \in S
  <1> DEFINE T == {NumRuns - x : x \in S}
  <1>1. T \subseteq Nat /\ T # {}
    BY NumRunsAssumption DEF Runs
  <1>2. PICK t \in T : \A u \in T : ~ (<<u, t>> \in OpToRel(<, Nat))
    <2> HIDE DEF T
    <2> QED BY <1>1, NatLessThanWellFounded, WFMin, Zenon
  <1>3. PICK x \in S : t = NumRuns - x
    OBVIOUS
  <1>4. \A y \in S : x >= y
    <2> SUFFICES ASSUME NEW y \in S PROVE x >= y
      OBVIOUS
    <2>1. x \in Nat /\ y \in Nat /\ NumRuns \in Nat
      BY NumRunsAssumption DEF Runs
    <2>2. NumRuns - y \in T /\ NumRuns - y \in Nat /\ t \in Nat
      BY <1>1
    <2>3. ~ (NumRuns - y < t)
      BY <1>2, <2>2 DEF OpToRel
    <2> QED
      BY <1>3, <2>1, <2>3
  <1> QED
    BY <1>4 DEF Max

-----------------------------------------------------------------------------
(* The invariant                                                           *)

LEMMA InitBInv == Init => BInv
  BY NumRunsAssumption
  DEF Init, BInv, TypeOK, ScoredIsSaved, RequestsChecked, BaselineIsDecent, NotItsOwnBaseline,
      Statuses, Scores, Progress, NoReq, ReqType, Runs, Pinned

\* A decent score stays: its worker has saved, and nobody else writes one.
LEMMA DecentStays ==
  ASSUME BInv, [Next]_vars, NEW r \in Runs, DecentScore(r)
  PROVE  score'[r] \in {"decent", "good"}
  <1>1. score[r] # "null" /\ work[r] \in PastAnalysis
    BY DEF DecentScore, BInv, ScoredIsSaved
  <1>2. ASSUME NEW s \in Runs, SaveScores(s) PROVE score'[r] = score[r]
    BY <1>1, <1>2 DEF SaveScores, BInv, TypeOK, PastAnalysis
  <1>3. score'[r] = score[r]
    BY <1>2 DEF Next, vars, rowVars, SettledByOthers, DeleteRun, ResolvePinned, ResolveFallback,
                WorkerEnds, Request, ReadRun, FindBaselines, LockRow, SetBaseline, DeadlockAborts
  <1> QED
    BY <1>3 DEF DecentScore

\* What a worker that resolves its baseline chooses.
LEMMA ChoiceDecent ==
  ASSUME BInv, NEW r \in Runs, ResolvePinned(r) \/ ResolveFallback(r)
  PROVE  \/ chosen' = chosen
         \/ chosen' = [chosen EXCEPT ![r] = 0]
         \/ \E b \in Runs \ {r} : DecentScore(b) /\ chosen' = [chosen EXCEPT ![r] = b]
  <1>1. CASE ResolvePinned(r) /\ Pinned # {}
    <2>1. Max(Pinned) \in Pinned
      BY <1>1, LastRun DEF Pinned
    <2>2. Max(Pinned) \in Runs /\ DecentScore(Max(Pinned))
      BY <2>1 DEF Pinned, BInv, BaselineIsDecent, DecentScore
    <2>3. Max(Pinned) # r
      BY <1>1, <2>2 DEF ResolvePinned, BInv, ScoredIsSaved, DecentScore, PastAnalysis
    <2> QED
      BY <1>1, <2>2, <2>3 DEF ResolvePinned
  <1>2. CASE ResolvePinned(r) /\ Pinned = {}
    BY <1>2 DEF ResolvePinned
  <1>3. CASE ResolveFallback(r) /\ Fallback(r) # {}
    <2>1. Min(Fallback(r)) \in Fallback(r)
      BY <1>3, FirstRun DEF Fallback
    <2> QED
      BY <1>3, <2>1 DEF ResolveFallback, Fallback, DecentScore
  <1>4. CASE ResolveFallback(r) /\ Fallback(r) = {}
    BY <1>4 DEF ResolveFallback
  <1> QED
    BY <1>1, <1>2, <1>3, <1>4

\* The scan of an UPDATE lists rows.
LEMMA ScanOfRuns ==
  ASSUME NEW S, S \subseteq Runs, NEW scan \in SetToSeqs(S) PROVE scan \in Seq(Runs)
  <1>1. IsFiniteSet(S)
    <2>1. NumRuns \in Int /\ 1 \in Int
      BY NumRunsAssumption
    <2>2. IsFiniteSet(Runs)
      BY <2>1, FS_Interval, Zenon DEF Runs
    <2> QED
      BY <2>2, FS_Subset, Zenon
  <1>2. Cardinality(S) \in Nat
    BY <1>1, FS_CardinalityType
  <1>3. scan \in [1 .. Cardinality(S) -> S]
    BY DEF SetToSeqs
  <1> QED
    BY <1>2, <1>3

LEMMA TypeStep == BInv /\ [Next]_vars => TypeOK'
  <1> SUFFICES ASSUME BInv, [Next]_vars PROVE TypeOK'
    OBVIOUS
  <1> USE DEF BInv, TypeOK
  <1>1. ASSUME NEW r \in Runs, SettledByOthers(r) \/ DeleteRun(r) PROVE TypeOK'
    BY <1>1 DEF SettledByOthers, DeleteRun, workVars, Statuses
  <1>2. ASSUME NEW r \in Runs, ResolvePinned(r) \/ ResolveFallback(r) PROVE TypeOK'
    <2>1. Runs \subseteq 0 .. NumRuns /\ 0 \in 0 .. NumRuns
      BY NumRunsAssumption DEF Runs
    <2>2. chosen' \in [Runs -> 0 .. NumRuns]
      <3> HIDE DEF BInv
      <3>1. \/ chosen' = chosen
            \/ chosen' = [chosen EXCEPT ![r] = 0]
            \/ \E b \in Runs \ {r} : DecentScore(b) /\ chosen' = [chosen EXCEPT ![r] = b]
        BY <1>2, ChoiceDecent
      <3> QED
        BY <2>1, <3>1 DEF BInv
    <2> QED
      BY <1>2, <2>2 DEF ResolvePinned, ResolveFallback, rowVars, Progress
  <1>3. ASSUME NEW r \in Runs, SaveScores(r) \/ WorkerEnds(r) PROVE TypeOK'
    BY <1>3 DEF SaveScores, WorkerEnds, Progress, Statuses
  <1>4. ASSUME NEW q \in Requests, Request(q) PROVE TypeOK'
    <2>0. NoReq \in ReqType
      BY NumRunsAssumption DEF NoReq, ReqType, Runs
    <2>1. CASE ReadRun(q)
      <3>1. PICK r \in Runs : req' = [req EXCEPT ![q] = [NoReq EXCEPT !.step = "read", !.run = r]]
        BY <2>1 DEF ReadRun
      <3>2. [NoReq EXCEPT !.step = "read", !.run = r] \in ReqType
        BY <2>0 DEF ReqType
      <3> QED
        BY <2>1, <3>1, <3>2 DEF ReadRun, workVars
    <2>2. CASE FindBaselines(q)
      <3>1. PICK scan \in SetToSeqs(Pinned) : req' = [req EXCEPT ![q].step = "update", ![q].todo = scan]
        BY <2>2 DEF FindBaselines, Pinned
      <3>2. scan \in Seq(Runs)
        BY <3>1, ScanOfRuns DEF Pinned
      <3>3. [req[q] EXCEPT !.step = "update", !.todo = scan] \in ReqType
        <4> HIDE DEF BInv
        <4>1. req[q] \in ReqType
          BY DEF BInv
        <4> QED BY <3>2, <4>1 DEF ReqType
      <3>4. req' = [req EXCEPT ![q] = [req[q] EXCEPT !.step = "update", !.todo = scan]]
        BY <3>1, Zenon
      <3> QED
        BY <2>2, <3>3, <3>4 DEF FindBaselines, workVars
    <2>3. CASE LockRow(q)
      <3>1. req[q].todo \in Seq(Runs) /\ req[q].todo # <<>>
        BY <2>3 DEF LockRow, ReqType
      <3>2. Wanted(q) \in Runs /\ Tail(req[q].todo) \in Seq(Runs)
        BY <3>1 DEF Wanted
      <3> DEFINE more == IF status[Wanted(q)] = "deleted" THEN req[q].held ELSE req[q].held \union {Wanted(q)}
      <3>3. more \subseteq Runs
        BY <3>2 DEF ReqType
      <3>4. req' = [req EXCEPT ![q] = [req[q] EXCEPT !.todo = Tail(req[q].todo), !.held = more]]
        BY <2>3, Zenon DEF LockRow
      <3>5. [req[q] EXCEPT !.todo = Tail(req[q].todo), !.held = more] \in ReqType
        <4> HIDE DEF more
        <4> QED BY <3>2, <3>3 DEF ReqType
      <3>6. req' \in [Requests -> ReqType]
        <4> HIDE DEF more
        <4> QED BY <3>4, <3>5
      <3> QED
        BY <2>3, <3>6 DEF LockRow, BeforeCommit, workVars
    <2>4. CASE SetBaseline(q)
      <3>1. flag' \in [Runs -> BOOLEAN]
        BY <2>4, Zenon DEF SetBaseline, Committed
      <3> QED
        BY <2>4, <2>0, <3>1 DEF SetBaseline, workVars
    <2>5. CASE DeadlockAborts(q)
      BY <2>5, <2>0 DEF DeadlockAborts, RolledBack, rowVars, workVars
    <2> QED
      BY <1>4, <2>1, <2>2, <2>3, <2>4, <2>5 DEF Request
  <1>5. CASE UNCHANGED vars
    BY <1>5 DEF vars, rowVars, workVars
  <1> QED
    BY <1>1, <1>2, <1>3, <1>4, <1>5 DEF Next

LEMMA SavedStep == BInv /\ [Next]_vars => ScoredIsSaved'
  <1> SUFFICES ASSUME BInv, [Next]_vars PROVE ScoredIsSaved'
    OBVIOUS
  <1> USE DEF BInv, TypeOK, ScoredIsSaved, PastAnalysis
  <1>1. ASSUME NEW r \in Runs, SaveScores(r) PROVE ScoredIsSaved'
    BY <1>1 DEF SaveScores
  <1>2. ASSUME NEW r \in Runs, WorkerEnds(r) PROVE ScoredIsSaved'
    BY <1>2 DEF WorkerEnds
  <1>3. ASSUME NEW r \in Runs, ResolvePinned(r) \/ ResolveFallback(r) PROVE ScoredIsSaved'
    BY <1>3 DEF ResolvePinned, ResolveFallback, rowVars
  <1>4. CASE UNCHANGED <<score, workVars>>
    BY <1>4 DEF workVars
  <1> QED
    BY <1>1, <1>2, <1>3, <1>4
    DEF Next, vars, rowVars, SettledByOthers, DeleteRun, Request, ReadRun, FindBaselines, LockRow, SetBaseline, DeadlockAborts

\* The run of a request is the one it read.
LEMMA RequestStep ==
  ASSUME BInv, [Next]_vars, NEW q \in Requests, req'[q].step # "idle"
  PROVE  req'[q].run \in Runs /\ DecentScore(req'[q].run)
  <1> USE DEF BInv, TypeOK, ReqType, RequestsChecked
  <1>1. CASE ReadRun(q)
    BY <1>1 DEF ReadRun, Pinnable
  <1>2. ASSUME NEW p \in Requests, p # q, Request(p)
        PROVE  req'[q] = req[q]
    BY <1>2 DEF Request, ReadRun, FindBaselines, LockRow, SetBaseline, DeadlockAborts, RolledBack
  <1>3. CASE FindBaselines(q) \/ LockRow(q)
    BY <1>3 DEF FindBaselines, LockRow
  <1>4. CASE SetBaseline(q) \/ DeadlockAborts(q)
    BY <1>4 DEF SetBaseline, DeadlockAborts, RolledBack, NoReq
  <1>5. CASE UNCHANGED req
    BY <1>5
  <1>6. CASE \E p \in Requests \ {q} : Request(p)
    BY <1>2, <1>6
  <1> QED
    BY <1>1, <1>3, <1>4, <1>5, <1>6
    DEF Next, vars, SettledByOthers, DeleteRun, ResolvePinned, ResolveFallback, SaveScores, WorkerEnds, Request

LEMMA CheckedStep == BInv /\ [Next]_vars => RequestsChecked'
  <1> SUFFICES ASSUME BInv, [Next]_vars, NEW q \in Requests, req'[q].step # "idle"
               PROVE  score'[req'[q].run] \in {"decent", "good"}
    BY DEF RequestsChecked, DecentScore
  <1> QED
    BY RequestStep, DecentStays

\* What a step pins is pinned already, or is the run of a request.
LEMMA PinStep ==
  ASSUME BInv, [Next]_vars, NEW r \in Runs, flag'[r]
  PROVE  flag[r] \/ \E q \in Requests : req[q].step # "idle" /\ req[q].run = r
  <1> USE DEF BInv, TypeOK
  <1>1. ASSUME NEW q \in Requests, SetBaseline(q)
        PROVE  flag[r] \/ (req[q].step # "idle" /\ req[q].run = r)
    BY <1>1 DEF SetBaseline, Committed
  <1>2. ASSUME NEW s \in Runs, DeleteRun(s) PROVE flag[r]
    BY <1>2 DEF DeleteRun
  <1>3. CASE UNCHANGED flag
    BY <1>3
  <1> QED
    BY <1>1, <1>2, <1>3
    DEF Next, vars, rowVars, SettledByOthers, ResolvePinned, ResolveFallback, SaveScores, WorkerEnds,
        Request, ReadRun, FindBaselines, LockRow, DeadlockAborts, SetBaseline, BeforeCommit

\* What a step chooses.
LEMMA ChoiceStep ==
  ASSUME BInv, [Next]_vars, NEW r \in Runs, chosen'[r] # 0
  PROVE  /\ chosen'[r] = chosen[r] \/ chosen'[r] # r
         /\ chosen'[r] \in Runs /\ DecentScore(chosen'[r])
  <1>1. chosen[r] # 0 => chosen[r] \in Runs /\ DecentScore(chosen[r])
    BY DEF BInv, TypeOK, BaselineIsDecent, DecentScore, Runs
  <1>2. ASSUME NEW s \in Runs, ResolvePinned(s) \/ ResolveFallback(s)
        PROVE  \/ chosen'[r] = chosen[r]
               \/ chosen'[r] # r /\ chosen'[r] \in Runs /\ DecentScore(chosen'[r])
    BY <1>2, ChoiceDecent DEF BInv, TypeOK
  <1>3. CASE UNCHANGED chosen
    BY <1>1, <1>3
  <1> QED
    BY <1>1, <1>2, <1>3
    DEF Next, vars, workVars, SettledByOthers, DeleteRun, SaveScores, WorkerEnds,
        Request, ReadRun, FindBaselines, LockRow, SetBaseline, DeadlockAborts

LEMMA BaselineStep == BInv /\ [Next]_vars => BaselineIsDecent' /\ NotItsOwnBaseline'
  <1> SUFFICES ASSUME BInv, [Next]_vars PROVE BaselineIsDecent' /\ NotItsOwnBaseline'
    OBVIOUS
  <1>1. ASSUME NEW r \in Runs, flag'[r] PROVE score'[r] \in {"decent", "good"}
    BY <1>1, PinStep, DecentStays DEF BInv, RequestsChecked, BaselineIsDecent, Pinned, DecentScore
  <1>2. ASSUME NEW r \in Runs, chosen'[r] # 0 PROVE score'[chosen'[r]] \in {"decent", "good"}
    BY <1>2, ChoiceStep, DecentStays
  <1>3. BaselineIsDecent'
    BY <1>1, <1>2 DEF BaselineIsDecent, Pinned
  <1>4. ASSUME NEW r \in Runs PROVE chosen'[r] # r
    <2>1. CASE chosen'[r] = 0
      BY <2>1, NumRunsAssumption DEF Runs
    <2>2. CASE chosen'[r] # 0
      BY <2>2, ChoiceStep DEF BInv, NotItsOwnBaseline
    <2> QED
      BY <2>1, <2>2
  <1> QED
    BY <1>3, <1>4 DEF NotItsOwnBaseline

LEMMA Invariance == Spec => []BInv
  <1>1. BInv /\ [Next]_vars => BInv'
    BY TypeStep, SavedStep, CheckedStep, BaselineStep DEF BInv
  <1> QED
    BY InitBInv, <1>1, PTL DEF Spec

-----------------------------------------------------------------------------
(* Theorems                                                                *)

\* What later runs are compared with has a decent score (set_golden_baseline and
\* _resolve_baseline), for any number of runs and of concurrent requests.
THEOREM BaselinesDecent == Spec => []BaselineIsDecent
  <1>1. BInv => BaselineIsDecent
    BY DEF BInv
  <1> QED
    BY Invariance, <1>1, PTL

\* No run is its own baseline (_resolve_baseline).
THEOREM NeverItsOwnBaseline == Spec => []NotItsOwnBaseline
  <1>1. BInv => NotItsOwnBaseline
    BY DEF BInv
  <1> QED
    BY Invariance, <1>1, PTL

\* Only deleting the pinned run leaves an agent without a baseline
\* (set_golden_baseline, delete_evaluation_run).
THEOREM BaselineReplaced == Spec => NeverWithoutBaseline
  <1>1. BInv /\ [Next]_vars => [Pinned # {} /\ Pinned' = {} => \E r \in Pinned : status'[r] = "deleted"]_vars
    <2> SUFFICES ASSUME BInv, Next, Pinned # {}, Pinned' = {}
                 PROVE  \E r \in Pinned : status'[r] = "deleted"
      OBVIOUS
    <2> USE DEF BInv, TypeOK, Pinned
    <2>1. ASSUME NEW r \in Runs, DeleteRun(r) PROVE r \in Pinned /\ status'[r] = "deleted"
      BY <2>1 DEF DeleteRun
    <2>2. ASSUME NEW q \in Requests, SetBaseline(q) PROVE FALSE
      <3>1. req[q].run \in Runs
        BY DEF ReqType
      <3> QED
        BY <2>2, <3>1 DEF SetBaseline, Committed
    <2>3. CASE UNCHANGED flag
      BY <2>3
    <2> QED
      BY <2>1, <2>2, <2>3
      DEF Next, rowVars, SettledByOthers, ResolvePinned, ResolveFallback, SaveScores, WorkerEnds,
          Request, ReadRun, FindBaselines, LockRow, DeadlockAborts, SetBaseline, BeforeCommit
  <1> QED
    BY Invariance, <1>1, PTL DEF Spec, NeverWithoutBaseline

===============================================================================
