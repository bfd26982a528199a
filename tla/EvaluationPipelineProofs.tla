------------------------ MODULE EvaluationPipelineProofs ------------------------
(***************************************************************************)
(* What a run saves, for any number of scenarios, prices, budget and       *)
(* verdicts: the lists the graph computed, totals that count the rows, a   *)
(* judgment of every scenario, snapshots that agree with both, and no node *)
(* that runs once the budget is spent.                                     *)
(***************************************************************************)
EXTENDS EvaluationPipeline, FiniteSetTheorems, SequenceTheorems, WellFoundedInduction, TLAPS

-----------------------------------------------------------------------------
(* Sequences and counts                                                    *)

\* A comprehension that keeps everything.
LEMMA PickAll ==
  ASSUME NEW S, NEW s \in Seq(S) PROVE Pick(s, DOMAIN s) = s
  <1> DEFINE n == Len(s)
  <1>1. n \in Nat /\ DOMAIN s = 1 .. n
    OBVIOUS
  <1>2. \A i \in 0 .. n : Cardinality(1 .. i) = i
    <2> SUFFICES ASSUME NEW i \in 0 .. n PROVE Cardinality(1 .. i) = i
      OBVIOUS
    <2>1. Cardinality(1 .. i) = IF 1 > i THEN 0 ELSE i - 1 + 1
      BY FS_Interval
    <2> QED BY <2>1
  <1>3. ASSUME NEW k \in 1 .. n PROVE Nth(1 .. n, k) = k
    <2>1. ASSUME NEW i \in 1 .. n PROVE Cardinality({j \in 1 .. n : j <= i}) = i
      <3>1. {j \in 1 .. n : j <= i} = 1 .. i /\ i \in 0 .. n
        BY <1>1
      <3> HIDE DEF n
      <3> QED BY <1>2, <3>1
    <2>2. Cardinality({j \in 1 .. n : j <= k}) = k
      BY <2>1
    <2> QED BY <2>1, <2>2 DEF Nth
  <1> HIDE DEF n
  <1>4. Pick(s, 1 .. n) = [k \in 1 .. n |-> s[k]]
    BY <1>1, <1>2, <1>3 DEF Pick
  <1>5. s = [k \in 1 .. n |-> s[k]]
    BY <1>1
  <1> QED BY <1>1, <1>4, <1>5

LEMMA PassesCount ==
  ASSUME NEW js \in Seq(Judgments)
  PROVE  Passes(js) \in Nat /\ Passes(js) <= Len(js) /\ Len(js) \in Nat
  <1> DEFINE good == {i \in DOMAIN js : js[i].verdict # "failed"}
  <1>1. Len(js) \in Nat /\ good \subseteq 1 .. Len(js)
    OBVIOUS
  <1>2. IsFiniteSet(1 .. Len(js)) /\ Cardinality(1 .. Len(js)) = Len(js)
    <2>1. Cardinality(1 .. Len(js)) = IF 1 > Len(js) THEN 0 ELSE Len(js) - 1 + 1
      BY <1>1, FS_Interval
    <2>2. IsFiniteSet(1 .. Len(js))
      BY <1>1, FS_Interval
    <2> QED BY <1>1, <2>1, <2>2
  <1>3. IsFiniteSet(good) /\ Cardinality(good) <= Cardinality(1 .. Len(js)) /\ Cardinality(good) \in Nat
    BY <1>1, <1>2, FS_Subset, FS_CardinalityType
  <1> QED BY <1>1, <1>2, <1>3 DEF Passes

LEMMA NoPasses == Passes(<<>>) = 0
  <1>1. {i \in DOMAIN <<>> : <<>>[i].verdict # "failed"} = {}
    OBVIOUS
  <1> QED BY <1>1, FS_EmptySet DEF Passes

\* A set of positions has a last one.
LEMMA LastPosition ==
  ASSUME NEW n \in Nat, NEW P, P \subseteq 1 .. n, P # {} PROVE \E x \in P : \A y \in P : y <= x
  <1> DEFINE T == {n - x : x \in P}
  <1>1. T \subseteq Nat /\ T # {}
    <2>1. ASSUME NEW x \in P PROVE n - x \in Nat
      OBVIOUS
    <2>2. PICK x \in P : TRUE
      OBVIOUS
    <2>3. n - x \in T
      OBVIOUS
    <2> QED BY <2>1, <2>3
  <1>2. PICK t \in T : \A u \in T : ~ (<<u, t>> \in OpToRel(<, Nat))
    <2> HIDE DEF T
    <2> QED BY <1>1, NatLessThanWellFounded, WFMin, Zenon
  <1>3. PICK x \in P : t = n - x
    OBVIOUS
  <1>4. ASSUME NEW y \in P PROVE y <= x
    <2>1. n - y \in T /\ n - y \in Nat /\ t \in Nat
      BY <1>1
    <2>2. ~ (n - y < t)
      BY <1>2, <2>1 DEF OpToRel
    <2> QED BY <1>3, <2>1, <2>2
  <1> QED BY <1>4

-----------------------------------------------------------------------------
(* The invariant                                                           *)

\* What a node computed of the lists: traces of all scenarios or none, judgments of all
\* traces or none, in the same order. A key is that of one scenario, or NoKey.
Consistent(st) ==
  /\ DOMAIN st = DOMAIN EmptyState
  /\ st.cost \in Nat /\ st.turns \in Nat
  /\ st.scenarios \in Seq(Ids)
  /\ st.traces \in Seq(Traces) /\ Len(st.traces) \in {0, Len(st.scenarios)}
  /\ st.judgments \in Seq(Judgments) /\ Len(st.judgments) \in {0, Len(st.traces)}
  /\ \A i \in DOMAIN st.traces : st.traces[i].key \in {st.traces[i].scenario, NoKey}
  /\ \A i \in DOMAIN st.judgments :
        st.judgments[i].key = st.traces[i].key /\ st.judgments[i].scenario = st.traces[i].scenario

Control ==
  /\ node \in Nodes \cup {"end"}
  /\ update # NoUpdate =>
        /\ outcome = "none" /\ node # "end"
        /\ DOMAIN update \subseteq DOMAIN EmptyState
        /\ \A f \in Sums \cap DOMAIN update : update[f] \in Nat
  /\ noticed => node = "end"

\* A list is empty until its node runs, and the worker's until it has handled what the
\* node returned.
Unfilled ==
  /\ node = "generate" => final.scenarios = <<>>
  /\ node \in {"generate", "simulate"} => final.traces = <<>>
  /\ node \in {"generate", "simulate", "judge"} => final.judgments = <<>>
  /\ node # "end" => final.suggestions = <<>>
  /\ node = "generate" => state.traces = <<>>
  /\ node \in {"generate", "simulate"} => state.judgments = <<>>
  /\ node \in {"generate", "simulate", "judge", "analyze"} => state.suggestions = <<>>

\* The worker's lists are the graph's once it has handled the update.
Merged ==
  /\ ~noticed /\ update = NoUpdate => \A f \in Lists : final[f] = state[f]
  /\ update # NoUpdate => \A f \in Lists : Overwrite(final, update)[f] = state[f]
  /\ \A f \in Lists : final[f] \in {state[f], <<>>}

\* The budget was kept when the node that runs now was entered.
Afforded ==
  /\ counted = state.cost
  /\ node # "end" /\ update = NoUpdate => state.cost <= Budget

AllJudged == Len(state.judgments) = Len(state.traces)
Judged ==
  /\ node \in {"analyze", "evolution"} => AllJudged
  /\ node = "judge" /\ update # NoUpdate => AllJudged
  /\ node = "end" /\ ~noticed /\ state.cost <= Budget /\ state.traces # <<>> => AllJudged

\* The snapshots count judgments that are still there.
Counting ==
  /\ published \in Seq([turns : Nat, cost : Nat, passed : Nat, failed : Nat])
  /\ \A i \in DOMAIN published :
        /\ published[i].passed <= Passes(final.judgments)
        /\ published[i].failed <= Len(final.judgments) - Passes(final.judgments)
        /\ \A k \in i .. Len(published) :
              published[i].passed <= published[k].passed /\ published[i].failed <= published[k].failed

\* What was saved is what the worker has.
Saved ==
  /\ outcome = "none" => rows = NoRows
  /\ rows # NoRows =>
        /\ outcome # "none" /\ UniqueTraces
        /\ rows = [scenarios |-> Len(final.scenarios), traces |-> final.traces,
                   judgments |-> JudgmentRows, passed |-> Passes(final.judgments),
                   failed |-> Len(final.judgments) - Passes(final.judgments),
                   total |-> Len(final.judgments), suggestions |-> final.suggestions]
  /\ outcome = "completed" =>
        /\ node = "end" /\ ~noticed /\ rows # NoRows /\ published # <<>>
        /\ published[Len(published)].passed = Passes(final.judgments)
        /\ published[Len(published)].failed = Len(final.judgments) - Passes(final.judgments)

PInv ==
  /\ Consistent(state) /\ Consistent(final)
  /\ Control /\ Unfilled /\ Merged /\ Afforded /\ Judged /\ Counting /\ Saved

\* What a lost upload does not take from a judgment: a trace with its key.
LEMMA AllFound == ASSUME Consistent(final) PROVE Found = final.judgments
  <1> DEFINE keys == {final.traces[k].key : k \in DOMAIN final.traces}
  <1>1. /\ final.judgments \in Seq(Judgments) /\ final.traces \in Seq(Traces)
        /\ Len(final.judgments) \in {0, Len(final.traces)}
    BY DEF Consistent
  <1>2. ASSUME NEW i \in DOMAIN final.judgments PROVE final.judgments[i].key \in keys
    <2>1. i \in DOMAIN final.traces
      BY <1>1
    <2>2. final.judgments[i].key = final.traces[i].key
      BY DEF Consistent
    <2> QED BY <2>1, <2>2
  <1> HIDE DEF keys
  <1>3. {i \in DOMAIN final.judgments : final.judgments[i].key \in keys} = DOMAIN final.judgments
    BY <1>2
  <1> QED BY <1>1, <1>3, PickAll DEF Found, keys

LEMMA InitPInv == Init => PInv
  <1> SUFFICES ASSUME Init PROVE PInv
    OBVIOUS
  <1> USE DEF Init, EmptyState
  <1>1. Consistent(state) /\ Consistent(final)
    BY DEF Consistent
  <1>2. Control /\ Unfilled /\ Merged /\ Judged
    BY DEF Control, Unfilled, Merged, Judged, Nodes, Lists
  <1>3. Afforded
    BY BudgetAssumption DEF Afforded
  <1>4. Counting
    BY DEF Counting
  <1>5. Saved
    BY DEF Saved
  <1> QED BY <1>1, <1>2, <1>3, <1>4, <1>5 DEF PInv

-----------------------------------------------------------------------------
(* The nodes                                                               *)

\* What a node may return: numbers for the sums, and lists that nobody has filled.
Returns(u) ==
  /\ DOMAIN u \subseteq DOMAIN EmptyState
  /\ \A f \in Sums \cap DOMAIN u : u[f] \in Nat
  /\ \A f \in Lists \cap DOMAIN u : state[f] = <<>> /\ \E S : u[f] \in Seq(S)

\* operator.add on a list that is empty is replacement.
LEMMA Returned ==
  ASSUME PInv, NEW n \in Nodes, NEW u, Returns(u), Ends(n, u)
  PROVE  /\ node = n /\ update = NoUpdate /\ outcome = "none" /\ ~ noticed /\ n # "end"
         /\ update' = u /\ u # NoUpdate
         /\ UNCHANGED <<node, final, published, cancelled, noticed, rows, outcome>>
         /\ DOMAIN state' = DOMAIN EmptyState
         /\ state'.cost \in Nat /\ state'.turns \in Nat /\ counted' = state'.cost
         /\ \A f \in Lists : state'[f] = IF f \in DOMAIN u THEN u[f] ELSE state[f]
  <1>1. /\ node = n /\ update = NoUpdate /\ outcome = "none" /\ update' = u /\ state' = Reduce(state, u)
        /\ counted' = counted + (IF "cost" \in DOMAIN u THEN u.cost ELSE 0)
        /\ UNCHANGED <<node, final, published, cancelled, noticed, rows, outcome>>
    BY DEF Ends
  <1>2. n # "end" /\ ~ noticed
    BY <1>1 DEF Nodes, PInv, Control
  <1>3. u # NoUpdate
    <2>1. "none" \in DOMAIN NoUpdate /\ "none" \notin DOMAIN EmptyState
      BY DEF NoUpdate, EmptyState
    <2> QED BY <2>1 DEF Returns
  <1>4. DOMAIN state = {"cost", "turns", "scenarios", "traces", "judgments", "suggestions", "drift"}
    BY DEF PInv, Consistent, EmptyState
  <1>5. DOMAIN state' = DOMAIN state
    BY <1>1 DEF Reduce
  <1>6. ASSUME NEW f \in Sums
        PROVE  state'[f] = (IF f \in DOMAIN u THEN state[f] + u[f] ELSE state[f]) /\ state'[f] \in Nat
    <2>1. state[f] \in Nat /\ f \in DOMAIN state
      BY <1>4 DEF PInv, Consistent, Sums
    <2>2. state'[f] = IF f \in DOMAIN u THEN state[f] + u[f] ELSE state[f]
      BY <1>1, <2>1 DEF Reduce
    <2> QED BY <2>1, <2>2 DEF Returns
  <1>7. ASSUME NEW f \in Lists PROVE state'[f] = IF f \in DOMAIN u THEN u[f] ELSE state[f]
    <2>1. f \in DOMAIN state /\ f \notin Sums
      BY <1>4 DEF Lists, Sums
    <2>2. state'[f] = IF f \in DOMAIN u THEN state[f] \o u[f] ELSE state[f]
      BY <1>1, <2>1 DEF Reduce
    <2>3. f \in DOMAIN u => <<>> \o u[f] = u[f]
      BY ConcatEmptySeq DEF Returns
    <2> QED BY <2>2, <2>3 DEF Returns
  <1>8. counted' = state'.cost
    BY <1>1, <1>6 DEF PInv, Afforded, Sums
  <1> QED BY <1>1, <1>2, <1>3, <1>4, <1>5, <1>6, <1>7, <1>8 DEF Sums, PInv, Consistent

LEMMA ReturnStep ==
  ASSUME PInv, NEW n \in Nodes, NEW u, Returns(u), Ends(n, u), Consistent(state)',
         n \in {"judge", "analyze", "evolution"} => AllJudged',
         n = "generate" => {"traces", "judgments", "suggestions"} \cap DOMAIN u = {},
         n = "simulate" => {"judgments", "suggestions"} \cap DOMAIN u = {},
         n \in {"judge", "analyze"} => "suggestions" \notin DOMAIN u
  PROVE  PInv'
  <1>1. /\ node = n /\ update = NoUpdate /\ outcome = "none" /\ ~ noticed /\ n # "end"
        /\ update' = u /\ u # NoUpdate
        /\ UNCHANGED <<node, final, published, cancelled, noticed, rows, outcome>>
        /\ counted' = state'.cost
        /\ \A f \in Lists : state'[f] = IF f \in DOMAIN u THEN u[f] ELSE state[f]
    BY Returned
  <1>2. Consistent(final)'
    BY <1>1 DEF PInv, Consistent
  <1>3. Control'
    BY <1>1 DEF PInv, Control, Returns
  <1>4. Unfilled'
    BY <1>1 DEF PInv, Unfilled, Lists
  <1>5. Merged'
    <2>1. \A f \in Lists : f \in DOMAIN final
      BY DEF PInv, Consistent, Lists, EmptyState
    <2>2. ASSUME NEW f \in Lists
          PROVE Overwrite(final, u)[f] = state'[f] /\ final[f] \in {state'[f], <<>>}
      <3>1. final[f] = state[f]
        BY <1>1 DEF PInv, Merged
      <3> QED BY <1>1, <2>1, <3>1 DEF Overwrite, Returns
    <2> QED BY <1>1, <2>2 DEF Merged
  <1>6. Afforded' /\ Judged'
    BY <1>1 DEF Afforded, Judged
  <1>7. Counting'
    BY <1>1 DEF PInv, Counting
  <1>8. Saved'
    BY <1>1 DEF PInv, Saved
  <1> QED BY <1>2, <1>3, <1>4, <1>5, <1>6, <1>7, <1>8 DEF PInv

LEMMA GenerateStep == ASSUME PInv, Generate PROVE PInv'
  <1>1. PICK u : Ends("generate", u) /\
          \/ u = NothingNew
          \/ \E bill \in Bills, k \in 0 .. MaxScenarios :
                u = [scenarios |-> [i \in 1 .. k |-> i], cost |-> bill, turns |-> 1]
    BY DEF Generate
  <1>2. node = "generate" /\ ~ noticed /\ update = NoUpdate
    BY <1>1 DEF Ends, PInv, Control
  <1>3. state.scenarios = <<>> /\ state.traces = <<>> /\ state.judgments = <<>>
    BY <1>2 DEF PInv, Unfilled, Merged, Lists
  <1>4. CASE u = NothingNew
    <2>1. DOMAIN u = {}
      BY <1>4 DEF NothingNew
    <2>2. Returns(u)
      BY <2>1 DEF Returns
    <2>3. /\ DOMAIN state' = DOMAIN EmptyState /\ state'.cost \in Nat /\ state'.turns \in Nat
          /\ \A f \in Lists : state'[f] = state[f]
      BY <1>1, <2>1, <2>2, Returned DEF Nodes
    <2>4. Consistent(state)'
      BY <2>3 DEF PInv, Consistent, Lists
    <2> QED BY <1>1, <2>1, <2>2, <2>4, ReturnStep DEF Nodes
  <1>5. ASSUME NEW bill \in Bills, NEW k \in 0 .. MaxScenarios,
               u = [scenarios |-> [i \in 1 .. k |-> i], cost |-> bill, turns |-> 1]
        PROVE  PInv'
    <2>1. DOMAIN u = {"scenarios", "cost", "turns"} /\ u.scenarios \in Seq(Ids)
      <3>1. k \in Nat /\ \A i \in 1 .. k : i \in Ids
        BY MaxScenariosAssumption DEF Ids
      <3>2. [i \in 1 .. k |-> i] \in Seq(Ids)
        BY <3>1
      <3> QED BY <1>5, <3>2
    <2>2. Returns(u)
      <3>1. u.cost \in Nat /\ u.turns \in Nat
        BY <1>5, PricesAssumption DEF Bills
      <3> QED BY <1>3, <2>1, <3>1 DEF Returns, EmptyState, Sums, Lists
    <2>3. /\ DOMAIN state' = DOMAIN EmptyState /\ state'.cost \in Nat /\ state'.turns \in Nat
          /\ state'.scenarios = u.scenarios /\ state'.traces = <<>> /\ state'.judgments = <<>>
      BY <1>1, <1>3, <2>1, <2>2, Returned DEF Nodes, Lists
    <2>4. Consistent(state)'
      BY <2>1, <2>3 DEF Consistent
    <2> QED BY <1>1, <2>1, <2>2, <2>4, ReturnStep DEF Nodes
  <1> QED BY <1>1, <1>4, <1>5

LEMMA SimulateStep == ASSUME PInv, Simulate PROVE PInv'
  <1> DEFINE Traced(uploaded) ==
        [i \in 1 .. Len(state.scenarios) |->
           [scenario |-> state.scenarios[i], key |-> IF state.scenarios[i] \in uploaded THEN state.scenarios[i] ELSE NoKey]]
  <1>1. PICK u : Ends("simulate", u) /\
          \/ u = NothingNew
          \/ \E uploaded \in SUBSET ToSet(state.scenarios) :
                u = [traces |-> Traced(uploaded), cost |-> 0, turns |-> Len(state.scenarios)]
    BY DEF Simulate
  <1>2. node = "simulate" /\ ~ noticed /\ update = NoUpdate
    BY <1>1 DEF Ends, PInv, Control
  <1>3. state.traces = <<>> /\ state.judgments = <<>> /\ state.scenarios \in Seq(Ids) /\ Len(state.scenarios) \in Nat
    BY <1>2 DEF PInv, Unfilled, Merged, Lists, Consistent
  <1>4. CASE u = NothingNew
    <2>1. DOMAIN u = {}
      BY <1>4 DEF NothingNew
    <2>2. Returns(u)
      BY <2>1 DEF Returns
    <2>3. /\ DOMAIN state' = DOMAIN EmptyState /\ state'.cost \in Nat /\ state'.turns \in Nat
          /\ \A f \in Lists : state'[f] = state[f]
      BY <1>1, <2>1, <2>2, Returned DEF Nodes
    <2>4. Consistent(state)'
      BY <2>3 DEF PInv, Consistent, Lists
    <2> QED BY <1>1, <2>1, <2>2, <2>4, ReturnStep DEF Nodes
  <1>5. ASSUME NEW uploaded \in SUBSET ToSet(state.scenarios),
               u = [traces |-> Traced(uploaded), cost |-> 0, turns |-> Len(state.scenarios)]
        PROVE  PInv'
    <2>1. Traced(uploaded) \in Seq(Traces) /\ Len(Traced(uploaded)) = Len(state.scenarios)
      <3>1. \A i \in 1 .. Len(state.scenarios) : state.scenarios[i] \in Ids
        BY <1>3
      <3>2. \A i \in 1 .. Len(state.scenarios) : Traced(uploaded)[i] \in Traces
        BY <3>1 DEF Traces
      <3>3. DOMAIN Traced(uploaded) = 1 .. Len(state.scenarios)
        OBVIOUS
      <3>4. Traced(uploaded) = [i \in 1 .. Len(state.scenarios) |-> Traced(uploaded)[i]]
        OBVIOUS
      <3> HIDE DEF Traced
      <3>5. Traced(uploaded) \in [1 .. Len(state.scenarios) -> Traces]
        BY <3>2, <3>4
      <3> QED BY <1>3, <3>5
    <2>6. \A i \in DOMAIN Traced(uploaded) : Traced(uploaded)[i].key \in {Traced(uploaded)[i].scenario, NoKey}
      OBVIOUS
    <2> HIDE DEF Traced
    <2>2. DOMAIN u = {"traces", "cost", "turns"} /\ u.traces \in Seq(Traces) /\ Len(u.traces) = Len(state.scenarios)
          /\ u.cost \in Nat /\ u.turns \in Nat
      BY <1>3, <1>5, <2>1
    <2>3. Returns(u)
      BY <1>3, <2>2 DEF Returns, EmptyState, Sums, Lists
    <2>4. /\ DOMAIN state' = DOMAIN EmptyState /\ state'.cost \in Nat /\ state'.turns \in Nat
          /\ state'.scenarios = state.scenarios /\ state'.traces = u.traces /\ state'.judgments = <<>>
      BY <1>1, <1>3, <2>2, <2>3, Returned DEF Nodes, Lists
    <2>7. \A i \in DOMAIN u.traces : u.traces[i].key \in {u.traces[i].scenario, NoKey}
      BY <1>5, <2>6
    <2>5. Consistent(state)'
      BY <1>3, <2>2, <2>4, <2>7 DEF Consistent
    <2> QED BY <1>1, <2>2, <2>3, <2>5, ReturnStep DEF Nodes
  <1> QED BY <1>1, <1>4, <1>5

\* Without judgments every trace is unjudged.
LEMMA AllUnjudged == ASSUME PInv, state.judgments = <<>> PROVE Unjudged = state.traces
  <1>1. {j.scenario : j \in ToSet(state.judgments)} = {}
    BY DEF ToSet
  <1>2. {i \in DOMAIN state.traces : ~ IsJudged(state.traces[i])} = DOMAIN state.traces
    BY <1>1 DEF IsJudged
  <1>3. state.traces \in Seq(Traces)
    BY DEF PInv, Consistent
  <1> QED BY <1>2, <1>3, PickAll DEF Unjudged

LEMMA JudgeStep == ASSUME PInv, Judge PROVE PInv'
  <1> DEFINE m == Len(state.traces)
             Judgment(verdict, i) == [scenario |-> state.traces[i].scenario, key |-> state.traces[i].key,
                                      verdict |-> VerdictOf(state.traces[i].key, verdict[i])]
             Js(verdict) == [i \in 1 .. m |-> Judgment(verdict, i)]
  <1>1. node = "judge" /\ update = NoUpdate
    BY DEF Judge, Ends
  <1>2. /\ ~ noticed /\ state.judgments = <<>> /\ state.scenarios \in Seq(Ids)
        /\ state.traces \in Seq(Traces) /\ Len(state.traces) \in {0, Len(state.scenarios)}
        /\ \A i \in DOMAIN state.traces : state.traces[i].key \in {state.traces[i].scenario, NoKey}
    BY <1>1 DEF PInv, Control, Unfilled, Merged, Lists, Consistent
  <1>3. PICK bill \in Bills, verdict \in [1 .. m -> Verdicts] :
          Ends("judge", [judgments |-> Js(verdict), cost |-> bill, turns |-> m])
    BY <1>2, AllUnjudged DEF Judge
  <1>4. Js(verdict) \in Seq(Judgments) /\ Len(Js(verdict)) = m /\ DOMAIN Js(verdict) = 1 .. m
        /\ \A i \in 1 .. m : Js(verdict)[i].key = state.traces[i].key /\ Js(verdict)[i].scenario = state.traces[i].scenario
    <2>1. m \in Nat /\ \A i \in 1 .. m : state.traces[i] \in Traces
      BY <1>2
    <2>2. \A i \in 1 .. m : Judgment(verdict, i) \in Judgments
      BY <2>1 DEF Judgments, Traces, VerdictOf, Verdicts
    <2> HIDE DEF m, Judgment
    <2>3. Js(verdict) \in [1 .. m -> Judgments]
      BY <2>2
    <2>4. \A i \in 1 .. m : Js(verdict)[i].key = state.traces[i].key /\ Js(verdict)[i].scenario = state.traces[i].scenario
      BY DEF Judgment
    <2> HIDE DEF Js
    <2> QED BY <2>1, <2>3, <2>4
  <1> HIDE DEF Js
  <1> DEFINE u == [judgments |-> Js(verdict), cost |-> bill, turns |-> m]
  <1>5. /\ Ends("judge", u) /\ DOMAIN u = {"judgments", "cost", "turns"}
        /\ u.judgments = Js(verdict) /\ u.cost = bill /\ u.turns = m
    BY <1>3
  <1>6. u.cost \in Nat /\ u.turns \in Nat
    BY <1>2, PricesAssumption DEF Bills
  <1> HIDE DEF u
  <1>7. Returns(u)
    BY <1>2, <1>4, <1>5, <1>6 DEF Returns, EmptyState, Sums, Lists
  <1>8. /\ DOMAIN state' = DOMAIN EmptyState /\ state'.cost \in Nat /\ state'.turns \in Nat
        /\ state'.scenarios = state.scenarios /\ state'.traces = state.traces /\ state'.judgments = Js(verdict)
    BY <1>5, <1>7, Returned DEF Nodes, Lists
  <1>9. Consistent(state)' /\ AllJudged'
    BY <1>2, <1>4, <1>8 DEF Consistent, AllJudged
  <1> QED BY <1>5, <1>7, <1>9, ReturnStep DEF Nodes

\* Neither the analysis nor the evolution returns traces or judgments.
LEMMA LateStep ==
  ASSUME PInv, NEW n \in {"analyze", "evolution"}, NEW u, Ends(n, u), Returns(u),
         DOMAIN u \subseteq {"cost", "drift", "suggestions"}, n = "analyze" => "suggestions" \notin DOMAIN u
  PROVE  PInv'
  <1>1. /\ node = n /\ DOMAIN state' = DOMAIN EmptyState /\ state'.cost \in Nat /\ state'.turns \in Nat
        /\ state'.scenarios = state.scenarios /\ state'.traces = state.traces /\ state'.judgments = state.judgments
    BY Returned DEF Nodes, Lists
  <1>2. Consistent(state)' /\ AllJudged'
    BY <1>1 DEF PInv, Consistent, Judged, AllJudged
  <1> QED BY <1>2, ReturnStep DEF Nodes

LEMMA AnalyzeStep == ASSUME PInv, Analyze PROVE PInv'
  <1>1. PICK analysed \in SUBSET Analysable, bill \in Bills, found \in BOOLEAN :
          Ends("analyze", [drift |-> IF found THEN DriftOf(analysed, BaselineScenarios) ELSE "baseline_missing",
                           cost |-> bill])
    BY DEF Analyze, AnalyzeUpdate
  <1> DEFINE u == [drift |-> IF found THEN DriftOf(analysed, BaselineScenarios) ELSE "baseline_missing",
                   cost |-> bill]
  <1>2. Ends("analyze", u) /\ DOMAIN u = {"drift", "cost"} /\ u.cost = bill /\ bill \in Nat
    <2>1. bill \in Nat
      BY PricesAssumption DEF Bills
    <2>2. DOMAIN u = {"drift", "cost"} /\ u.cost = bill
      OBVIOUS
    <2> QED BY <1>1, <2>1, <2>2
  <1> HIDE DEF u
  <1>3. Returns(u)
    BY <1>2 DEF Returns, EmptyState, Sums, Lists
  <1> QED BY <1>2, <1>3, LateStep

LEMMA EvolutionStep == ASSUME PInv, Evolution PROVE PInv'
  <1>1. PICK u : Ends("evolution", u) /\
          \/ u = NothingNew
          \/ \E bill \in Bills : u = [suggestions |-> <<"pending_review">>, cost |-> bill]
          \/ u = [suggestions |-> <<>>]
    BY DEF Evolution
  <1>2. node = "evolution" /\ update = NoUpdate /\ state.suggestions = <<>>
    BY <1>1 DEF Ends, PInv, Control, Unfilled, Merged, Lists
  <1>3. DOMAIN u \subseteq {"suggestions", "cost"} /\ ("cost" \in DOMAIN u => u.cost \in Nat)
        /\ ("suggestions" \in DOMAIN u => u.suggestions \in Seq({"pending_review"}))
    <2>1. CASE u = NothingNew
      BY <2>1 DEF NothingNew
    <2>2. CASE u = [suggestions |-> <<>>]
      BY <2>2
    <2>3. CASE \E bill \in Bills : u = [suggestions |-> <<"pending_review">>, cost |-> bill]
      BY <2>3, PricesAssumption DEF Bills
    <2> QED BY <1>1, <2>1, <2>2, <2>3
  <1>4. Returns(u)
    BY <1>2, <1>3 DEF Returns, EmptyState, Sums, Lists
  <1> QED BY <1>1, <1>3, <1>4, LateStep

-----------------------------------------------------------------------------
(* The worker                                                              *)

LEMMA AtMost == \A a, b, c \in Int : a <= b /\ b <= c => a <= c
  OBVIOUS

\* A snapshot of judgments that have not become fewer.
LEMMA CountingGrows ==
  ASSUME Counting, NEW x \in [turns : Nat, cost : Nat, passed : Nat, failed : Nat],
         published' = Append(published, x),
         x.passed = Passes(final'.judgments), x.failed = Len(final'.judgments) - Passes(final'.judgments),
         Passes(final.judgments) \in Nat, Len(final.judgments) \in Nat,
         Passes(final.judgments) <= x.passed, Len(final.judgments) - Passes(final.judgments) <= x.failed
  PROVE  Counting'
  <1> DEFINE l == Len(published)
  <1>1. /\ l \in Nat /\ DOMAIN published = 1 .. l
        /\ published' \in Seq([turns : Nat, cost : Nat, passed : Nat, failed : Nat])
        /\ Len(published') = l + 1 /\ DOMAIN published' = 1 .. l + 1
        /\ published'[l + 1] = x /\ \A i \in 1 .. l : published'[i] = published[i]
    BY DEF Counting
  <1> HIDE DEF l
  <1>2. ASSUME NEW i \in 1 .. l
        PROVE  published[i].passed \in Nat /\ published[i].failed \in Nat
               /\ published[i].passed <= x.passed /\ published[i].failed <= x.failed
    <2>1. published[i].passed \in Nat /\ published[i].failed \in Nat
      <3> DEFINE R == [turns : Nat, cost : Nat, passed : Nat, failed : Nat]
      <3>1. published \in Seq(R) /\ i \in DOMAIN published
        BY <1>1 DEF Counting
      <3>2. \A r \in R : r.passed \in Nat /\ r.failed \in Nat
        OBVIOUS
      <3> HIDE DEF R
      <3>3. published[i] \in R
        BY <3>1
      <3> QED BY <3>2, <3>3
    <2>2. published[i].passed <= Passes(final.judgments)
          /\ published[i].failed <= Len(final.judgments) - Passes(final.judgments)
      <3>1. i \in DOMAIN published
        BY <1>1
      <3> QED BY <3>1 DEF Counting
    <2> DEFINE p == Passes(final.judgments)
               f == Len(final.judgments) - Passes(final.judgments)
    <2>3. p \in Int /\ f \in Int /\ p <= x.passed /\ f <= x.failed
      OBVIOUS
    <2>4. x.passed \in Int /\ x.failed \in Int
      OBVIOUS
    <2>5. published[i].passed \in Int /\ published[i].failed \in Int
      BY <2>1
    <2>6. published[i].passed <= p /\ published[i].failed <= f
      BY <2>2
    <2> HIDE DEF p, f
    <2> QED BY <2>1, <2>3, <2>4, <2>5, <2>6, AtMost, Zenon
  <1>3. x.passed \in Nat /\ x.failed \in Nat
    OBVIOUS
  <1>4. ASSUME NEW i \in 1 .. l + 1
        PROVE  published'[i].passed <= x.passed /\ published'[i].failed <= x.failed
    <2>1. CASE i = l + 1
      BY <1>1, <1>3, <2>1
    <2>2. CASE i # l + 1
      <3>1. i \in 1 .. l
        BY <1>1, <2>2
      <3> QED BY <1>1, <1>2, <3>1
    <2> QED BY <2>1, <2>2
  <1>5. ASSUME NEW i \in 1 .. l + 1, NEW k \in i .. l + 1
        PROVE  published'[i].passed <= published'[k].passed /\ published'[i].failed <= published'[k].failed
    <2>1. CASE k = l + 1
      BY <1>1, <1>4, <2>1
    <2>2. CASE k # l + 1
      <3>1. i \in 1 .. l /\ k \in i .. l
        BY <1>1, <2>2
      <3>2. i \in DOMAIN published /\ k \in i .. Len(published)
        BY <1>1, <3>1 DEF l
      <3>3. published[i].passed <= published[k].passed /\ published[i].failed <= published[k].failed
        BY <3>2 DEF Counting
      <3>4. published'[i] = published[i] /\ published'[k] = published[k]
        BY <1>1, <3>1
      <3> QED BY <3>3, <3>4
    <2> QED BY <2>1, <2>2
  <1> QED BY <1>1, <1>4, <1>5 DEF Counting

LEMMA HandleStep == ASSUME PInv, HandleUpdate PROVE PInv'
  <1>1. /\ update # NoUpdate /\ update' = NoUpdate /\ final' = Overwrite(final, update)
        /\ published' = Append(published, Snapshot(final'))
        /\ node' = IF Proceeds(node) THEN NodeAfter[node] ELSE "end"
        /\ UNCHANGED <<state, cancelled, noticed, rows, outcome, counted>>
    BY DEF HandleUpdate
  <1>2. /\ outcome = "none" /\ node \in Nodes /\ ~ noticed
        /\ \A f \in Sums \cap DOMAIN update : update[f] \in Nat
    BY <1>1 DEF PInv, Control
  <1>3. /\ DOMAIN final' = DOMAIN EmptyState /\ final'.cost \in Nat /\ final'.turns \in Nat
        /\ \A f \in Lists : final'[f] = state[f]
    <2>1. DOMAIN final' = DOMAIN final /\ DOMAIN final = DOMAIN EmptyState
      BY <1>1 DEF Overwrite, PInv, Consistent
    <2>2. \A f \in Sums : final'[f] = (IF f \in DOMAIN update THEN update[f] ELSE final[f]) /\ final[f] \in Nat
      BY <1>1, <2>1 DEF Overwrite, Sums, PInv, Consistent, EmptyState
    <2>3. \A f \in Lists : final'[f] = state[f]
      BY <1>1 DEF PInv, Merged
    <2> QED BY <1>2, <2>1, <2>2, <2>3 DEF Sums
  <1>4. Consistent(final)' /\ Consistent(state)'
    <2>1. final'.scenarios = state.scenarios /\ final'.traces = state.traces /\ final'.judgments = state.judgments
      BY <1>3 DEF Lists
    <2>2. Consistent(state)' /\ Consistent(state)
      BY <1>1 DEF PInv, Consistent
    <2> QED BY <1>3, <2>1, <2>2 DEF Consistent
  <1>5. \/ node' = "end" /\ ~ Proceeds(node)
        \/ /\ Proceeds(node) /\ node' = NodeAfter[node]
           /\ \/ node = "generate" /\ node' = "simulate"
              \/ node = "simulate" /\ node' = "judge"
              \/ node = "judge" /\ node' = "analyze"
              \/ node = "analyze" /\ node' = "evolution"
    BY <1>1, <1>2 DEF Proceeds, NodeAfter, Nodes
  <1>6. Control'
    BY <1>1, <1>2, <1>5 DEF Control, Nodes
  <1>7. Unfilled'
    BY <1>1, <1>3, <1>5 DEF PInv, Unfilled, Lists
  <1>8. Merged'
    BY <1>1, <1>3 DEF Merged
  <1>9. Afforded'
    BY <1>1, <1>5 DEF PInv, Afforded, Proceeds
  <1>10. Judged'
    <2>1. CASE node' # "end"
      BY <1>1, <1>5, <2>1 DEF PInv, Judged, AllJudged
    <2>2. CASE node' = "end"
      <3> SUFFICES ASSUME state.cost <= Budget, state.traces # <<>> PROVE AllJudged
        BY <1>1, <2>2 DEF Judged, AllJudged
      <3>1. node # "generate"
        BY DEF PInv, Unfilled
      <3>2. node \notin {"simulate", "judge", "analyze"}
        BY <1>5, <2>2, <3>1, <1>2 DEF Proceeds, PInv, Judged
      <3> QED BY <1>2, <3>1, <3>2 DEF PInv, Judged, Nodes
    <2> QED BY <2>1, <2>2
  <1>11. Counting'
    <2>1. /\ final'.judgments \in Seq(Judgments)
          /\ final.judgments = final'.judgments \/ final.judgments = <<>>
      BY <1>3, <1>4 DEF PInv, Consistent, Merged, Lists
    <2>2. /\ Passes(final.judgments) \in Nat /\ Passes(final'.judgments) \in Nat
          /\ Passes(final.judgments) <= Len(final.judgments) /\ Passes(final'.judgments) <= Len(final'.judgments)
          /\ Len(final.judgments) \in Nat /\ Len(final'.judgments) \in Nat
      BY <2>1, PassesCount DEF PInv, Consistent
    <2>3. /\ Passes(final.judgments) <= Passes(final'.judgments)
          /\ Len(final.judgments) - Passes(final.judgments) <= Len(final'.judgments) - Passes(final'.judgments)
      BY <2>1, <2>2, NoPasses
    <2>4. /\ Snapshot(final').passed = Passes(final'.judgments)
          /\ Snapshot(final').failed = Len(final'.judgments) - Passes(final'.judgments)
          /\ Snapshot(final') \in [turns : Nat, cost : Nat, passed : Nat, failed : Nat]
      BY <1>3, <2>2 DEF Snapshot
    <2> QED BY <1>1, <2>2, <2>3, <2>4, CountingGrows DEF PInv
  <1>12. Saved'
    BY <1>1, <1>2 DEF PInv, Saved
  <1> QED BY <1>4, <1>6, <1>7, <1>8, <1>9, <1>10, <1>11, <1>12 DEF PInv

LEMMA CancelStep == ASSUME PInv, HandleCancel PROVE PInv'
  <1>1. /\ update # NoUpdate /\ update' = NoUpdate /\ noticed' = TRUE /\ node' = "end"
        /\ UNCHANGED <<state, final, published, cancelled, rows, outcome, counted>>
    BY DEF HandleCancel
  <1>2. outcome = "none"
    BY <1>1 DEF PInv, Control
  <1>3. Consistent(state)' /\ Consistent(final)' /\ Control'
    BY <1>1, <1>2 DEF PInv, Consistent, Control
  <1>4. Unfilled' /\ Merged' /\ Afforded' /\ Judged'
    BY <1>1 DEF PInv, Unfilled, Merged, Afforded, Judged
  <1>5. Counting' /\ Saved'
    BY <1>1, <1>2 DEF PInv, Counting, Saved
  <1> QED BY <1>3, <1>4, <1>5 DEF PInv

\* _persist_final_state commits.
LEMMA SaveStep == ASSUME PInv, Save PROVE PInv'
  <1>1. /\ node = "end" /\ outcome = "none" /\ UniqueTraces
        /\ rows' = [scenarios |-> Len(final.scenarios), traces |-> final.traces,
                    judgments |-> JudgmentRows, passed |-> Passes(final.judgments),
                    failed |-> Len(final.judgments) - Passes(final.judgments),
                    total |-> Len(final.judgments), suggestions |-> final.suggestions]
        /\ outcome' = IF noticed THEN "cancelled" ELSE "completed"
        /\ published' = IF noticed THEN published ELSE Append(published, Snapshot(final))
        /\ UNCHANGED <<node, state, update, final, cancelled, noticed, counted>>
    BY AllFound DEF PInv, Save, AtEnd
  <1>2. update = NoUpdate
    BY <1>1 DEF PInv, Control
  <1>3. Consistent(state)' /\ Consistent(final)' /\ Control'
    BY <1>1, <1>2 DEF PInv, Consistent, Control
  <1>4. Unfilled' /\ Merged' /\ Afforded' /\ Judged'
    BY <1>1, <1>2 DEF PInv, Unfilled, Merged, Afforded, Judged, AllJudged
  <1>5. /\ Passes(final.judgments) \in Nat /\ Len(final.judgments) \in Nat
        /\ Passes(final.judgments) <= Len(final.judgments)
    BY PassesCount DEF PInv, Consistent
  <1> DEFINE x == Snapshot(final)
  <1>6. /\ x.passed = Passes(final.judgments) /\ x.failed = Len(final.judgments) - Passes(final.judgments)
        /\ x \in [turns : Nat, cost : Nat, passed : Nat, failed : Nat]
    <2>1. final.cost \in Nat /\ final.turns \in Nat
      BY DEF PInv, Consistent
    <2> QED BY <1>5, <2>1 DEF Snapshot
  <1> HIDE DEF x
  <1>7. Counting'
    <2>1. CASE noticed
      BY <1>1, <2>1 DEF PInv, Counting
    <2>2. CASE ~ noticed
      <3>1. published' = Append(published, x)
        BY <1>1, <2>2 DEF x
      <3> QED BY <1>1, <1>5, <1>6, <3>1, CountingGrows DEF PInv
    <2> QED BY <2>1, <2>2
  <1>8. Saved'
    <2>1. UniqueTraces' = UniqueTraces /\ JudgmentRows' = JudgmentRows
      <3>1. final' = final
        BY <1>1
      <3> QED BY <3>1 DEF UniqueTraces, JudgmentRows, JudgedTrace, Found
    <2>2. rows' # NoRows
      <3>1. DOMAIN rows' # DOMAIN NoRows
        BY <1>1 DEF NoRows
      <3> QED BY <3>1
    <2>3. ~ noticed => /\ published' # <<>> /\ published'[Len(published')] = x
      <3> SUFFICES ASSUME ~ noticed PROVE published' # <<>> /\ published'[Len(published')] = x
        OBVIOUS
      <3>1. published' = Append(published, x)
        BY <1>1 DEF x
      <3> DEFINE R == [turns : Nat, cost : Nat, passed : Nat, failed : Nat]
      <3>2. published \in Seq(R) /\ x \in R
        BY <1>6 DEF PInv, Counting
      <3> HIDE DEF R
      <3>3. published' # <<>> /\ Len(published') = Len(published) + 1 /\ published'[Len(published) + 1] = x
        BY <3>1, <3>2, AppendProperties
      <3> QED BY <3>3
    <2> QED BY <1>1, <1>6, <2>1, <2>2, <2>3 DEF Saved
  <1> QED BY <1>3, <1>4, <1>7, <1>8 DEF PInv

\* The run fails with nothing saved, is cancelled with nothing saved, or is asked to stop.
LEMMA QuietStep ==
  ASSUME PInv, AnalyzeRaises \/ UserCancels \/ SaveRaises \/ UNCHANGED vars PROVE PInv'
  <1>1. /\ UNCHANGED <<node, state, update, final, published, noticed, rows, counted>>
        /\ \/ outcome' = outcome
           \/ outcome = "none" /\ update = NoUpdate /\ outcome' \in {"failed", "cancelled"}
    BY DEF AnalyzeRaises, UserCancels, SaveRaises, AtEnd, vars, PInv, Control
  <1>2. Consistent(state)' /\ Consistent(final)' /\ Control'
    BY <1>1 DEF PInv, Consistent, Control
  <1>3. Unfilled' /\ Merged' /\ Afforded' /\ Judged'
    BY <1>1 DEF PInv, Unfilled, Merged, Afforded, Judged, AllJudged
  <1>4. Counting'
    BY <1>1 DEF PInv, Counting
  <1>5. Saved'
    <2>1. UniqueTraces' = UniqueTraces /\ JudgmentRows' = JudgmentRows
      BY <1>1 DEF UniqueTraces, JudgmentRows, JudgedTrace, Found
    <2> QED BY <1>1, <2>1 DEF PInv, Saved
  <1> QED BY <1>2, <1>3, <1>4, <1>5 DEF PInv

LEMMA NextPInv == PInv /\ [Next]_vars => PInv'
  BY GenerateStep, SimulateStep, JudgeStep, AnalyzeStep, EvolutionStep, HandleStep, CancelStep, SaveStep, QuietStep
  DEF Next

LEMMA InvariantPInv == Spec => []PInv
  BY InitPInv, NextPInv, PTL DEF Spec

-----------------------------------------------------------------------------
(* The theorems                                                            *)

\* No node runs once the nodes before it reported more than the budget, whatever a node
\* costs and however many there are to pay.
THEOREM BudgetHolds == Spec => BudgetStopsGraph
  <1>1. PInv /\ [Next]_vars => (state' # state => counted <= Budget)
    <2> SUFFICES ASSUME PInv, [Next]_vars, state' # state PROVE counted <= Budget
      OBVIOUS
    <2>1. PICK n \in Nodes : \E u : Ends(n, u)
      BY DEF Next, Generate, Simulate, Judge, Analyze, Evolution, AnalyzeRaises, HandleUpdate, HandleCancel,
             UserCancels, Save, SaveRaises, vars, Nodes
    <2> QED BY <2>1 DEF Ends, Nodes, PInv, Afforded, Control
  <1> QED BY <1>1, InvariantPInv, PTL DEF Spec, BudgetStopsGraph

\* Replacing in the worker and adding in the graph save the same lists: no node returns
\* a list another one has returned.
THEOREM ResultsAreTheGraphs == Spec => []SavedWhatGraphComputed
  <1>1. PInv => SavedWhatGraphComputed
    BY DEF PInv, Saved, Merged, Control, SavedWhatGraphComputed
  <1> QED BY <1>1, InvariantPInv, PTL

\* A judgment finds the last trace with its key. If the unique constraint lets all
\* judgments pass, that is its own.
LEMMA TraceFound ==
  ASSUME Consistent(final), UniqueTraces, NEW i \in DOMAIN final.judgments
  PROVE  /\ JudgedTrace(final.judgments[i]) \in DOMAIN final.traces
         /\ final.traces[JudgedTrace(final.judgments[i])].scenario = final.judgments[i].scenario
  <1> DEFINE P == {k \in DOMAIN final.traces : final.traces[k].key = final.judgments[i].key}
             x == JudgedTrace(final.judgments[i])
  <1>1. /\ Len(final.traces) \in Nat /\ DOMAIN final.traces = 1 .. Len(final.traces)
        /\ DOMAIN final.judgments = 1 .. Len(final.judgments)
        /\ Len(final.judgments) \in {0, Len(final.traces)}
    BY DEF Consistent
  <1>2. i \in P
    BY <1>1 DEF Consistent
  <1>3. PICK last \in P : \A y \in P : y <= last
    <2>1. P \subseteq 1 .. Len(final.traces) /\ P # {}
      BY <1>1, <1>2
    <2> HIDE DEF P
    <2> QED BY <1>1, <2>1, LastPosition
  <1>4. x \in DOMAIN final.traces /\ final.traces[x].key = final.judgments[i].key
    BY <1>3 DEF JudgedTrace
  <1>5. final.judgments[i].scenario = final.traces[i].scenario /\ final.judgments[i].key = final.traces[i].key
    BY DEF Consistent
  <1>6. CASE final.judgments[i].key # NoKey
    <2>1. final.traces[x].key = final.traces[x].scenario /\ final.traces[i].key = final.traces[i].scenario
      BY <1>2, <1>4, <1>5, <1>6 DEF Consistent
    <2> QED BY <1>4, <1>5, <2>1
  <1>7. CASE final.judgments[i].key = NoKey
    <2>1. x \in DOMAIN final.judgments
      BY <1>1, <1>4
    <2>2. final.judgments[x].key = final.judgments[i].key
      BY <1>4, <2>1 DEF Consistent
    <2>3. JudgedTrace(final.judgments[x]) = x
      BY <2>2 DEF JudgedTrace
    <2>4. /\ DOMAIN JudgmentRows = DOMAIN final.judgments
          /\ \A k \in DOMAIN final.judgments : JudgmentRows[k].trace = JudgedTrace(final.judgments[k])
      BY AllFound DEF JudgmentRows
    <2>5. x = i
      <3>1. JudgmentRows[x].trace = x /\ JudgmentRows[i].trace = x
        BY <2>1, <2>3, <2>4
      <3> HIDE DEF x
      <3> QED BY <2>1, <2>4, <3>1 DEF UniqueTraces
    <2> QED BY <1>4, <1>5, <2>5
  <1> QED BY <1>4, <1>6, <1>7

\* Keys match every judgment with the trace of its own scenario, and the totals count
\* them, for any number of scenarios and lost uploads.
THEOREM TotalsCountRows == Spec => []RowsAddUp
  <1>1. PInv => RowsAddUp
    <2> SUFFICES ASSUME PInv, rows # NoRows PROVE RowsAddUp
      BY DEF RowsAddUp
    <2> DEFINE js == JudgmentRows
    <2>1. /\ UniqueTraces /\ rows.judgments = js /\ rows.traces = final.traces
          /\ rows.total = Len(final.judgments)
          /\ rows.passed = Passes(final.judgments)
          /\ rows.failed = Len(final.judgments) - Passes(final.judgments)
      BY DEF PInv, Saved
    <2>2. /\ Passes(final.judgments) \in Nat /\ Len(final.judgments) \in Nat
          /\ DOMAIN final.judgments = 1 .. Len(final.judgments)
      <3>1. final.judgments \in Seq(Judgments)
        BY DEF PInv, Consistent
      <3> QED BY <3>1, PassesCount
    <2>3. /\ DOMAIN js = DOMAIN final.judgments
          /\ \A i \in DOMAIN js : /\ js[i].trace = JudgedTrace(final.judgments[i])
                                  /\ js[i].passed = (final.judgments[i].verdict # "failed")
      BY AllFound DEF PInv, JudgmentRows
    <2>4. rows.passed = Cardinality({i \in DOMAIN js : js[i].passed})
      <3>1. {i \in DOMAIN js : js[i].passed} = {i \in DOMAIN final.judgments : final.judgments[i].verdict # "failed"}
        BY <2>3
      <3> QED BY <2>1, <3>1 DEF Passes
    <2>5. ASSUME NEW j \in ToSet(final.judgments)
          PROVE  \E i \in DOMAIN js :
                    rows.traces[js[i].trace].scenario = j.scenario /\ js[i].passed = (j.verdict # "failed")
      <3>1. PICK i \in DOMAIN final.judgments : j = final.judgments[i]
        BY DEF ToSet
      <3>2. rows.traces[js[i].trace].scenario = j.scenario
        BY <2>1, <2>3, <3>1, TraceFound DEF PInv
      <3> QED BY <2>3, <3>1, <3>2
    <2> HIDE DEF js
    <2> QED BY <2>1, <2>2, <2>4, <2>5 DEF RowsAddUp, UniqueTraces, js
  <1> QED BY <1>1, InvariantPInv, PTL

\* A completed run with traces and within its budget has judged all its scenarios,
\* whatever uploads, judgments or later nodes failed.
THEOREM ScenariosJudged == Spec => []TracedRunsJudged
  <1>1. PInv => TracedRunsJudged
    <2> SUFFICES ASSUME PInv, outcome = "completed", rows.traces # <<>>, counted <= Budget
                 PROVE  rows.total = rows.scenarios
      BY DEF TracedRunsJudged
    <2>1. /\ node = "end" /\ ~ noticed /\ rows.traces = final.traces
          /\ rows.total = Len(final.judgments) /\ rows.scenarios = Len(final.scenarios)
      BY DEF PInv, Saved
    <2>2. /\ final.traces = state.traces /\ final.judgments = state.judgments
          /\ final.scenarios = state.scenarios
      BY <2>1 DEF PInv, Merged, Control, Lists
    <2>3. Len(state.judgments) = Len(state.traces)
      BY <2>1, <2>2 DEF PInv, Afforded, Judged, AllJudged
    <2>4. Len(state.traces) = Len(state.scenarios)
      BY <2>1, <2>2 DEF PInv, Consistent
    <2> QED BY <2>1, <2>2, <2>3, <2>4
  <1> QED BY <1>1, InvariantPInv, PTL

\* The counts of the progress events only grow, and the last ones are the row's.
THEOREM SnapshotsAgree == Spec => []SnapshotsMatchRows
  <1>1. PInv => SnapshotsMatchRows
    <2> SUFFICES ASSUME PInv PROVE SnapshotsMatchRows
      OBVIOUS
    <2>1. ASSUME NEW i \in DOMAIN published, NEW k \in DOMAIN published, i <= k
          PROVE  published[i].passed <= published[k].passed /\ published[i].failed <= published[k].failed
      <3>1. Len(published) \in Nat /\ DOMAIN published = 1 .. Len(published)
        BY DEF PInv, Counting
      <3>2. k \in i .. Len(published)
        BY <2>1, <3>1
      <3> QED BY <3>2 DEF PInv, Counting
    <2>2. outcome = "completed" =>
            published[Len(published)].passed = rows.passed /\ published[Len(published)].failed = rows.failed
      BY DEF PInv, Saved
    <2> QED BY <2>1, <2>2 DEF SnapshotsMatchRows
  <1> QED BY <1>1, InvariantPInv, PTL

=============================================================================
