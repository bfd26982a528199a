-------------------------- MODULE EvaluationPipeline --------------------------
(***************************************************************************)
(* What one run computes: the LangGraph of agents/orchestrator.py          *)
(*                                                                         *)
(*     generate -> simulate -> judge -> analyze -> evolution               *)
(*                                                                         *)
(* and the worker that follows it (worker/tasks.py). Every node returns a  *)
(* partial update. The graph merges it with the reducers of agents/state.py*)
(* (operator.add), which its routing reads; the worker merges the same     *)
(* update into a dictionary of its own with dict.update, which it          *)
(* publishes and saves. Who executes the run, and what becomes of its      *)
(* status, is RunLifecycle.                                                *)
(*                                                                         *)
(* A scenario is its position in the generator's answer and the key of its *)
(* trace is the same number. Money is counted in units. The error strings  *)
(* of the graph are left out: nothing reads them.                          *)
(***************************************************************************)
EXTENDS Integers, Sequences, SequencesExt, Subsequences

CONSTANTS
    MaxScenarios,  \* bound: scenarios the generator returns
    Prices,        \* what the LLM calls of a node may cost together
    Budget,        \* max_budget_usd
    MinOverlap,    \* 5 in _compute_drift_math
    NoKey          \* storage_key of a trace that could not be uploaded

ASSUME MaxScenariosAssumption == MaxScenarios \in Nat
ASSUME PricesAssumption == Prices \subseteq Nat
ASSUME BudgetAssumption == Budget \in Nat
ASSUME NoKeyAssumption == NoKey \notin 1 .. MaxScenarios

VARIABLES
    node,       \* the node that runs or runs next, "end" after the last
    state,      \* the graph's state
    update,     \* the update the worker has not handled yet
    final,      \* the worker's final_state
    published,  \* the snapshots of the progress events
    cancelled,  \* the row reads cancelled
    noticed,    \* the worker has polled it (_cancelled)
    rows,       \* what _persist_final_state committed
    outcome,    \* the status the worker settles on, "none" before
    counted     \* history: the sum of the costs the nodes reported

vars == <<node, state, update, final, published, cancelled, noticed, rows, outcome, counted>>

Nodes == {"generate", "simulate", "judge", "analyze", "evolution"}
Lists == {"scenarios", "traces", "judgments", "suggestions"}
Sums == {"cost", "turns"}
\* passedLow: the judge passes the trace with a score under 80.
Verdicts == {"passed", "passedLow", "failed"}
NoUpdate == [none |-> TRUE]
NoRows == [none |-> TRUE]

EmptyState == [cost |-> 0, turns |-> 0, scenarios |-> <<>>, traces |-> <<>>,
               judgments |-> <<>>, suggestions |-> <<>>, drift |-> "empty"]

Init ==
    /\ node = "generate" /\ update = NoUpdate
    /\ state = EmptyState /\ final = EmptyState
    /\ published = <<>> /\ rows = NoRows
    /\ cancelled = FALSE /\ noticed = FALSE /\ outcome = "none"
    /\ counted = 0

-----------------------------------------------------------------------------
(* The two ways an update is merged                                        *)

\* dict.update: a key that is there again replaces the old value.
Overwrite(st, u) == [f \in DOMAIN st |-> IF f \in DOMAIN u THEN u[f] ELSE st[f]]

\* Annotated[..., operator.add]; drift_profile has no reducer.
Reduce(st, u) ==
    [f \in DOMAIN st |->
        IF f \notin DOMAIN u THEN st[f]
        ELSE IF f \in Sums THEN st[f] + u[f]
        ELSE IF f \in Lists THEN st[f] \o u[f]
        ELSE u[f]]

\* A node returns u.
Ends(n, u) ==
    /\ node = n /\ update = NoUpdate /\ outcome = "none"
    /\ update' = u
    /\ state' = Reduce(state, u)
    /\ counted' = counted + (IF "cost" \in DOMAIN u THEN u.cost ELSE 0)
    /\ UNCHANGED <<node, final, published, cancelled, noticed, rows, outcome>>

NothingNew == [f \in {} |-> 0]  \* a node that only reports an error

\* A response whose price litellm does not know is counted as free.
Bills == Prices \cup {0}

-----------------------------------------------------------------------------
(* The nodes                                                               *)

Generate ==
    \/ \E bill \in Bills, k \in 0 .. MaxScenarios :
          Ends("generate", [scenarios |-> [i \in 1 .. k |-> i], cost |-> bill, turns |-> 1])
    \/ Ends("generate", NothingNew)

\* Every scenario yields a trace, whatever the target answered; an upload that
\* failed three times yields one without a key. No traces if the connector cannot
\* be built.
Simulate ==
    \/ \E uploaded \in SUBSET ToSet(state.scenarios) :
          LET TraceOf(s) == [scenario |-> s, key |-> IF s \in uploaded THEN s ELSE NoKey]
          IN  Ends("simulate", [traces |-> [i \in 1 .. Len(state.scenarios) |-> TraceOf(state.scenarios[i])],
                                cost |-> 0, turns |-> Len(state.scenarios)])
    \/ Ends("simulate", NothingNew)

IsJudged(t) == t.scenario \in {j.scenario : j \in ToSet(state.judgments)}
UnjudgedUploads ==  \* mutant: skips traces that were not uploaded
    Pick(state.traces, {i \in DOMAIN state.traces : ~IsJudged(state.traces[i]) /\ state.traces[i].key # NoKey})
Unjudged == Pick(state.traces, {i \in DOMAIN state.traces : ~IsJudged(state.traces[i])})

\* A trace without a key, too long, or whose judgment raises, fails with score 0.
VerdictOf(key, v) == IF key = NoKey THEN "failed" ELSE v

Judge ==
    \E bill \in Bills, verdict \in [1 .. Len(Unjudged) -> Verdicts] :
        LET Judgment(i) ==
                [scenario |-> Unjudged[i].scenario, key |-> Unjudged[i].key,
                 verdict |-> VerdictOf(Unjudged[i].key, verdict[i])]
        IN  /\ (\A i \in 1 .. Len(Unjudged) : Unjudged[i].key = NoKey) => bill = 0
            /\ Ends("judge", [judgments |-> [i \in 1 .. Len(Unjudged) |-> Judgment(i)],
                              cost |-> bill, turns |-> Len(Unjudged)])

\* The scenarios the baseline has vectors of. The generator names scenarios with uuid4:
\* another run's are different ones.
BaselineScenarios == {-i : i \in 1 .. MaxScenarios}

DriftOf(current, baseline) ==
    IF current \cap baseline # {} THEN "success"
    ELSE IF Cardinality(current) >= MinOverlap THEN "insufficient_overlap"
    ELSE "none"

\* _process_single_trace: a trace is downloaded, summarised, embedded and stored, or
\* left out: then what its summary cost is not counted.
Analysable == {t.scenario : t \in {t \in ToSet(state.traces) : t.key # NoKey}}

AnalyzeEchoesTraces(u) == u @@ [traces |-> state.traces]  \* mutant: returns a list it read
AnalyzeUpdate(u) == u

Analyze ==
    \E analysed \in SUBSET Analysable, bill \in Bills, found \in BOOLEAN :
        /\ analysed = {} => bill = 0
        /\ Ends("analyze",
                AnalyzeUpdate([drift |-> IF found THEN DriftOf(analysed, BaselineScenarios) ELSE "baseline_missing",
                               cost |-> bill]))

\* The query for the baseline raises; vector_db.py keeps the errors of its reads.
AnalyzeRaises ==
    /\ node = "analyze" /\ update = NoUpdate /\ outcome = "none"
    /\ outcome' = "failed"
    /\ UNCHANGED <<node, state, update, final, published, cancelled, noticed, rows, counted>>

\* evolution.py reads overall_score, with 100 as its default; the judge says score.
Considers(j) == j.verdict = "failed"

Evolution ==
    IF \E j \in ToSet(state.judgments) : Considers(j)
    THEN \/ \E bill \in Bills : Ends("evolution", [suggestions |-> <<"pending_review">>, cost |-> bill])
         \/ Ends("evolution", NothingNew)
    ELSE Ends("evolution", [suggestions |-> <<>>])

-----------------------------------------------------------------------------
(* The worker                                                              *)

\* The conditional edges.
Proceeds(n) ==
    /\ n # "evolution"
    /\ state.cost <= Budget
    /\ n = "generate" => state.scenarios # <<>>
    /\ n = "simulate" => state.traces # <<>>

NodeAfter == [generate |-> "simulate", simulate |-> "judge", judge |-> "analyze", analyze |-> "evolution"]

Passes(js) == Cardinality({i \in DOMAIN js : js[i].verdict # "failed"})
SnapshotByScore(st) ==  \* mutant: passed means a score of at least 80
    LET good == Cardinality({i \in DOMAIN st.judgments : st.judgments[i].verdict = "passed"})
    IN  [turns |-> st.turns, cost |-> st.cost, passed |-> good, failed |-> Len(st.judgments) - good]
Snapshot(st) ==
    [turns |-> st.turns, cost |-> st.cost,
     passed |-> Passes(st.judgments), failed |-> Len(st.judgments) - Passes(st.judgments)]

\* The body of the async for loop.
HandleUpdate ==
    /\ update # NoUpdate
    /\ update' = NoUpdate
    /\ final' = Overwrite(final, update)
    /\ published' = Append(published, Snapshot(final'))
    /\ node' = IF Proceeds(node) THEN NodeAfter[node] ELSE "end"
    /\ UNCHANGED <<state, cancelled, noticed, rows, outcome, counted>>

\* The poll sees the cancellation: the update at hand is dropped.
HandleCancel ==
    /\ update # NoUpdate /\ cancelled
    /\ update' = NoUpdate
    /\ noticed' = TRUE
    /\ node' = "end"
    /\ UNCHANGED <<state, final, published, cancelled, rows, outcome, counted>>

UserCancels ==
    /\ ~cancelled /\ outcome = "none"
    /\ cancelled' = TRUE
    /\ UNCHANGED <<node, state, update, final, published, noticed, rows, outcome, counted>>

\* _persist_final_state. The traces are indexed by their storage key, also by None, and
\* a judgment belongs to the last trace its key finds. One without a trace is passed over.
FoundUploaded ==  \* mutant: passes over a judgment without a key
    Pick(final.judgments, {i \in DOMAIN final.judgments : final.judgments[i].key # NoKey})
Found ==
    LET keys == {final.traces[k].key : k \in DOMAIN final.traces}
    IN  Pick(final.judgments, {i \in DOMAIN final.judgments : final.judgments[i].key \in keys})

JudgedTrace(j) == CHOOSE i \in DOMAIN final.traces :
    /\ final.traces[i].key = j.key
    /\ \A k \in DOMAIN final.traces : final.traces[k].key = j.key => k <= i

JudgmentRows == [i \in DOMAIN Found |-> [trace |-> JudgedTrace(Found[i]), passed |-> Found[i].verdict # "failed"]]

\* judgments.trace_id is unique.
UniqueTraces == \A i, k \in DOMAIN JudgmentRows : JudgmentRows[i].trace = JudgmentRows[k].trace => i = k

AtEnd == node = "end" /\ outcome = "none"

Save ==
    /\ AtEnd /\ UniqueTraces
    /\ rows' = [scenarios |-> Len(final.scenarios), traces |-> final.traces,
                judgments |-> JudgmentRows,
                passed |-> Passes(Found), failed |-> Len(Found) - Passes(Found), total |-> Len(Found),
                suggestions |-> final.suggestions]
    /\ outcome' = IF noticed THEN "cancelled" ELSE "completed"
    /\ published' = IF noticed THEN published ELSE Append(published, Snapshot(final))
    /\ UNCHANGED <<node, state, update, final, cancelled, noticed, counted>>

\* The transaction is rolled back: a judgment's trace is taken, or the database fails.
SaveRaises ==
    /\ AtEnd
    /\ outcome' = IF noticed THEN "cancelled" ELSE "failed"
    /\ UNCHANGED <<node, state, update, final, published, cancelled, noticed, rows, counted>>

-----------------------------------------------------------------------------

Next ==
    \/ Generate \/ Simulate \/ Judge \/ Analyze \/ AnalyzeRaises \/ Evolution
    \/ HandleUpdate \/ HandleCancel \/ UserCancels
    \/ Save \/ SaveRaises

Spec == Init /\ [][Next]_vars

-----------------------------------------------------------------------------
(* Properties                                                              *)

Ids == 1 .. MaxScenarios
Traces == [scenario : Ids, key : Ids \cup {NoKey}]
Judgments == [scenario : Ids, key : Ids \cup {NoKey}, verdict : Verdicts]

IsState(st) ==
    /\ DOMAIN st = DOMAIN EmptyState
    /\ st.cost \in Nat /\ st.turns \in Nat
    /\ st.scenarios \in Seq(Ids) /\ st.traces \in Seq(Traces) /\ st.judgments \in Seq(Judgments)
    /\ st.suggestions \in Seq({"pending_review"})
    /\ st.drift \in {"empty", "baseline_missing", "insufficient_overlap", "none", "success"}

\* Every variable stays in its type.
TypeOK ==
    /\ node \in Nodes \cup {"end"}
    /\ IsState(state) /\ IsState(final)
    /\ update = NoUpdate \/ DOMAIN update \subseteq DOMAIN EmptyState
    /\ published \in Seq([turns : Nat, cost : Nat, passed : Nat, failed : Nat])
    /\ cancelled \in BOOLEAN /\ noticed \in BOOLEAN
    /\ outcome \in {"none", "completed", "cancelled", "failed"}
    /\ counted \in Nat

\* No node runs once the nodes before it reported more than the budget (README.md:
\* "the graph halts if total_cost_usd exceeds the configured maximum").
BudgetStopsGraph == [][state' # state => counted <= Budget]_vars

\* Merging by replacement (worker) and by addition (graph) save the same lists: all
\* the graph computed, or what it had computed before the cancellation was seen.
SavedWhatGraphComputed ==
    rows # NoRows =>
        \A f \in Lists :
            /\ outcome = "completed" => final[f] = state[f]
            /\ final[f] \in {state[f], <<>>}

\* Keys match judgments with traces: none is passed over or filed under another's trace.
\* Each one has a row of its own scenario with its verdict, and the totals count them,
\* also when uploads are lost and traces share the key None.
RowsAddUp ==
    rows # NoRows =>
        LET js == rows.judgments IN
        /\ \A j \in ToSet(final.judgments) : \E i \in DOMAIN js :
              rows.traces[js[i].trace].scenario = j.scenario /\ js[i].passed = (j.verdict # "failed")
        /\ \A i, k \in DOMAIN js : js[i].trace = js[k].trace => i = k
        /\ rows.passed = Cardinality({i \in DOMAIN js : js[i].passed})
        /\ rows.total = rows.passed + rows.failed /\ rows.total = Len(final.judgments)

\* A completed run that has traces and kept to its budget has every scenario judged:
\* lost uploads, failed judgments and failures of the later nodes take none away.
TracedRunsJudged ==
    outcome = "completed" /\ rows.traces # <<>> /\ counted <= Budget => rows.total = rows.scenarios

\* The counts a viewer sees never go down, and the last ones are those of the run's
\* row: events and rows are counted in different places.
SnapshotsMatchRows ==
    /\ \A i, k \in DOMAIN published :
          i <= k => published[i].passed <= published[k].passed /\ published[i].failed <= published[k].failed
    /\ outcome = "completed" =>
          LET end == published[Len(published)]
          IN  end.passed = rows.passed /\ end.failed = rows.failed

=============================================================================
