---------------------------- MODULE RunContract ----------------------------
(***************************************************************************)
(* What the evaluation service promises about a run, whatever the threads, *)
(* processes and queues behind it do.                                      *)
(*                                                                         *)
(*  - Submitting is one atomic test-and-insert: a tenant never has more    *)
(*    than MaxActive runs that are queued or executing                     *)
(*    (api/routes/evaluation.py, create_evaluation_run).                   *)
(*  - A run is executed at most once, and its results are recorded at most *)
(*    once, even when the broker delivers its task several times           *)
(*    (worker/tasks.py, the pending -> running claim).                     *)
(*  - A settled run never becomes active again, and a removed run stays    *)
(*    removed.                                                             *)
(*                                                                         *)
(* RunLifecycle implements this specification.                             *)
(***************************************************************************)
EXTENDS Naturals, FiniteSets

CONSTANTS
    Runs,       \* identities of evaluation runs
    Tenants,    \* tenants
    Owner,      \* the tenant of each run
    MaxActive   \* runs of one tenant that may be active at once

VARIABLES
    phase,      \* phase[r]: where the run stands
    stored      \* stored[r]: how many times the results of r were recorded

contractVars == <<phase, stored>>

Phases == {"absent", "queued", "executing", "settled", "removed"}
Active == {"queued", "executing"}

ActiveRuns(t) == {r \in Runs : Owner[r] = t /\ phase[r] \in Active}

Init ==
    /\ phase = [r \in Runs |-> "absent"]
    /\ stored = [r \in Runs |-> 0]

\* Test the quota and insert, as one step.
Submit(r) ==
    /\ phase[r] = "absent"
    /\ Cardinality(ActiveRuns(Owner[r])) < MaxActive
    /\ phase' = [phase EXCEPT ![r] = "queued"]
    /\ UNCHANGED stored

Start(r) ==
    /\ phase[r] = "queued"
    /\ phase' = [phase EXCEPT ![r] = "executing"]
    /\ UNCHANGED stored

\* The zombie sweep settles any number of runs with one UPDATE.
Settle(S) ==
    /\ S # {}
    /\ \A r \in S : phase[r] \in Active
    /\ phase' = [r \in Runs |-> IF r \in S THEN "settled" ELSE phase[r]]
    /\ UNCHANGED stored

Record(r) ==
    /\ phase[r] \in {"executing", "settled"}
    /\ stored[r] = 0
    /\ stored' = [stored EXCEPT ![r] = 1]
    /\ UNCHANGED phase

Remove(r) ==
    /\ phase[r] \in {"queued", "executing", "settled"}
    /\ phase' = [phase EXCEPT ![r] = "removed"]
    /\ UNCHANGED stored

Next ==
    \/ \E r \in Runs : Submit(r) \/ Start(r) \/ Record(r) \/ Remove(r)
    \/ \E S \in SUBSET Runs : Settle(S)

Spec == Init /\ [][Next]_contractVars

=============================================================================
