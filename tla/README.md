# Crucible in TLA+

Crucible evaluates AI agents. A user starts an *evaluation run* over a REST API;
a Celery worker executes a LangGraph pipeline for it (generate scenarios,
simulate them against the agent, judge the traces, measure drift against a
golden baseline, suggest a better prompt); the user watches its progress as
server-sent events. State is spread over PostgreSQL, Redis (broker, Pub/Sub,
replay lists, counters, blocklist), S3 and a vector database, and no transaction
spans two of them.

This directory holds TLA+ modules for that system, the TLC configurations that
check them and proofs that TLAPS checks. Paths below are relative to
`src/backend/` of the repository unless they start with `frontend/`.

## 1. Inventory

### Components, their state and operations

| Component | State | Operations | Module |
|---|---|---|---|
| run lifecycle API, `api/routes/evaluation.py` | rows of `evaluation_runs` | create (advisory lock, count, insert, enqueue), cancel, delete | `RunLifecycle` |
| worker task, `worker/tasks.py` | status, heartbeat, results, error message | claim, heartbeat, cancellation poll, save, last event, terminal update | `RunLifecycle`; what is saved: `EvaluationPipeline` |
| Celery, `worker/celery_app.py` | task queue | deliver, redeliver, requeue on loss | `RunLifecycle` |
| zombie sweep, `worker/beat.py` | status, heartbeat | two UPDATE statements per minute | `RunLifecycle` |
| event bus, `core/events.py`, and the stream endpoints | Pub/Sub channel, bounded replay list, tickets | publish, store, trim, expire, ticket, replay, subscribe | `EventStream` |
| log viewer, `frontend/src/components/LogViewer.tsx` | log, last sequence number | connect, receive, reconnect, poll | `EventStream`; what it promises: `StreamContract` |
| evaluation graph, `agents/orchestrator.py`, `state.py` | graph state with reducers | five nodes, conditional edges | `EvaluationPipeline` |
| generator, judge, analyzer, evolution, `agents/*.py` | none of their own | one node each | `EvaluationPipeline` |
| simulator and target connector, `agents/simulator.py`, `connectors/target_agent.py` | slots of a run, breaker counter in Redis | turns, retries, INCR/EXPIRE/DEL, upload | `Simulation` |
| trace storage, `connectors/s3.py`, `worker/beat.py`, `tasks.py` | objects in S3, rows that name them | upload, save, delete task, orphan cleanup | `TraceStore` |
| golden baseline, `evaluation.py`, `agents/analyzer.py` | `is_baseline`, `avg_score` | pin, resolve (two queries), save | `GoldenBaseline` |
| rate limiter, `core/rate_limit.py` | counter key with a lifetime | INCR, EXPIRE, TTL, call the application | `RateLimiter` |
| accounts, `api/routes/auth.py` | tenants, users | register | `Registration` |
| agent configurations, `api/routes/agent_config.py`; dashboard, `operations.py`; whose rows every handler finds, `api/deps.py` | rows with a tenant, stream tickets; per browser a cookie, per tab an access token and a user | log in and out, refresh, load a page, create, list, start, read, delete, open a stream, sum up | `Tenancy` |
| sessions, `auth.py`, `frontend/src/lib/api.ts`, `AuthContext.tsx` | refresh cookie, access token, blocklist | log in, refresh, log out, call with one retry | `Session` |

Not modelled: settings, logging and start-up, the remaining pages of the user
interface, migrations, tests and deployment: they keep no state of their own, or
none that outlives a request. Partly modelled: the LLM client (what a call is
billed is an input of the nodes; its retries and fallbacks change no state), the
vector store (which scenarios a baseline has vectors for), passwords, signatures
and encryption (library calls without state). Of the dashboard, whose rows
a request reads is modelled, the figures it computes are not. The table `golden_baselines` is declared and never used; the
`scenario_count` of a run's configuration never reaches the generator.

### How the components interact

    browser --REST--> API --INSERT/UPDATE--> PostgreSQL <--UPDATE-- Beat (sweep)
                       |                        ^
                       +--enqueue--> Celery --> worker --graph--> LLM, target, S3
                       |                        |
    browser <--SSE---- API <----Pub/Sub, list---+

API, workers and Beat share rows. Two transactions hold locks over an await:
`create_evaluation_run` an advisory lock of its tenant (`pg_advisory_xact_lock`), and
`set_golden_baseline` the rows whose flag it takes away. Elsewhere they meet in conditional UPDATEs (the
claim, the terminal update, the sweep) and in unconditional ones (cancel, a
failed enqueue). The worker and the viewer meet only in Redis; worker and cleanup
only in S3 and in columns of the run.

### What is hard here

* **Interleaving**: an API request, a worker and Beat write one row; two requests
  count, pin or register at the same time; tabs share a cookie and keep tokens of their own; Redis counters are read and written in
  separate calls; the viewer reads the replay list and subscribes in two steps.
* **Delivery**: tasks are delivered at least once and acknowledged late; Pub/Sub
  forgets; connections drop with events on the wire.
* **Crashes and partial failures**: a worker dies between claim and heartbeat,
  between upload and save, between two Redis calls; one Redis call of two fails; a save is rolled back; an
  enqueue raises although the broker took the message.
* **Stale reads**: cancel, cleanup, the baseline endpoint and the analyzer decide
  on what they read before; a refresh is answered when its user has logged out.
* **Limits**: active runs per tenant, slots per run, breaker threshold, request
  window, replay list, batch of the cleanup, budget.
* **Eventually**: a run starts and is settled, a scenario gives back its slot, a
  page learns the end, orphans are removed, waiting transactions end.

`PROJECT.json` lists these under `hazards`, each at its line with the properties
that would catch it.

## 2. Modules

`MC<Module>` gives TLC an instance of `<Module>`; `<Module>_<question>.cfg` holds
the constants. Definitions marked `mutant` are alternatives to the definition
after them that a plausible bug would make; no specification uses them.

**RunContract** is the abstract specification: a run is absent, queued,
executing, settled or removed; submitting is one atomic test-and-insert under the
tenant's limit; results are recorded at most once; nothing settled becomes active
again.

**RunLifecycle** is the detailed one. `status`, `heartbeat`, `error` and `results`
are the row, `creating`, `cancelling` and `deleting` the requests between their
transactions, `queue` and `redelivered` the broker, `worker` the task each process
executes. A create is `LockTenant`, `CountActive`, `InsertRun`, `EnqueueRun` or
`EnqueueRaises`/`EnqueueFailed`; `CreateAborts` is the rollback of `get_db` or the
death of the API process. The task is `Claim`, `Setup`, `Heartbeat`, `SeeCancel`,
`StreamEnds`, `StreamRaises`, `Persist`, `PersistRaises`, `PublishEnd`,
`WriteTerminal`; `TaskRaises` and `WriteTerminalRaises` are database errors that
escape it. Heartbeats are null, recent or older than the cutoff. `Sweep` is both
UPDATE statements of the sweep. The graph is one step. `Contract` maps the status
to the phases of `RunContract`.

**EventStream** follows the events of one run to one viewer. `Emit` publishes,
`Store` appends and trims in a step of its own; `Replay` and `Subscribe` are two
steps of the endpoint; `excused` records the events lost to Redis, to the list's
bound, or around a replay. A connection needs a ticket first (`GetTicket`), which
expires, is consumed by `Connect`, and whose absence the page cannot tell from a
dropped connection. What a replay sends is the part of the list at the positions
`Newer`. The claim (`ClaimRun`) and the first event (`StartRun`) are two steps, between
which the set-up may fail (`SetupFails`). The row has every writer `RunLifecycle` gives
it: the worker (`RowSettles`), and in `RowWritten` the cancel endpoint and a failed
enqueue, which write over any status, the sweep and the deletion.

**StreamContract** is what the page promises whoever watches it, without Redis,
tickets or connections: the events are numbered as they are sent, the announcement
of the end is the last, and those shown are in order and without repetition.
`EventStream` implements it with what was published as `sent` and the log as
`shown`.

**EvaluationPipeline** runs the nodes of the graph for one run. A node's update is
merged twice: into `state` with the reducers (`Reduce`) and into the worker's
`final` with `dict.update` (`Overwrite`). `HandleUpdate` publishes a snapshot and
follows the conditional edge, `HandleCancel` drops the update, `Save` is
`_persist_final_state`: traces are indexed by storage key, `Found` are the judgments
whose key one of them has (the others are passed over), `JudgedTrace` is the trace a
key finds, and `UniqueTraces` the constraint on `trace_id` that makes the save raise.

**Subsequences** is the list comprehension of the code (`[x for x in s if ...]`) as
the elements at a set of positions, for `EventStream` and `EvaluationPipeline`.
`SelectSeq` gives the same list but is defined by recursion, which no prover
unfolds; `MCEventStream` compares the two on all lists of up to five elements.

**Simulation** has the scenarios of several runs as processes: `Begin` takes a
slot, `CheckBreaker`, the request with its retries, `Incr`, `Expire`,
`RecordSuccess`, the upload with its retries. Each Redis call may fail and is then
ignored, as in the code. `WorkerDies` kills all scenarios of a run at any of these
steps; `expireLost` remembers that one of them had counted and not yet set the lifetime.

**TraceStore** keeps, per run, the objects in S3 and the rows that name them, and
everybody who adds or removes either. `HourPasses` does not wait for the worker: no
time limit is configured, so a run that was given up may execute for longer than the
hour the cleanup allows; `raced` remembers the runs that were selected meanwhile. The
cleanup's batch is any choice of at most `Batch` orphans, as `LIMIT` without `ORDER BY`.

**GoldenBaseline** splits the endpoint's transaction under READ COMMITTED into the
read of the run (`ReadRun`), the snapshot the UPDATE works from, in the order of its
scan (`FindBaselines`), the locks it takes one by one (`LockRow`), and the new flag with
the commit (`SetBaseline`). A request keeps the rows it has locked (`held`) while it
waits for the next; of requests that wait for each other PostgreSQL aborts one
(`DeadlockAborts`), which ends with a 500. The worker of each run is a process that
resolves its baseline in two queries, saves its scores and settles its row, unless
somebody settled it before; deletions and settlements wait for locked rows too.

**RateLimiter**, **Registration** and **Session** model the middleware's dispatch
for one key, the transactions of `register`, and one browser's session with its
interceptors. `RateLimiter` has two history variables: `age` counts the ticks
since a request was admitted, `keyed` holds the requests counted on the key that
exists now. `Session` names its definitions `SessionInit`, `SessionNext` and so
on, so that its proofs can stand beside those of `Registration` and `Tenancy`.

In `Registration` a slug is a sequence of words and numbers: company `Acme 1` has the
base slug `acme-1`, which is also the second slug of a company `Acme`.

**Tenancy** extends `Registration`: people log in to the accounts it creates, in tabs of
browsers they share, and call every other handler. `cookies[b]` is the user the refresh
cookie of a browser names. A tab has a page: the user it shows, the user its access
token names, the login form's answer, the users whose refreshes are in flight. `LogIn`
sets the cookie for all tabs, `FormEnters` is the form's `/auth/me` and `login()`,
`RefreshStarts` and `RefreshAnswered` are the two halves of the interceptor's refresh,
`LogOut` and `RefreshFails` clear the page and leave refreshes in flight. A handler is
one step: what it looks up by (tenant and identity) never changes. `seen` records the
tenants of the rows a page was answered with, `mixed` that somebody logged in while the
page had something of somebody else's.

Two modules implement an abstract one, `RunLifecycle` and `EventStream`.
`EventStream`, `EvaluationPipeline`, `TraceStore` and `GoldenBaseline` each
contain the part of the row's life they depend on (a row that starts, is
cancelled, swept, settled, deleted), with every transition `RunLifecycle` allows from
there on: the late completion of a cancelled run, and the cancel endpoint and a failed
enqueue that write over a final status.

### Abstractions

* A status is its literal; times are before or after their cutoff, or ticks of a
  clock that is long against a single call.
* An S3 prefix is deleted in one step; the pages of a listing are not told apart.
* In `Tenancy` a call is one step, and any call may be answered 401, so that expiry and
  the blocklist, which are `Session`'s, only restrict what it allows. `Session` has one
  page and one user. A `delete_cookie` before an `HTTPException` has no effect, because the
  exception has a response of its own.
* A scenario is its position in the generator's answer. Scores are told apart only
  where a threshold does (70 and 80). `MinOverlap` stands for the 5 of
  `_compute_drift_math`.
* A Redis call that raises may have been executed: in `RateLimiter`, `Simulation`
  and `Session` both outcomes are possible. In `RateLimiter` the API process does not
  die; if it died between INCR and EXPIRE (`rate_limit.py:94-98`), the key would be
  left as by an EXPIRE that fails.
* Error texts, prompts, token counts, cosine similarity and layout are left out.

## 3. What the runs show

Deadlock checking is off everywhere (`CHECK_DEADLOCK FALSE`): each instance has
finitely many runs, requests or scenarios, and when all of them have ended the
system really may stop. That nobody is stuck before that is what the liveness
properties say.

| Run | Instance | Shows |
|---|---|---|
| `lifecycle_executor` | 1 run, 2 workers, 2 crashes, 1 escaped database error, 2 redeliveries | `SingleExecutor`, `CompletedByExecutor`, `ErrorMatchesStatus`, `RunningHasExecutor`, `StaleWriterRejected`, `PendingHasTask`; `EnqueuedRunStarts` and `HeartbeatedRunSettles` under fairness |
| `lifecycle_quota` | 2 runs of one tenant, limit 1, 1 worker, 1 crash | `ActiveLimit`; `ContractKept`: the refinement of `RunContract` |
| `lifecycle_zombie` | 1 run, 2 workers, 1 crash | `RunningRunSettles` **fails**, see section 6 |
| `events_delivery` | 4 events, list of 2, 2 disconnections, 1 Redis fault | `StreamKept`: the refinement of `StreamContract`; `OnlyExcusedGaps`, `ViewerLearnsEnd` |
| `pipeline_results` | up to 3 scenarios, bills 0 to 2, budget 2 | `SavedWhatGraphComputed`, `RowsAddUp`, `TracedRunsJudged`, `SnapshotsMatchRows`, `BudgetStopsGraph` |
| `simulation_breaker` | 2 runs, 3 scenarios, 1 slot each, threshold 1, 2 turns, 2 attempts, 1 Redis fault, workers that die | `BreakerBoundsFailures`, `OnlyTargetTrips`, `CounterHasLifetime`, `EveryScenarioEnds`, `FailuresExpire` |
| `traces_cleanup` | 2 runs, batch 1, 1 deletion, S3 calls that fail | `JudgedTracesKept`, `DeletedRunsCleaned`, `OrphansRemoved` |
| `baseline_pins` | 2 runs, 2 requests | `BaselineIsDecent`, `NotItsOwnBaseline`, `NeverWithoutBaseline`, `PinsEnd` |
| `baseline_two` | 2 runs, 2 requests | `OneBaseline` **fails**, see section 6 |
| `limits_bounds` | 5 requests, limit 2, window of 2 ticks, 1 Redis fault, 1 handler error | `BurstBounded`, `RepeatedOnlyAfterError`, `KeyExpires` |
| `registration_tenants` | 3 registrations, 2 of one company and email, 1 of a company named like the second slug; 1 browser, 2 tabs, 1 agent, 1 run | `TenantsHaveOneUser`, `NoSlugSkipped`, `TenantsApart`, `RegistrationsEnd` |
| `session_calls` | 2 calls, 1 reload, 1 Redis fault, 4 ticks, tokens of 1 and 2 ticks | `RevokedStaysBlocked`, `CallsEnd` |

Every module states its type invariant. The runs list that of `RunLifecycle` only;
those of `EventStream`, `GoldenBaseline`, `TraceStore`, `Simulation` and `Tenancy` are part of the
invariants section 5 proves.

### Why the bounds are enough

Two workers and two redeliveries let a second delivery arrive before, during and
after the first execution, each of which may crash; the theorems of section 5
remove these bounds for the safety properties. Two creates and one slot are the
smallest contention for the limit. A list of two for four events is trimmed
twice, and two disconnections let a gap survive a reconnection. Three scenarios
are what the generator asks for, and two of them can lose their uploads; two bills of the budget's size exceed it at
every edge. With one slot per run and threshold one, two requests are under way
when the breaker opens and a third waits. With a batch of one, one orphan fits and two compete for it: the property
speaks of the first case, which comes and goes as runs are given up, saved and deleted.
Two runs can both be flagged by two pins that overlap, after which two more pins lock
them in opposite orders. Five requests against a limit of two fill one window and run into
the next. Two registrations of one company and a third whose base slug is the
second's number contend for three slugs; tokens that live one and two ticks expire at
every step of a call. One browser that people of two tenants use in turn is where an
answer could reach the wrong one. `registration_tenants` follows a part of the steps
only (`Followed`, an action constraint): pages move when no registration is half done, of
which they see only the user it ends with; the second tab only serves to log in; and the
first is not followed while it is mixed, which the property excuses. The theorem
`TenantsStayApart` has none of these restrictions, and any number of browsers and tabs.

Symmetry is used only without liveness: over runs and workers in
`lifecycle_quota`, over requests in `limits_bounds`.

## 4. Fairness

* `RunLifecycle`: weak fairness of each worker's steps (every await of the
  pipeline has a timeout and a bounded number of retries), of the delivery of a
  waiting message to some worker, of `Sweep` (Beat's schedule) and of the ageing
  of a heartbeat nobody renews. Requests, crashes and faults are not fair.
* `EventStream`: the page's poll only. `Simulation`: the steps of each scenario
  (httpx and S3 have timeouts; a call to Redis, whose client has none, is assumed to
  return or raise) and Redis' clock; a dead worker takes no step. `TraceStore`: Beat
  schedules the cleanup for ever (weak), and S3 does not fail for ever (strong fairness of
  each deletion). `Registration` and `Tenancy`: the steps of a registration that the server goes on
  with; nobody need log in or call anything. `Session`: the steps of a
  call; nobody need log in or wait.
* `GoldenBaseline`: strong fairness of `LockRow` and `SetBaseline`, because PostgreSQL
  queues the transactions that wait for a row, so one that finds it free again and again
  gets it; weak fairness of `DeadlockAborts`, its deadlock detector. Fairness of the
  locks alone does not end a deadlock: neither step is ever enabled in one.

## 5. What is proved

`RunLifecycleProofs` proves twelve theorems about `RunLifecycle`, for any finite
set of runs, any workers and tenants, any limit and any bounds on faults. The
assumptions are those of the module: `Runs` is finite, `NoRun` is none of them,
`Owner` maps runs to tenants, `MaxActive` is positive, the bounds are naturals.

| Theorem | States |
|---|---|
| `TypeCorrect` | `[]TypeOK` |
| `OneExecutorPerRun` | `[]SingleExecutor` |
| `ResultsSavedOnce` | `[]ResultsAtMostOnce` |
| `CompletedRunsHaveResults` | `[]CompletedHasResults` |
| `SettledStaysSettled` | `NoReactivation` |
| `FailedNotCompleted` | `StaleWriterRejected` |
| `CompletionByExecutor` | `CompletedByExecutor` |
| `ErrorMessagesMatch` | `[]ErrorMatchesStatus` |
| `NoRunForgotten` | `[]RunningHasExecutor` |
| `NoPendingForgotten` | `[]PendingHasTask` |
| `ActiveLimitHolds` | `[]ActiveLimit` |
| `LifecycleImplementsContract` | `ContractKept` |

The argument. `SingleExecutor` is not inductive: a claim must know that nobody
executes the run yet. `ExecInv` says that an executed run has left `pending`, so
the claim's `WHERE status = 'pending'` excludes a second executor. `ResultInv`
ties the results to the executor's progress (nothing is saved before it saves),
and `DoneInv` says that an executor past its save without an exception has saved;
together with `RequestInv` (which rows a request between its transactions may
meet) they make `IInv`. Two lemmas describe every step once: `StatusSteps`, which
writes a status and from where, and `ResultSteps`, who saves. The action
properties and the refinement follow from them. `PendingHasTask` needs to know
more than whether a task exists: a pending row's task is with the create, with the
broker, or with a worker that has not claimed it yet, and a create whose enqueue
raised is about to fail the row (`ExpectedTask`). The limit has an invariant of its
own, `QuotaInv`: one create of a tenant is between lock and commit, and an
admitted one still has room.

`RateLimiterProofs` proves three properties of the middleware for any finite set of
requests, any limit, window and bounds on errors:

| Theorem | States |
|---|---|
| `ClientsComeBack` | `[]KeyExpires` |
| `OneCallPerRequest` | `[]RepeatedOnlyAfterError` |
| `BurstsBounded` | `[]BurstBounded` |

`KeyExpires` is inductive once the variables it reads are typed (`KeyInv`): a
request that moves on never takes the place of the one that owes the key its
lifetime. `RepeatedOnlyAfterError` is not: `CallsInv` also counts the requests in
the except clause that were handed over before (`Repeats`), and says that a request
before the application was never handed over. `BurstBounded` bounds a window that
may overlap two keys. `BurstInv` splits the recent requests into those the present
key admitted (`OnKey`), those an earlier one did (`OffKey`) and those Redis errors
let through. INCR gives those of one key different numbers up to the limit
(`Numbered`), so `OnKey` is bounded by an injection. `OffKey` is one less than the
limit at most: a new key follows the expiry of the old one, and by then the first
request of the old key has left the window (`Aged`).

`EventStreamProofs` proves three theorems for any number of events, any bound of the
replay list, any number of dropped connections and Redis faults:

| Theorem | States |
|---|---|
| `ReplayListKept` | `[]BufferKeepsNewest`, of the proofs' module: what the trimmed list holds is the newest, in order |
| `GapsExcused` | `[]OnlyExcusedGaps` |
| `StreamImplementsContract` | `StreamKept` |

The invariant `EInv` ties together what was sent, stored, on the wire and shown.
`Sending`: one event at a time is on its way to the list, and it is the newest.
`Buffered` and `BufferKeepsNewest`: the list holds sent events in order and, as long
as Redis answers, the newest of them. `Wired`: what a connection carries is newer
than the log. `Delivered` is the heart: once a connection was replayed to, every
event after the viewer's last is on the wire or excused. It is what a replay
establishes (it sends an end of the list, lemma `NewerIsEnd`) and what each later
step keeps; an event that is not stored yet or is published before the
subscription is excused. The
refinement maps what was published to the contract's `sent` and the log to `shown`;
every step is `Send`, `Show` or a stutter.

`EvaluationPipelineProofs` proves the properties of the pipeline for any number of
scenarios, prices, budget and verdicts:

| Theorem | States |
|---|---|
| `BudgetHolds` | `BudgetStopsGraph` |
| `ResultsAreTheGraphs` | `[]SavedWhatGraphComputed` |
| `TotalsCountRows` | `[]RowsAddUp` |
| `ScenariosJudged` | `[]TracedRunsJudged` |
| `SnapshotsAgree` | `[]SnapshotsMatchRows` |

They share one invariant, `PInv`. That adding in the graph and replacing in the
worker give the same lists is not a property of the two merges, it needs every
list to be empty until its own node runs (`Unfilled`); then `Merged` is inductive,
with the update at hand between the two states. `Consistent` says that traces and
judgments are all there or none, in the order of the scenarios, and that a key is that
of one scenario or None; so each judgment finds a trace by its key (`AllFound`). That it
is the trace of its own scenario also takes the unique constraint (`TraceFound`): of two
traces without a key the last one would be found twice. `Afforded` gives the budget at the entry of a
node, `Judged` that nothing behind the judge runs with an unjudged trace,
`Counting` that published counts are bounded by the judgments there are, and
`Saved` that the rows are a function of what the worker has.

The remaining components have a module of proofs each; `AccountsProofs` is that of
`Registration`, `Tenancy` and `Session`. All theorems are proved from the
assumptions their modules state: finite sets where something is counted, positive
limits, natural bounds, and special values that are none of the ordinary ones.

| Theorem | States |
|---|---|
| `AccountsProofs`: `TenantsStayApart` | `[]TenantsApart` |
| `GoldenBaselineProofs`: `BaselinesDecent` | `[]BaselineIsDecent` |
| `GoldenBaselineProofs`: `NeverItsOwnBaseline` | `[]NotItsOwnBaseline` |
| `GoldenBaselineProofs`: `BaselineReplaced` | `NeverWithoutBaseline` |
| `TraceStoreProofs`: `DeletedRunsLeaveNothing` | `[]DeletedRunsCleaned` |
| `TraceStoreProofs`: `JudgedTracesStay` | `[]JudgedTracesKept` |
| `AccountsProofs`: `TenantsComplete` | `[]TenantsHaveOneUser` |
| `AccountsProofs`: `SlugsTakenInOrder` | `[]NoSlugSkipped` |
| `AccountsProofs`: `RevocationHolds` | `[]RevokedStaysBlocked` |
| `SimulationProofs`: `BreakerBounds` | `[]BreakerBoundsFailures` |
| `SimulationProofs`: `OnlyTargetCounts` | `[]OnlyTargetTrips` |
| `SimulationProofs`: `FailuresHaveLifetime` | `[]CounterHasLifetime` |

Why their invariants are stronger than the properties:

* `TInv`: as long as a page is not mixed, the user it shows, its access token, the
  form's answer and the refreshes in flight are all of one user, and so is the cookie, if
  there is one (`OneHolder`); so a refresh answered late brings nobody else's token. Rows
  were seen and tickets taken under that token (`SeenOwn`, `TicketOwn`); a ticket outlives
  the check of the user, but names a run of that tenant or one that is deleted and whose
  identity is never used again.
* `BInv`: a baseline keeps its score because a score is written by the worker of
  the run alone, once, past the analysis (`ScoredIsSaved`); so what a request has
  checked still holds when it commits (`RequestsChecked`), and a run that resolves
  its baseline has no score yet and is neither pinned nor a fallback.
* `DInv`: a deletion's task comes before the row goes (`TaskFirst`), and what is in
  S3 after the task was uploaded after it (`OnlyLate`). `KInv`: a run the cleanup has
  selected is not executed and has counted nothing, or has raced with its worker
  (`NobodySaves`), and what an executor holds is in S3 (`HeldStored`). The excuse is as
  narrow as the code allows: it takes a worker that executes at the moment of the
  selection, an hour after its run was given up.
* `RInv`: between its INSERT and its commit a request holds its slug alone
  (`SlugHeld`, the unique constraint), and it found the slugs before its own taken
  (`TriedInOrder`), by whatever company. The numbered slugs of one base differ
  (`NumberedApart`); those of two bases need not. No such constraint exists for emails.
* `SInv`: an entry on the blocklist is given the rest of its token's life, and a token
  that is issued twice, by two logins in one second, expires at the same time.
* `CInv`: a scenario to which the target failed to answer sends no other request
  and is counted once (`CountedOnce`); those under way hold a slot each
  (`SlotsHeld`), which the lemma `EveryoneSeated` turns into a bound on their
  number by seating them injectively in `Runs \X (1 .. Slots)`. `CounterHasLifetime` is
  inductive with `TypeOK`: a scenario that must set the lifetime (`armed`) leaves that
  step by setting it, by a call that raised, or by the death of its worker.

Only model-checked: the liveness properties (fairness and ENABLED are outside what
the prover handles): `EnqueuedRunStarts`, `HeartbeatedRunSettles`,
`ViewerLearnsEnd`, `EveryScenarioEnds`, `FailuresExpire`, `OrphansRemoved`,
`PinsEnd`, `RegistrationsEnd` and `CallsEnd`. The two violated properties of
section 6 have counterexamples instead. Every other property of the runs is a
theorem.

## 6. Where text and code disagree

Two disagreements are runs of their own, because they concern the core promise of
their component:

* `lifecycle_zombie`: a worker killed between its claim and its first heartbeat
  leaves the run `running` for ever. `beat.py` has a statement for exactly this
  case, but it compares `started_at`, which no code writes.
  `HeartbeatedRunSettles` is what does hold.
* `baseline_two`: two concurrent pins of one agent both commit, although the
  endpoint says it keeps one baseline "at a time (Atomic operation)".

The models exhibit further ones. No run states them; what holds instead is the
property named with each.

* A cancellation the worker has not polled is overwritten with `completed`, and a
  cancel request that read the row early writes over a terminal status
  (`tasks.py:209`, `evaluation.py:156`). `StaleWriterRejected` and
  `ContractKept` hold.
* The stream replays before it subscribes, so an event in between is lost although
  `last_seq` is meant to recover it; `OnlyExcusedGaps` counts it among the
  excuses.
* The last event of a cancelled run says `failed`: the event schema has no
  `cancelled` (`tasks.py:163`).
* `turn_count` and `total_cost_usd` of the events are those of the last node, not
  absolute (`tasks.py:138`); the counts of verdicts are (`SnapshotsMatchRows`).
* A run whose generator or connector fails, or that is over its budget, is
  completed with unjudged scenarios (`TracedRunsJudged` excludes these).
* Two failed uploads share the storage key `None`; both judgments find the last of these
  traces, collide on the unique `trace_id`, and the save is rolled back
  (`tasks.py:282-299`). `RowsAddUp` is what the runs that are saved keep.
* An exception of the set-up before `_cancelled` is assigned publishes `failed` and then
  ends in the `finally` block on an unbound name: the row stays `running`, with no
  heartbeat, like that of a worker killed early (`SetupFails`, `RunningRunSettles`).
* `evolution.py:27` reads a score under a key the judge does not write.
* No two runs have a scenario id in common, so drift is never measured
  (`generator.py:44`).
* When INCR succeeds and EXPIRE fails, or the process dies in between, a breaker stays
  open and a client stays blocked (`target_agent.py:59-62`, `rate_limit.py:94-98`):
  `FailuresExpire`, `CounterHasLifetime` and `KeyExpires` except this. Both lifetimes start with the first failure
  or request, not the last.
* An exception of a handler makes the limiter call it a second time
  (`rate_limit.py:124`): `RepeatedOnlyAfterError`.
* More orphans than a batch holds may starve some for ever (`beat.py:80`: `LIMIT` without
  `ORDER BY`, and nothing marks a run as handled): `OrphansRemoved` holds while they fit.
  The cleanup is meant to be safe by its hour (`beat.py:68-78`, "Never persisted
  properly"), but no time limit keeps a worker from executing longer than that:
  `JudgedTracesKept` excuses the runs that are selected meanwhile. A run saved
  without judgments counts as never persisted (`beat.py:78`); a worker that still
  uploads after a deletion leaves objects nobody will remove (`evaluation.py:183`).
* The analyzer's fallback may be a run that was not successful (`analyzer.py:94`).
* "email is unique globally" (`db/models/user.py:9`), but migration `14f34cc264ce`
  drops the constraint: two concurrent registrations of one email both succeed
  (`auth.py:80`), and a login takes the `first()` of the accounts. Nothing in the code
  keeps the second account out, and no property says so; `TenantsApart` keeps the rows of
  the two accounts apart.
* The numbers of a company's slugs may have gaps: `Acme 1` takes `acme-1`, and `Acme`
  gets `acme` and then `acme-2` (`auth.py:88-100`). `NoSlugSkipped` is what holds.
* Two pins may deadlock once several runs are flagged; one admin gets a 500
  (`evaluation.py:329-338`). `PinsEnd` and `NeverWithoutBaseline` hold.
* `GET /operations/summary` compares `drift_profile["score"]` with 0.25, and the
  score is None for a run without a baseline, so the request ends with a 500 as
  soon as an agent's first run is completed (`operations.py:98`,
  `analyzer.py:187`); `get_drift_overview` skips such runs. Its
  `avg_drift_score` averages `avg_score`, and its `baseline_count` counts runs,
  not agents (see `baseline_two`).
* A run that was cancelled or swept counts no longer against the tenant's limit
  and may still execute: `ActiveLimit` bounds active rows, not executions.
* The event `completed` is published before the row is written, which the sweep may
  have marked `failed` by then (`tasks.py:166`).
* A client that leaves during the replay leaves a Redis connection and the gauge
  of active streams behind: the `finally` starts after it (`evaluation.py:270`).
* A Redis error at logout keeps the cookie while the page shows the user as logged
  out (`auth.py:171`). A refresh that is under way at logout sets an access token
  afterwards (`api.ts:40-46`); if somebody else logs in in between, their page calls as
  the first user until the next refresh. The same happens when somebody else logs in in
  another tab, because the refresh sends the shared cookie, and when `/login` is opened
  while a token is in memory: the interceptor replaces the form's header, so that
  `/auth/me` answers for the old token while `login()` keeps the new one
  (`api.ts:21-26`, `login/page.tsx:51-57`). `TenantsApart` excuses exactly these pages
  (`mixed`); without the excuse TLC finds each of them.
* A refresh token is accepted as a bearer token: `deps.py:33` looks neither at its type
  nor at the blocklist. `RevokedStaysBlocked` is about the refresh endpoint.

## 7. Plan

Done: inventory, the ten components above, `RunContract` and `StreamContract` with
their refinements, and the theorems of section 5.

Next, model:

1. Compose `RunLifecycle` with `EventStream`: one status, with the sweep and the
   cancel of the former as the ends the latter sees.
2. Compose `EvaluationPipeline` with `TraceStore`, so that `counted` and `refs`
   are what `Save` writes.
3. Expiry and the blocklist of `Session` in `Tenancy`'s tabs, so that the time a mixed
   page lasts is bounded by its access token.

Every safety property of the present modules is proved. The compositions bring
invariants of their own: that the events a viewer sees end as the row does, that
what the cleanup removes is what no saved row names.
