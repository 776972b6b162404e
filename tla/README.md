# Hyoka in TLA+

Hyoka records traces of AI agents, replays them against candidate
configurations, evaluates the replays, gates releases on the results, and can
run the whole loop by itself ("self-improvement cycles"). This directory holds
TLA+ modules of the parts whose behaviour depends on the order in which several
actors move, and of the computations a release rests on; TLC configurations that
check them on small instances; and TLAPS proofs for every value of the constants.

Source paths below are relative to `src/`; `S/` stands for
`apps/server/hyoka_server/`.

## 1. The system

All state lives in one relational database (and, for artifacts, in files). API
requests, worker processes and the background tasks of the API are independent
actors: each holds a session, reads rows, computes, and commits. Nothing but
guarded `UPDATE`s, row locks and unique constraints orders them. There is no
message queue: a job is a row in status `queued` that workers poll for. Clients
(the SDK, the proxy, the CLI, OpenTelemetry exporters) send traces and events
over HTTP, with retries of their own.

| Component | State | Operations | What is hard | Module |
|---|---|---|---|---|
| Run execution (`S/services/runs.py`, `S/services/workers.py`, `S/main.py`, `apps/worker`) | `runs`, `run_cases` | create, cancel, claim, execute, fail, resume | two claims at once, leases that run out, crashes between commits, cancellation in between | `RunExecution` |
| Self-improvement cycles (`S/services/autonomous.py`) | `self_improvement_cycles`, and through it clusters, candidates, runs, decisions, promotions | queue, claim, execute, fail | a job made of jobs, retried from the start; failure after a promotion | `SelfImprovementCycle` |
| Release gates (`S/services/gates.py`, end of `runs.py`) | verdicts and evaluations of cases, aggregate | record a case, aggregate, evaluate | what the stored summary forgets; boundaries of rates and percentiles | `GateEvidence` |
| Manifests and promotions (`S/services/manifests.py`, `S/main.py`) | `manifests`, `runs.manifest_id`, `gate_decisions`, `promotions` | build, evaluate, promote | evaluations that meet, overrides, two ways to promote | `ControlPlane` |
| Failure mining (`S/services/failures.py`) | `failure_clusters` | mine | check, then insert; mining too early | `ControlPlane` |
| Suites, candidates, proposals | `suites`, `candidates`, `improvement_proposals` | create, propose | version by max + 1, candidate by content | `ControlPlane` |
| API keys (`S/security.py`), audit log | `api_keys`, `audit_events` | authenticate, create, revoke, record | a check in an earlier transaction than the handler | `ControlPlane` |
| Trace ingestion (`S/services/ingestion.py`) | `traces` with a JSON list of steps, `idempotency_keys` | trace, event, batches, OTLP | lost updates, duplicates, reordering, requests that wait for each other | `TraceIngestion` |
| OpenTelemetry mapping (`S/services/otel.py`) | none | spans to events | identity | `OtlpExport` |
| `hyoka scrape` | none | a page to requests | order | `Imports` |
| SDK buffer (`packages/sdk-py/hyoka/sdk.py`) | two lists in memory | trace, record, enqueue, flush, aflush | enqueue during a flush, half a flush failing | `Delivery` |
| Sidecar proxy (`apps/proxy`) | none | forward, capture | the capture may not harm the call | `ProxyCapture` |
| Artifact store (`S/services/artifacts.py`) | files, `artifacts` | write, read | a shared temporary file | - |
| Candidate generation, evaluators, redaction, schemas | none | pure functions | - | - |
| Other CLI commands, dashboard, migrations, settings | none of their own | clients of the API, configuration | - | - |

What makes each correct: a run has one executor, ends once, and its aggregate is
what its cases say; a cycle promotes only what a completed run and an approving
decision justify, and reports what it did; a decision is backed by the replays; a
promotion is backed by a decision and names the manifest that carries it; the
audit log tells what clients did; ingestion keeps every step once, whatever the
order, and a retry changes nothing; clients deliver what they enqueued.

`PROJECT.json` lists every component with its status, and every hazard with the
line where it bites and the properties about it.

## 2. Modules

| Module | Contents | Proofs |
|---|---|---|
| `RunLifecycle` | abstract: what a run promises its creator | |
| `RunExecution` | rows, workers, claims, leases, case loop, crash, restart; implements `RunLifecycle` | `RunExecutionProofs` |
| `SelfImprovementCycle` | one cycle; its validation runs are an `INSTANCE` of `RunLifecycle` | `SelfImprovementCycleProofs` |
| `GateEvidence` | repeats -> verdict -> aggregate -> decision | `GateEvidenceProofs` |
| `ControlPlane` | requests and cycle transactions over manifests, decisions, promotions, clusters, suites, candidates, keys, audit | `ControlPlaneProofs` |
| `IngestionService` | abstract: what a client may assume of the ingestion endpoints | |
| `TraceIngestion` | transactions on traces and keys; implements `IngestionService` | `TraceIngestionProofs`, `TraceRecordProofs` |
| `OtlpExport` | the request made of an OpenTelemetry export, on top of `TraceIngestion` | `ExportProofs` |
| `Imports` | the requests of a scrape | |
| `ProxyCapture` | calls through the proxy, on an `INSTANCE` of `IngestionService` | |
| `Delivery` | an SDK client, or the proxy, with the server, an `INSTANCE` of `IngestionService` | `DeliveryProofs` |
| `MCRunExecution`, `MCSelfImprovementCycle`, `MCGateEvidence`, `MCControlPlane`, `MCTraceIngestion`, `MCDelivery` | instances for TLC | |

Two abstract specifications join the detailed ones. `RunExecution` is shown to
implement `RunLifecycle`, by TLC and by proof, and `SelfImprovementCycle` uses it
for the runs it opens. `TraceIngestion` is shown to implement `IngestionService`,
by TLC and by proof, and `Delivery` and `ProxyCapture` use it as their server: a
client rests on requests that succeed as a whole and are remembered, and not on
rows and locks. `GateEvidence` is about what a decision says, and `ControlPlane`
about what becomes of it.

### RunExecution

A run's row is `status`, `owner` (`worker_id`), `lease` (none, live, expired),
`attempts`, `cancelRequested`, `aggregate`; its cases are `caseStatus`. Each
executor has a program point `pc` and the locals of `execute_run`: `target`,
`cursor` and `sampled` (the cases whose latency and cost are in the local
lists). An action is what happens between two commits:

- `CreateRun`, `CancelRun`: the API handlers (a run may be marked in any status);
- `SelectNext`, `ClaimSelected`: `claim_next_run` reads and `claim_run` updates in
  separate steps; `ClaimGiven`: a claim of a named run, by the worker's `once` or
  by the inline background task;
- `StartExecution`, `StopCancelled`, `SkipSettled`, `BeginCase`, `RecordCase`,
  `CompleteRun`, `FailRun`, `FailRecording`: `execute_run`, commit by commit.
  `StartExecution` and `BeginCase` extend the lease; `StopCancelled` closes pending
  and running cases; `FailRecording` is an exception after the row of a case has been
  changed, which the failure handler then commits with the end of the run;
- `LeaseExpires`, `Crash`, `Restart`: time and processes.

Time is only the event that a lease expires. `TimelyLeases` says whether this can
happen under a live executor. The code renews a lease (300 s by default) before
each case but not during its replays (up to 100 repeats of up to 30 s), and
nothing fences a stale executor, so it *can*; most guarantees hold only when it
does not, and the theorems say so.

Abstractions: rows are read at the moment of a step (`execute_run` reads its list
of cases once and refreshes each after a commit, which differs only with two
executors on one run); an exception before the case loop, or a handler whose
commit fails too, is a `Crash`; inline tasks count as workers; the outcome of a
replay is any outcome; `aggregate.sampled` stands for p95 and cost.

### SelfImprovementCycle

The row of the cycle (`status`, `owner`, `lease`, `attempts`, `result`), the
validation runs (`phase`, `cancelAsked`, one identity per attempt and cluster),
`gate` and `promoted`, and each executor's `pc`, `attempt`, `cursor`, `results`.
Actions follow the commits of `_execute_cycle_record`: `OpenCluster` (candidate,
proposal, patch bundle and a queued run in one transaction), `StartValidation`
and `FinishValidation` (`execute_run`, which comes back at once if somebody else
holds the run), `Judge` (gate, comparison, promotion, entry), `CompleteCycle`,
`FailCycle`, `FailJudging`. `ExecuteElsewhere` and `CancelRun` are the other workers
and clients.

Abstractions: the baseline has completed, so its clusters are a number fixed at
first; mining is part of the first transaction; the two lease extensions around
`execute_run` are merged with its claim; the decision of the gate and the verdict
of the comparison are free, except that the comparison approves only what the
gate approves (`autonomous.py:335,345`); the cycle's `SELECT` and its guarded
`UPDATE` are one step, for only the `UPDATE` decides; of what an exception finds
flushed and its handler then commits only a gate decision is written (`FailJudging`),
and not a candidate or proposal without its run, which nothing of the cycle refers
to, nor a promotion after whose flush nothing is left that could fail; validation
runs themselves have timely leases, since `RunLifecycle` is what `RunExecution` does then.

### GateEvidence

One run with one executor at a time. `Replay` adds one repeat (passed or not,
an output, the labels of failed evaluations; or it raised), `RecordCase` computes
the verdict and keeps the labels of the last repeat, `CompleteRun` the aggregate,
`EvaluateGate` a decision under any policy. `replays` is a history variable: the
repeats behind each recorded verdict, which the code does not keep. `TakeOver`
is a crash followed by a claim; a run that fails does so between cases. Thresholds are whole percentages compared by
cross-multiplication; the position of p95 is `(95 n + 99) \div 100`, which is
`math.ceil(len * 0.95)` for every length up to 200000 (beyond that only the
float computation of the code could tell). The sorted list of `_p95` is
represented by its characteristic property (`Ordered`).

`required_artifacts` never blocks, because every completed run has a manifest.
`max_cost_increase_pct`, `must_improve`, `suite` and `mode` of a policy are read
by no code, so they are not in the model. The manifest built by a gate evaluation
appears as its decision only; `ControlPlane` has the rest of it.

### ControlPlane

The tables are sets of rows that only grow (`table`), next to the pointer of a
run to its manifest, the runs as far as they matter (`status`, `outcome`), and
the requests and cycle transactions under way (`work`). A request is two
transactions, as in the code: `get_auth_context` commits the use of the key
(`Authenticate`), and only then the handler validates what it was given
(`Valid`, `Refuse`), prepares its rows from what is committed at that moment
(`CreateSuite`, `CreateCandidate`, `CreateKey`, `RevokeKey`, `MineFailures`,
`ProposeImprovement`, `EvaluateGate`, `CreatePromotion`) and commits them together
with their audit event (`Commit`); a unique constraint rolls all of it back
(`Fail`), and a process may die (`Die`). Between preparation and commit anything
may happen: that is where two requests meet. A cycle has the same two steps,
without key and audit event: `OpenCluster` mines the baseline, if it has not been
mined, and adds a candidate and a proposal of one of its clusters; `JudgeRun` adds a
manifest, a decision and perhaps a promotion. In which order a cycle takes the clusters
is left open; a cycle that fails between these rows commits the first of them, which
is left out.

An event has what `record_audit_event` is given: the action, the identifier of the
resource (of the run, for mining), the project and the key. A row has `by`, the key
of the request that made it or nobody for a cycle, which the code does not keep: it
is there to compare the log with.

The verdict of an evaluation is free: `GateEvidence` says what it is. `tick` is
both `created_at` and the source of identifiers. Histories: `early`, clusters
prepared before their run ended; `crossed`, runs that two actors mined, or
evaluated, at once. Left out: hashes and the signature of a manifest, which are
determined by its row; the traces a suite selects; names of suites (one is
enough: versions are numbered by name); the cap of representative traces of a
cluster; the expiry of keys and the static keys of a project, which authenticate
like any other; that a resumed run records a case again, which `RunExecution` has.

### TraceIngestion, IngestionService, OtlpExport, Imports

A request is one transaction of a session. For each of its messages `Lookup` reads
the key and the trace into the session (`view`, the identity map of SQLAlchemy),
and then the message is absorbed by an early return (`Absorb`), or written and
flushed (`Flush`), or meets a unique constraint (`Reject`, the whole request is
rolled back). `Flush` is an `INSERT`, or an `UPDATE` of just the columns that the
session changed (`Updated`), of the row as it is by then (`Base`); a flushed row
or key is locked until the transaction ends (`Blocks`), circles of requests that
wait for each other are broken by the database (`BreakDeadlock`), and `Commit`
publishes. A message in a project that the key of the request does not reach
(`reached`) is refused after the ones before it were flushed. `FromPost`, `FromEvent` and `Applied` are the conversions of
`persist_trace`, `_initial_trace` and `ingest_event`, with `_recompute_summary` and
the clamp of the end. `Submit` may come at any time and again: retries,
duplicates and any order. Histories: `acked`, `origin` (the message that created a
trace) and `stale` (traces that were updated from an outdated copy, which loses
steps; see 5).

Abstractions: tokens and cost are sums like the step latency; input, output,
metadata, attributes and the payload hash decide nothing. A posted trace and an
event are otherwise what the handlers receive after validation. An event that creates
its trace is flushed twice (`ingestion.py:80,249`), in one step here: nothing is read
in between and the row is locked from the first.

`IngestionService` has requests and a set of what is recorded: a request succeeds
as a whole, at once, or not at all. The refinement maps the stored traces and keys to
that set. `OtlpExport` has what exporters send (`Exports`): `OtlpRequest` is the loop of
`otlp_json_to_events` and of `_ingest_otlp_json`, with the project of the API key and the
clock as part of the export; a span is in the project it names, and the default one is
that of the key (`ProjectOfSpan`); `OtelId` stands for prefixing an id, which keeps ids apart. `Imports` is the
splitting of a page by `hyoka scrape` (`ScrapeRequests`). The instance for TLC takes
its requests from both.

### Delivery, ProxyCapture

`Delivery` is one `HyokaClient` with the functions it traces and several threads or
tasks that flush it. `StartTrace`, `RecordStep`, `EndTrace` are the wrapper of
`@trace` and the recorders; the payload in the buffer shares its list of steps
with the context, so `buffer` holds traces and `Payloads` reads their steps when
the body is encoded. `StartFlush`, `ContinueFlush`, `EndFlush`, `FailFlush` are the
two posts of `flush` and `aflush` and the two `clear()` at their end, with other
flushes, enqueues and recorders in between. `LoseReply` is the timeout of the
client, after which the server still goes on. An event may be one the schema
rejects (`Malformed`); a trace may not, and the two `clear()` are one step. `ProxyCapture` has a call through the proxy: the provider
answers in one of several ways, the capture is posted, and the caller is answered
after it. The two share nothing but the server, so an instance uses one at a time
(`integration`).

## 3. What the runs check

| Run | Question | Bounds |
|---|---|---|
| `run_safety` | one executor, accounted completed runs, figures of first attempts, closed cancelled runs, no run left alone while attempts remain, refinement of `RunLifecycle` (settled rows stay) | 2 workers, 2 runs, 2 cases, 2 attempts, 1 crash, run 1 cancellable, timely leases |
| `run_liveness` | a queued run nobody cancels ends; a cancellation that reaches a run at work ends it unless its executor dies | 2 workers, 2 runs, 1 case, 2 attempts, 1 crash, run 1 cancellable |
| `run_long_replay` (violated) | one executor when a case outlasts its lease | 2 workers, 1 run, 1 case |
| `run_cancel_queued` (violated) | FR-037: a run asked to be cancelled ends | 1 run |
| `cycle_safety` | one executor, justified promotions, truthful result, quiet after the end, never left alone while attempts remain | 2 workers, 2 clusters, 2 attempts, 2 crashes, symmetry of workers |
| `cycle_liveness` | a queued cycle ends although leases expire under live executors | 2 workers, 1 cluster, 2 attempts, 1 crash, untimely leases |
| `gate_safety` | verdicts, approvals, raised replays, and the p95 limit against the history of replays; decisions under policies of which one is as strict as another; aggregates of completed and failed runs | 2 cases, 2 repeats, 2 outputs, 1 label, 3 policies, 1 crash |
| `gate_labels` (violated) | FR-073 over repeats | 2 cases, 2 repeats |
| `control_plane` | promotions are backed, the log tells, catalog and clusters are sound, the pointer is the latest | 2 requests and 1 cycle at a time, 3 calls in all, 1 run of 2 cases, 2 projects, symmetry |
| `ingestion` | steps once and kept, figures whatever the order, coherent records, exports whole or not at all, retries without effect, nobody waits for a request that is over, every request answered, refinement of `IngestionService` | 2 sessions, 3 traces, 5 requests that may come any number of times, 1 fault |
| `ingestion_stub` (violated) | FR-014: an acknowledged trace has its steps | 1 session |
| `delivery` | what is lost was enqueued during a flush, what arrives is whole, flushing gets everything through, callers of the proxy are answered | 1 traced function, 2 events (1 malformed), 2 flushers, 2 calls, 2 requests at the server, 1 fault |

Why the bounds are enough. Two workers are needed for every race on one row and a
third can only take the place of one of them; two runs let `SelectNext` choose
and let a worker move on; two cases give a resumed run something settled and
something open; two attempts and one crash make a resumption, and `cycle_safety`
uses up the last attempt with a second crash. Two clusters let a cycle fail or
crash after it has promoted; both cycle runs execute their validation runs, and
that a cycle without `execute_validation` promotes and reports correctly is proved
only. Two repeats and two outputs give every pattern the verdict can tell apart,
and a repeat that raises after one that did not. The p95 limit is checked with two
cases, where the position is the last one; the theorem is for any number of them.

Three calls of `control_plane` are two that meet and what one of them leads to, or
mining, proposing and registering in sequence; evaluation and promotion by a
client with a crossing evaluation of the cycle take the same three. The five
requests of `ingestion` are an export of spans of two traces, the two requests
that a scraped page becomes (the traces first), which repeat the spans in the
other order and add a `trace_end` on an earlier clock and a trace with the id of
one of them, and a post with an `Idempotency-Key`. Together they have two
transactions on one trace, two with the rows of both in opposite order (a
deadlock), an event before its trace and after it, a step known from two sides,
and a key for a trace that exists already. The fifth is an export whose second span is in
a project that its key does not reach, after the first was flushed. `MaxFaults` bounds only deaths:
conflicts and deadlocks happen as often as they can. Two flushers and two events of
which one is malformed give the overlap of a flush with an enqueue, another flush,
a lost reply and a rejected second post. What the instances cannot show, any
number of actors, runs, cases, messages, crashes, the proofs do.

`CHECK_DEADLOCK FALSE` is set where the system may stop: when everything has
ended, when the bounded calls are used up, or when it is stuck as the violated
runs show. Every property of a passing run has a mutant in `PROJECT.json`: a
wrong version of one definition, as a plausible bug would have it, under which TLC
finds that property violated. The wrong versions stand next to the definition
they mutate and are used by nothing else.

Fairness.
- Runs and cycles: weak fairness of each executor's own steps and of the expiry of
  leases. The steps are justified by the worker's polling loop (`serve`), and by
  `execute_run` having no wait other than a replay with a time limit; expiry by
  the clock; the restart of a dead worker is an assumption on the deployment
  (`deploy/docker-compose.yml` sets no restart policy). Nothing is assumed of
  clients, crashes, inline tasks or, in a cycle, of the executors of other runs.
  Crashes are fewer than attempts: nothing claims a run or cycle after its last
  attempt (5).
- Ingestion: strong fairness of each session's steps. A handler goes on unless it
  waits for a row, and a database serves those who wait for a row in turn; with
  weak fairness a request could wait forever for a row that others keep taking.
- Delivery: the server answers, replies nobody waits for are dropped, and the
  program keeps flushing (`FlushStep`), which the SDK leaves to the program
  (`flush_at_exit` is one flush more); the proxy does its own work. Nothing is assumed
  of the provider, of a lost reply or of the traced program.
- `control_plane` has no liveness: a request is one step after another, and a
  conflict is an error to the client, not a retry.

## 4. What is proved

All proofs are for any values of the constants, under the `ASSUME`s of the
modules, which say that numbers are numbers, sentinels are not values, workers are
finitely many, prefixing keeps ids apart (`OtelIdInjective`), and, of ingestion, what
kinds of requests the endpoints take (`RequestsAreOfOneKind`).

`RunExecutionProofs`. `TypeCorrect` needs `LocalsOK` (an executor past its claim has
a target, and a cursor within the cases). The other theorems are under
`TimelyLeases` unless said otherwise: `Owned` says that an executing worker is the
one its row names, the row is running with a live lease, and a row with a live lease
cannot be claimed; from it `ExecutorIsUnique`. `CompletedRunsAreAccounted` and
`CancelledRunsAreClosed` need `Progress` (all cases before an executor's cursor have
an outcome) and `RowsBeforeEnd` (no aggregate before the end).
`FirstAttemptsAreSampled` adds `FiguresInv` (the executor of a first attempt has
sampled every case recorded so far, and a run nobody has claimed has none). With
`IInv`, `InFlight` (the case being replayed is running) lets each step be mapped to
a step or a stutter of the abstract one: `ExecutionImplementsLifecycle`, from which
`SettledRowsStay` follows by the abstract specification alone. The same steps with
the cases forgotten give `ExecutionIsAsCyclesAssume`: the instance of `RunLifecycle`
that `SelfImprovementCycle` takes its validation runs from is one that
`RunExecution` implements.

`RunsAreNeverStranded` is for any leases. A claim and the start of an execution are two
steps, executors may be several, and each may crash; `Counted` adds up where the
attempts of a run have gone, to crashes and to the executors that are at work on it,
so that attempts used up with fewer crashes leave somebody at work. It counts
workers, which are assumed to be finitely many (`WorkersAreFinite`).

`SelfImprovementCycleProofs`. `PromotionsAreJustified` and `ResultsAreAccounts`
hold for any leases: two executors of one cycle are in different attempts
(`AttemptsDiffer`) and so never judge the same run, and runs are judged in order
(`JudgedInOrder`). `LocalAccounts` carries the account of the clusters done so
far; a completed run never moves. `CycleExecutorIsUnique` and
`EndedCyclesAreQuiet` need `TimelyLeases` (`Held`). `CycleIsNeverStranded` counts
attempts as for runs. `ValidationRunsLive` says that a cycle moves its validation
runs only as `RunLifecycle` allows, and lets others do so: with
`ExecutionIsAsCyclesAssume` the two modules meet in the same specification.

`GateEvidenceProofs`. `RowsOK` states that recorded verdicts are honest and that a
raised replay left its labels; `CompletedOK` what the aggregate is, of a completed
run and of one that failed after it was made; `DecisionsOK` that each decision is
what its policy makes of the run *as it still is*. From these: `VerdictsAreHonest`,
`ApprovalsAreEarned`, `RaisedReplaysBlock`, `AggregatesAgree`,
`StricterPoliciesBlock` (of policies that ask no less in any respect, the criteria
being monotone in each threshold, `LaxerApproves`). `LatencyLimitIsExact` and the
type of p95 rest on `OrderStatistic`: every position of a sorted list of latencies
exists. It is proved without induction, from the least element of a set of numbers:
the slowest case of a set is one with the most cases at or below it.

`ControlPlaneProofs`. `Shape` types the rows, the plans and the clock. Then one
invariant for each theorem, about the committed rows and the plans together:
`PromotionInv` (a decision in a plan comes with its manifest, and a promotion in a
plan refers to a committed decision or to one of its own plan), `CatalogInv` (the
version in a plan is at most one more than the number of committed suites, so the
unique constraint is all that is needed), `ManifestInv` (identifiers lie below the
clock, and the manifest in a plan is later than the committed ones, unless two
evaluations met), `ClusterInv` (the clusters of a plan partition the failures of a
run that has ended; a completed run's outcomes do not move) and `AuditInv` (each
plan tells of just what it adds: its rows have their events with project and key, and
its events their rows; both sides of this are kept by adding two such sets together,
so a commit keeps it and nothing else writes; the key of an event in a plan is one
that was accepted, and keys are never deleted).

`TraceIngestionProofs`. `Copied` says that a trace a session has in memory is in the
database or among the rows it has written. `OnceInv` (no row, copy or written row
has a step twice) gives `StepsAreOnce`, if no posted trace names a step twice.
`SettledInv` says that what the messages before a session's position promise is
recorded or written by the session, from which `IngestionServes`: every step maps to
a step or a stutter of `IngestionService`. `RetryInv` gives `RetriesAreAbsorbed`:
flushed rows and keys are `Exclusive`, keys a session inserts are new
(`KeysAreNew`), everything acknowledged is `Recorded`, and a session that has
written anything `Holds` it for a message that is not recorded yet, so one that only
repeats has nothing to commit. That a sum of steps is a number is proved without
induction, from the least position where it would not be.

Two more results of `TraceIngestionProofs` are about sessions together.
`RequestsAreUnstuck`: whoever blocks somebody is at work himself, so among the
requests one waits for, and those they wait for, somebody can go on or there is a
circle for the database to break. `SerialIngestionNeverStale`: with one session at a
time copies are up to date (`UpToDate`) and `stale` stays empty, so the traces that
the other theorems except are the work of concurrency alone.

`TraceRecordProofs`. What the rows say. `FoundInv` accounts for what a session has
dealt with: an event it absorbed has its key from an acknowledged event, or from
one of its own that it wrote, so a message that changed nothing told of nothing new
about its trace. `RightInv` then says of every row that is stored, or written by a
session, that it is `Right` given the messages that were `Heard` (acknowledged, or
before the session's position): it has the steps of its events, and if events made
it, its figures and times are what they tell (`FlushRight` is the one step that
merges an event; `RightGrows` carries a row over messages about which nothing is
new). `PostInv` says that the steps of the post that created a trace are in its row
and in every copy of it. From these: `AckedStepsAreKept`, `SummariesAreOrderFree` and
`RecordsAreCoherent`.

`ExportProofs`. `RequestOfExport` says what the loop over spans collects, for exports of
any length, by the least length at which it would not. With `AckedStepsAreKept` it gives
the part of `ExportsAreWhole` about what arrives; an export with a foreign span is
never acknowledged, for every message that was dealt with was `reached`. `TracedInv`
gives the part about what must not be there: a step of a row, a copy or a written row is
told of by an acknowledged message or by one the session has dealt with, so that a
refused request leaves none. `SpansAreToldApart` says when none of its exceptions
about ids applies: ids of spans are unique, and only exporters use the ids made of them.

`DeliveryProofs`. `LostInv`: two flushers never wait for the same request
(`FlushersApart`), the proxy leaves the client alone (`Quiet`), and what a flush
is going to clear its posts have `Carried`, except what was enqueued since it
began; from it `NothingIsLost`. `WholeInv`: the payload of a request under way has
every step its trace had at its end (`InHand`), and so has what is in memory
(`InMemory`) and what arrived (`Whole`); from it `TracesArriveWhole`.

Only model-checked: liveness (`RunsEnd`, `CancelEndsRunning`, `CycleEnds`,
`RequestsAnswered`, `TraceArrives`, `EventArrives`, `CallAnswered`), which is out of
the prover's reach, though `RunsAreNeverStranded`, `CycleIsNeverStranded` and
`RequestsAreUnstuck` prove what such an argument starts from; and the violations.
Only proved, and not repeated as a property of a run: the types of the cycle, of
`GateEvidence` and of `TraceIngestion` (`CycleTypeCorrect`, `EvidenceTypeCorrect`,
`IngestionTyped`), `SettledRowsStay`, and the theorems listed without a property in `PROJECT.json`.

## 5. Where the code departs from its documents

Four runs are expected to fail; each is a finding in `PROJECT.json` with the
quoted line: a run executed by two workers (`run_long_replay`), cancelled runs
that never end (`run_cancel_queued`), blocking labels lost with earlier repeats
(`gate_labels`), and acknowledged traces whose steps are dropped because an event
came first (`ingestion_stub`).

Others were met while modelling. The models contain them, and properties of passing
runs except exactly their case, by a named history variable where there is one (`stale`,
`exposed`, `early`, `crossed`) or by a condition (`TimelyLeases`, the first attempt):
such a property says that the code fails in no other way, and not that this one is
harmless.

- A run, or a cycle, whose last attempt dies stays `running`: no claim takes it and
  nothing ends it (`REQUIREMENTS.md:335`, NFR-009). `NeverStranded` says that
  crashes as many as attempts are the only way to get there; `RunsEnd` and
  `CycleEnds` allow fewer.
- A validation run that another worker executes while the cycle asks for it is
  neither compared nor gated (`autonomous.py:440-452`, against
  `SYSTEM_DESIGN.md:121-123`). `ExecuteElsewhere` is this; the entry of the
  result tells it (`ResultAccounts`).
- The p95 and cost of a resumed run cover its last attempt only
  (`runs.py:149,239`, against `REQUIREMENTS.md:203`, FR-072). `FirstAttemptFigures`.
- A mined cluster, a candidate, a proposal, a decision or a promotion of a cycle writes
  no audit event (`autonomous.py:358`, against
  `REQUIREMENTS.md:386`, SR-007). `AuditTells` says that
  events are those of clients, and `by` tells the others apart.
- Two events of one trace in transactions that overlap: the later one overwrites
  the steps of the earlier (`ingestion.py:207`). `stale` marks such traces;
  `StepsOnce`, `RetryAbsorbed` and the refinement hold with them,
  `AckedStepsKept`, `SummaryOrderFree`, `RecordCoherent` and `ExportIsWhole` except them.
- The key of an event does not name its trace: an event whose id another trace of the
  project has used is dropped if its own trace exists (`ENGINEERING_DESIGN.md:442-452`).
  `OwnId` excepts it.
- A `trace_end` without a duration keeps the sum of the steps known by then, and
  later steps no longer count. `SummaryOrderFree` is about ends that tell one.
- What is enqueued while a flush is under way may be cleared unsent, and a trace of
  which an event was posted before its end is known to the server by that event
  alone (`exposed` and `early` in `Delivery`). A malformed event stays in the buffer
  and fails every later flush after its traces were sent.
- The proxy reads the figures of a reply outside its `try` (`main.py:67-69`), so a
  reply of an unexpected shape fails the call, against the comment at line 114.
  `CallAnswered` excepts it.
- A run mined before it ends keeps the clusters of that moment, and two miners that
  meet insert both sets; two evaluations that meet leave a pointer that is not the
  latest manifest (`early` and `crossed` in `ControlPlane`).
- A request whose key is revoked after its authentication still takes effect.
- An `Idempotency-Key` that stands for another trace of the project makes the post look
  stored, and one used in another project makes it fail (`ingestion.py:32-41,71-80`).
  `Known` and `Conflict` are this; no property is about it, since `IngestionService`
  promises nothing of a post with a key.
- A trace that the server rejects would keep every later flush of its client from
  posting anything (`sdk.py:57`). It is not modelled: `TraceArrives` is about traces
  the server takes.

## 6. Plan

Done: runs, cycles, gates, the control plane, ingestion, delivery and the proxy, with
the proofs above. What is left is more of the same kind and not a missing part:

1. A stream of cycles with runs behind them, for the order in which a worker polls.
2. The comparison of a cycle as a function, with its zero baselines.
3. Project keys with expiry as actions of `ControlPlane`.

## 7. Not modelled

- Artifact store: a file is written under its digest before its row. Manifests and
  patch bundles carry a fresh identifier and a report that of its run, so two
  writers of one digest, where the shared temporary file would matter, are two
  executors of one run, which `RunExecution` rules out or shows. A crash in between
  leaves a file nobody names.
- Candidate generation, patch bundles, evaluators, redaction and hashing are
  functions of their inputs with no shared state; what they produce is a free
  choice in the modules, or determined by a record (`Patch`). `compare_runs` reads
  and changes nothing; it takes the aggregate of a run of any status.
- Schemas, models, settings and migrations are declarations: their constraints are in
  the guards, their bounds in the constants.
- The CLI commands other than `scrape` are single requests, or poll a run until it
  ends; the dashboard reads.
