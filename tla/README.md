# A verification development for mo-aiops

mo-aiops is a FastAPI service that collects metrics, logs and traces of Kubernetes
projects, stores the alerts it is sent, lets an LLM agent propose remedies and runs
the approved ones. This directory holds TLA+ modules of the parts in which several
actors write the same state, TLC configurations that check them on small instances,
and theorems about them with proofs for TLAPS. `app/...` below is `src/app/...`.

1. [Inventory](#1-inventory)
2. [Plan](#2-plan)
3. [The modules and the code](#3-the-modules-and-the-code)
4. [The runs](#4-the-runs)
5. [Bounds, deadlock and fairness](#5-bounds-deadlock-and-fairness)
6. [The theorems](#6-the-theorems)
7. [Only model-checked](#7-only-model-checked)
8. [Not modelled](#8-not-modelled)
9. [Where the code and its documents disagree](#9-where-the-code-and-its-documents-disagree)

## 1. Inventory

The process is one asyncio event loop. HTTP handlers, WebSocket handlers, the ingest
worker and the collector run as tasks of it. What they share is PostgreSQL (through
sessions opened per request, READ COMMITTED, one transaction each), Redis (queues,
caches, overrides, publish/subscribe) and a few in-memory objects on `app.state`.

| component | state | operations | meets others through | what is hard | what makes it correct |
|---|---|---|---|---|---|
| alert lifecycle (`alerts/service.py`, `alerts/state_machine.py`, `repositories/alerts.py`, `api/alerts.py`) | `alert_events` | acknowledge, suppress, resolve, batch-suppress, upsert of an ingested alert | rows of `alert_events`, the partial unique index, `audit_logs` | status read without a lock and used after a wait; a batch in one transaction; row locks taken in the order of the request | one active row per fingerprint; no lost occurrence; a user's change is committed with its audit row; batches are all or nothing; closed rows stay closed; every request ends |
| healing (`healing/service.py`, `repositories/healing.py`, `api/healing.py`) | `heal_actions`, the alert's row, `audit_logs` | create_from_decision, approve, reject, execute with retries, verify | calls from RCA, the agent API and the healing API; the executor acts on the cluster | approve against reject; creation races; the executor's effect cannot be rolled back; the alert changes while the executor runs | nothing of high risk runs without approval; one decision counts; a rejection is final; one action per alert and type; a success was called and audited |
| pod restart (`k8s/logs.py`) | `heal_actions` rows without an alert | restart_pod | provider call between two transactions | crash or failure between the transactions | announced before it happens; every success on record happened; row and log agree |
| ingest worker (`alerts/ingest.py`) | Redis list of payloads | BRPOP, normalise, upsert each alert, commit | alert upsert | popped before committed; one bad alert drops its payload | each occurrence is stored at most once, and exactly once without failures |
| agent runs (`agent/*`, `api/agent.py`) | `agent_runs` | trigger, run the graph, finish, accept, reject | healing (accept), alerts (loading) | a run that outlives a decision about it; a run that dies | a finished run stays finished; a decision is not overwritten |
| root cause analysis (`rca/service.py`) | none of its own | execute_fix, summaries | healing | several actions in one transaction | all of them or none |
| audit log (`audit/service.py`, `repositories/audit.py`) | `audit_logs` | record (search: below) | written in the transaction of the caller | - | committed with what it describes |
| collectors and windows (`collectors/*`) | in-memory windows and trace cache, recent logs in Redis | collect, publish, stop | Redis, providers, the readers below | failure of one project or stage; bounds; a flat window | every project is collected again and again; nothing crosses between projects; anomalies fade |
| topology (`topology/service.py`) | Redis cache of the graph | graph, service detail, refresh | trace cache, seeded traces, active alerts | four stores read at four moments; the cache outlives the memory it was made of | no answer has an edge without its nodes or shows another project |
| decision graph (`agent/graph.py`, `agent/nodes.py`) | the state of one analysis | fetch, detect, retrieve, conclude, decide | windows, recent errors, trace cache, the linked alert | the evidence changes between the reads; type and service are picked twice | a proposal has a reason in what was read; the similar cases are those of the conclusion |
| settings (`settings/service.py`, `api/settings.py`) | Redis hash of overrides | read, update | `audit_logs` | intent, effect and outcome are three stores or commits | a value is explained by an announced change; no success that did not happen |
| WebSocket feeds (`ws/*`) | two tasks per connection | forward a queue or a channel | Redis | clients compete for one queue; two tasks, of which one is cancelled; disconnects | no alert to two clients, no message lost for one that listens, no subscription left over |
| users (`repositories/users.py`, `api/users.py`) | `users` | ensure_admin, create, update, delete, ban, unban | `audit_logs` | first requests racing for the administrator's row; rows deleted while they are changed | rows come, change and go with an entry in the log |
| saved queries (`repositories/saved_queries.py`, `api/logs.py`) | `saved_queries` | save, rename, delete | the unique key on names | names that are swapped, deleted and saved at once | names are unique and are what somebody was answered |
| notifications (`notifications/service.py`, `repositories/notifications.py`) | `notifications` | mark one, mark all, list | resets | two requests that lock the same rows; a count and a page in two statements | what was answered as read is read |
| log search (`logs/service.py`, `api/logs.py`) | none of its own | search, histogram | the collector's Redis keys | keys change; the clock is read twice; buckets are computed in floats | each log in one bucket, none lost but those that grew too old |
| audit search and exports (`api/audit.py`, `exports/service.py`) | artefacts in Redis | page, export, download | `audit_logs` while others add to it | pages shift; an artefact is written and limited in two commands | nothing is skipped; what was answered can be downloaded for its hour |
| seed data (`seeds/*`) | rows of five tables, four Redis keys | reset and seed | every table's users, the collector | three commits that are not one; overlapping seeds | whole batches; Redis shows committed ones |
| projects and configuration, providers, authentication, dashboards, migrations | fixed or stateless | reads, HTTP calls | - | - | - |

The hazards behind these columns, each at its line, are listed under `hazards` in
`PROJECT.json`, with the properties that would catch them.

## 2. Plan

| step | modules | abstract specification | status |
|---|---|---|---|
| 1 | `AlertStates`, `AlertLifecycle`, `AlertProofs` | the unique index as a promise: `OneActiveRow` | done |
| 2 | `Healing` (extends `AlertLifecycle`), `HealingProofs` | `HealApproval`: who may be handed to the executor | done |
| 3 | `IngestPipeline` (extends `AlertLifecycle`), `IngestProofs`: queues, worker, payloads of several alerts, crash between pop and commit | a payload is counted once and whole, or not at all: `EachOccurrenceCounted` | done |
| 4 | `AgentRuns`, `AgentProofs`: trigger, analyse, finish, accept, reject, and the heal actions that accept and `execute_fix` create | what is on record was decided: `DecisionExplained`; a fix creates all or nothing: `FixAllOrNothing` | done |
| 5 | `TopologyGraph`, `AgentAnalysis`, `Observability`, `ObservabilityProofs`: the collector, the windows and caches, the topology and the nodes of the analysis | answers are whole: `AnswersClosed`; proposals have a reason: `ProposalBacked` | done |
| 6 | `AuditedChanges`, `Feeds`, `Accounts` | the log explains what is: `ChangesAccounted`, `AccountsAudited`; what is forwarded: `FeedsDeliver` | done |
| 7 | `SavedQueries`, `DemoData`, `Notifications`, `LogViews`, `AuditReports`, composed with those of step 6 by `Console` | `RecordsSound`, `ViewsFaithful` | done |
| 8 | `ConsoleProofs`, and more of `AlertProofs`, `HealingProofs`, `IngestProofs`, `ObservabilityProofs` | every safety property of steps 1 to 5; changes, users, saved queries, demo data and notifications of the console | done |
| 9 | `ReadingProofs`: feeds, log views and reports | `FeedsDeliver`, `RecordsSound`, `ViewsFaithful`, and the type invariants of `Observability` and `Console` | done |

With step 9 every safety and action property that a passing run checks is the statement of a
theorem. Modules to be proved about declare no RECURSIVE operator, and what a theorem has to see through is
no fold either: bounded unions, sets of positions and their cardinalities take their place, for which the
library has facts to cite. (The sums of a z-score are folds; no theorem depends on what they are.) A page of the audit log, for example, is a set of ranks (`PageRows`, by `Rank`), a
histogram's bucket the set of the logs it counts, the evidence of traces a set of items with their
place in the cache, and a payload's effect on a fingerprint the number of places that name it.

## 3. The modules and the code

| module | models | extends |
|---|---|---|
| `AlertStates` | `app/alerts/state_machine.py`: statuses, edges, `ACTIVE_ALERT_STATUSES` | |
| `AlertLifecycle` | alert rows under transitions, batches and upserts | `AlertStates` |
| `IngestPipeline` | the webhook, the queues and the ingest worker on top of the alert rows | `AlertLifecycle` |
| `AgentRuns` | rows of `agent_runs` under the runner, accept, reject and `execute_fix` | |
| `TopologyGraph` | `app/topology/service.py`: the base graph of traces, alert counts, filters, service detail | |
| `AgentAnalysis` | the decisions of `app/agent/nodes.py` as operators on evidence | `TopologyGraph` |
| `Observability` | the collector's task, the windows and caches it fills, the topology and the analyses that read them | `AgentAnalysis` |
| `HealApproval` | what the healing service promises about approval | |
| `Healing` | heal actions on top of the alert rows | `AlertLifecycle`; `HealApproval` by refinement |
| `Feeds` | `app/ws`: the WebSocket handlers | |
| `AuditedChanges` | `update_config` and `restart_pod`: intent, effect, outcome | |
| `Accounts` | the users API and its transactions | |
| `SavedQueries` | saved log queries under their unique key | |
| `DemoData` | `app/seeds`: reset, rows, Redis keys | |
| `Notifications` | reading and marking notifications | |
| `LogViews` | search and histogram over the cached logs | |
| `AuditReports` | paging through the audit log, exports and their artefacts | |
| `Console` | one of these eight at a time | all eight |
| `AlertProofs`, `HealingProofs`, `HealApprovalProofs`, `IngestProofs`, `AgentProofs`, `ObservabilityProofs` | the theorems | the module they are about, and `HealingProofs` and `IngestProofs` also `AlertProofs` |
| `ReadingProofs` | the invariants of those parts of the console that read what others write: feeds, reports, log views | `Feeds`, `AuditReports`, `LogViews` |
| `ConsoleProofs` | the invariants of the other parts, and the theorems about `Console` | `Console`, `ReadingProofs` |
| `MCAlertLifecycle`, `MCHealing`, `MCIngestPipeline`, `MCAgentRuns`, `MCObservability`, `MCConsole` | instances for TLC | the module they instantiate |

### How a transaction is modelled

Both state modules describe PostgreSQL's behaviour the way `AsyncSession` uses it:

- `alerts` and `heal` are the committed rows; `draft` and `hdraft` hold, per row, the
  uncommitted version and the session that owns it. A draft is also the row lock: an
  action that writes a row has the conjunct that nobody else has a draft of it, and is
  disabled, that is, waits, until then.
- A plain SELECT (`repository.get`) reads `Visible`: the session's own draft, or the
  committed row. It takes no lock. `get_for_update` (approve, reject) needs a row without
  a draft and decides in the same step, since `populate_existing` gives it the fresh row.
- A flush writes only the columns that changed, onto the row's latest committed version.
  This is why a lost update of the status does not touch `alert_count`.
- SQLAlchemy flushes before the next SELECT (autoflush). `execute` assigns
  `status = "executing"` and the SELECT of `_mark_alert_healing` sends it (`MarkHealing`);
  the alert's own UPDATE is only sent by the audit row's flush at the end (`Settle`). The
  order decides who waits for whom, so both are actions of their own.
- COMMIT publishes the session's drafts and its audit rows in one step. Leaving the
  `async with` block without a commit, an exception, a cancelled handler, a lost
  connection or the end of the process drop them.
- The partial unique index lets a row become active only if no other row of the
  fingerprint is active or has an active draft (`IndexFree`: a writer waits for a draft),
  and refuses it when another committed row is active (`IndexTaken`).

### `AlertLifecycle`

| action | code |
|---|---|
| `ReceiveTransition` | a POST to acknowledge, suppress, resolve or batch-suppress |
| `ReadAndDecide` | `AlertService.transition` up to `transition_alert_status` (`alerts/service.py:84-90`) |
| `RefuseTransition` | `LookupError` or `InvalidAlertTransition` turned into an `APIError`; the session is rolled back |
| `FlushTransition` | the assignments of `transition` and the flush by `_record_transition_audit` |
| `UpsertExisting`, `UpsertNew` | `create_or_update_active`: the DO UPDATE and the INSERT arm |
| `CommitRequest` | `session.commit()` with the audit rows |
| `AbortRequest`, `AbortDeadlockVictim` | the session ends without a commit |

A request's `pc` is where its handler stands, `ids` what it was asked to change, `seen` the
status it decided on for each id so far. `resolved` stands for `resolved_at IS NOT NULL`
and `count` for `alert_count`. `Absent` is an id no INSERT has used. Titles, labels,
sources and timestamps are left out: no property depends on them.

### `IngestPipeline`

| action | code |
|---|---|
| `Webhook` | `alert_webhook`: LPUSH to the list of the resolved project, then 202 (`api/alerts.py:124-136`) |
| `Poll` | BRPOP returns a payload and a session is opened (`alerts/ingest.py:73-97`); `FirstKey` is Redis's rule that the first key in the order of the call wins |
| `PollReplyLost` | the connection breaks after Redis popped; the loop retries (`:84-87`) |
| `SkipIgnored` | `_alertmanager_alert_to_ingest` returns None |
| `StoreExisting`, `StoreNew` | the upsert of one alert: DO UPDATE, also on a row this payload has already written, and INSERT |
| `Store` | `session.commit()` after the last alert |
| `RejectPayload`, `WorkerIsVictim` | the exception is logged and the loop goes on (`:100-101`) |
| `Crash`, `Start` | the lifespan of the process (`main.py`) |

A worker is a session like any other, so the drafts of `AlertLifecycle` are its row locks.
A payload is a sequence of fingerprints; `Ignored` stands for an alert that is not a
firing or resolved alert with a name, `Rejected` for one whose row PostgreSQL refuses. A
fingerprint stands for a project and a hash, the columns of the unique index. The retry of
a webhook whose LPUSH failed is another payload with the same content. A payload without a
list of alerts is one with the empty sequence.

### `Healing`

| action | code |
|---|---|
| `ReturnExisting`, `DecideToCreate`, `InsertAction`, `InsertConflict` | `create_from_decision` and `HealActionRepository.get_or_create` |
| `Decide`, `RefuseDecision` | `approve` and `reject` |
| `StartExecute`, `RefuseExecute`, `MarkHealing`, `CallSucceeds`, `CallFails`, `Settle`, `SettleConflict` | `execute` |
| `StartVerify`, `RefuseVerify`, `MarkVerified`, `RefuseRecovery`, `Settle` | `verify` |
| `Commit`, `Abort` | the end of the session |

`calls` counts, per action, the calls to the executor. The executor acts on the cluster, so
no rollback changes `calls`. A heal action's `approved` stands for `approved_by IS NOT NULL`.
A failed action is either one whose attempts failed, one rejected, or one whose recovery was
not seen; the module tells them apart as the code does, by `approved` and the audit log.

`execute` and `verify` have no caller in the application: the module lets any session call
them at any time, as a worker or a script would. Approve, reject and create come from the
API handlers.

### `AgentRuns`

| action | code |
|---|---|
| `Trigger` | `run_once` inserts and commits the row (`agent/runs.py:57-64`) |
| `QueryDatabase` | a node of the graph reads: the linked alert, similar runs |
| `Finish` | `AgentRunRepository.finish`, with or without a proposed action |
| `Fail`, `MarkFailed`, `LoseRun` | the handler of a failed analysis (`agent/runs.py:103-119`) |
| `ReadRun`, `ReadFix` | the row is loaded and the request's checks pass (`api/agent.py:141-152`, `rca/service.py:87-122`); one that is refused there changes nothing |
| `SelectAction`, `InsertAction`, `InsertConflict` | `get_or_create` of one heal action: SELECT, INSERT, the unique key violated |
| `ActionsCreated`, `Decide`, `Commit` | `_set_suggestion_status`, the audit row and the commit |
| `Abort`, `DeadlockVictim` | the session ends without a commit |

A run is its status, whether it proposes an action, and the two things that share the column
`node_states`: the steps of the analysis (`nodes`) and the suggestion's status (`decision`). A
heal action is its key, an alert and an action type, with the session that created it; `hold` is
an uncommitted key, for which another INSERT of it waits. What becomes of an action afterwards is
`Healing`. The whole graph is one step: what matters to the row is whether it proposes something,
whether it raises, and whether it had read the database before, because a rollback expires the
attributes of the run in memory (`loaded`) only if a transaction was open (`tx`).

### `Observability`

| action | code |
|---|---|
| `BeginCycle`, `StartProject`, `SkipProject`, `EndCycle` | `run_forever`, `collect_once`, and `collect_project` up to its providers (`collectors/scheduler.py`) |
| `CollectMetric`, `MetricsDone` | one query of `collect_project_metrics` and `MetricWindowStore.add` |
| `CollectLogs`, `CollectRecent`, `SkipLogs` | `collect_project_logs`, `collect_project_recent_logs`: a query and a SET |
| `CollectTrace`, `TracesDone` | one query of `collect_project_traces` and `TraceCache.put` |
| `Publish` | `publish_metrics`; nobody keeps the message |
| `ReceiveView`, `Load`, `Build`, `BuildFromSeed`, `CacheGraph`, `Refresh` | GET and POST of `api/topology.py`: the cached graph, else one of the traces in memory, else one of the seed |
| `Analyse`, `FetchMetrics`, `FetchLogs`, `FetchTraces`, `Detect`, `Retrieve`, `Conclude`, `DecideHeal`, `Raise` | the nodes of `agent/graph.py` in their order |
| `Stop`, `Start`, `ExpireLogs` | the lifespan of the process, the time to live of Redis keys |

All are tasks of one event loop, so an action is what a task does between two awaits.
Memory (`window`, `latest`, `traces`) is lost at `Stop`, Redis (`errors`, `recent`, `topo`)
is not. What Prometheus, Loki and Tempo answer is any member of a constant set, and any call
may fail when `Faults` has `"fail"`. `setup` says which providers a project has; `"broken"`
ones cannot be built. A z-score is compared in integers: `IsFarOff` multiplies both sides by
the size of the window and squares them. A deviation of zero is `Flat`, all values of the window
being equal, the mean then being that value. `same`, in a window, counts equal values in a row; the
code has no such field, `FlagsFade` needs it. The linked alert is loaded by `Detect`, as any
alert it may have become by then, or not at all. `alert_counts` is read before the graph:
`AnswersClosed` quantifies over it.

Three things the code does and the module follows: a metric that is anomalous but not memory is
named by the first metric in the evidence, whichever is anomalous (`NamedByFirstMetric`); the
filter for anomalies drops a service that alerts but has no failed call; and a graph built before
a refresh may be cached after it. No document says otherwise.

### The parts of `Console`

| module | actions | code |
|---|---|---|
| `Feeds` | `Connect`, `ConfigFails` | the checks before `accept` (`ws/common.py:18-44`) |
| | `Subscribe`, `Serve`, `Receive`, `IgnoreFrame`, `ReceiveWithFrame`, `NoticeLeft` | the loop over the client's task and Redis's (`ws/alerts.py:38-85`, `ws/common.py:59-107`, `ws/healing.py:50-122`), by which of the two is done |
| | `Deliver`, `SendFails`, `RedisFails`, `CancelHandler`, `TearDown` | `send_json`, the exceptions, `finally` |
| `AuditedChanges` | `BeginConfig`, `BeginRestart` | what is checked and read before anything is written |
| | `RecordIntent`, `WriteOverride`, `CallProvider`, `RecordOutcome` | first commit, HSET or `provider.notify`, second commit |
| | `IntentFails`, `OutcomeLost`, `LoseChange` | what goes wrong in between |
| | `DeleteRestarts`, `DeleteTrail`, `CommitWipe`, `UndoWipe` | the two DELETEs of `_reset_project` that concern a restart, their commit, their rollback |
| `Accounts` | `LookForAdmin`, `AddAdmin`, `AddAdminConflict` | `ensure_admin` |
| | `ReadUser`, `InsertUser`, `WriteUser`, `SkipWrite`, `WriteMissing`, `CommitUser` | the operation, its flush, its audit row and the commit |
| | `EraseLog`, `EndErasing` | the DELETE of the audit rows in `_reset_project`, and how its transaction ends |
| `SavedQueries` | `ReadQuery`, `LockQuery`, `KeyQuery`, `KeyConflict`, `BreakSwap` | SELECT, row lock, entry into the unique key, its violation, the deadlock detector |
| `DemoData` | `DeleteTable`, `CommitReset`, `InsertAlerts`, `InsertRuns`, `InsertRest`, `CommitBatch`, `WriteKey` | `seed_demo` in its order |
| `Notifications` | `ReadNotes`, `WriteNote`, `NoteVanished`, `CountUnread`, `ListRecent` | `mark_read`, `mark_all_read`, `list_recent` with its count |
| `LogViews` | `ReadRecent`, `ReadErrors`, `FilterLogs`, `DrawHistogram` | `_read_recent_logs`, `_filtered_logs`, the rest of `histogram` |
| `AuditReports` | `CountEntries`, `ReadPage` | the two statements of `search` |
| | `SaveExport`, `LimitExport` | HSET and EXPIRE of `ExportStore.save` |

Uncommitted versions are row locks here, too. Three details are decided as the libraries behave: an
UPDATE by primary key that matches no row raises `StaleDataError`, a DELETE only warns; a unit of
work that changed nothing flushes nothing and waits for nobody (`SkipWrite`); an INSERT or UPDATE that
enters a name into a unique key waits for every open transaction that has, had or will have that name
(`NameOpen`). A BRPOP that is cancelled takes its reply with it, a cancelled read of a
subscription does not. Messages are told apart by who produced them and when, not by their
text: `FeedAssumption` has each at one place of one script, so that a message shown twice is one
message delivered twice. Python's `int(offset / width)` may fall one short for a time on a bucket's boundary:
`DrawHistogram` lets it, for any set of such times (`Boundaries`).

`Console` is a sum, not a product: `part` is chosen in `ConsoleInit` and never changes, and only its part
moves. The parts share no table and no key; what a reset does to another part's rows, and what
everybody adds to the audit log, is an action of the part that has the rows (`DeleteRestarts`, `DeleteTrail`,
`CommitWipe` and `UndoWipe` of `AuditedChanges`, `EraseLog` and `EndErasing` of `Accounts`, the operation `reset` of
`Notifications`, `ResetLog`, `CommitLogReset` and `FlushEntry` of `AuditReports`). `_reset_project` runs its DELETEs one after the
other under READ COMMITTED, each with its own snapshot; where a part has rows of two of the tables, as
`DemoData` and `AuditedChanges` do, they are separate actions. A step of one part is then independent
of every step of another, no property relates two parts, and a product would only repeat each
state of one part for every state of the others.

### `HealApproval`

Each action has a gate, `none`, `waiting`, `rejected` or `cleared`, and a number of calls.
`Healing` implements it under `gate <- GateOf(heal[h])`: uncommitted rows do not count, the
insert of an action is a `Propose`, the commit of a decision an `Approve` or `Reject`, and a
call of the executor a `Call`. Every other step is a stutter.

## 4. The runs

| run | question | shows |
|---|---|---|
| `alerts` | Do transitions, batches and upserts interfere? | `OneActiveRow`, `BatchAllOrNothing`, `ClosedRowsStayClosed`, `NoIngestLost`, `TransitionsAudited` hold for three requests on three rows, under every interleaving, abort and deadlock |
| `alerts_lost_update` | Is a committed status an allowed successor of the one before? | no: `TransitionsValidated` is violated (section 9) |
| `healing` | Does the approval gate hold when requests race? | `ApprovalGate`, `OneDecision`, `RejectionFinal`, `OneActionPerAlertAndType`, `SuccessIsAudited`, and `ImplementsApproval`, for five requests on two ids of one alert and type |
| `healing_alerts` | Do healing, the API and ingestion disturb each other on the alert rows? | `TreatedAlertsWereCalled`, `ResolutionExplained` (and `OneActiveRow`, which is proved of the composition) |
| `requests_end` | Is every request answered? | `EveryRequestEnds`, `EveryHealRequestEnds`: also when two batches lock two rows in opposite orders and healing holds one of them, thanks to the database's deadlock detector |
| `healing_repeated` | Is an action executed at most `max_retries + 1` times? | no: `CallsBounded` is violated (section 9) |
| `ingest` | What becomes of an accepted payload? | `EachOccurrenceCounted`, `StoredInOrder` under crashes, lost replies, bad alerts and deadlocks with batches |
| `ingest_liveness` | Is an accepted payload stored? | `AcceptedIsStored`: yes, if nothing crashes and no reply is lost, whichever queue it is in; a bad payload costs only itself |
| `agent_runs` | Do the runner, its users and fixes disturb each other? | `DecisionExplained`, `FixAllOrNothing`, `FinishedRunsStay` and `EveryAgentRequestEnds` for one analysis, a decision and two fixes |
| `agent_raised` | Is a run marked failed when its analysis has raised? | no: `RaisedRunIsFailed` is violated (section 9) |
| `observability` | Do collection, restarts, failures and readers disturb each other? | `NothingCrosses`, `FlagsFade`, `AnswersClosed`, `ProposalBacked`, `CasesMatchConclusion` and `EveryProjectCollected` for two projects and one request |
| `console` | Do the requests of the console keep what they promise when they overlap, fail or are reset? | `FeedsDeliver`, `ChangesAccounted`, `AccountsAudited`, `RecordsSound` (saved queries, demo data, notifications, reports), `ViewsFaithful` (logs) and `ConsoleRequestsEnd`, each for two or three requests on the same rows, keys and names |

What the properties of `console` say in more detail, part by part, is in their modules. Some are
conditional because the code promises no more: an alert popped for a client that leaves, or sends a
frame at that moment, is lost (`ListenersMissNothing` speaks of the others); a batch of demo data committed
while a reset is open may lose rows (`BatchesWhole`); whoever pages through the audit log during a
reset may miss an entry that survived it (`NothingSkipped`); a restart that commits its intent after a reset
has deleted the heal actions and before it deletes the audit rows keeps its row and loses its entry
(`RowsMatchTrail` excepts the restarts in `amid`); a range without an end loses the logs that grow too old
between the two readings of the clock (`HistogramComplete`). What is said of the audit rows of changes and
of users is said of all that were ever committed, those that resets have deleted since (`wiped`, `erased`)
included: users outlive a reset, their entries do not. Each page of a log search is a request that reads
Redis and the clock anew, so nothing is promised of pages together and nothing is checked: a log may be on two
pages or on none.

`AcceptedIsStored` has finitely many payloads. It shows that neither a bad payload nor a failed transaction keeps
the worker from those behind it; it does not show that BRPOP's order of keys is fair. It is not: a first queue that
never runs empty would starve the others.

`ClosedRowsStayClosed` is a property of the API and the upsert alone. It does not hold of the
composition: `execute` decides on a status it read before it called the executor, and may
write `healing` over a row that was closed meanwhile; `_mark_alert_failed` assigns `failed` without
asking the state machine at all. The cause is the stale read that `alerts_lost_update` shows, so
no run repeats it.

## 5. Bounds, deadlock and fairness

Every request is served once, so the number of requests bounds every run. The ids a run may
give out (`FreshIds`) and the resets that may delete restarts (`MaxWipes`), both named below, are the only
other bounds; there is no state constraint.

- `alerts`: three requests. Two are enough for a race; the third lets a fingerprint be closed,
  fire again and be changed by a stale request. Rows `a1`, `a2` share a fingerprint, `b1` has
  another; `IdLists` has single ids, two batches in opposite orders and a batch that repeats an
  id. A row starts absent, firing or processing.
- `healing`: five requests on `h1`, `h2`, which are ids for the same alert and type: create
  twice, or create, approve, reject, execute twice. `MaxRetries = 1` has a first and a last
  attempt.
- `healing_alerts`: four healing requests (create, approve, execute, verify) against two alert
  requests on two rows of one fingerprint, `MaxRetries = 0`.
- `ingest`: four payloads, posted in any order; one names both fingerprints in the opposite
  order of the batch, with an alert to skip between them, one names a fingerprint twice, one
  has a bad alert behind a good one, one is for the project that BRPOP serves second. Two rows
  per fingerprint let it fire again after a user closed the first row. One transition or batch
  is enough to close a row the worker waits for and to deadlock with it. There is one worker:
  the image runs uvicorn with one process and the chart one replica. `StoredInOrder` depends on
  it, and `OneWorkerStoresInOrder` assumes it; the other theorems do not.
- `ingest_liveness`: single transitions only, so that no deadlock costs a payload, and
  `Faults = {}`. With crashes or lost replies the property is false by design: BRPOP removes
  the payload before the transaction, and no document promises otherwise.
- `agent_runs`: one row, absent, running or completed at the start, one runner, one user who
  accepts or rejects, two users who fix; two actions `x` and `y`, of which the run proposes `x`, and the
  fix lists `x y` and `y x`, which can deadlock. An absent row is one that the runner creates; a running one is left over by a
  process that ended. One row is enough: no action relates two runs. The unique keys are what the
  requests share beyond it.
  A second decider makes the run too long for its liveness property; the theorems of section 6
  hold for any number.
- `observability`: two projects in the order `j1 j2`, in four set-ups: `j1` with logs and traces and
  `j2` with seeded traces only; `j1` with logs and no traces before `j2` with both, so that ids left
  over would be found; `j1` with metrics; `j1` broken before a `j2` with metrics and logs. Windows of
  two samples, values 0, 1 and 5: flat windows, windows whose spread hides 5 and windows whose spread
  does not. A trace cache of one for two traces. One request, a topology or an analysis: requests do
  not write what another reads except the cached graph, which `Refresh` and the TTL change at any
  time, too. `Faults` has failing calls and restarts.
- `requests_end`: two healing requests of one action and two alert requests on two rows, with the
  batches `a1 b1` and `b1 a1`. `MaxRetries = 1`. Liveness runs use no symmetry.
- `console`: each part has two or three requests that want the same things. Feeds: two clients of one
  project, one of whom may also be refused or ask for another project; two alerts in the shared queue,
  four messages on the healing channel, one about another action and one unreadable. Changes: two requests, each a
  restart or what `ConfigAsks` lets it ask for, the first a key at high risk or an unknown one, the second that key with
  another value or the other key; `MaxWipes = 1` reset, which is enough to tear a row from its entry, and one reset at a time. Accounts:
  three requests on the administrator and one user, any number of resets. Saved queries:
  three calls on two names, which two renames can swap, and a set of ids from which a new query takes one that is
  not used (`FreshIds`, a bound on the saves). Demo data: two seeds with a reset each. Notifications:
  three requests on three rows. Logs: one view, a clock of five seconds, snapshots with logs on the
  boundaries and without time, one to three buckets. Reports: one client, three entries, pages of one and exports of
  two. Two requests are enough for every race the code has; a third lets a row or a
  name that was given up be taken again.
- Symmetry permutes requests only. They are interchangeable in Init and Next and no safety
  property names one.

`CHECK_DEADLOCK FALSE` is in every configuration but that of `observability`, where the collector never stops, because the system really stops when every
request is served. That nothing stops earlier is what `EveryRequestEnds` and
`EveryHealRequestEnds`, `EveryAgentRequestEnds` and `ConsoleRequestsEnd` say. An idle worker waits in BRPOP for ever; that it does not wait while
a payload is there is what `AcceptedIsStored` says.

Fairness is weak fairness of what a handler does next when nothing blocks it (`ServeRequest`,
`Serve`, also of `AgentRuns`): the event loop runs ready tasks and PostgreSQL grants a lock when its holder ends and
breaks deadlocks after a second. What approve and reject do first is to lock the action's row, and a
request that waits for that lock has not begun in `Healing`: of this one wait `EveryHealRequestEnds` says
nothing, of all others it does. It is not assumed that anybody sends a request or that one is
aborted. For an
analysis it includes that the graph returns or raises (each LLM and provider call has a timeout).
For healing it includes that the executor answers: `execute` awaits it without a
timeout. The worker's step (`WorkerStep`) is weakly fair too: its loop has no exit but the end of the
process, and after every exception it goes on. So is the collector's (`CollectorStep`), whose calls
have timeouts and whose exceptions are caught per stage, per project and per cycle; a process that
stopped is started again. In `Console`, fairness is of the handlers (`FeedFairness`, `ChangeFairness`,
`AccountFairness`, `QueryFairness`, `DemoFairness`, `NoteFairness`, `ReportFairness`): a coroutine is resumed when what it waits for
is there. `ChangeFairness` includes that a reset which has deleted rows goes on (`GoOnWiping`), since a request
may wait for them. A client is never obliged to leave, nor a key to expire. Log views need none: they wait for nobody. Weak fairness is enough because a request waits for a row only once, each holder of a
row ends, and the instance has finitely many requests.

## 6. The theorems

All are for every value of the constants that satisfies the assumptions of their modules
(`AlertAssumption`, `HealAssumption`, `IngestAssumption`, `AgentAssumption`, `ObservabilityAssumption`,
`ChangeAssumption`, ...), which say what type a constant has, that ids of different kinds differ,
that metrics, projects and the names saved at the start are distinct, and that some set is finite where a count is taken:
any sets of rows, requests and sessions, any id lists, any number of retries, any payloads and projects. Two theorems have a
hypothesis of their own, `TreatmentNeedsCall` and `OneWorkerStoresInOrder`; it is in their row.

| theorem | statement | argument |
|---|---|---|
| `AlertTypeCorrect` | `AlertSpec => []AlertTypeOK` | not inductive alone: `seen` indexes `ids`. `AlertInv` adds `PositionOK`: a request has read no more ids than it carries, fewer while it reads, at least one while it flushes, and only transitions read |
| `Deduplication` | `AlertSpec => []OneActiveRow` | a commit publishes drafts, so the claim is made for committed rows and drafts together: `OneClaim` says that no two rows of a fingerprint are active in either form. A transition's draft never is active; an upsert that makes one is guarded by `IndexFree` or continues an active row |
| `ClosedRows` | `AlertSpec => ClosedRowsStayClosed` | only a commit changes committed rows, so the invariant is about what it will publish: `ActiveDraftOK`, an active draft belongs to a row that is active or unused |
| `BatchesAreAtomic` | `AlertSpec => []BatchAllOrNothing` | a commit adds an audit row per draft, so it must be known that a request has a draft for every id it has been through: `Explained`, below |
| `TransitionsAreAudited` | `AlertSpec => TransitionsAudited` | by `Explained`, a status that a commit publishes is one its request has flushed and will audit |
| `IngestsAreCounted` | `AlertSpec => NoIngestLost` | by `Explained`, the draft of an upsert is the committed row with one more occurrence, that of a transition has the committed row's |
| `HealTypeCorrect` | `Spec => []HealTypeOK` | |
| `ApprovalRequired` | `Spec => []ApprovalGate` | from `HealInv`, below |
| `SingleDecision` | `Spec => []OneDecision` | |
| `RejectionIsFinal` | `Spec => []RejectionFinal` | |
| `ApprovalRefinement` | `Spec => ImplementsApproval` | `Init` maps to `GateInit`; each action to one action of `HealApproval` or a stutter, by `HealInv` |
| `DeduplicationWithHealing` | `Spec => []OneActiveRow` | `OneClaim` is kept by the healing actions: `Settle` has the index in its guard exactly when it makes a row active |
| `UniqueActions` | `Spec => []OneActionPerAlertAndType` | `OneTaken`: committed rows and uncommitted ones together have one per alert and type, because an INSERT waits for the key of another |
| `SuccessesAreAudited` | `Spec => []SuccessIsAudited` | `OutcomeInv`: a request that is about to commit a success has called the executor and carries the entry, and a verification starts from a success on record |
| `TreatmentNeedsCall` | `ASSUME SeedStatuses \cap {"healing", "failed"} = {} PROVE Spec => []TreatedAlertsWereCalled` | `TreatedInv` says it of drafts, too. Without the hypothesis it is false at the start: a seeded alert may be under treatment, and `heal_actions` is empty |
| `ResolutionsExplained` | `Spec => ResolutionExplained` | `SettledInv`: the alert's draft of a healing request is what `Settle` made of the row as it is now; together with `Explained` for those of users |
| `IngestTypeCorrect` | `Spec => []IngestTypeOK` | the bound on `next` is kept because only an alert within the payload advances it |
| `DeduplicationWithIngest` | `Spec => []OneActiveRow` | `OneClaim` again: a worker writes a row only under the index, or one that is active already |
| `OccurrencesAreCounted` | `Spec => EachOccurrenceCounted` | `DraftsCounted`: of each fingerprint, the drafts of a worker carry as many occurrences as there are among the alerts it has looked at, all in one active row (`Counted`), and the drafts of a request carry the committed count. A second occurrence finds the row of the first because `OneClaim` leaves no other active row; a commit looks at the end of the payload, where what was looked at is all of it |
| `OneWorkerStoresInOrder` | `ASSUME NEW only, Workers = {only} PROVE Spec => []StoredInOrder` | `OrderInv`: what is stored of a project was accepted before what its worker holds, and that before what its queue holds, from the tail on. Two workers may commit in either order |
| `AgentTypeCorrect` | `Spec => []AgentTypeOK` | the position in the list of actions stays inside it because an INSERT follows a SELECT of the same action |
| `DecisionsExplained` | `Spec => []DecisionExplained` | from `AgentInv`, below |
| `FixesAtomic` | `Spec => []FixAllOrNothing` | |
| `FinishedRuns` | `Spec => FinishedRunsStay` | |
| `AnswersAreClosed` | `Spec => []AnswersClosed` | `GraphsClosed`: every graph in Redis or in a request is closed, and a request that has begun knows its project. The lemmas about `BaseGraph`, `WithAlertCounts` and the filters do the rest, for any set of traces and alerts |
| `ProjectsStayApart` | `Spec => []NothingCrosses` | from `StoresSound`, below |
| `AnomaliesFade` | `Spec => []FlagsFade` | from `StoresSound`: `WindowSound` says that the last `same` values of a window are equal, so that one which has filled it is compared with itself |
| `ProposalsAreBacked` | `Spec => []ProposalBacked` | `RunsSound`: until an analysis concludes, only the alert has named its type; then `PickedTypeBacked`, that `_pick_anomaly_type` names what is there |
| `CasesAreForTheConclusion` | `Spec => []CasesMatchConclusion` | `RunsSound`: between `Retrieve` and `Conclude` nothing that the two picks read changes |
| `ObservabilityTypesHold` | `Spec => []ObservabilityTypeOK` | `StoresSound` has the types of the collector and the windows; `TypesSound` has those of caches, graphs and requests, and that a request which has begun knows its project, without which a graph could be looked up for none |
| `ChangesAreAccounted` | `ConsoleSpec => []ChangesAccounted` | `ChangeInv`, below |
| `AccountsAreAudited` | `ConsoleSpec => []AccountsAudited` | `AccountInv`, below |
| `QueriesAreSound`, `DemoDataStaysWhole`, `MarksAreKept`, `ReportsAreSound` | `ConsoleSpec => []QueriesSound`, `[]DemoDataSound`, `[]NotificationsSound`, `[]ReportsSound` | `QueryInv`, `DemoInv`, `NoteInv`, `ReportInv`, below |
| `RecordsAreSound` | `ConsoleSpec => []RecordsSound` | the four together |
| `ConsoleFeedsDeliver` | `ConsoleSpec => []FeedsDeliver` | `FeedInv`, below |
| `ViewsAreFaithful` | `ConsoleSpec => []ViewsFaithful` | `LogInv`, below |
| `ConsoleTypesHold` | `ConsoleSpec => []ConsoleTypeOK` | the eight invariants together, since a step of one part leaves the others alone |
| `CallsNeedClearance` | `GateSpec => []CalledOnlyIfCleared` | inductive with the type invariant |

`HealInv` is the type invariant and `GateInv`, which has three parts. `RowSound` relates a
committed action's gate to its approver, its calls and its audit rows. `DraftSound` says what
operation an uncommitted version can come from, and how it differs from the row it replaces
(`WriteSound`); without it the commit would be a step about which nothing is known. `RequestSound`
says which operation can stand at which point, that a request which has written its action's row
still owns the draft (`Holding`), and that the action of a running `execute` or `verify` is
cleared. The last is what the lock-free read of `execute` rests on: it may read `pending` from a
row that has changed since, but no action leads out of `cleared`, so a stale `pending` is still a
cleared action. The same fact maps every step to a step of `HealApproval`.

`AgentInv` is the type invariant, `DecisionExplained` and five parts. `RunnerSound`: the run of a
runner is running until that runner commits, which is what makes `finish` and `finish(failed)` the
only ways out of `running`. `RoleSound`: which kind of session can stand where. `DraftSound`: an
uncommitted version of a run is either its runner's or a decider's that differs from the committed
row in `node_states` only, and then its owner is about to commit. `CreationSound`: all actions
before the request's position exist or are held by it, and a session that has not committed has
created nothing. `HoldSound`: a held key belongs to a request that is still open, and what a fix
has created is there because the fix is done. Together they make `Commit` publish only what the three properties allow.

`Explained` says, of every alert request, what its drafts are: rows of ids it has been through, each
the latest committed version with the one change the request makes (`WrittenBy`), and how many of them
there are at each point; and that its entries in the log are none until it commits and all of them
after. It is not implied by the types, and none of the three properties is inductive without it: a commit
publishes drafts and adds entries, and nothing else relates the two.

`StoresSound` has five parts. `MetricsSound`: windows are at most `MaxLen` long and end in as many
equal values as `same` says, and `FlagsFade`. `CollectorSound`: what the collector holds at a project are
ids that this project's logs have named and samples that still are that project's latest, since every metric of a
cycle is another one. `TracesSound`: a cache holds bodies of traces its own logs have named.
`GraphsClosed`, as above, and `GraphsOwn`: graphs in Redis and in requests show the project's own services.
The collector's part is what `NothingCrosses` rests on: one task goes round all projects with the
same variables, and `StartProject` clears them.

Five parts of the console each have an invariant of the same form: types, a statement about what
each request has read, written without commit or locked at each of its points, and the properties. `ChangeInv`: a
request's entries, those that resets have deleted included, are the ones its position implies, and a value in Redis was asked for by
a request that had announced it; and of an open reset (`WipeSound`), what it has deleted so far belongs together: the entries of a restart whose row it
has deleted were all committed before its second DELETE, because recording more waits for the row, and a row it has not
deleted has either no entry among those it has or is in `amid`. `AccountInv`: an uncommitted row (`HeldSound`) differs from the committed one as its
request's operation says, a request that only reads holds nothing, entries and rows are counted together. Its entries are those of `Logged`,
which a reset moves between two sets and does not change (`LogIsErased`). `QueryInv`:
a renamed or new row belongs to a call that is still open, and a name that is entered in the unique key is held
(`KeysHeld`). `DemoInv`: which tables a seed has deleted, filled or committed at each of its points, and that
resets that overlap delete different rows (`ResetsApart`). `NoteInv`: who holds a row's lock has not written it yet.
`StepOfOnePart` then makes a step of `Console` a step of one part and a stutter of the others.

The three that read have invariants about what they have read so far. `FeedInv` gives each feed a horizon, how
much of what was produced has been handed out: the list of alerts is what lies behind it
(`QueueSound`), what a client has seen and has on its way lies before it, in its order (`MessagesSound`), what
it was popped is disjoint from what others were (`DueApart`), and one that listens has missed none
(`NothingMissed`). A handler's step leaves what is on the way alone, sends or drops its first message, or
drops all of it; each has one lemma. `ReportInv` counts ranks, the place of an entry among those selected, newest
first: what was there and is not shown lies behind the page that is read next (`PagesSound`), and each
entry added pushes at most one other over a page's end, so that rows to be shown again are paid for by rows
added (`RepeatsSound`). A reset spoils this only for entries it deletes together (`LogResetSound`).
`LogInv` says that a view has kept what matched at one reading of the clock (`KeptSound`) and that a histogram was
drawn at that or a later one (`DrawnSound`); that every log then falls into exactly one bucket is arithmetic, by the
lemmas on quotients and for any set of times whose quotient is rounded down.

## 7. Only model-checked

- liveness (`EveryRequestEnds`, `EveryHealRequestEnds`, `AcceptedIsStored`,
  `EveryAgentRequestEnds`, `EveryProjectCollected`, `ConsoleRequestsEnd`): fairness and ENABLED are outside what
  the proof system handles;
- the three properties that are violated (section 9), of course;
- that the bounds and the fairness of section 5 let the interesting cases happen: that is what the runs are
  for, not the theorems;
- what a recursive definition computes for every input would stay with TLC too; the modules so
  far have none.

## 8. Not modelled

Inside the modelled components:

- rows inserted by the demonstration seeds. They contain high-risk actions that run without an
  approval; `Init` has no heal actions, as a fresh installation does;
- `related_heal_action_id`, `retry_count`, operators, reasons and timestamps other than whether
  `resolved_at` is set; medium risk, which the code treats as low;
- actions without an alert in `Healing`: only `restart_pod` creates them (`AuditedChanges`);
- summaries, confidence, timelines and node states of an analysis, prompts and RAG ranking;
- latencies and counts on the edges of a topology, and the pages of alerts, logs and metrics of a
  service;
- a stop of the collector that comes before its task first ran (`run_forever` clears the flag): the
  lifespan cancels the task, too;
- that a trigger over the API carries no alert id, so that only runs started by other callers of
  `run_once`, or seeded, can be accepted or fixed: `AgentRuns` lets any run propose an action;
- the loop of the worker when no project is enabled, keys it does not recognise, and what a
  fingerprint is computed from; that Alertmanager's resolved alerts are stored as firing is the
  code's normalisation and leaves the model's rows as any other upsert does;
- deletion of alerts, heal actions and runs. Only a reset deletes them (`_reset_project`, `seeds/service.py:131-136`), with the project's audit rows and
  notifications. `DemoData`, `AuditedChanges`, `Accounts`, `Notifications` and `AuditReports` have it; `AlertLifecycle`, `Healing`,
  `IngestPipeline` and `AgentRuns` have not. What these say of rows and of the log (`TransitionsAudited`, `SuccessIsAudited`, `ResolutionExplained`,
  `DecisionExplained`, `EachOccurrenceCounted` and the others) therefore holds from one reset to the next;
- evidence that changes while an analysis reads it is modelled, but what it has read is its own: `ProposalBacked` and `CasesMatchConclusion`
  speak of that mixture of four moments, not of the stores at any one of them;
- two resets that overlap, except in `DemoData`, where they do.

Of the console: the queries for pods, events and deployments and the log stream; user statistics and
filters; the bounds of time in an audit search (a range is computed again for each page, so that an
entry may leave it); the pages of a log search, each a request of its own on what is in Redis by then; CSV, JSON
and file names.

Authentication (tokens are signed and checked, nothing is stored), dashboards, providers,
configuration, migrations, prompts and RAG ranking stay out: they are reads, values or pure
I/O with no state that two actors share.

## 9. Where the code and its documents disagree

- **Transitions are validated against a stale status** (`alerts_lost_update`).
  `app/alerts/service.py:83` promises a move "after state-machine validation". The status is read
  by a plain SELECT at line 84 and the UPDATE at the flush waits for other writers and then
  overwrites them. One user resolves an alert, another one acknowledges it: both read `firing`,
  and the alert ends up acknowledged.
- **An action may be executed again** (`healing_repeated`). `app/healing/service.py:126` speaks of
  "retrying failures up to max_retries times", and `docs/codebase/data/README.md:50` of a unique
  constraint that prevents repeated healing. Two `execute` calls both read `pending`, the second
  runs the executor again after the first has committed; or a transaction fails after the executor
  acted and the action is pending again. The constraint prevents a second row, not a second call.
- **A failed analysis may stay running** (`agent_raised`). The test
  `test_agent_runner_marks_failed_run_and_preserves_original_error` (`tests/test_agent_api.py:124`)
  states both halves of its name; its graph fails before any SQL. When a node has read the database
  first, as `rag_retrieve_node` does, the rollback at `agent/runs.py:104` expires the run, and
  `run.id` at 107 needs a load that async SQLAlchemy refuses outside of an awaited call. The handler's
  own `except` reads `run.id` again, at 118. The row stays `running` and the caller sees the
  wrong error.
- **A decision may be undone by the analysis** (no run of its own: `Finish` of `AgentRuns` does what
  the code does). A suggestion's status is a key of `node_states`; reject accepts a run in any
  status, and `finish` assigns `node_states` whole. Rejecting a running run is answered with success, audited,
  and forgotten when the run completes, while `tests/test_agent_api.py:467` says that accept and reject
  persist the status.
- **A log on a bucket's boundary may be counted in the bucket before** (no document says in
  which it belongs): with a window of two seconds and 198 buckets, the one at second 1 is.
