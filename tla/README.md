# A TLA+ model of the identity attack graph

The program (Go, Postgres, NATS JetStream, Redis) takes inventory of machine identities,
projects them into a graph, scores them, detects problems and alerts on them. It has few locks
and few transactions: its processes meet in the tables, one SQL statement at a time, and most of
its guarantees come from the order of statements and from unique indexes. The models here are
about that: what several processes, retries, failures and crashes can do to the shared rows.

Paths are relative to the repository. Each module says in its header which code it models; each
property says which behaviour it is about.

## 1. Inventory

| Component | State | Operations | Meets the others through |
|---|---|---|---|
| Finding store (`internal/store/findings.go`, `api_repos.go`, `migrations/`) | `findings` (fingerprint, severity, status, `alerted_at`), `suppressions` | `Upsert`, `UpdateStatus`, `ClaimUnalerted`, `MarkAlerted`, `Create`, `ListActive` | SQL from worker and API |
| Detection passes (`cmd/worker/main.go`, `internal/detect`) | what a pass read: identities, suppression list, findings not yet upserted | `runDetection`, `runExposureFindings`, `runSecretFindings` | finding store, inventory |
| Alert sweep (`cmd/worker/alerts.go`, `internal/notify`) | rows claimed, `alerted_at` | claim, send, stamp | finding store, Slack or a webhook |
| Finding API (`internal/api`) | none of its own | `UpdateFinding`, `SuppressFinding`, `Collect`, weights, remediation | finding store, queue |
| Collector harness (`internal/collectors/collector.go`) | `collector_state` (cursor), `collector_runs`, `usage_events`, inventory | `Run` | queue consumer, CLI loop, CronJob, API goroutine |
| CloudTrail reader (`internal/collectors/aws/cloudtrail.go`) | none; the cursor it is given | `collectCloudTrail` | harness |
| Job queue (`internal/queue`) | a JetStream work queue | publish, deliver, ack, nak, redeliver, age | API, worker |
| Worker cycle (`cmd/worker/main.go`) | ticker, the cycle's identities | graph, score, detect, alert | everything above |
| Remediation (`internal/remediate`, `store/misc.go`) | `remediation_actions` (status, risk delta) | `Recommend`, upsert, `UpdateStatus`, reduction total | detection, API |
| Graph projection (`cmd/worker/graphbuild.go`) | `graph_nodes`, `graph_edges` | `projectGraph` | inventory, graph engine |
| Graph engine (`internal/graph`) | an in-memory graph | blast radius, trust depth, attack paths | score job, API |
| Risk engine (`internal/risk`) | weights in `config` | `Score`, `LoadWeights` | score job, API |
| Authentication (`internal/auth`) | the cache of signing keys | `key`, `refresh` | API middleware |
| Rate limiter (`internal/ratelimit`) | a Redis counter per client and window | `Allow` | API middleware |
| Migrator (`cmd/migrate`) | `schema_migrations` | `up`, `status` | everything |
| AWS, GCP and Kubernetes collectors (`internal/collectors/aws`, `gcp`, `k8s`) | a batch of records per run | classify grants, federate, `upsertAll` in `collector.go` | harness, each other's rows |
| Repository and fixture collectors (`repo`, `fixture`) | none | map a report or a file to rows | harness |
| Export, GraphQL, simulator, configuration, metrics, tracing, logs, web UI, deployment | none that decisions depend on | | |

What is hard, component by component:

* **Findings.** A pass decides on a suppression list it read minutes ago; operators close,
  re-open and suppress rows while it runs; two workers may overlap during a roll-out. The
  only arbiter is the partial unique index on open fingerprints. Correct means one open row
  per fingerprint, verdicts that stay, conditions that do not vanish, suppressions that hold.
* **Alerts.** Sending and stamping are separate steps, the claim is a plain `SELECT`, and an error
  of `Send` says nothing about whether the sink got the message. Correct means nothing stamped
  unsent, nothing forgotten, everything flushed once the sink recovers.
* **Collection.** The cursor is read at the start of a run and written at its end, by any of
  four callers at once, and what lies between may fail or die. The code leaves some events out
  knowingly (page cap, lookback, failed inserts). Correct means that no interleaving, crash or
  redelivery loses another one, behind the cursor or before an acked request, and no duplicates.
* **Queue.** Delivery is at least once, after five minutes of silence again, for a day at most.
* **Scoring and detection of one identity.** A job reads seven tables and the graph, one query at
  a time, while collectors write them; an error of a query is dropped and taken for an empty
  answer. The scorer and the detectors judge the same facts with code of their own. Correct means
  a stored score that the rows can explain, that settles when they do, and findings and recommended
  actions that agree with it.
* **Remediation.** Each pass upserts the actions an operator is working through, one statement
  after the other. Correct means decisions that stay, no fix that is projected to raise the risk, and
  complete actions in the end.
* **Inventory.** Collectors of different providers own parts of one row and refer to rows of each
  other; an upsert that fails leaves a hole that foreign keys turn into more. Correct means levels
  that settle on what the provider grants and federation edges that lead somewhere.
* **Requests.** Refreshes of the key set overlap and finish in any order; the limiter's counter
  and its expiry are two commands, and its name comes back every day. Correct means no token
  accepted by a key long withdrawn, no client over its limit, and an answer to every request.
* **Migrations.** No lock is held from reading the applied set to applying the next file. Correct
  means each file once, in order, and an exit code that tells the truth.

`PROJECT.json` lists every component, and under `hazards` every place of this kind by line.

## 2. Modules

| Module | What it is |
|---|---|
| `FindingStore` | the two tables and each SQL statement on them as an operator, `ON CONFLICT` and unique index included |
| `AlertOutbox` | abstract: what alerting promises of a set of items, with no worker, batch or status in it |
| `FindingPipeline` | worker and API over `FindingStore`; refines `AlertOutbox` |
| `FindingPipelineProofs` | theorems of `FindingPipeline` |
| `MCFindingPipeline` | the constant functions and the symmetry its runs use |
| `Collection` | the harness, the CloudTrail reader, the queue and its consumer |
| `CollectionProofs` | theorems of `Collection` |
| `GraphEngine` | the breadth-first traversal and what the blast radius, the trust depth and the attack paths make of it |
| `GraphEngineProofs` | theorems of `GraphEngine` |
| `MCGraphEngine` | the small graphs its runs try |
| `RiskScore` | the six factors, their weighting, the rounding and the urgency |
| `RiskScoreProofs` | sums, the scorer and the fixes for every input; lemmas and theorems of `RiskScore` and `Remediation` |
| `Detectors` | the sixteen detectors, their fingerprints and their order; over `RiskScore` |
| `Remediation` | catalogue, mutations, projected scores and the table of actions; over `RiskScore` |
| `Assessment` | the graph, score and detect jobs over one identity, beside collectors, provider and operator; composes the three above |
| `AssessmentProofs` | theorems of `Assessment`; over `RiskScoreProofs` |
| `MCAssessment` | the shipped weights and thresholds, the identities and the estates of its runs |
| `JwksCache` | the cache of signing keys and its overlapping refreshes |
| `RateLimiter` | the counters in Redis |
| `Gateway` | the way of a request through the API; composes the two above |
| `GatewayProofs` | theorems of `Gateway`, its cache and its counters |
| `MCGateway` | requests, tokens, key sets and configurations of its run |
| `Migrator` | `migrate up` in several processes |
| `MigratorProofs` | theorems of `Migrator` |
| `MCMigrator` | two releases and their jobs |
| `Grants` | how AWS statements, RBAC rules and GCP roles are classified |
| `Inventory` | the three cloud collectors' records and the tables they share; over `Grants` |
| `InventoryProofs` | theorem of `Inventory` |
| `MCInventory` | an account, a cluster and a project, and what may change in them |

Operators named "mutant" in a module are variants of the definition that follows them with a bug
put in; each is there to show that a property notices it. No specification uses them.

### FindingPipeline and the code

A worker's `stage` is where it is between two statements of one cycle: `identities` is
`runDetection`'s loop, `exposure` and `secret` the two repository passes, `claim`, `send` and
`stamp` the three statements of `runAlerts`. What the Go code keeps in local variables the model
keeps in `seen` (suppression list), `todo`, `batch` and `claimed`. Every error path is an
action of its own or a disjunct: `ListActive`'s error leaves an empty list; an upsert's error is
logged and the loop goes on; an error of the exposure or secret query ends the detect job;
an error of claim, send or stamp ends the sweep. `Crash` forgets all local state. The API's
`UpdateFinding` is one statement; `SuppressFinding` is two, and its second may fail unnoticed.
A detector is abstracted to what it says of each fingerprint today (`detects`), which `Observe`
changes.

Rows get increasing ids, so that "oldest first" is the order of ids. A finite set of ids would
block the worker where Postgres does not; `RoomToClose` keeps an operator from using up the last
ones, so that `Upsert` is never disabled by the bound.

### Collection and the code

`Begin` is `GetCursor` with `StartRun`, `Collect` the provider's answer, `InsertEvent` and
`InsertFails` one turn of the loop over usage events, `SaveCursor` and `Finish` the last two
statements, `Ack` and `Nak` the consumer's callback. A runner is the consumer or a direct caller
(`cmd/collector`, the API's goroutine); the chart's CronJob and the consumer do overlap. The
clock counts seconds, which is the cursor's precision, and an event is named by its second.
A run without a cursor starts `Lookback` before its own time (`WindowStart`), be it the first run
or one whose `GetCursor` failed. `missed` remembers what a run left out, for one of three causes: the
page cap or a failing page, the lookback of a run without a cursor, a failed insert. All three
are losses of the code, described in section 6; `CursorAccounted` and `AckedIsCovered` say
that nothing is lost for a fourth. `clean` is a history variable: no run so far has crashed, overlapped
another between `GetCursor` and `SetCursor`, or failed to load or save its cursor.

The provider and the broker are external. Events become readable in the order in which they
happened; CloudTrail does not promise that, and an event shown late, behind the cursor, is lost
(listed as a hazard). The broker redelivers what is not answered in time, and drops what is a
day old.

### GraphEngine and the code

`Reachable`, `TrustChainDepth` and `AttackPaths` are one loop with different filters; `walker` says
which of them runs. `Dequeue` is the head of the outer loop, with `AttackPaths`' test for a target
and its `break`, `Follow` one turn of the inner loop that finds a new node, `Finish` the end. Turns
that find nothing new are not steps. The graph is a variable that never changes, so that one run
and one theorem speak of all graphs. Edge types are cut to `trust`, `grant` (the other capability
edges) and `other`, nodes to the classes `ComputeBlastRadius` and `targetImpact` tell apart.

### Assessment and the code

One identity, the rows that `ForIdentity` finds for it in each table, and the worker's cycle.
`phase` says which job runs; within `runScoring` and `runDetection` each query is a step (`ReadTable`, `ReadFails`), so a
collector's `Collect` can fall between any two. `ReadFails` leaves the table empty in `read`,
because the worker drops the error; the same goes for a graph that `loadGraph` cannot read.
`WriteScore` stores score and urgency together, as the one `UPDATE` does. `Detect` runs the sixteen
detectors over what was read; `RaiseFinding` is the upsert of one finding with the loop over its
recommended actions, any of which may fail; findings come worst first, as `Engine.Run` sorts them.

`rows` is what is stored and `estate` what the provider holds; `ever` is a history variable. Nothing
in the code deletes a row of these tables or of the graph, so `Revoke` changes the estate alone,
and `GraphJob` (`Project`) keeps what is no longer there. `Listed` drops the three columns that `IdentityRepo.List`
does not select. `Composites` is a set: `Score` adds six products in the order of a Go map, in
floating point, and where the sum is an exact half the order decides how it rounds. Ages are
days, the feed is in hours, distances are a table; nothing else of the arithmetic is abstracted.

### Gateway, JwksCache, RateLimiter and the code

A request's `at` is the middleware it is in: `auth`, `key` (in `keyByID`), `limit`, `expire` (between
`INCR` and `EXPIRE`), `route` (`Require` and the handler), or how it ended. A call of `keyByID` that
misses goes through `discover`, `fetch`, `store` and `recheck`, or `failed`; the answer is what the
provider publishes when it answers, and is stored whenever the lock is free. With authentication off, `X-Actor` names the subject. `refresh` reads `jwksURL`
without the lock while a first refresh writes it: `UrlReads` contains a torn string then, and the
panic it can cause becomes a 500 (`Recoverer`). The cache keeps stale keys when a refresh fails, as
the code does. A counter's name is the client and the time of day of the window, so it comes
back a day later; a lost `EXPIRE` leaves it there. Redis and the provider are external. `lastSeen`
is a history variable.

### Migrator and the code

`EnsureTable`, `Applied`, `Begin`, `Exec`, `Record` and `Commit` are `up`'s statements. The first of two transactions that
run one file's statements makes the other wait (PostgreSQL locks what they create); a file
that cannot be repeated then fails on what is there, one that can fails on the primary key of
`schema_migrations`. A deadlock of two files' locks, or PostgreSQL's duplicate-key error from its catalog when two
transactions create one object at once, would cost an attempt more and is not modelled. `Fault` is a broken connection or a killed pod; if it strikes between a COMMIT
and its answer, the commit may have happened. `Retry` is the Helm job's next pod.

### Grants, Inventory and the code

`Grants` are the three `Analyze` functions: level, escalation flag, bindings. `Inventory` turns a version of
an account, cluster or project into the records the builder returns, identities first, and upserts
them one statement at a time (`StoreIdentity`, `StoreNext`), in the order of `Run`, with the foreign
keys that refuse a record whose identity or role is missing. `Skippable` are the phases a collector
only warns about. A principal's id is its kind and external id, as `DeterministicID` has it; a stub is
a row that a trust edge needs and nobody has collected. A collector runs one collection at a time; the
overlap of two of one account is the subject of `Collection`. Accounts of a cluster are those with an object of
their own, those that a token secret names, and the subjects of bindings that resolve to a role. `ResolveRole` may return any of several
Roles of one name, because the code looks a namespaced Role up by name alone in a Go map.

## 3. What the runs check

| Run | Shows | Result |
|---|---|---|
| `pipeline_race` | two workers, an operator, suppressions coming and expiring, all nine faults: `OneOpenPerFingerprint`, `StampedWasDelivered`, `WorkerKeepsVerdicts`, and the sweep implements `AlertOutbox` | holds |
| `pipeline_liveness` | one worker under fairness, two fingerprints of different passes, alerts one at a time: a condition that persists unsuppressed gets a finding (`PersistentIsRaised`; not another one after an operator has closed it, see 6), permanent suppressions take hold (`SuppressionTakesHold`), the outbox is flushed (`OutboxFlushes`), and each finding is alerted at most once when no send or stamp is left half done (`AlertedAtMostOnce`) | holds |
| `suppress_race` | a suppression created while a pass is running | violated, see 6 |
| `collection` | a queued job and a scheduled collector on one account, all ten faults: `CursorAccounted`, `AckedIsCovered`, `StoredOnce` | holds |
| `collection_liveness` | a queued job is acked or grows too old (`JobsSettle`), through failures and finitely many crashes | holds |
| `graph` | all small graphs in all orders, for each traversal: `PathsAreReal`, `HopsAreShortest`, `NearestAreGathered`, `BestAreReported`, `BlastIsExact`, each against the set of all walks | holds |
| `assessment` | one identity that may assume a role with a crown jewel, has a leaked key, is used from two countries, or has a chain of two roles with a shortcut, with one failure, crash, change in the provider or decision of the operator: `ScoreIsSupported`, `FixNeverRaisesRisk`, `DecisionsKept`, `ScoreConverges`, `SignalsAreReported`, `RecommendationsConverge` | holds |
| `never_used` | an identity created long ago and never used | violated, see 6 |
| `gateway` | two requests in every authentication mode, with a rotation, a fault and a day's windows come round again: `WithinLimit`, `KeysAreRecent`, `EveryRequestIsAnswered` | holds |
| `migrator` | three jobs of two releases on one empty database, with a fault and retries: `AppliedOnce`, `InOrder`, `ExitZeroMeansMigrated`, `Upgraded` | holds |
| `inventory` | AWS or GCP beside Kubernetes on one inventory, with a change and a fault: `LevelsConverge`, `FederationConnects`, `CollectedRowReturns` | holds |
| `grants_collapse` | two grants of one account on one project | violated, see 6 |

Every property of a passing run has a mutant that breaks it (`PROJECT.json`, `mutants`).

### Bounds, and why they are enough

* `pipeline_race`: two workers (a roll-out never has more than the old and the new one), one
  fingerprint (rows of different fingerprints share no statement but the batch, and the proofs
  cover any number), two rows of it (one closed, one open), one suppression, one crash, one
  severity. Each other fault can strike at every step, any number of times.
* `pipeline_liveness`: three rows for two fingerprints, so that one of them can be closed and
  raised again; `BatchLimit = 1`, so that the second finding waits for another sweep; one worker,
  because the chart deploys one and a second only adds fair steps. The detectors' results are
  chosen once, at the start.
* `collection`: a clock from 2 to 4 with `Lookback = 1`, so that two events fit, and the cursor that a first
  run saves at once is older than the lookback of a later one whose `GetCursor` fails, with an event in between; `PageLimit = 1`, so that the cap bites as soon as both events are in one window; one job, one direct runner: the smallest setting in which
  overlap, redelivery during a run and a late ack all happen. The proofs cover any number of
  seconds, jobs and runners.
* `collection_liveness`: one tick of the clock, no failing page and no failing `FinishRun`, neither of which
  has a say in what becomes of a job, and no late answer (see the fairness below).
* `graph`: five nodes and `MaxHops = 3`, so that a chain of four hops crosses the bound and a
  stack in place of the queue gives a wrong distance; each of seven pairs carries no edge, a
  grant or a trust edge. `Limits = {1, 2}`: with one, `AttackPaths` stops at three targets of
  four; with two it never stops and cuts the ranked list. All of its
  properties are proved for every graph.
* `assessment`: the shipped weights and thresholds, but for a warm-up of two events in place of fifty; four
  estates, each with rows collected before and rows still to come, one of them with a chain of two trust
  edges whose shortcut has yet to be collected; `MaxEvents = 1`, so that one failed query, upsert or job, one crash,
  one change or one decision can strike at each step. Two of the same kind meet in no single
  read set. The identity is a break-glass one, stale for 120 days: it has the exemption from two
  detectors, and the signal that the exemption concerns. Weights are constants, so a change of them is not tried.
* `gateway`: two requests, since a refresh is a race of two; key sets `{k1}`, none, `{k2}`, so that an older
  answer can replace a newer one and an answer can hold nothing; time to live and timeout of
  one tick, a day of two windows of two ticks, so that the third window has the name of the first,
  and four ticks. Modes: off, token, static keys, key set. Requests end and the clock stops, so a
  behaviour may stop: no check of deadlock.
* `migrator`: three files, the first one not repeatable; two jobs of the new release and one of the old;
  six, two and one attempts, so that a job that must succeed, one that may give up and one without
  a retry all occur. The jobs end, so a behaviour may stop. The proofs cover all other sizes.
* `inventory`: one principal that both collectors of an installation know, one change, one fault.
  Two namespaces hold a Role of one name, so that each collection may resolve the binding to either,
  and a pod runs under the account, which has one token secret.

### Fairness, and what justifies it

* `FindingPipeline`: a worker's next step is weakly fair, because the ticker drives the loop and
  no step waits for another process. The steps that can fail (upsert, the queries, claim, send,
  stamp) are strongly fair: the code retries them on every cycle for ever, and a database or
  sink that is asked again and again is taken to answer in the end. Operators owe nothing.
  `MaxCrashes = 0` there: a worker that crashes in every cycle raises nothing, and no code
  promises otherwise.
* `Collection`: the runner's next step is weakly fair; starting a run and the provider's answer
  are strongly fair, as a nak'ed job is delivered again at once and for ever. Crashes stop in the
  end (`<>[][...]` in `Fairness`). The run leaves out the fault `late`: a collection that always
  takes longer than the five minutes of `AckWait` is in fact repeated until its message is a day
  old, unless one of its late acks counts.
* `Assessment`: the worker's step and the collectors' step are weakly fair: the cycle's loop has no exit, and
  collectors run on a schedule. Failures are bounded by `MaxEvents`; the provider and the operator owe nothing.
* `Gateway`: each request's step is weakly fair: Go runs every handler, and the clients of Redis
  and the provider have timeouts.
* `Migrator`: a process's step and the job's retry are weakly fair. `Upgraded` asks for it of a job with
  more attempts than faults, files and one. The shipped chart does not give its job that many (`migrate.backoffLimit: 3`
  in `deploy/helm/nhiid/values.yaml` is four pods, and there are eight files): beside another migrator, or with faults, it
  may give up with files to apply, and its release fails. The property says what limit would be enough.
* `Inventory`: each collector's step is weakly fair, for the same reason as above.

## 4. What is proved

TLAPS checks eight proof modules, for every graph, identity, estate and set of weights, every number of
workers, runners, requests, key sets, jobs, migrators, files, rows and fingerprints, every set of faults
and every bound. Each invariant that a passing run checks is the subject of a theorem, and so is each
action property. The strengthened invariants were model-checked before they were proved.

The assumptions are named, stand in the module that declares the constants, and are evaluated by
every run. Most are types of constants and that "none" is none of the other values. Those that say more:

* `LimiterAssumption`: a day is a whole number of windows and at least two. The code formats the start of a
  window of one minute as a time of day. With one window a day a counter would outlive the end of its window
  into the next one of the same name, and `WithinLimit` fails for three requests.
* `MigratorAssumption`: the files have different names.
* `AssessmentAssumption`: the tables hold finitely many rows, of the fields the scorer reads, and the provider
  holds and may come to hold no others.

Some theorems have hypotheses of their own, which hold of the configuration of a run:

* `AlertedOnce`: one worker (`OneSweep`), and no send or stamp left half done (`NothingHalfDone`). The chart deploys one
  worker. Without the second, a message whose answer is lost is sent again, as it should be.
* `RiskGrows`, `FixesLower`, `FixesNeverRaise` and `ScoresSupported`: `OrderedWeights`, no weight and no points below
  zero, and of two exclusive signals the graver counts no less. The shipped file satisfies it
  (`MCAssessment` evaluates it); `Weights.validate` asks only for the six weights and their sum, so that
  weights stored through `PutRiskWeights` need not, and then a fix may well be projected to raise the score.
* `InventoryProofs!TypeCorrect`: `BuildersAgree`, the records that the builders return are well-formed. The builders loop
  over sets and sequences of any size, which is induction over data; `MCInventory` evaluates it for
  every version, failed part and resolution of its accounts.

FindingPipeline, Collection (`TypeCorrect` here, as in every module but `RiskScoreProofs`, is the type invariant):

* `DedupeCorrect`: one open row per fingerprint. Only `Insert` and `UpdateStatus(i, "open")` can
  make a row open, and both need that no other is; the invariant is inductive with the types.
* `VerdictsKept`: a step of a worker inserts a row or leaves the rows alone.
* `StampCorrect` needs `AlertInv`: whoever is about to stamp holds rows already delivered, and
  what a worker claims was alertable when claimed and stays so, since severities never change.
  `StampedWasDelivered` alone is not inductive, as it says nothing of what is in flight.
* `OutboxImplemented`: with `AlertInv`, each step is a step of `AlertOutbox` or a stutter. An
  upsert is a `Raise`, closing and re-opening are `Withdraw` and `PutBack`, a send, also one
  whose answer is lost, is a `Deliver`, a stamp is a `Settle`.
* `CursorIsAccounted` and `AcksAreCovered` need `RunInv`, which says of each run, stage by stage, what
  it knows to be accounted for: before reading, everything up to the cursor it loaded; while
  inserting, everything up to the cursor it will save and up to the time of its job's
  request, but for what it has still to insert; when finished, everything up to the request.
  A step of another runner cannot disturb it, because the table only grows and a job that has been
  requested keeps its time.
* `EventsStoredOnce` needs `FreshInv`: as long as `clean` holds, one run at most is between
  `GetCursor` and `SetCursor`, it works on the present cursor, everything in the table is behind
  the cursor or in that run's window, and what it has yet to insert is not in the table.
* `AlertedOnce` needs its own `OnceInv`: what was delivered and not yet stamped is in the hands of the worker that is about
  to stamp it, and what is about to be sent was never delivered. An operator may close and re-open a row
  in between; no status is in the invariant.

GraphEngine:

* `ShortestWalks` needs `BreadthInv`: the queue is sorted by hops and spans two levels, what has left
  it is no farther than the current node, and all of that but the current node has been expanded.
  From it, `CoveredWalk` goes along any walk, edge by edge. That is an induction over the length of
  a walk; it is done by the least counterexample (`LeastOf`), which comes from the theorem
  that `<` is well-founded.
* `PathsAreWalks` needs that the start's own path is empty, and `NearestFirst` needs `GatherInv`: the
  targets that have left the queue are those found.
* `BlastCounted` follows from `ShortestWalks`: a traversal that was not cut short has visited exactly the ends of walks,
  and only `AttackPaths` cuts one short (`FoundInv`).
* `BestReported` needs that each target is queued and gathered once (`OnceInv`). The ranking is then a strict
  order without ties (`BetterOrders`), a target's place is the number of those before it, and that
  numbering is a bijection (by `FS_Injection`): the list is a permutation of what was gathered, in order.

RiskScore, Remediation, Assessment:

* `ScoreInRange`: scores and urgencies are from 0 to 100 for every input.
* `RiskGrows`: what gives less to count (`Milder`) scores no higher, but for the point of rounding. Factor by factor, signal
  by signal: a signal either stays, gives way to one that counts no less, or appears. The sums are over sets of
  signals that need not be the same; the lemmas on `SumFunction` (its existence, a term taken out, an injection
  into a larger sum) are proved by least counterexample, as above.
* `FixesLower`: each mutation of the catalogue makes a posture milder.
* `FixesNeverRaise`: `FixInv` adds what `Recommend` came to and has not yet written (`read.after`).
* `ScoresSupported`: whatever mixture of rows a pass read, each read is a part of what was ever stored, so the posture it
  adds up to is milder than that of everything (`SubjectGrows`, over `WithinGrows` and `BlastOfGrows` for the
  graph), and everything only grows. The depth of the chain does not grow with the edges: `TrustChainDepth` is a distance, and a
  trust edge added later can shorten a chain and take its signal away. The theorem therefore asks for some part `T` of the
  trust edges ever stored that makes the chain, and has no hypothesis on what collectors write. The invariant says so at every phase, not only when the property looks.
* `DecisionsStay`: by cases on the worker's steps; `RaiseFinding` alone writes actions, and keeps the status of those there.
* `TypeCorrect` needs the types of what is read, of the estate, of the feed and of the findings' states.

Gateway:

* `AcceptedByRecentKey` needs `KeyInv`: each cached key was published no longer before `fetchedAt` than a call may take; an answer
  under way holds keys that were published since its call began, and no call outlasts its timeout; a request past the
  middleware was let in by a key within the bound. An older answer that overwrites a newer one gets
  the time of storing as its `fetchedAt`, which is where the term `Timeout` comes from.
* `LimitHolds` needs `LimitInv`: a counter that expires does so a window after its last `EXPIRE`, at a time that had its
  name (`ExpiryOK`); for a request counted in the present window the counter is there, is at least its number and
  outlives the window (`CurrentOK`); two requests counted in one window by one name have different numbers
  (`Distinct`), so that those allowed are at most the limit. `WithinLimit` alone is not inductive: it says nothing
  of the counter.
* Both rest on a step of the model: commands to Redis, and what `keyByID` does under its lock, take less than a tick.

Migrator:

* `AppliedInOrder` and `SuccessMeansMigrated` need `OrderInv`: a process at a file knows all files before
  it to be recorded. `PendingFinds` says that the file it takes next is the first that it did not read as
  applied; rows are never removed, so what it read stays true.
* `EachAppliedOnce` needs `LockInv`: no two processes have run the statements of one file in open
  transactions, and a row inserted and not committed is not recorded. That is the lock of
  PostgreSQL (`Exec`) with the primary key (`Record`); without either the invariant is lost.

Inventory:

* `TypeCorrect`: `TypeInv` adds that what is still in a batch is well-formed, and that a stored identity keeps its id. The set of
  ids a foreign key may name only grows, because `UpsertIdentity` keeps the id on conflict and nothing is
  deleted; a row is written only if what it names is in that set.

Only model-checked, because liveness under fairness is beyond the prover: `PersistentIsRaised`, `SuppressionTakesHold`,
`OutboxFlushes`, `JobsSettle`, `ScoreConverges`, `SignalsAreReported`, `RecommendationsConverge`, `EveryRequestIsAnswered`, `Upgraded`,
`LevelsConverge`, `FederationConnects` and `CollectedRowReturns`. `BuildersAgree` and `OrderedWeights` are evaluated for
the runs' constants.

## 5. Not modelled

* The caps of the lists (`IdentityRepo.List`, `FindingRepo.List`, `SecretRepo.List`), and the listing
  of a cycle's identities with them: `Assessment` is about one identity that is listed.
* What nothing decides on: the severity band of a score, the total of the risk reduction, assignee
  and notes of a finding, the audit log, snapshots, message formats.
* `Neighborhood`, `deepestTrustChain`, the percentiles over peers (constants in `Assessment`).
* The collectors' upserts of secrets, repositories and exposures (one statement each, like the
  others), the GCP audit reader (the CloudTrail reader's cursor logic with a page cap of one), the
  decoding of policy documents, exports and API answers.
* `PutRiskWeights`: the weights are constants. The read-only handlers of the API, GraphQL and export.
* Repository and fixture collectors, the simulator, configuration, metrics, tracing, logs and the web UI, each
  with its reason in `PROJECT.json`.

Multi-statement reads are modelled where a later step uses them, and left out where they only feed
a response.

## 6. Where code and documentation disagree

Three of these have a run.

1. `suppress_race`: `docs/ALERTING.md:85` says suppressed findings never reach the queue.
   `runDetection` reads the suppressions once per pass, so a finding suppressed during the pass is
   closed by the API and inserted again, open, by the worker. Later passes skip it, and nothing
   closes it.
2. `never_used`: `docs/DETECTIONS.md:48` says an identity never used and older than 30 days is stale.
   `IdentityRepo.List` (`internal/store/identity.go:112`) does not select `created_at_source`, so its age is
   unknown to the worker, and the condition never holds. `last_rotated_at` and `owner_id` are left out
   in the same way.
3. `grants_collapse`: `docs/GCP_COLLECTOR.md:35` says `roles/owner` makes a crown jewel, and
   `docs/AWS_COLLECTOR.md:137` that a tag elevates any binding to the resource. A principal's grants on one resource are one
   row of `resource_bindings` (`internal/store/misc.go:198`), and the last one decides its criticality.

The others follow from a single statement, so that a run would only restate it.

Findings and alerts:

* `docs/DETECTIONS.md:146` says findings re-surface only on materially new evidence. `Upsert`
  (`internal/store/findings.go:26`) dedupes against open rows only, so the pass after a triage inserts a second
  row with the same fingerprint, open and not yet alerted.
  `PersistentIsRaised` takes neither side: it asks for the first row only. With the row that comes back comes a second set of
  recommended actions (their key is the finding and the action, `internal/store/misc.go:419`), and when an operator
  marks these done too, `RiskReductionDone` (`misc.go:459`) counts the same fix twice.
* `docs/ALERTING.md:85` again: the three passes drop the error of `ListActive` (`cmd/worker/main.go:357`, `438`, `469`) and raise what is
  suppressed as new open rows. And `SuppressFinding` drops the error of `UpdateStatus` (`internal/api/admin.go:254`): the
  suppression is there, the finding stays open under it, is alerted, and no later pass closes it. No property covers
  either, as each follows from the one error; `pipeline_liveness` leaves the first out, so that `SuppressionTakesHold`
  can say what holds without it.
* A finding of a repository or a secret has no identity; suppressing it stores a NULL identity, and `suppressor`
  (`cmd/worker/main.go:293`) takes that for all of them: the detector is silent everywhere, where the operator
  asked for one finding (`internal/api/admin.go:241`).
* `docs/DETECTIONS.md:51` says an overaged credential is escalated to high. The fingerprint does
  not change, and `Upsert` does not write the severity of an open row.

Collection:

* `docs/AWS_COLLECTOR.md:210` says the cursor resumes after the page cap. Events come newest
  first and the cursor moves to the newest (`internal/collectors/aws/cloudtrail.go:60`): the rest is never read.
  The GCP audit reader does the same with one page. A page that fails has the same effect: the caller logs the
  error and keeps the cursor.
* `internal/store/misc.go:602` calls the run after a failed `GetCursor` a full re-scan. It reads the last 24 hours
  (`cloudtrail.go:44`): events between an older cursor and that start are read by no run, and its own cursor passes them.
* A failed insert of a usage event is logged and not counted as an error: the cursor is saved, the run row says
  success with no errors, and the job is acked (`internal/collectors/collector.go:163`).
* `docs/ARCHITECTURE.md:110` says a re-run does not duplicate rows. Usage events have a random id
  (`internal/collectors/collector.go:163`): a run repeated after a crash inserts them again.
* `docs/K8S_COLLECTOR.md:85` says the cloud collector fills out the stub. The stub that the Kubernetes
  collector upserts overwrites state and last use of a collected row until the cloud collector runs
  again (`CollectedRowReturns` says it does), and a row that began as a stub never gets `created_at_source`.
* A namespaced RoleBinding is resolved by the Role's name alone, so a Role of another namespace may
  be taken (`internal/collectors/k8s/builder.go`, `resolveRole`).

Scores and the graph:

* `internal/risk/score.go:43` calls the trust depth the longest chain of pivots. `TrustChainDepth`
  (`internal/graph/graph.go:190`) returns the greatest distance: a shortcut hides the longer chain and the signal
  `chain_depth_2plus` with it. `suspicious_role_chain` looks at one path for each target, so a path of
  grants hides an equally long one with a pivot in it.
* `docs/RISK_MODEL.md:156` says re-scoring a snapshot yields identical results. The factors are summed in the order
  of a map (`internal/risk/score.go:99`), and an exact half may round either way: hence the "+ 1" in
  `FixNeverRaisesRisk`.
* `docs/LAUNCH.md:47`, `docs/ARCHITECTURE.md:137` and `docs/MVP.md:49` say a fix lowers the score. No row and no edge is ever deleted,
  so a fix made in the provider changes nothing in the tables that the score is computed from.
* `IdentityRepo.List` treats a limit above 200 as 50 (`internal/store/identity.go:81`): the worker scores, and
  the projection draws, the 50 riskiest identities.

API:

* `docs/AUTH.md:66` says a refresh on a cache miss keeps validation working across rotations. When two refreshes overlap, the one
  with the older answer may be stored last, and a token of the new key is refused until the next refresh
  (`internal/auth/jwks.go:66`).

## 7. Plan

Done: the pipeline, collection, the graph engine; remediation, risk score, detectors and one identity's
assessment; the key cache, the limiter and the requests; the migrator; the cloud collectors.

Left, in this order:

1. The abstract specification of collection (a log read in order, at least once) and `Collection`
   as its refinement, with the cursor as the mapped position.
2. The capped identity list, scaled down with its cap, over several identities; the weights as a
   variable that `PutRiskWeights` changes between two jobs.
3. `Neighborhood` and `deepestTrustChain` over the paths `GraphEngine` returns.
