# Verification of AutoStream Observability

TLA+ models of the parts of AutoStream Observability where something can go
wrong that a unit test would hardly reach: concurrent requests on the incident
stores, one signal's way through a store that may fail at any call, the
notification dedupe table, its fan-out and its history, the life of a remediation
action, the two rate limiters, the process from its migrations to its
registration, and channel updates around the SMTP migration. TLC checks the
models on small instances; TLAPS proves all but one of the safety properties for
every instance. Paths are relative to the repository root.

## 1. Inventory of the system

Observability is one Go process. Encoders, workers and bots post signals to it,
operators and the Control Panel call its admin API, it notifies webhooks and
e-mail recipients, and it asks the Control Panel to carry out retries.

| Component | State | Operations | Hard behaviour | What makes it correct |
|---|---|---|---|---|
| Incident stores (`internal/store/memory.go`, `mariadb.go`) | incident rows; an index of active rows (memory) or the `dedupe_key` column (MariaDB) | UpsertIncident, ResolveActiveIncidents, UpdateIncidentStatus, UpdateIncidentDiagnostic | concurrent transactions, unique-key races, gap-lock deadlocks, reruns that read and write in two calls | one active incident per (rule, service, stream); terminal is final; counts complete; a report explains its signal |
| Signal ingest (`internal/httpapi/server.go`) | none of its own; writes signals and incidents | ingestSignal, withCumulativeCounterDelta, evaluateAndStoreIncidents | read-then-write of counters, several stores per request, times that tie, partial failure | no increment of a total is lost; an incident has its remediation actions |
| Detection (`internal/detection/rules.go`) | none | evaluate a signal to failures and recoveries | comparisons at their thresholds, a hand-kept list of what a stop recovers | no rule both fails and recovers; a stopped stream has no live incident |
| Notification dedupe and fan-out (`internal/httpapi/notification_dedupe.go`, `internal/notifications/webhook.go`) | a bounded table with expiry, in-flight marks and receipts | reserve, complete, fan-out, delivery history | handlers that outlive their entry, partial failure, lost answers, a full table | nobody selected is forgotten; nothing is suppressed for ever |
| Remediation (`internal/remediation`, handlers in `server.go`) | action rows | BuildActions, Approve, Execute, dispatch, dispatch context | blind writes of stale copies, lost dispatch answers, failed writes | nothing is carried out without its approval; a stored outcome is true |
| Rate limiter (`server.go`, `mariadb.go`) | sliding windows in memory, fixed windows in MariaDB | rateLimitKey, allowMemory, AllowRateLimit | a clock read before the lock, first-insert deadlocks, bucket cap, hand-kept route templates | at most burst per window; nobody is refused without cause |
| Local transitions (`internal/remediation/local_transition.go`) | revision, fence, applied keys | ApplyLocalTransition | repeated, late and conflicting requests | each key takes effect exactly once |
| Incident history (`memory.go`, `mariadb.go`) | none of its own | listIncidents with a cursor | ties of `updated_at`, rows that move while a client pages | nothing untouched is skipped or repeated |
| Identity and registration (`internal/httpapi/updater_identity.go`, `cmd/observability/main.go`, `internal/control`) | a one-shot latch, the registered id | ResolveFromEnv, bind, the registration loop | two reads of one file, the constructor racing the loop, restarts | one identity per process |
| Notification channels (`memory.go`, `mariadb.go`, `server.go`) | channel rows with secrets | create, update, delete | an update validates one read and merges into another | a stored channel can be delivered to |
| Database bootstrap, schema and SMTP migrations (`internal/database`, `internal/store/v2migration`) | schema, backup and reference tables | run, verify, restore | crash between statements; runs and restores between requests | restart converges; nothing is lost |
| Auth, encryption, masking, texts, host metrics, configure, installer | none that a model would keep | | | |

Interactions: ingest calls detection, then a store, then the notifier and the
remediation policy, all inside one HTTP request. The admin API calls the same
stores concurrently. The dedupe table is shared by all handlers of the process
and lost on restart; incident and action rows are shared through MariaDB.

`PROJECT.json` lists every component with its status and every hazard with its
source line and the properties that cover it.

## 2. Plan

Done:

1. `Incidents`, `IncidentLifecycle`, `MemoryIncidents`, `MariaIncidents`, the
   heart of the service, with the lifecycle as the abstract specification of
   both stores.
2. `NotificationDedupe`, the most concurrent part outside the database, and
   `NotificationHistory` on top of it.
3. `Remediation` and `LocalTransition`.
4. Theorems for `MemoryIncidents`, `MariaIncidents` and `NotificationDedupe`.
5. `NodeIdentity`, `SchemaMigrations` and `Bootstrap`, which composes them.
6. `Detection` and, on top of it, `Ingest`, which composes detection, the signal
   table, the incident stores (by their lifecycle) and the creation of actions.
7. `Channels`, which composes the channel requests with the SMTP migration.
8. `RateLimitKey` and `RateLimit`; `IncidentHistory`.

9. Theorems for every safety invariant of `Remediation`, `LocalTransition`,
   `Bootstrap` with its parts, `Channels`, `Ingest`, `NotificationHistory` and
   `IncidentHistory`; the refinement of the lifecycle by the MariaDB store
   without gap locks.
10. Theorems for the window bounds, the refusals and the buckets of `RateLimit`,
    with what was granted kept as a set, so that its size can be reasoned about
    without induction over a sequence.

Next, in this order:

11. The attempts behind one send of the fan-out, with the per-attempt timeout
    inside the fan-out's deadline.
12. The memory store's channels and the metric queries.

## 3. Modules

A definition keeps the name of the Go function it models where it can;
`PROJECT.json` "map" gives the lines. Definitions commented `Mutant of X` are
wrong on purpose: replacing `X` by one of them must break the property it is
listed under in "mutants", which shows that the property depends on that code.

**`Incidents`** - the row and the pure rules both stores share:
`CanTransition`, `IncidentSeverityRank`, and what is written on a first
occurrence (`Opened`), a repeated one (`Occurred`), a status update
(`WithStatus`) and a recovery (`Recovered`). Timestamps and summaries are left
out. A diagnostic report is a function of the rule and of the signal it was
computed from, so the field `report` holds that signal's id.

**`IncidentLifecycle`** - the abstract specification: what `README.md:79` of the
repository promises of an incident, each accepted operation one atomic step.

**`MemoryIncidents`** - `MemoryStore`. Methods run under one mutex, so each is
one action. `rerunIncidentDiagnostics` is two actions, its read and its write.
`unevaluated` only keeps a signal from being applied twice to one key.

**`MariaIncidents`** - `MariaDBStore`. A request is a small program; a step is a
statement that waits for, or releases, a row lock (the header lists them).
Committed rows are in `rows`; an uncommitted insert is visible only through the
lock it holds. `Abort` is any error, cancellation or death before COMMIT.
InnoDB is external and modelled by the locks the statements take. `gapLocks`,
chosen once from the constant `GapLocks`, is the server's isolation level: the
code gets its default, which is REPEATABLE READ (`TRUE`) unless the server is
configured for READ COMMITTED (`FALSE`). Only with gap locks can
`InsertDeadlock` happen: the server rolls the victim's transaction back, and the
code, which takes the error for a duplicate key, goes on on the same connection
with statements that commit by themselves (`lookupAlone`, `updateAlone`).

**`NotificationDedupe`** - `notificationDeduper` and the fan-out. `reserve` is
`ReserveFresh`, `ReserveRetry`, `Suppress` or `DeliverIneligible`, depending on
what it finds, each with the pruning, the closing of a resolved lifecycle and
the eviction that come first. `complete` is `Complete`. Between them
`ListChannels` and one `SendSucceeds`/`SendFails` per destination run without
the mutex. A failed send may have been accepted (`lostAnswer`). Time is the
time an entry and a fan-out have left; `Tick` cannot pass a fan-out whose
deadline has come, as its context ends every pending send. A send with its
retries is one step: only its outcome reaches the table.

**`NotificationHistory`** - extends `NotificationDedupe` with what
`deliverNotificationEvent` writes to `notification_deliveries`. The results of a
fan-out are saved one by one after `complete` (`SaveResult`). A handler that
suppresses a duplicate marks the entry under the mutex (`SuppressOnce`); if it is
the first to do so it saves a record in a later step (`SaveSuppressed`), between
which other duplicates come and the entry may expire, be evicted, be closed or be
made again. Any save may fail, with or without its INSERT; the record's deadline is
left out, so its save may come at any time. Records are counted per entry, not per
event: an entry has a serial number, free again once the entry is gone and no record
of it is on its way, so `SerialsAssumption` asks for one number per place in the
table and one per other handler. No code reads a result to decide, so the one the
last step saved is enough, as an acceptance is never undone.

**`Remediation`** - `policy.go` (`InitialStatus`, `Built`, `Approve`, `Refused`,
`Execute`), `remediationActionDispatchExecutable` and the approve and execute
handlers. A handler reads the row, computes on its copy, dispatches, and writes
the copy back without looking at the row again. Action names are reduced to the
class `ClassifyLegacyAction` gives them, and the ids of an action and its incident
to whether a proposal and the dispatch context accept them (`correlated`).
`LegacyRows` are rows that carry a name
this version refuses. The Control Panel is external: it carries a retry out or
not, its answer may be lost, and `PanelAsks` says whether it asks for the
dispatch context first.

**`LocalTransition`** - `ApplyLocalTransition` as the function it is (`Outcome`,
`Applied`), under a caller that sends anything, in any order and again, and an
owner that persists the result or not. Nothing in `src/` calls it but its tests;
the comment above it states what its owner must do, and that is what is assumed.

**`NodeIdentity`** - `UpdaterIdentityLatch`, the checks at start, the
registration loop and the handlers that ask for the identity. `ResolveFromEnv`
is `Stat` (or `Missing`), `Read` and `Bind`, with the file changing between them;
`ReadClient` is the loop's own reading of the file (`main.go:127`), before the
latch reads it again (`main.go:130`). An identity error is `log.Fatalf`, so
`Exit`, and `Start` is systemd's restart. `Builder` is the constructor of the
server, which resolves the identity beside the loop (`server.go:195`). The file appears whole, as
`writeNodeConfigFile` renames it into place, or is edited or removed.

**`SchemaMigrations`** - `RunEmbeddedMigrations` over the statements of the seven
embedded files. The schema is the set of its parts that differ between versions;
of the data the active incidents are kept, because 005 closes duplicates and
fills the column of the unique index. A statement takes effect, is refused, or
fails with or without its effect; a record likewise. `SchemaInit` are the
databases an older build can leave: empty, the tables of `migrations/001_init.sql`
without a record, four migrations recorded, and those with the key of
`migrations/002_incident_dedupe.sql`.

**`Bootstrap`** - `main`: `NodeIdentity` up to the phase `setup`, then the
migrations, and only then the server, its handlers and the loop. Any error before
that ends the process, and the next one finds the database as it was left.

**`RateLimitKey`** - `isRateLimitedEndpoint`, `rateLimitPath` and `clientIP`; a
path is its collection, its id and the operation, as the code looks at prefixes
and suffixes only. **`RateLimit`** - `rateLimiter` with both backends. A request
reads the clock in `Start` and is counted later: in one step under the mutex
(`AllowMemory`), or in a transaction whose steps are the statements that wait for
a lock (`Cleanup`, `Select`, then `InsertRow`, `ResetWindow` or `CountHit`).
`late` counts the requests that were overtaken by a later reading. A hit is its
reading with a serial number, so that a bucket, which the code keeps as a slice of
times, is a set: the code only filters it, counts it and appends to it. InnoDB is
external: `Holds` is a lock on a row that was read for update or deleted,
`GapHeld` one on the gap of a key that was not found, and `Deadlock` rolls back a
request that waits in a circle of such locks, or for one (`Waits`, `InCircle`),
whichever statements they wait in: two inserts of one bucket, or two requests that
each cleaned up a row the other one wants.

**`IncidentHistory`** - `ListIncidentHistory` and a client that follows its
cursor while incidents are opened and updated.

**`Detection`** - `evaluateIncidents` and `evaluateRecoveries` as tables, sets of
pairs of a metric and its rule, grouped by the comparison they make. Every rule compares with zero and
at most one positive threshold, so the readings -1 .. 3 around the threshold 2
stand for all numbers. A cumulative metric is judged by `counter`; one that came
without a value (`Unvalued`) by what its sender put there, or by 0.

**`Ingest`** - one request as the sequence of its store calls: the last total of
the metric, `SaveSignal`, one `Recover` per recovery, one `Detect` per failure,
`CreateRemediationActions` for what was opened. `StoreFails` ends it with an error
before any of them, or in MariaDB after one that took effect and lost its answer.
Time is in whole seconds, as in the columns `occurred_at` and `created_at`; a reading
carries the time its sender gave it, or now. Which reading is then the last one
(`LatestMetricValue`) differs between the stores: in memory the one saved last, in
MariaDB the one with the later times, and either of two with the same times, whose
random ids decide. A statement that the server carries out only after the request
was given up counts as a request that still runs. The history variables say what
the senders were told, what the deltas add up to, and of which metrics a saved
reading fell (`fell`) or was passed over for an earlier saved one (`passed`).

**`Channels`** - `createNotificationChannel`, `updateNotificationChannel` with
its two reads and its write (`Validate`, `Merge`, `Write`), the delete with the
foreign keys, and `Run`, `Restore` and `Verify` of `v2migration`. The migration's
SQL statements are functions of the whole database (`Migrated`, `Restored`), so
that the comparisons they make before COMMIT can be stated of any state.

`MC*` modules add the symmetry sets and the constants that are functions.
`MCIncidentStores` and `MCRemediation` look at several parts that share no state
in one run: a variable (`store`, `part`) chooses one of them for a behaviour, and
the others keep their initial state.
`MCNotificationLifecycle` adds two history variables to `NotificationDedupe`.
The `*Proofs` modules hold the proofs. `LocalSpec`, `BootSpec`
and the two `HistorySpec` are the specifications of the modules that are checked
as a part of a larger run or on top of another one; their theorems speak of these.

## 4. Runs

| Run | Checks | Bounds |
|---|---|---|
| `incident_stores` | IndexExact, ReportMatchesSignal (memory), HistoryComplete, StoresImplementLifecycle | MariaDB: 1 key, 2 ids, 3 signals, 3 requests, no gap locks; memory: 2 keys, 2 ids, 3 signals, one rerun; history: 3 rows, 3 seconds, pages of 1 and 2 |
| `maria_incidents_gap` | OneActivePerKey, KeyIffActive, ReportMatchesSignal, OccurrencesCounted, TerminalIsFinal, EveryRequestReturns | 1 key, 2 ids, 2 signals, 3 requests, with and without gap locks, no symmetry |
| `maria_incidents_count` | EveryOccurrenceCounted is violated | gap locks |
| `notification_dedupe` | InFlightHasOwner, ReceiptsTrue, EntriesBounded, EligibleUntilAccepted | 2 events of one resource (one its resolution) and one that is not deduplicated (followed until somebody accepts it: `IneligibleBound`), 2 destinations, 2 handlers, cap 1, window 2 ticks, fan-out 1 tick |
| `notification_limits` | HistoryIsTrue, OneSuppressionRecord, SuppressionEnds | 2 events (one not deduplicated), no channel but a fallback webhook, 2 handlers, cap 1, 2 serial numbers (all that are ever needed), saves that fail |
| `notification_lifecycle` | NewLifecycleNotifies is violated | as `notification_dedupe`, one destination |
| `remediation` | OnlyPermittedPerformed, GatesAgree, ExecutedWasPerformed, ExecutedConsistent, AppliedExactlyOnce | 1 action, 3 requests, all four modes, a Control Panel that does not ask; 3 idempotency keys, fences up to 4 |
| `remediation_redispatch` | NoRedispatch is violated | 1 action, 2 requests, a Control Panel that asks |
| `bootstrap` | OneIdentity, BeatsAreRegistered, ServesMigrated, NewestSurvives, EventuallyRegistered | 2 ids, 1 handler, the constructor, 3 changes of the file, stops or failures; 4 incidents, 3 of them of one key and 2 of these of one second |
| `ingest` | Decisive, StoppedStreamIsQuiet, DeltasAddUp, ActionsUnlessRejected | 2 requests, 3 posts, 2 seconds, both stores; a counter with totals 1 and 3 or no value, a low frame rate, a status. Three posts are enough for two readings of one second and a third that meets the older one |
| `channels` | WebhookHasURL, MigrationNeverStuck, VerifyIsSound, RoundTrip | 2 channels, 2 update requests, 5 bodies, one value of a host and a sender, any number of runs and restores |
| `rate_limit` | MemoryWindowBound, SharedWindowBound, RefusedForCause, NoStandstill, BucketPerRoute | 2 requests at once, 2 clients behind 4 callers, burst 2, window 2 of 6 ticks, 1 bucket in memory, 4 grants; `BucketPerRoute` over all routes of the mux |

The type invariants (`TypeOK` of each module) are not listed as properties of runs;
they are proved for the incident stores and the rate limiter, and the inductive
invariants of the other proofs state the types they need.

Why the bounds are enough to be interesting. Two incident ids and three signals
let an incident open, recur, close and open again under one key; keys do not
interact in MariaDB, so one is enough there, while the memory store has two because
they share the index. Three requests are a reader, a writer that passes it and a
third that depends on the result. The window is longer than the fan-out, as in
the code (2 minutes against 35 seconds), so an entry can be deleted, evicted and
made again under a running handler, and can expire too; with a cap of one entry
every new event evicts. One remediation action
suffices because no handler touches two. The gap run has as many ids as signals:
with fewer, an insert would find no id left and liveness would speak about the
bound. Its two signals race for the insert of a key; two occurrences that race
for an open row need three, as in `incident_stores`, where a lost one is no step
of the lifecycle (`Recur` counts by one). Three changes are a config file that appears, one that changes it and one
that breaks or removes it, or a migration that is cut off, cut off again where it
was repeated, and a file.
Six ticks are three windows, so that a row is old enough for the cleanup while
another request still has it; four grants are twice the burst. Three posts are a first total, a rise that
opens an incident and a stop (or a resent total after a failure); `Decisive` does
not depend on them, it is evaluated over every signal the rules tell apart. The
bodies of `channels` switch the type both ways, with and without a URL of their
own, and set both SMTP fields, one of them, or the global flag.

Fairness. `EveryRequestReturns` assumes strong fairness of each request's steps:
a goroutine is scheduled, and InnoDB serves the waiters of a lock in order, so a
request whose statement can run again and again is not passed over for ever.
`SuppressionEnds` assumes weak fairness of a handler's fan-out and its saves, which the
detached context with its hard deadline (`server.go:1699`) guarantees, and of
time. `EventuallyRegistered` assumes that systemd starts a process that ended
(`Restart=on-failure`, `systemd/autostream-observability.service.example:15`),
that `main` and the loop go on (the loop sleeps and repeats), and strong fairness of `RegisterOk`:
a Control Panel that is asked again and again does not refuse for ever. Nothing is
assumed of clients and receivers.

Deadlock is checked in every run, as some request can always start, but in
`ingest`, where the number of posts is bounded and the last answer ends it.

## 5. Findings

* **An occurrence is lost after a deadlock** (`maria_incidents_count`,
  `mariadb.go:233`). The comment says the winner's row is read "inside this
  transaction", but after a deadlock there is no transaction any more; the row
  is not locked between the read and the update, and another occurrence
  committed in between is overwritten.
* **A late delivery silences the next lifecycle** (`notification_lifecycle`,
  `notification_dedupe.go:108`). `complete` does not know whether the entry is
  the one its `reserve` made. A delivery that was sending when the resource was
  resolved marks the entry of the resource's next lifecycle as delivered.
* **A stale approval makes an executed action executable**
  (`remediation_redispatch`, `server.go:1297`). The update is unconditional, so
  an approve request that read the row before it was executed puts it back, and
  a retry that was already carried out is dispatched again.

## 6. Proofs

All theorems hold for every value of the constants allowed by the named
assumptions of the modules. These say that the sets are of the right kind
(`IncidentsAssumption`, `MariaAssumption`, `DedupeAssumption`,
`RemediationAssumption`, `TransitionAssumption`, `IdentityAssumption`,
`ChannelsAssumption`, `IngestAssumption`, `SerialsAssumption`) and, where sizes or a greatest element
matter, that a table is finite: the channels (`ChannelsAssumption`), the incidents
a migration finds (`RowsAssumption`), the rows of the history
(`HistoryAssumption`). For the rate limiter `RateLimitAssumption` gives positive
limits and finitely many endpoints and callers, so that the buckets can be counted,
and `PathAssumption` says that a missing part of a path is no id and no operation.
So: any sets of ids, keys, signals, requests, events,
destinations and handlers, any cap, window, page size and number of changes.

A temporal theorem has one lemma per action. Most invariants are stated of one
row or one request (`RequestInv`, `RowInv`, `TxInv`, `FanOutInv`) with the shared
state as parameters, so that a step has to be followed only for what it touches.

* `MemoryIncidentsProofs`. `IndexExact` is inductive together with `TypeOK`, with
  the fact that unused ids hold `Absent`, and with `ReportMatchesSignal`. The
  uniqueness of active rows follows from it. The refinement theorem maps
  `UpsertOpen` to `Open` (the index being exact is what gives `Open` its guard),
  `UpsertRecur` to `Recur`, and the rerun's write to a stutter: it writes back
  the report that is already there. The paged history is proved here too:
  `SeenUpToCursor` says that a row nobody touched was returned exactly if it is
  not after the cursor; `PageIsTop` (a page is the front of what is left) and
  `ShortPageIsLast` keep it.
* `MariaIncidentsProofs`. `OneActivePerKey` is not inductive: it needs
  `KeyIffActive` (the unique index speaks about the key column, the property
  about the status), the exclusion of two transactions that hold one row or one
  uncommitted key (`LocksExclusive`), and what a request knows about the row it
  holds at each step (`RequestsInv`: its row is active while it updates or
  resolves, its transition is allowed while it writes a status, a fresh id is
  still unused). `Inv` is their conjunction; it covers both values of `gapLocks`.
  `ResolutionIsFinal` is an action property that follows from `Inv`. For a server
  without gap locks `KnownInv` adds that what a transaction has read of its row is
  what the row still holds, until it commits. `CountsAreComplete` and
  `MariaImplementsLifecycle` rest on it. Their hypothesis `~gapLocks` is needed: with
  gap locks the run `maria_incidents_count` refutes the first. The second and
  `MemoryImplementsLifecycle` are what `StoresImplementLifecycle` checks of the stores.
* `NotificationDedupeProofs`. The invariant adds to `InFlightHasOwner` and
  `ReceiptsTrue` what a running delivery knows: what it skips and what it counts
  as accepted was accepted, and everything it selected is pending, accepted,
  skipped or accounted for by its failure mark. `NobodyForgotten` is then the
  step property of `Complete`. `TableIsBounded` needs that the table is finite,
  and that the eviction leaves room for one. For the history, a result that waits
  to be saved is true already (`SavesTrue`). `OneSuppressionRecord` needs to know
  what is on its way: `SuppressionsInv` says that a record is being saved by one
  handler at most, and only for an entry that is marked and has no record yet, and
  that an entry without the mark has neither. A new entry keeps it because its
  number is not one a record is on its way for.
* `RemediationProofs`. Rows are written back blindly, so the invariant speaks of
  rows and copies alike: `Sound` holds of the stored row and of every copy a
  request carries, it only gets weaker as more is approved and performed, and a
  copy never differs from its row in what the policy looks at. The four invariants
  follow. `LocalInv` relates the state of `ApplyLocalTransition` to the sequence of
  the effects it has had.
* `BootstrapProofs`. Identity: between the loop's check and its heartbeat the
  client's id is the bound one, and nothing is told before it is bound. Schema:
  what is on record has been done, and so have the statements before the one the
  process is at (`Progress`, statement by statement); only 005 touches incidents,
  and it is not on record while it runs. `PhaseInv` ties the two together.
* `ChannelsProofs`. Channel by channel (`RowInv`): one that was backed up still
  exists, because of the foreign key, and one that was not has the settings it was
  given last; a request on its way carries a URL if it makes a webhook (`TxInv`).
  The count comparisons of a run and a restore follow for any finite table.
* `IngestProofs`. The rules are proved for all integers, not only for the
  readings that `Detection` enumerates: `IncidentCases` and `RecoveryCases` say
  what a signal must show to open or resolve a rule, and exclude each other.
  `StopCoversLiveRules` shows that every rule a stop does not resolve is broken by
  some signal of a stream that is not live. The invariant of a request: what is
  left of a stop's evaluation covers what is still active (`StopInv`), and until
  two requests overlap a computed delta is the rise over the reading that
  `LatestMetricValue` still finds (`DeltaInv`). For `DeltasAddUp` the invariant
  `ReadingsInv` relates that reading to the one saved last: it is never greater
  unless the total fell, and the same unless a reading was passed over.
* `RateLimitProofs`. Neither bound is inductive. In memory `BucketInv` says that a
  bucket holds only what was let through, and all of it that a request could count
  whose reading is not behind the latest: each request prunes every bucket, but
  what it forgets is out of the window of all that are not `late`. A request that is
  let through then meets all of its window (`RoomInWindow`), and a refused one is
  accounted for (`MemoryRefusal`). In MariaDB the row and what was let through
  differ, as a cleanup deletes rows and a late request sets one back to an earlier
  window. `RowInv` says that the row counts at most what was let through in its
  window, which gives the cause of a refusal; `LateInv` that what it does not
  count, of its own window and of the latest one when it is set to another, is made
  up for by `late`. Both rest on the locks: two transactions never hold one row
  (`ExclusiveInv`), and what one has read or deleted stays as it was until it
  commits (`HoldsInv`). A cleanup is harmless because a deleted row is of a window
  before its deleter's, so never of the latest one (`CommitOtherRows`). `WindowMembers` and `WindowStartMonotone` are the
  arithmetic of the fixed windows. `BucketsPerRoute` goes through the routes of the
  mux by their shape (`RouteCases`). `SomeoneAlwaysGoesOn` is what the prover can
  say of `NoStandstill`: the guards of `Step`, written out in `GoesOn`, are never all
  false, because who cannot go on waits for a request that is still there.
  An attempt at that argument showed that a deadlock only between inserts, as the
  model had it first, left two requests that clean up waiting for ever.

## 7. Only model-checked

Liveness (`EveryRequestReturns`, `SuppressionEnds`, `EventuallyRegistered`) and
`NoStandstill`, which speaks of ENABLED: they are outside what the prover handles.
`SomeoneAlwaysGoesOn` proves of the guards of `Step` what `NoStandstill` checks of
`Step` itself; that no conjunct of an action but its guard can fail is left to TLC.

Some things the models show that are not stated as properties, because nothing
in the repository promises the opposite. Two overlapping requests of one counter
count an increment twice. So may MariaDB without any overlap: of the readings 10 and
15 saved in one second the 10 may have the greater id, and a 20 that follows is then
judged by a rise of 10, a repeated 15 by one of 5. (The test of unchanged totals,
`server_test.go:447`, runs on the memory store, where it cannot happen.) A request that fails after `SaveSignal` takes its rise
with it: the resent total is unchanged. An incident whose actions could not be
stored never gets them. The loop's two readings of the config file end the
process when the file appears between them; the next start registers the node. A
race of updates can leave an e-mail channel without recipients, and an update of
the SMTP host alone is validated as a global channel but stored as a direct one
without a sender. The migration's backup is the first one (`INSERT IGNORE`), so
settings written after a restore are cleared by the next run and not kept.

Both limiters read the clock before they wait. A request that is overtaken in
memory may be let through although its window is full, because a later reading
pruned the hits it should have met; in MariaDB an overtaken request of the window
before sets the bucket back, and the window that was going on starts anew. The
bounds are stated with these requests counted (`late`). A first request of a
bucket can be answered 503 as a deadlock victim. When the service stops between
004's ALTER and its record, no later start gets through: 004 alone has no
IF NOT EXISTS (`StuckAt004`, the exception of `EventuallyRegistered`). The
delivery history is saved under what the fan-out left of its deadline, so the
records of a fan-out that timed out can be missing; those that are there are true.

## 8. Not modelled

Listed in `PROJECT.json` with the reason. Authentication is taken as passed by
every request. Texts, masking and encryption carry no control. The retry loop of
a single webhook is in the plan above. The metric queries read a range of signals
and thin it out; nothing depends on what they return. The memory store's channels
are not modelled: it merges an update under its mutex. Two processes that migrate
one database at once are not modelled: the service is deployed as one.
