# salesforce-s3-archiver in TLA+

The repository archives Salesforce event data to S3 with two long-running
programs and a verifier. This directory models the protocols between them and
the services they use (Salesforce, Redis, S3), checks them with TLC on small
instances and proves the central safety properties with TLAPS.

To check a run: `tlc -workers 2 -config sub_takeover.cfg MCSubscriber`;
to check the proofs: `tlapm SubscriberProofs.tla`, and so on for the other
`*Proofs` modules. Sources are named relative
to the repository root; `PROJECT.json` maps every definition to its lines.

## 1. The system

### Stream collector (`cmd/sf-archive-stream`)

* **Subscriber** (`internal/integration/stream/subscriber.go`), one per topic.
  *State*: the lease, the last committed replay ID, the buffer of decoded
  events, the count of failed logins. *Operations*: acquire lease, load
  checkpoint, renew (own goroutine), open session (resume or preset), receive,
  decode, flush on size/age/first batch/end, write objects with retries, commit
  with retries, reconnect with back-off, final flush on shutdown, release.
  *Correct if* the checkpoint never covers an event that is not archived
  (subscriber.go:130), a restart re-archives at most one batch
  (docs/operations.md:76-81), and every event is archived in the end.
* **Checkpoint store** (`internal/checkpoint/redis.go`): lease key with TTL and
  replay key, changed by four Lua scripts that first compare the lease's owner
  token. *Correct if* a process that lost the lease changes nothing.
* **Service** (`service.go`): starts the subscribers, keeps a counter of active
  topics and the readiness flag, cancels all on the first error. *Correct if* it
  stops when it should, says truthfully how it stopped and whether it is ready.
* **`-reset-checkpoints`** (`main.go`): takes the lease and deletes the replay key.
* **Pub/Sub client** (`stream/pubsub/grpcclient`): login, stream, a cache of
  schemas fetched when an event needs one, Avro decoding and the flattening of
  unions. *Correct if* a fetch that fails in the middle of a response loses no
  event, and a flattened record has the values a reader of the schema expects.
* **In-memory store** (`internal/checkpoint/memory.go`) and the **mock Salesforce
  server** (`internal/mocksf`): what the tests run the collectors against.
  *Correct if* they keep the promises of what they stand in for.

### Event log collector (`cmd/sf-archive-eventlog`)

* **EventLogFiles** (`internal/integration/eventlog/collector.go`,
  `quarantine.go`): per poll, list the files of a time window, archive each one
  that has no processed marker, stop at the first failure, store the watermark.
  Files that cannot be parsed are quarantined after some attempts, files that
  cannot be had get a tombstone. *State*: watermark, markers and counters in the
  cache, objects named after the file. No lease: polls may overlap.
* **Custom queries** (`collectCustomQuery`): rows of a window, de-duplicated by
  markers, written in objects of `recordsPerObject` rows with random names; the
  watermark jumps to the poll's own time.
* **Org limits** (`collectLimits`): a snapshot without state.
* **Requests** (`eventlog/query`, `internal/oauth`): a cached token, a re-login
  when it is rejected, pages followed by locator, downloads into a temporary file
  under a stall watchdog. *Correct if* a caller gets all rows (the whole file) or
  an error, and every request ends.
* **Cache** (`internal/cache`): Redis, or a map with lazily removed entries.
* *Correct if* the watermark passes nothing that is not stored, failures do not
  lose or block anything for good, overlaps do not multiply rows.

### Archive and verifier

* **S3 sink** (`internal/archive/s3.go`, `encode.go`): temp file, data object,
  manifest, in this order. **Local sink** (`local.go`): the same with fsync and
  rename.
* **`sf-archive-verify`**: lists data objects, lists manifests, fetches the
  manifests, reads and compares every object. *Correct if* it reports what is
  damaged and nothing else.

### Start-up (both collectors)

* **Configuration** (`internal/config`, `eventlog/config.go`, the two `main.go`):
  read, replace `$VAR`, merge query files, fill in defaults, check, and build the
  archive, the Redis client and the login. *Correct if* what passes the checks can
  run and cannot run without what the guarantees above need.

### How they interact, and what is hard

Subscribers of different processes meet in Redis (lease, replay key) and in
nothing else; pollers meet in the cache; collectors and verifier meet in the
bucket. Hard to test are: a holder that is paused past its lease and comes back;
Redis commands that are applied but reported as failed, or applied late; crashes
between two writes that belong together; shutdown during a flush; overlapping
polls without a lock; records that become visible behind the watermark; state
that is read in one step and used in another (readiness, listings).
`PROJECT.json` lists each hazard with its line and the properties aimed at it.

## 2. Modules

| Module | Models | Checked in |
|---|---|---|
| `PubSubTopic` | replay IDs, retention, start positions of one topic (as `internal/mocksf/pubsub.go` serves them) | used by `Subscriber`, `FetchFlow` |
| `CheckpointStore` | lease and replay key, the Redis scripts, late commits | used by `Subscriber` |
| `Subscriber` | composition: several collector processes, topic, store, archive, operator reset | `MCSubscriber` |
| `AtLeastOnce` | abstract promise of the stream collector | refined by `Subscriber` |
| `FetchFlow` | flow control between `session` and the mock's delivery loop | `MCStandIns` |
| `EventDecoder` | schema cache, schema fetches, logins and back-off of one subscriber | `MCDecoding` |
| `AvroFlatten` | native Avro values, `Flattener`, `decode` of identifier and time | `MCDecoding` |
| `Service` | `RunService`, readiness, logins | `MCLifecycle` |
| `Shutdown` | how long a subscriber takes to stop: `flushContext`, `renewLease` | `MCLifecycle` |
| `StartUp` | configuration, checks and constructors of both commands | `MCLifecycle` |
| `FencedStore` | abstract promise of a checkpoint `Store` | refined by `MemoryStore` |
| `MemoryStore` | `checkpoint/memory.go` | `MCStandIns` |
| `Watermark` | clock and watermark of a poll | used by `EventLogFiles`, `CustomQuery` |
| `EventLogFiles` | `collectLogFiles`, quarantine, tombstones | `MCEventLogFiles` |
| `CustomQuery` | `collectCustomQuery`: windows, markers, objects | `MCArchiving` |
| `RowVersions` | which queries are accepted, row keys and event IDs | `MCArchiving` |
| `RestQuery` | token cache, re-login, pages; the mock's REST side | `MCRequests` |
| `Download` | `DownloadCsvFile` with its watchdog | `MCRequests` |
| `TtlMap` | abstract promise of a cache | refined by `MemoryCache` |
| `MemoryCache` | `cache/memory.go` | `MCStandIns` |
| `ArchiveVerify` | S3 sink and verifier on one bucket | `MCArchiving` |
| `LocalSink` | local sink on a file system that may lose what is not synced | `MCArchiving` |
| `SubscriberProofs` | proofs about `Subscriber` | |
| `EventLogProofs` | proofs about `EventLogFiles` | |
| `QueryProofs` | proofs about `CustomQuery` and `RowVersions` | |
| `ArchiveProofs` | proofs about `ArchiveVerify` and `LocalSink` | |
| `StandInProofs` | proofs about `MemoryStore`, `MemoryCache` and `FetchFlow` | |
| `RequestProofs` | proofs about `RestQuery` and `Download` | |
| `DecoderProofs` | proofs about `EventDecoder` | |
| `LifecycleProofs` | proofs about `Service`, `Shutdown` and `StartUp` | |

The MC modules `MCStandIns`, `MCDecoding`, `MCRequests`, `MCArchiving` and
`MCLifecycle` hold components that share a theme but no state. Their variable
`part` says which component a behaviour runs; the others stay in an initial (or
final) state. The reachable states are the disjoint union of the components',
every property is checked on each of them, and nothing is interleaved that does
not meet in the program. The fairness conditions stand in these modules because
they have to name the variables of the group. Each module's own `Spec` is what
the proofs and the refinements are about.

Conventions. Everything that can go wrong (an error, a crash, an expired key, a
signal) consumes one unit of `faults`, or of a counter of its own (`mishaps`,
`expiries`, `outages`, `breaks`, `losses`), so TLC explores every combination of
up to the bound of each; actions without `Fault` are what the code does by itself.
History variables, marked "history" where they are declared, record what a
property needs and the code does not store. A definition whose comment begins
with "Mutant" is a wrong version of the definition after it; it is used only to
see that a property notices it.

### Subscriber

`col[c]` is the process in slot c: `pc` says which call it is at. A step is one
call visible outside the process (a Redis script, an S3 write, a received
response) or one branch between two such calls. The correspondence:

| Code | Actions |
|---|---|
| `main`, process death, SIGTERM | `Start`, `Crash`, `Shutdown` |
| `Run` to the loop (172-219) | `Acquire`, `AcquireUnknown` (applied, reply lost), `AcquireFails`, `LoadResume`, `LoadBootstrap`, `LoadNoCheckpoint`, `LoadFails` |
| `renewLease` | `RenewLost`, `RenewTimesOut`; expiry: `LeaseLapses` (nobody renews), `LeaseExpires` (under a live holder) |
| `session`, opening | `OpenCustom`, `OpenRejected`, `OpenPreset`, `OpenFails` |
| select loop | `SelectDone`, `SelectRenewErr`, `StreamEnds`, `FlushTimer`, `Receive`, `Keepalive` |
| decode loop | `Decode`, `DecodeSchemaFails`, `DecodeFails`, `ResponseDone` |
| `flush`, `writeWithRetry` | `Write` (one event type's object), `WriteFails` |
| `commit` | `CommitOk`, `CommitLeaseLost`, `CommitErrors` (not applied, applied, or applied later: `CommitArrivesLate`), `KeepaliveInterrupted` |
| deferred flush, `Run`'s loop, defers | `EndSession`, `AfterSession`, `Backoff`, `Release` |
| `resetCheckpoints` | `OpAcquire`, `OpClear`, `OpRelease` |

There is no clock: a timer may fire, and a lease may expire, whenever its
condition allows, which covers every timing. `base` and `floor` are history: the
position from which the archive is meant to be complete (where a bootstrap
started). Back-off, requested events and shutdown times have modules of their own.

### FetchFlow

`requests` and `responses` are the two directions of the gRPC stream, `demand`
and `cursor` the server's, `pending` the client's count. The delivery loop is
`Look` (under the locks), `Park` or `SendEvents` or `SendKeepalive` (after them);
`ReadRequest` is its reader goroutine. `HandleResponse` is one turn of `session`
with its flushes and the request for more; `BreakStream` drops what is on the wire.
`jumped` is history: events the server's own cursor skipped in a keepalive (see
section 5).

### EventDecoder and AvroFlatten

`schemaCache` outlives sessions. `DecodeEvent` decodes with a cached schema or
fetches it; `DecodeSchemaFails` ends the session after the deferred flush. `Login`
and `LoginFails` are the first login, `Rejected` and `RejectedLater` a stream that
Salesforce refuses or ends because the token has expired; both log in again
(`Reauthenticate`, the auth branch of `classifyStreamError`), and a session that had
received data counts its failed logins afresh. `Backoff` is the delay. `answered`
(the session dealt with a whole response) and `futile` (sessions in a row that got
nowhere) are history. In `AvroFlatten` a schema is the
parsed JSON tree, a native value carries the Go type the code switches on,
`Decoded` enumerates pairs of a native value (as goavro produces it) and the value
a reader of the schema means, and `Flatten` is the code.

### Service, Shutdown, StartUp

`Service`: per topic the path from `acquire` to `stopped`; `active.Add` and
`metrics.SetReady` are separate steps (`FirstData`/`StoreReady`,
`Inactive`/`StoreUnready`), because other goroutines run between them. `token`
is what Salesforce makes of the credentials and may change at any time.

`Shutdown` has a clock: `Tick` advances the age of the flush, the timeout the
signal started, the lease and the renewal timer. `FlushContext` is the deadline
of a flush, `Renew` the renewal goroutine, `Decode` the rest of a response.

`StartUp`: the steps of `run` in order (`ReadConfig`, `ParseQueryFiles`,
`IntegrityCheck`, `FromConfig`, `BuildCache`, `ConnectRedis`), each of which goes
on or ends with the exit code of the source. The checks are operators on a
configuration record; `Var` is a value that names an environment variable.

### MemoryStore, MemoryCache and their promises

Every call of either holds a lock, so a call is a step. `MemoryStore` keeps the
expiry of the lease as the ticks it has left; an expired owner stays until
somebody looks. Mapped to `FencedStore`, the holder is the owner whose lease has
not expired. `MemoryCache` keeps expired entries until they are read or swept;
mapped to `TtlMap`, the data is what a read would return.

### Watermark, EventLogFiles, CustomQuery, RowVersions

Time is counted in ticks, `Second` of them to a second, so the truncation of
SOQL timestamps is real. Salesforce creates a file (or starts a transaction) and
shows it up to `MaxDelay` later, `MaxDelay <= Overlap` being what the overlap is
for. A poller goes through `BeginPoll`, `List`, then per file in
`ORDER BY CreatedDate, Id`: skip, archive, or count a failure and quarantine,
tombstone or stop; `StoreWatermark` ends the poll. In `CustomQuery` a *version*
is a record with its timestamp; `copies` counts how often each was stored.
`RowVersions` leaves the windows out and looks at the keys: `Collect` builds
marker and event ID of each row from the configured fields, with the spelling of
field names and the length that is put in front of each joined value. `ConfigsFit`
says what the settings must say about the object and no check of the code can
see, see section 4.

### RestQuery and Download

The steps of a request that touch the shared token cache or the server are
actions (`ReadCache`, `LogIn`, `StoreToken`, `Request`, `DropToken`...); the
client's page loop is `TakePage`. The server has tokens, and cursors that belong
to the token that opened them. In `Download` the watchdog's timer (`timer`) and
the goroutine it starts (`fired`) are separate from the read they race with.

### ArchiveVerify and LocalSink

In `ArchiveVerify` content is a number; two writes of a key give the same one
unless the key is `Undated`. Uploads fail applied or not applied; `Damage`
deletes, damages or alters an object. The verifier's two listings, each manifest
fetch and each object read are separate steps. In `LocalSink` files and directory
entries are absent, cached or on disk; `WriteBack` moves any of them to disk at
any time, `PowerLoss` drops what is only cached.

## 3. Runs

| Run | Checks | Bounds |
|---|---|---|
| `sub_takeover` | `TypeOK`, `CheckpointCovered`, `CleanStop`, `OneBatchReplay`, `CheckpointMonotone` | 2 collector slots, 3 processes, 4 replay IDs of two event types with a hole, batches of 2, 2 faults |
| `sub_reset` | `KeepsPromise` | 2 slots, 4 processes, LATEST, one replay ID that may expire, one reset, one late commit, 2 faults |
| `sub_live` | `EventuallyCommitted`, `LoserStops` | 2 slots, 4 processes, 1 event, 2 faults |
| `elf_overlap` | `TypeOK`, `NoFileSkipped`, `FailedFileRetried`, `GivenUpLate` | 2 pollers, 2 files, 6 ticks = 3 s, overlap and delay of half a second, 1 fault |
| `elf_live` | `EveryFileAccounted` | 1 poller, a good, a malformed and an unavailable file, 1 fault |
| `elf_window` | `FailedFileRetried` (violated) | 1 poller, initial window of 1 s |
| `lifecycle` | `AcceptedRuns`, `ServiceSafe`, `ShutdownSafe`, `BadCredentialsStop`, `FirstErrorStopsAll`, `SignalEnds` | all configurations that differ from a good one in up to two settings; 2 topics, 3 login failures, 4 faults; flushes of 4 ticks, lease of 3, batches of 2 and responses of 3 |
| `service_ready` | `ReadyWhenActive` (violated) | 2 topics, 1 fault |
| `archiving` | `NoRowSkipped`, `CopiesBounded`, `RowsToldApart`, `BucketSound`, `VerifierTruthful`, `FilesSafe` | 2 pollers, 2 records (one without key) in an object each, 4 ticks = 2 s, overlap and delay of half a second, 2 changes, 1 fault; 2 queries out of 9, 2 records whose joined fields look alike; 2 writers, 2 keys, 3 writes, 3 mishaps; 2 local objects, one in a new partition, 2 power losses, 2 failures |
| `decoding` | `DecoderSafe`, `SlowsDown`, `FlattenFaithful`, `EventuallyCommitted` | 3 events of 2 schemas, the last one corrupt, 2 expiries, 2 outages, 2 breaks; event schemas with one body field up to two levels deep |
| `requests` | `QuerySound`, `DownloadSafe`, `EventuallyComplete`, `DownloadEnds` | 2 clients, 3 rows on pages of 1, at most 2 pages, 1 expiry, 1 fault; files of 3 pieces, a stall time of 3, pauses of 2 |
| `standins` | `NoStaleHolder`, `SweepComplete`, `DeliverySound`, `IsFencedStore`, `WaiterServed`, `IsTtlMap`, `EveryEventReached` | 3 handles, lease of 1 tick; 2 keys, 2 values, 8 ticks, sweep every 2; 5 events, appetite 3, responses and batches of 2, 1 keepalive, 2 breaks |

Invariants that belong together are one named conjunction, given at the end of
their module (`DeliverySound` is `TypeOK`, `DemandAccounted`, `NothingTwice` and
`NoEventSkipped`, and so on); the parts carry the comments that say what they
are about, and most of them have a mutant of their own in `PROJECT.json`.

Why the bounds are enough to be interesting: a takeover needs two processes and
one expiry, a second takeover three, and with a reset between them four; a partial flush needs two
event types in one batch of two; a keepalive beyond the last event needs a hole
in the replay IDs; a late commit that meets a reset needs one of each; the poll
races need two pollers and one file behind the watermark, the truncation needs
two ticks to a second; a poll whose later object fails needs two rows in two objects
(objects of several rows are in the proofs, which hold for any `PerObject`); a schema failure in the middle of a response needs two
schemas and an event on either side; the demand is interesting when the appetite
is odd and not a multiple of a response (the run has an appetite of 3; the theorem
`DeliveryIsSound` covers every appetite, `EveryEventReached` is checked for this one); a locator of an old token needs a second
page and an expiry between the two; a torn partition needs one that is new; a
wrong combination of settings needs two of them. `CheckpointMonotone` is checked
without late commits and resets because both may legitimately move the checkpoint
back (a late commit of the *same* holder may, after a later one; it stays covered:
`CheckpointsCovered`, section 4, and `sub_reset`).

### What the violated properties say

1. `service_ready`: `metrics.SetReady(active.Add(1) == total)` (service.go:78)
   is two steps. The topic that counted first can store its `false` after the
   other stored `true`: all topics healthy, `/readyz` negative until a session
   ends. docs/operations.md:19 defines readiness as all topics having data.
2. `elf_window`: before a first watermark exists, `since()` (collector.go:97) is
   relative to the current time. A file whose archiving fails until it is older
   than `initialTimeInterval` drops out of the window, and the next poll stores
   a watermark behind it. The comment on `Poll` (collector.go:55) and the
   operations guide on S3 outages (line 93) promise that it is retried.

### Fairness

* `Subscriber`: a running process takes its own steps, an exited task is
  restarted (ECS service), a key with a TTL that nobody renews expires, and the
  renewal ticker notices a lost lease. Nothing is assumed about which ready case
  `select` takes, about keepalives, or about anything that fails; failures are
  finite in number.
* `Service`: goroutines run, a rejected session is told so, and a lease held by
  another process becomes free. No fairness for shutdowns, failures or
  credentials.
* `Shutdown`: time passes and goroutines run; Go's `select` picks a ready case at
  random, so a case that is ready again and again is taken in the end (strong
  fairness). An upload need not end by itself.
* `EventLogFiles`: time passes, files appear, pollers go on polling (a loop, or
  a schedule for `-once`).
* `RestQuery`: a collector goes on with its query and polls again. `Download`:
  time passes and the client's goroutines run; a server that has not hung sends.
* `EventDecoder`: the collector runs, the schema service comes back, and `select`
  passes over neither a response nor the flush timer for ever. A stream whose token
  has expired may stay open or be ended (`RejectedLater` has no fairness).
* `FetchFlow`, `MemoryStore`: every goroutine that can run does, tickers tick, a
  waiting handle asks again every 10 ms.

Deadlock checking is off in all runs: with bounded events, faults and processes
every instance may come to rest, and the service may stop.

## 4. Proofs

Every theorem below holds for all values of the constants that satisfy the named
assumptions: any sets of processes, keys, files or records, any sizes and times.
The bounds on faults and events are arbitrary numbers, so nothing depends on the
small values of the runs. Each proof has the same shape: an inductive invariant
(named `...Inv`), a lemma per action that it is preserved, and the theorem that
combines them. `TypeOK` of a component is part of its invariant; the table's
properties are those the runs check.

| Module | Theorems |
|---|---|
| `SubscriberProofs` | `TypeCorrect`, `CheckpointsCovered`, `PromiseKept` (refinement of `AtLeastOnce`), `NeverMovesBack`, `StopsClean`, `RestartRepeatsOneBatch` |
| `EventLogProofs` | `TypeCorrect`, `NoFileLost`, `GivingUpIsLate`, `FailuresAreRetried` |
| `QueryProofs` | `NoRowLeftBehind`, `FewStoredTwice`, `RowsAreToldApart` |
| `ArchiveProofs` | `ManifestsBacked`, `VerdictRight`, `LocalFilesSafe` |
| `StandInProofs` | `HolderKnows`, `MemoryStoreIsFenced` (refinement of `FencedStore`), `SweepLeavesNothing`, `MemoryCacheIsTtlMap` (refinement of `TtlMap`), `DeliveryIsSound` |
| `RequestProofs` | `DownloadsAreWhole`, `QueriesAreSound` |
| `DecoderProofs` | `DecoderIsSafe`, `DelaysGrow` |
| `LifecycleProofs` | `ServiceReturnsTruth`, `ShutdownIsSafe`, `AcceptedConfigsRun` |

### Assumptions

Most of the `ASSUME`s say that bounds are numbers and sizes positive. The others:

* `MaxDelay <= Overlap` (`EventLogAssumption`, `QueryAssumption`): Salesforce shows
  a file or a change no later than the overlap after its timestamp. That is what
  the overlap is for; without it `NoFileSkipped` and `NoRowSkipped` are false.
* `IsFiniteSet(Pollers)` in `QueryAssumption`: the bound on copies counts pollers.
* `Keys # {}` in `ArchiveAssumption`; `NoToken` is neither a token nor a client in
  `RestAssumption` (in the model a client names the cursors it opens).
* `StartAssumption`: a configuration has the fields of the Go structures, with
  their types (`requestTimeout` is unsigned, for instance) and any values.
* `ConfigsFit` in `RowAssumption`: a `timestamp` that is configured is the time of
  the last change; a `customId` of a query without `Id` has text fields in which no
  two records agree; queries that select the same fields without `Id` have the same
  `customId`. Without the first two a setting names the wrong field and rows of
  different versions or records really are the same to the collector; the third is
  a gap of `queryHash` (section 5). Texts, configurations and records are otherwise
  arbitrary.
* Three theorems have a hypothesis of their own: `NeverMovesBack` that no commit
  arrives late (`MaxLate = 0`), because a late one may move the checkpoint back
  within what is covered; `FailuresAreRetried` that the initial window reaches back
  to the first file (`InitialTimeInterval >= MaxClock`), because otherwise the run
  `elf_window` shows the property violated; `RestartRepeatsOneBatch` that the
  bounds are those of a takeover (`Takeover`: no late commit, no reset, nothing
  leaves the retention window, no collector starts at LATEST). These are the bounds
  of `sub_takeover`; collectors, processes, faults, events and batch sizes are
  arbitrary. Each part is needed (TLC finds a counterexample with any one of them
  dropped, batches of 1 and 4 processes): after a reset, an expired checkpoint or a start at
  LATEST a collector that lost its lease may write events far from where the
  checkpoint is next stored, and a late commit moves the checkpoint back.

### The stream collector

`CheckpointCovered` is not inductive: it says nothing about the buffer whose last
replay ID a commit is about to store. `IInv` is `TypeOK`, `StoreOK` (the covered
range of the store and of in-flight commits) and, for each process, `ProcOK`:
within a session everything consumed since `base` is archived or buffered; the
buffer ends at the last consumed event; during a flush the part of the buffer that
is no longer to be written is archived; a commit is reached only with the whole
buffer archived; and outside of sessions nothing is buffered. `LocalStep` and
`ProcessStep` reduce an action of one process to a fact about the record it
becomes, and the archive only grows, so the other processes' parts survive
(`ProcMonotone`).

The refinement of `AtLeastOnce` needs to know who may move the checkpoint. `JInv`,
relative to `IInv`, has three parts. `PInv`: no two processes have the same token
(`TokensOK`); a holder's base is the store's, and before its first acknowledged
commit the store is empty unless a commit of its own is in doubt (`HolderOK`); a
commit on its way agrees with the store while its sender's token holds the lease
(`CallOK`). `MInv`, without late commits: a holder knows the stored position and
has consumed at least as much. `SInv`: what a process consumed since its last
acknowledged commit is buffered, and nothing is left of it when the process leaves
without an error. A step of `Subscriber` is then `Store`, `Advance`, `Reset` or a
stutter of `AtLeastOnce`.

`RestartRepeatsOneBatch` is about collectors that write without the lease. `BInv`,
relative to `IInv` and `JInv`, says of every process, whoever holds the lease: it
resumed no later than the stored position, holds at most one batch, and has room in
it while it consumes (`BatchOK`). With `SInv`, what lies between its resume position
and anything it is about to write is in that batch, so the event lies within one
batch of the resume position, and of the stored one, which only grows (`StoredGrows`,
from `StepKinds`). `Near` says so of each archived event by itself, which is what a
write preserves; that all of them together are no more than a batch follows from
the farthest one (`NearIsSmall`).

`DecoderProofs`: nothing before the cursor is missing (`CoveredOK`, `BufferOK`), and
for `SlowsDown` the invariant follows which sessions count as healthy (`HealthOK`):
a session that is healthy when it ends has dealt with a whole response or ended at a
schema, and the latter does not reset the delay. So the delay restarts only after a
session that got somewhere, which may well end with a rejection: then the code starts
the count of failed logins and the delay afresh.

`LifecycleProofs`, `Service`: the counter of active topics is the number of sessions
that `OnActive(true)` has counted and `OnActive(false)` has not, so it is zero when
all have stopped; until every topic is launched none can make the process ready.
`Shutdown`: the time since the signal is at most the timeout times the flushes that
began, and those and the ones to come (`ToCome`) are at most `MostFlushes`; a
renewal comes before the lease ends as long as renewals work (`LeaseOK`).
`StartUp`: before the checks a configuration has its shape, after them it is what
they made sure of, whatever environment variables and query files brought in.

`StandInProofs`, `FetchFlow`: positions are ordered the way events travel,
checkpoint, buffer, responses, cursor (`Order`); what the server sends next was
asked for although the demand was read earlier (`NextBatch`); every event up to a
position is archived, buffered, jumped over or in an earlier response (`Complete`).
The demand on the wire is a sum over sequences. What `Sum` returns is proved by
induction in the form "a set of numbers that is not empty has a least element"
(`LeastNumber`, `NumberInduction`, from the well-foundedness of `<`): the set of
lengths up to which the claim holds is everything.

### The event log collector

`NoFileSkipped` is not inductive: the watermark that a poll stores was worked out
from what it read when it began, while others moved the stored one. `IInv` of
`EventLogProofs` has, besides the types, `ClockOK` (files that are not visible yet
are young), `MarkOK` (what the stored watermark promises), `SharedOK` (a processed
marker means the file is accounted for; a counter is below the limit and at most
the number of failures) and for each poll `PollOK`: everything from `base` to its
window is accounted for; everything of the window more than an overlap before its
end is accounted for or still in `todo`, the step that needs the assumption on
`MaxDelay` (`ListOK`); the watermark reached so far keeps the promise of a stored
one. The central step is `PassedByOK`: the watermark moves to the creation time of
the *first* file of `todo`, so nothing before it is left. All of this survives the
steps of other polls, because the archive and the failures only grow and new files
are created in the present (`PollMonotone`).

`QueryProofs` argues the same way about rows, whose watermark jumps to the time the
poll began: what changed so recently that the query missed it is younger than the
overlap. `FewStoredTwice` counts: a poller that has a version in its hands and will
find its marker missing has paid for it with a fault.

`RowsAreToldApart` first shows that values joined with their lengths can be taken
apart again (`JoinInjective`): by induction over the fields, in the form described
for `Sum`, the place and length of each value are the same in both joins. So two
rows with the same ID show the same record (`SameRecord`), and with the same marker
also the same version (`SameStamp`, `SameRow`). The property is not inductive, since
the version that a row in the archive shows may no longer be in the object; `RowInv`
says that there is a history `h` of the records such that every archived row shows
one of its versions and every marker stands for such a row (`Known`). Queries with
different selected fields archive different rows, and `queryHash` tells their
markers apart.

`RequestProofs`, `RestQuery`: what a client received is what lies before its cursor,
and the cursor is still open at the server (`RowsOK`); a client that dropped a
rejected token and was not disturbed finds only good tokens (`TokenOK`). `Download`:
the timer and the present silence add up to the stall time, and a temporary file
exists only while it is copied, verified or read.

### Archives, store and cache

`ArchiveProofs`, `ArchiveVerify`: a Write call at its manifest has its object in the
bucket (`WriterOK`, `KeyOK`); a damaged object with a manifest stays in some part of
the report from the listing to the verdict (`VictimOK`), and a run that nothing
disturbed has found the bucket as it is (`CalmOK`). `LocalSink`: a name that can be
seen has a synced body, and a data file is durable before its manifest is begun.

`MemoryStore` maps to `FencedStore` with the owner whose lease has not expired as
holder, `MemoryCache` to `TtlMap` with expired entries taken for absent: reading or
sweeping one is a stutter and only the clock makes it vanish.

### Only model-checked

* All liveness (`EventuallyCommitted`, `LoserStops`, `EveryFileAccounted`,
  `BadCredentialsStop`, `FirstErrorStopsAll`, `SignalEnds`, `EventuallyComplete`,
  `DownloadEnds`, `WaiterServed`, `EveryEventReached`): fairness and ENABLED are out
  of the prover's reach.
* `FlattenFaithful`: `AvroFlatten` follows schemas with RECURSIVE operators, which
  the prover cannot use.

## 5. Disagreements met while modelling

Besides the two violated runs, the models record where code and text differ. A
history variable or an assumption names the case in the module, so that the
properties hold for everything else:

* *Mock server, keepalives* (mocksf/pubsub.go:340). The delivery loop reads the
  demand once to decide what to send and again, unlocked, to decide what a
  keepalive may report; a request that arrives in between makes the keepalive
  report a head whose events were not delivered, and the client commits it. The
  comment at line 338: "The subscription has no undelivered events only when the
  client has outstanding demand; then the head is safe to report." In `FetchFlow`
  these events are `jumped`.
* *Redis cache errors* (redis_cache.go:25). A failed read returns `""` with the
  error, which the token lookup takes for a cached token: requests are sent
  without a token for as long as Redis cannot be read. The comment at line 10
  calls the cache best-effort. In `RestQuery` such a query ends in an error and is
  repeated.
* *New directories* (local.go:56). Directories made by `MkdirAll` are not synced
  in their parent, so a power loss may take a new partition although `Write`
  returned nil. archive.go:4: "A Sink.Write call only returns nil once both the
  data object and its manifest are durably stored". `FilesSafe` promises
  durability for objects in partitions that were there (`Old`).
* *Spelling of fields* (eventlog/config.go:22, collector.go:471). The check that
  the timestamp is selected ignores case, the row key does not: with
  `lastmodifieddate` all versions of a record share a key. config.go:90: "The
  timestamp value is part of each row's de-duplication key, so it must actually be
  selected." `RowsToldApart` is about queries that spell fields as Salesforce does
  (`Spelled`).
* *Queries with another customId* (collector.go:358). `queryHash` covers object,
  fields, conditions, timestamps and API of a query, not its `customId`. The comment
  above it: "Two queries on the same object must not share watermarks or
  de-duplication markers, otherwise one query marks rows the other never archived."
  Two queries that differ in nothing but `customId` share both. With `Id` selected
  that is harmless, as rows are identified by it; `ConfigsFit` leaves out the rest.
* *Time of a shutdown* (subscriber.go:747). Every flush after the signal gets its
  own `ShutdownFlushTimeout`. docs/operations.md:9 speaks of one ("allowing
  `shutdownFlushTimeoutSeconds` (default 90) before giving up"). `ShutdownBounded`
  states the bound that does hold: the timeout times the objects that a buffer one
  event short of full, the response being decoded and the response in hand can
  fill. (A smaller bound, which the instance of `lifecycle` did not refute, turned
  out to be wrong for larger batches when its proof was attempted.)
* *Environment variables in lists* (config.go:232). `scanEnvVars` does not look
  into lists; the comment at line 255 makes no exception. `ScannedFields` in
  `StartUp` follows the code.
* *First batch and schemas* (subscriber.go:436). With LATEST, a schema fetch that
  fails on the first event ends the session before the position is pinned, and
  the reconnect starts at a later LATEST; the comment at line 456 wants the first
  batch to pin it. `NothingPassedOver` is about EARLIEST.
* *Schemas that do not parse* (grpcclient.go:214) are returned as a
  `SchemaFetchError`, so the session reconnects for ever; the comment at line 261
  restricts that error to schemas that "could not be fetched". `decoding` runs with
  `Unparsable` empty.
* *Order of listings* (verify main.go:97). Data objects are listed before
  manifests, so an object written in between is reported among
  `manifestsWithoutObject`, which docs/operations.md:120 explains as "Manifest
  whose data object is missing". `VerifierTruthful` promises no false alarm only
  while nobody writes.

## 6. Not modelled

Logging, metrics other than readiness, generated code and deployment files
change nothing a property is about. The org limits snapshot and the in-memory
sink keep no state. The token exchanges of OAuth, the signing and refresh of IAM
tokens, connection handling of Redis and gRPC and the binary Avro decoding are
library code; their outcomes (works, fails, is rejected) are modelled where they
matter. Of the verifier, the ledger comparison and old manifest versions are left
out; of the mock server, its fault injection (the models' fault actions) and the
rendering of rows. `FetchFlow` has no retention (that is in `Subscriber`),
`EventDecoder` is run with schemas that all parse, `AvroFlatten` leaves out the
lookup of a type by a suffix of its name. Settings that are only copied are not
in `StartUp`. Reasons are in `PROJECT.json`. Redis is taken to be linearizable: a
failover that loses acknowledged writes is not modelled (losing the lease key
alone is).

Assumptions about Salesforce and the file system that the models make:

* A record does not change twice at one and the same timestamp (`Change` in
  `CustomQuery`, `Update` in `RowVersions`). `rowDedupKey` (collector.go:463) takes
  two such versions for one; if a poll stored the first, the second is skipped.
* `Subscriber` receives only from positions the topic retains. The mock server
  rejects an older position when a stream is opened, but delivers from the oldest
  retained event when retention overtakes an open stream (mocksf/pubsub.go:306).
* `SendKeepalive` in `FetchFlow` merges the last look at the demand
  (mocksf/pubsub.go:348) with the sending of the keepalive.
* `LocalSink` has one `Write` per object at a time. Temporary names are distinct
  (local.go:59), so concurrent ones share only the final rename.
* `Download` knows the length of a file from one of its two sources.

Rows without a timestamp get the time of the write (collector.go:342), so
overlapping writes of one file may leave object and manifest that differ:
`Undated` in `ArchiveVerify`; no property covers them.

## 7. Plan

Done, in this order: the subscriber with its store and topic (the guarantee the
system exists for), its proof, the event log collector and its proof, custom
queries, the service, archive and verifier; then flow control, decoding, requests,
downloads, start-up, shutdown, the local sink, row keys, and the in-memory
stand-ins with their abstract specifications; then proofs of the refinement of
`AtLeastOnce` and of the safety properties of every component. Every invariant and
every action property of the passing runs now has a theorem, except
`FlattenFaithful`.

Possible next steps:

1. `FlattenFaithful` for schemas of bounded depth, with `AvroFlatten` rewritten
   without RECURSIVE operators;
2. `RestartRepeatsOneBatch` with resets, for a bound that counts the collectors
   that still write without a lease.
