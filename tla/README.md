# A TLA+ model of Undelete

Undelete is a Telegram Business bot. Account holders connect it to their account;
it stores the messages and media of their chats, and when somebody deletes a message
it sends the holder an alert with what was deleted. One process serves many holders
(tenants). It talks to Telegram (`getUpdates`, `sendMessage`, ...), to PostgreSQL and
to a directory of media files. This project models the parts of `src/bot` that carry
state across goroutines, statements, calls and restarts, checks them with TLC and
proves their safety properties with TLAPS.

## 1. The system

### Components

| Component (under `src/bot/`) | State | Operations | Module |
|---|---|---|---|
| `internal/telegram/poller.go`, `shard.go` | offset, shard queues, the slots of the running batch | `getUpdates`, two submission passes, collect, workers, `Stop` | `Dispatcher` |
| `internal/app/handler.go` | none of its own | routes an update: control commands, capture, edit, deletion, connection report | `TenantErasure`, `Quotas` |
| `internal/business` | `business_connections`, connection cache with TTL and bound, per-owner disabled markers, allowlist | `Resolve`, `HandleBusinessConnection`, `DisableOwner` | `Connections` |
| `internal/tenantexcl` | one RWMutex per tenant | `Shared`, `Exclusive`, release | `TenantGuard`, `TenantExclusion` |
| `internal/erasure` | `data_erasure_requests` | `Request`, `Confirm` and its ordered steps | `TenantErasure` |
| `internal/messages` | `messages`, chat labels | `Save`, `MarkDeleted` (with the alert rows), `DeleteTenant`, `PurgeExpired` | `TenantErasure`, `Outbox` |
| `internal/outbox` | `notification_outbox` rows with status, attempts, lease | `Claim`, deliver, `MarkSent`/`MarkRetry`/`MarkFailed`, retention, erasure | `Outbox`, `AlertQueue` |
| `internal/media`, `media/fetch`, `media/store`, `media/purge` | `media_files`, files on disk | catalogue, fetch, store, tenant erasure, daily purge and reconciliation | `MediaLifecycle`; `TenantErasure` (erasure), `Quotas` (gate) |
| `internal/quotas` | per-tenant ledger in memory | `AdmitCapture`, `AdmitMediaFile`, `AdmitMediaBytes`, `AddMediaBytes`, resync, eviction | `Quotas` |
| `internal/storage/instancelock.go` | a session advisory lock | acquire, hold with periodic checks, retake, lose, release | `InstanceLock` |
| `internal/app/transient.go` | the end of the degraded period, shared by the workers | bounded retry of an update | `Dispatcher` |
| `internal/users` | `users.retention_days` | `SetRetentionDays`, `ListTenantsForRetention` | `MediaLifecycle` |
| `internal/telegram/sendmedia.go` | none | `SendMediaOnce`: the calls of one album | `Outbox` |
| `internal/storage/db.go`, migrations, `config`, `health`, `metrics`, `privacy`, the rest of the Telegram client and formatting | rows, counters, text | single statements, I/O, formatting | not modelled |

### How they interact

The poller is the only goroutine that calls `getUpdates`. It hands a batch to the
dispatcher, which spreads it over the shard workers by connection and chat, waits for
all of it and moves the offset; the next `getUpdates` acknowledges what lies below the
offset. A shard worker runs the handler: it resolves the connection (cache, then
table, then Telegram), asks the quota ledger, enters the tenant's shared side, checks
the connection again and writes. A deletion writes the alert rows in the transaction
that marks the messages. Three loops run beside the workers: the media fetcher and the
outbox worker, which take the shared side for each unit of work, and retention. An
erasure runs on a shard worker, under the tenant's exclusive side.

### What is hard here

* Nearly every component reads under a mutex or from the database, releases, and acts
  later: the second look of `saveMessage` under the exclusion, `storeDB` after a database
  read, the `resync` of the quotas, the lease of an outbox row.
* A caller whose context ends gives up an acquisition that is granted later.
* Telegram redelivers, refuses, answers late or not at all; the process may die between
  any two statements; the offset, the leases and the erasure codes are what makes a
  restart safe.
* The media catalogue and the directory of files cannot be committed together, and two
  loops change both at once.
* One process per database is what the in-memory exclusion is sized for; the lock that
  ensures it lives in a session that can end without the process knowing.
* Shutdown has to end although workers report to a batch that nobody waits for.

`PROJECT.json` lists these hazards one by one, each at its line, with the properties
aimed at it.

## 2. Modules and their correspondence with the code

A model keeps the control of the code (guards, early returns, error paths, the order of
effects) and abstracts the data. A database transaction is one step; a step ends where
the code releases a mutex, finishes a statement or starts a call. A statement that
fails is assumed to have had no effect. `PROJECT.json` maps each definition to its lines.

**TenantGuard** (`tenantexcl/guard.go`). A call of `Shared` or `Exclusive` goes through
`called`, `blocked`, `locked`, `held`; `Cancel` is the `ctx.Done()` branch, after which
`ReleaseAbandoned` is the goroutine that gives the late acquisition back.
`sync.RWMutex` is external and modelled from its contract: an announced writer blocks
new readers and waits only for those it found, and passes the lock to the queued
readers when it unlocks. **TenantExclusion** is the abstract promise: who is inside, who
is inside alone.

**Connections** (`business/service.go`, `cache.go`). Each call is a goroutine that moves
through the labels of the resolution chain; the cache operations are `store`, `storeDB`,
`disableOwner` and `Put`. The recency order of the LRU is abstracted: any other entry may
be evicted. Expiry may happen at any time. `turnedOff` is a history variable. Calls
made by another module continue at its `Labels`; the ones the module makes by itself end at
`resolved` or `disabled` (`Ends`).

**TenantErasure** (`app/handler.go`, `erasure`, the fetcher, one alert loop, the erasing
half of `media/purge`) composes `Connections` and `TenantExclusion` (both by `INSTANCE`)
with the data of one tenant. A resolution inside a handler takes the very steps of
`Connections`. Abstractions: FIFO order per chat is not used (more
interleavings than the code has); a code that left the table may be drawn again; the
statuses of an alert are folded into "the row exists", and purged media rows into
"pending"; a retry of a transient failure is another delivery; one background goroutine plays
the fetcher or the outbox worker; the fetcher handles one file per acquisition.

**Dispatcher** (`telegram/poller.go`, `shard.go`). `submit` and `block` are the two
passes of `Dispatch`, `collect` the wait for the batch and the loop over its slots.
Telegram's side is `acked`. Update ids are contiguous; an answer of `getUpdates` is any
prefix of what is waiting; a slot records only whether it holds `ErrUpdateNotSubmitted`.
The durations of the backoff are left out. A worker's update
runs under `transientRetry.run`: `attempt` and `retries` are its two loop counters,
`degraded` the mark all workers share. Whether an error is transient is a
nondeterministic choice; `AttemptSucceeds` includes `healthy` and the return.
`spenders` is a history variable: the workers that used up their retries since the
last success or cooldown.

**Outbox** (`outbox/repository.go`, `worker.go`, `telegram/sendmedia.go`, the insertion in
`messages.MarkDeleted`). A row has status, attempts, `locked` and the token of the
lease, which is random and therefore identified with the worker whose claim wrote it.
Time is left out: a lease or a retention may end at any moment, and `next_attempt_at` has
passed whenever a claim looks. Two workers stand for the
loops of two processes that overlap. `ORDER BY` is abstracted: any due row may be claimed. A
deletion is redelivered only before its retention elapsed (Telegram keeps updates for a
day, the shortest retention is a day). A media row may take several calls
(`BatchAccepted`, stage `rest`), any of which may fail and replay the row.
An erasure is two transactions, `DeleteAlerts` and `DeleteMessages`, with the erasure of the media in between, which
may fail or die with its process (`StopErasing`); it may then be started again. `erasing` holds
the processes between the two: their own worker and their own deletions wait for the guard, those of
the other process do not. `MarkDeleted` finds a message until `DeleteMessages`, so a redelivered
deletion may queue an erased alert again. `begun`, `delivered`, `faults`, `everFailed`, `erased` and `requeued`
are history variables. A message saved again under its old id after an erasure counts as another message.
**AlertQueue** is the abstract promise: what is owed, parked, settled or gone, and what the owner
received. An erased alert is `gone` if its message is, too; otherwise it is back at `none`, from where
a deletion may make it owed again.

**MediaLifecycle** (`media/fetch`, `media/store`, `media/repository.go`, `media/purge`, the saving of
attachments in `app/handler.go`, `/retention`). One tenant: the table, the blobs with their
time of last write, the temporary file of the running download and the ones crashes
left. The fetcher and the retention pass take one step per statement or system call,
and keep what they listed as they listed it. The pass goes through
`expired`/`markPurged`, `stale`/`purged`, `rows`/`repair` and `disk`/`sweep`, the four phases of
`runTenant`, with the cursors of the `Purger`. Time is a counter, with all durations scaled to
ticks. Abstractions: a stored path is the pair of content and UTC day; rows created in
one tick are of the same age; no dry run; the cap of 25 batches per phase is left
out; no thumbnail, because no code stores one.

**InstanceLock** (`storage/instancelock.go`, the order of boot and shutdown in `cmd/bot/main.go`).
A process goes through `waiting`, `working`, `stopping`, `closed`; `hold` is its `Hold` goroutine. The
server's side is `holder`: a session may be gone while the process believes in it
(`broken`), or be held on the server for a while after the process gave it up (`Abandoned`).

**Quotas** (`quotas/quotas.go` with its callers in the handler and the fetcher). The ledger of
one tenant, the tables it counts, and the goroutines split at every release of the mutex.
`rows` is what the source would count. Tenants share only the bound of the map, so
eviction may happen at any time. Freshness of a memoised refusal and the ageing
of the window are left open; bytes are counted in files of one unit. A failed query
leaves the ledger alone: an unseeded ledger then admits (`open` counts these units), a
seeded one decides by what it holds.

## 3. Runs

| Run | Instance | What it shows |
|---|---|---|
| `guard` | 2 tenants, 3 calls | whoever is inside exclusively is alone (`Exclusion`); the guard implements `TenantExclusion`; a cancelled call's lock is given back; no call starves |
| `connections` | 2 goroutines, 2 ids, 2 holders (one id claimed by both, one holder with two ids), cache of 1, allowlist open or restricted, restarts | a disabled owner is not served as enabled by a late database read; a connection never changes owner; nobody outside the current allowlist is resolved; the cache stays bounded |
| `erasure` | 2 shard workers, 1 background goroutine, 1 message, 1 code | once the holder has been told that the erasure is complete, nothing is stored or on its way out, until a new enabled report; one eraser at a time |
| `erasure_codes` | 2 shard workers, 2 codes | a completed erasure leaves only its own receipt; a replayed confirmation deletes nothing |
| `dispatcher` | 5 updates, 2 shards, queue depth 1, batches up to 4, 2 attempts, 2 process lives | no update overtakes an earlier one of its chat; what Telegram forgets was handled; every update is acknowledged; shutdown completes, retries included; an outage costs each worker one full budget per cooldown |
| `outbox` | 2 workers, an alert of a text and a media row, 2 fast attempts, 1 fault or requeue per alert, erasures by either process | sent means delivered; duplicates, those of a broken album included, are no more than faults and requeues; chunk order; the outbox implements `AlertQueue`: nothing owed is lost, nothing gone comes back; every deliverable row settles |
| `quotas` | 1 shard, the fetcher, limits 2 (messages) and 1 (bytes), 1 capture per window, 1 unit granted unseeded | how far the tables get past a limit; no memoised refusal without its alert |
| `media` | 2 rows of one content, 2 days of 2 ticks, batches and runs of 1, one event (crash, failed phase, refused unlink, redelivery, `/retention`) | a running download keeps its temporary file; a file disappears only for a reason (`UnlinkIsJustified`); a written-off row stays so; the pass converges |
| `instance_lock` | 3 processes, 2 broken sessions, time-outs or crashes | who may work without the lock; an overlap ends; nobody waits for ever for a dead holder |

Why the bounds are enough. Each hazard is a race of two actors over one piece of state, or of one actor
with a failure; two goroutines, with a third where something else must hold the lock
meanwhile, and one or two items are what each of them needs. The dispatcher's feed has
a chat whose first update fills its queue, so that later ones are deferred while
other shards proceed. The outbox bound `MaxFaults` allows an alert one crash, lost answer or expired
lease, or to be queued again once after an erasure, on top of the two attempts of the fast lane: each of these alone
is enough for a second delivery. How several add up is proved. In `media`, batches
and runs of one row or file make every cursor stop and resume, two rows of one content
share a path or not depending on the day, and three ticks are enough for a file to
outlive its grace; `GraceOutlastsADownload` is what the code's durations give (minutes
against 24 hours) and is stated as an assumption. The last process life of the dispatcher is neither cancelled nor crashed
(`MaxLives`); without that bound "every update is acknowledged" would be about a process
that never stays up.

Deadlock is checked everywhere but in `outbox`, where nothing is left to do once
everything was sent and purged.

### Disagreements between the code and what is said of it

Three runs are expected to be violated; each states a sentence of the repository.

* `enabled_is_served_enabled`: the disabled marker of the cache is per owner, so
  disabling one connection of a holder gets a second, enabled one served as
  disabled until the TTL elapses.
* `served_enabled_is_enabled`: writing the row and storing the cache entry are two steps; a
  `DisableOwner` that runs between them leaves an enabled entry over a disabled row. `NoResurrection`
  is the part of the promise that does hold.
* `no_overshoot`: a resync overwrites the ledger with a count that misses a unit admitted
  and not yet written, so the message count can pass its limit. `OvershootBounded` is the
  bound that holds: the limit once per goroutine, one unit, and what failed open.

Observations that no run states as a violation:

* An abort of the first pass of `Dispatch` marks only the slots from the current index on, so the
  offset moves over an update that was deferred before it and never submitted. It has no
  outside effect: `AcknowledgedIsServed` holds, because a cancelled process sends no
  further `getUpdates`.
* Two attachments with the same content and day share a file. When the older row's retention elapses
  first, the file goes although the other row is within retention; the reconciliation requeues
  that row. `UnlinkIsJustified` admits it by name.
* The sweep can unlink an old file that a download adopted after `KnownPaths` was asked; that
  row, too, is requeued. Files that were published and marked in one download are safe.
* `ErrInstanceLockLost` may be raised although no other process has the lock: after a timed-out
  check the process's own abandoned session may still hold it on the server.
* "One retry budget per cooldown" (`transient.go`) is per worker: workers that began before the
  degraded mark each spend theirs. `OneBudgetPerOutage` states what holds.
* `sendForm` reads `writeErr` after the call; if Telegram answers before the body is written, the
  writer may still be running. Both classifications are behaviours of `Outbox`.

* `erasure.go:17-24` justifies the order of the steps by "every later step works on a set that only shrinks". The set of
  alerts may grow again: between `outbox.DeleteTenant` (`erasure.go:369`) and `messages.DeleteTenant` (379) the
  rows that `ON CONFLICT DO NOTHING` would meet are gone, and the message is still found, marked or not. A
  deletion that Telegram delivers again is not gated by the disabled connection (`handleDeleted`), only by the
  guard; it gets in through an overlapping process, or once the media step has failed. The alert, perhaps sent before, is then sent
  again without any fault of delivery. `DuplicatesArePaidFor` counts these requeues and `AlertQueue` admits
  them while the message is stored. An erasure that is run again deletes the alert again; one queued by an overlapping process
  may outlive the erasure.

### Fairness

`guard`, `dispatcher`, `outbox`, `media` and `instance_lock` check liveness.

* Guard: goroutines that can run do run, and holders release, since each works under
  a timeout and releases by `defer`. `SF` on `Lock` because a starving `sync.Mutex` waiter is served in
  arrival order. Nothing forces a caller to come or a context to end.
* Dispatcher: the goroutines are scheduled and handlers return (each call they make
  has a ceiling), a supervisor restarts the process, and `SF` on `getUpdates` because
  Telegram is not down for ever.
* Outbox: the loops run and deadlines pass; `SF` per row on `Claim`, since rows are claimed in
  order of `next_attempt_at`, which starves no due row; `SF` on acceptance of a row that
  Telegram can accept and that is tried again and again. Rows that are refused for ever are
  exempt.
* Media: only the retention pass is fair; it runs at start and on every tick of its interval. Nothing
  is assumed of the fetcher, of time or of the faults.
* Instance lock: the ticker of `Hold` fires, a reconnection succeeds in the end, loops end (each
  iteration has a ceiling), keepalive finds a dead peer, and a waiting process asks again.

## 4. Proofs

For every value of the constants allowed by the named assumptions:

* `TenantGuardProofs`, from `GuardAssumption` (`NoOne` is no acquisition, there is a
  tenant).
  - `GuardInvariant`: `Spec => []LockInvariant`. `LockInvariant` is `TypeOK` with
    `ReadSide` and `WriteSide`: the mutex and the goroutines agree on who owns which side,
    the announced writer waits for exactly the readers that are left, and once its `Lock`
    returned there is none. It is inductive, and needed because `Exclusion` alone says nothing
    about a writer that is still waiting, which is where a late release could go wrong.
  - `GuardExclusion`: `Spec => []Exclusion`, from the invariant in every state.
  - `GuardImplementsExclusion`: `Spec => ImplementsExclusion`. Initial states map to an empty
    guard; `RLockReturns`, `LockReturns` map to entries, `Release`, `ReleaseAbandoned` to
    exits, and the others to stuttering. `TenantErasure` relies on this promise only.
* `TenantErasureProofs`, from `ErasureAssumption` (what tells a code from a message, a goroutine of one
  kind from one of another). Of the exclusion it uses the promise of `TenantExclusion` only, which
  `GuardImplementsExclusion` establishes; of `Connections`, the actions it is composed of.
  - `ErasureTypesHold`: `Spec => []TypeOK`, by way of `TypeInv`, which adds what a call carries at each
    label (`CallsInv`, `ItemsInv`) and whom the cache names (`EntryInv`).
  - `ErasureOneEraser`: `Spec => []OneEraserAtATime`, from `ExclusionInv`: the labels of a goroutine and
    the gate agree on who is inside and who is alone.
  - `ErasureIsComplete`: `Spec => []ErasedMeansGone`. What is deleted stays deleted
    until the eraser leaves because nobody else is inside (`ProgressInv`). That it stays so
    afterwards rests on the second look under the exclusion: `OffInv` says that it never carries
    an enabled value of an owner who was switched off (`FreshReads`). This needs in turn what the
    cache and a late database read may hold in the instant between the two writes of `DisableOwner`
    (`CacheIsOff`, `LateReads`).
  - `ErasureLeavesTheReceipt`, `ErasureDeletesOnRequest`: the two action properties, from
    `CodesInv` (an erasure runs on a consumed request, and is the only one when it completes).
* `ConnectionsProofs`, from `ConnectionsAssumption`, for any holders, ids, claims and allowlists.
  - `ConnectionsTypes`, by way of `CallsEndWell` (where each call is going, and what it carries) and
    `EntriesAreResolved`.
  - `ConnectionsOneOwner`: the value in hand before a store names the owner of the row (`OwnerInv`);
    the upsert never rewrites an owner.
  - `ConnectionsAdmitted`: the allowlist was applied to every value that is about to be stored
    or returned (`AdmittedInHand`).
  - `ConnectionsNoResurrection`: not inductive alone, because a database read that has not been
    stored yet is in nobody's cache. `OffInv` adds that the rows are off (`RowsAreOff`) and that an
    enabled value read earlier will meet the marker, or precedes the second write of a `DisableOwner` that
    will set it (`LateReads`).
  - `ConnectionsCacheBounded`, for any bound, with the finiteness of the cache.
* `DispatcherProofs`, from `DispatcherAssumption`, for any feed, hash, shards, depth, batch limit and attempts.
  One inductive invariant: `Numbers`, `Sets`, `Work` (together `TypeOK`), `BatchInv`, the queue invariants
  `BusyInv`, `OwedInv`, `OrderInv`, `KeptInv`, and `LedgerInv`, `RetryInv`.
  - `DispatcherTypes`, with the depth of the queues.
  - `DispatcherNeverOvertakes`: what the first pass hands out of a shard is a prefix of what the batch
    has of it, deferrals or not (`BatchInv`); it sits in the queue in order (`OrderInv`), nothing else does
    (`OwedInv`), and none of it is lost (`KeptInv`).
  - `DispatcherAcknowledged`: everything below the offset was handled unless the process is
    cancelled, and everything Telegram has forgotten was handled in any case (`LedgerInv`).
  - `DispatcherOneBudget`: an action property, from `RetryInv`.
* `OutboxProofs`, from `OutboxAssumption` (a token is not the mark of no lease, the budget is positive, the
  workers are finitely many).
  - `OutboxTypes`, with the bound of the attempts, which needs that a leaseholder knows their number
    (`TriesAreAttempts`).
  - `OutboxSentWasDelivered`: an acceptance in hand is of a delivered row (`OutcomesAreReal`).
  - `OutboxChunksInOrder`: the rows of an alert are inserted in order (`TextFirst`), and who holds
    a later one passed the earlier ones (`ClaimedInOrder`).
  - `OutboxDuplicatesArePaidFor`: the property counts only completed faults and requeues. `Balance` also counts the workers
    about to deliver, and gives each row one delivery free while its lease runs or after it is through,
    an erasure included: the step that ends a lease prematurely is the fault that pays, and the
    deletion that queues an erased alert again is the requeue that pays.
  - `OutboxImplementsAlertQueue`: each action maps to a step of `AlertQueue` for its row, or to stuttering;
    `DeleteAlerts` maps to `Erase`, where the rows whose message is stored no more are gone for good, and
    `DeleteMessages` to `Retire` of the alerts that have no row.
* `MediaLifecycleProofs`, from `IdsAreNumbers`, `BoundsArePositive` and `GraceOutlastsADownload`.
  - `MediaTypes`, with the cap on the files of one run: the page in hand is within it as well (`ScanInv`).
    The lemma `LimitHolds` says what `LIMIT n` returns.
  - `MediaTempInFlightKept`: a download in flight is no older than `MaxFlight` (`FlightInv`), what the
    sweep takes is no younger than the grace (`SweepInv`), and `GraceOutlastsADownload` separates the two.
  - `MediaPurgedIsFinal`: `MarkStored` and `MarkPendingRetry` overwrite any status, so the proof is that
    what was listed earlier still is what it was: `QueueInv` for the fetcher, `PageInv` for the pass.
  - `MediaUnlinkIsJustified`: a candidate of the sweep is older than any row that names it by now
    (`SweepInv`), a page of expired rows is still expired (`PageInv`).
* `QuotasProofs`, from `QuotasAssumption` (positive limits, a percentage of 1 to 99, finitely many shards).
  - `QuotasTypes`: `Spec => []TypeOK`, with the bound of the rate window.
  - `QuotasNoSilentDrop`: `Spec => []NoSilentDrop`. Inductive relative to `TypeOK`; the
    step that matters is `Apply`, which drops refusals and alerts by two different
    comparisons. It needs `ThresholdWithinLimit`: `warnThreshold` never exceeds its
    limit, whatever the two roundings do.
  - `QuotasOvershootBounded`: `Spec => []OvershootBounded`. The rows alone say nothing of what is under
    way, so `Bounded` adds to them what each goroutine may still add (`ShareOf`: a granted unit, or what
    its count would let through) and what the ledger would (`Room`). The shares are summed as the
    number of squares under a function, which needs no induction. Every step but `Count` pays for what it
    takes; after a `Count` either all goroutines hold a count, and nobody asks the ledger before
    the next one overwrites it, or one of them has a unit at most.
* `InstanceLockProofs`, from `DropsAreCounted` and `NoSessionIsNone` (no session is the mark of a free
  lock), for any number of processes.
  - `InstanceLockTypes`: `Spec => []TypeOK`.
  - `WorksWithTheLock`: `Spec => []LockOrUnnoticedLoss`. The property alone is not inductive: it does not
    say that an open connection of a checking `Hold` still has the lock. `LockInv` adds that
    (`OpenIsLocked`), which connection each state of `Hold` has (`ConnOfHold`), and that `Hold` runs
    while the process works (`HoldRuns`).

Every invariant and action property of a passing run is proved. Only model-checked: all liveness
(`NoLeakedAcquisition`, `EveryCallEntersOrGivesUp`, `EveryUpdateAcknowledged`, `ShutdownCompletes`,
`EveryAlertSettles`, `Converges`, `NobodyWaitsForTheDead`, `OverlapEnds`), which is out of this prover's
reach, and the three refutations of section 3, each of which is a behaviour TLC exhibits. The proofs
about one component take the others as its module does: `TenantErasure` and `Outbox` see
the same alerts at two levels of detail, and no theorem relates the two.

## 5. What is not modelled

* Inside a download: the three HTTP attempts, size limits and hashes; they end in success, refusal
  for good or postponement. Path validation and the `openat` checks of `saferemove.go` end in
  success or refusal.
* The dry run of the purge, and its cap of 25 batches per phase.
* The splitting of alert texts, captions and albums into rows: `Outbox` starts from the rows.
* Two processes at work at once with one set of tables, except in `Outbox` (two workers):
  `InstanceLock` shows when that can happen and that it ends.
* Row level security: visibility is the database's; a tenant's statement sees its tenant.
* Formatting, parsing, HTTP, configuration, health, metrics and texts: no protocol state.
* Two things met while reading that no run states: a failing query of a re-verification
  refuses the capture although comments of `quotas.go` say that a failing source fails open;
  and two goroutines may both give a fresh-refusal alert in one recheck interval.

## 6. Plan

Modelling is complete as far as section 5 allows, and the safety properties of the runs are
proved. What is left:

1. `TenantErasure` states the steps of `Connections` with its own guards around them; that it implements
   `Connections` with one owner could be stated as a refinement and proved like `AlertQueue`'s.
2. The alerts of `TenantErasure` as an abstraction of `Outbox`.
