# Verdictan: a TLA+ verification project

Verdictan is an AI governance gateway written in Rust: it sits between
applications and model providers, applies policy, limits and routes traffic,
and records evidence of every governed decision. This directory holds TLA+
models of the parts of the gateway that keep state and can go wrong in an
order of events nobody tried, TLC configurations that check them on small
instances, and TLAPS proofs of the results that matter most.

Paths below are relative to the repository (`src/gateway/...`); in
`PROJECT.json` they carry the prefix of the checkout (`src/src/gateway/...`).

## 1. Inventory

Most of the repository's 330 000 lines of Rust are request and response
transformation: provider adapters, format translation, policy linting,
detection heuristics, CLI commands and their tests. They are functions of one
request or one file, and unit tests reach them. The state that outlives a
request, and the steps that race, crash or time out around it, sit in a few
dozen files, which this section lists.

### Durable audit evidence

*State.* `gateway/event_wal.rs` keeps segment files of newline-terminated
records, a `checkpoint.json` (the frontier: segment, offset, count of
acknowledgements), quarantine documents for corrupt records, and in memory the
write position, byte and record counters and outstanding reservations.
`gateway/event_delivery.rs` keeps the ids persisted by this process, the
delivery lock, and encrypted documents for permanently rejected records.
*Operations.* append, append through a reservation, reserve, drop a
reservation, next_pending, acknowledge (save checkpoint, compact), open and
recover; persist an event, deliver inline, the worker's claim / send / await /
acknowledge / quarantine loop, abort on shutdown, the backlog snapshot.
*Interaction.* `gateway/server.rs` persists an admitted decision before it
dispatches the request and answers 503 when it cannot; the worker shares the
log with the sink through a mutex and spawns blocking tasks.
*Hard.* crashes inside a write, failed truncation, a torn tail with records
behind it, capacity with promised bytes, a worker aborted while its blocking
task runs on, late answers of the API, retries.
*Correct when* an fsynced record stays until it was delivered or quarantined,
the frontier passes nothing that was not read, capacity counts what was promised, nothing is
delivered that was not logged, and everything is acknowledged in the end.

### Provider protection

*Circuit breaker* (`gateway/circuit_breaker.rs`): per provider a state, a
failure count and the time of the last failure; consulted before dispatch,
told of the outcome after it, so outcomes arrive in any order and after the
state has changed. Snapshot and restore carry it across a configuration
reload. Correct when an open circuit admits nobody new, a closed one counts
exactly the current run of failures that it was told of, and a healthy provider is used again.
*Health monitor* (`gateway/health_monitor.rs`): rolling per-credential
metrics, probed in the background.

### Traffic limits

*Admission control* (`gateway/admission_control.rs`): an atomic counter per
region and one per family, incremented first and taken back on refusal; the
permit's Drop gives both places back. Correct when the counters are exactly
the callers inside and no limit is exceeded.
*Adaptive concurrency* (`gateway/rate_limit.rs`): a limit that halves on 429
and grows on success, permits, waiters on a Notify, a cooldown; correct when
every permit comes back, no wakeup is lost and everyone is served in the end.
*Rate limits* (same file): fixed windows for the gateway, an address, a user
and a token. Every limiter reads the time before it takes its lock, so late
callers meet a newer window; the gateway-wide one counts after it has released
the lock. Correct when no window accepts more than its limit and a
`Retry-After` is long enough.
*Distributed limits* (`gateway/distributed_rate_limit.rs`,
`distributed_state.rs`, `token_rate_limit.rs`): Redis sliding windows with an
outage policy, and an in-process counter that stands in for them.

### Asynchronous work

*Shadow queue* (`gateway/server_sections/runtime_pipeline/shadow_queue.rs`):
a bounded queue with item and byte reservations, a pool of workers,
cancellation and shutdown, all on atomic counters. Correct when reservations
are exact, every job is counted once, no accepted job is stranded and
shutdown ends the workers.

### Caches and replicated state

*Bounded TTL cache* (`gateway/bounded_ttl_cache.rs`): a map, two heaps of
records for expiry and eviction, generations that tell an old record from a
current one, reads outside the mutex. Correct when every entry has its
records, the map and the heaps stay within their bounds, and eviction takes
the oldest.
*Context CRDT* (`gateway/crdt.rs`): a hybrid clock, an observed-remove set of
entries, a last-writer-wins register for each field, tombstones dropped by
age. Correct when merging is commutative, associative and idempotent and a
late envelope undoes nothing newer.
*Anti-entropy driver* (`gateway/crdt_sync.rs`): one pending envelope, a worker
that posts it to one peer at a time, a receiver with a dedupe cache; locks
are released between the steps, requests are lost, repeated and late. Correct
when what was stored for sending is not forgotten.
*L1/L2 response cache* (`gateway/cache/`), *token validation cache*.

### Supervision

*Supervisor state store* (`supervisor/state_store.rs`): a JSON state file, a
backup and a write-ahead log, shared between processes; writes compare
versions under a file lock, loads repair the files without it. Correct when
the files hold only committed states and no write replaces a state its writer
has not seen. *Lifecycle commands* (`commands/gateway_*.rs`,
`gateway/runtime_upgrade.rs`, `self_update.rs`).

### Control plane

*Relay client* (`gateway/relay_client.rs`): one registered WebSocket session
with the platform, reconnected with a backoff, and a task for each request it
brings, all sharing the sending half. Correct when every answer is whole and
on the connection of its request, every request is answered, and a platform
that falls silent is noticed. *Usage authorization*
(`gateway/usage_authorization*.rs`), *peer relay* (`gateway/relay.rs`),
*reconciliation* (`managed/control_reconcile.rs`), *MCP transport* (`mcp/`).
## 2. Plan

In order of what a failure would cost. All lines but the last are done.

1. `EventWal`, `EventDelivery`, `AuditQueue`, `DeliveryAsQueue`: the audit
   evidence, from the bytes on disk to the API, and the queue it implements.
2. `CircuitBreaker`: the breaker with the fallback loop and the reload.
3. `ShadowQueue`: the bounded queue, one step per atomic operation.
4. `AdmissionControl` and, composed with it, `HandshakeLimits`: a websocket
   handshake through the controller and every request limit.
5. `AdaptiveLimiter`: permits, waiters and both upstream loops.
6. `SupervisorStore` and `CasRegister`: load, repair, replay and the versioned
   write, and the register they implement.
7. `BoundedTtlCache`: generations, heaps and reads outside the mutex.
8. `ContextCrdt` and `CrdtSync`: merge laws, then replicas on a network.
9. `RelayClient`: the reverse tunnel.
10. Left: the reconciliation of the control plane (its plan is fetched kind by
    kind and stops at the first failure, and an error while policies are
    attached to a new role is ignored, so the next run finds nothing to do),
    the Redis side of the limits as an external service, the health monitor,
    usage authorization.

Every safety property of a passing run is a theorem (section 6); liveness stays
with TLC.

## 3. Modules and the code

Each module states its correspondence at its head; the `map` of
`PROJECT.json` gives the lines of every definition.

**EventWal** (`gateway/event_wal.rs`). `disk` holds the segment files as
sequences of bytes, each byte knowing the record it was written for, so a torn
or overwritten record is recognised the way its checksum would be. `ckpt` and
`quar` are the other files; `cur`, `total`, `written`, `reserved`, `resv` are
the writer's memory, lost in a crash. `AppendOk`, `AppendRefused`,
`AppendCompactionFails`, `AppendNotOpened`, `AppendRolledBack`, `AppendTorn` and
`AppendCrash` are the outcomes of one append (rotation, compaction and the
capacity check included); `ReserveRequest` and `DropReservation` the reservation
guard; `NextPending`, `Acknowledge`, `AcknowledgeFails`, `AcknowledgeCrash`,
`Crash` and `Open` the rest. A compaction that fails has removed some of the
obsolete files, in their order, and leaves the writer's total as it was; after
`acknowledge` has replaced the checkpoint, that is an error with the frontier
moved. `log`, `torn`, `tears`, `crashes` and `overcounted` (a failed compaction
has removed files the total still counts) are history and bounds. Record sizes are small constants; bit rot of
bytes once synced is not modelled.

**EventDelivery** (`gateway/event_delivery.rs`) extends it with the sink's
dedup set, the worker (claim, send, await, settle), the blocking tasks that
outlive an aborted worker, the network and the API. The events of `LocalEvent`
are the access decisions an enforcement mode writes with
`persist_durable_decision_local` (`enforcement.rs:1160`): the same log, but no
sink and no dedup set, so they may be appended any number of times. A process
has a machine client or not (`MachineProcess`). An attempt may be
committed and its answer lost; a late answer reaches nobody. **AuditQueue** is
what callers are promised, a FIFO queue that survives crashes;
**DeliveryAsQueue** maps the records beyond the frontier to the queue.

**CircuitBreaker** (`gateway/circuit_breaker.rs`, the fallback loop in
`request_pipeline/responses_part2.rs`, the reload in `gateway/server.rs`).
`cb[g][p]` is the circuit of provider p in the manager of configuration g: a
request keeps the configuration it started with, so two managers are live
during a reload. `Begin` consults `is_allowed` candidate by candidate,
`Succeed`, `Fail` and `NoOutcome` are the ends of an attempt,
`ReloadSnapshot` and `ReloadPublish` the reload, `Tick` the clock. Ages
saturate at the cooldown and counters at the values they are compared with.
`streak`, `missed` and the `stale` mark of a request are history. The streak goes
on across a reload, whatever the snapshot says; `missed` marks the providers of
which an outcome was recorded between the snapshot and the publication, and
which the new manager therefore has not been told of.

**ShadowQueue** (`server_sections/runtime_pipeline/shadow_queue.rs`). Nothing
serializes callers, workers and shutdown, so each atomic operation is a step:
reserve, send, count, release (a load and a subtraction), claim and free a
worker, the parts of shutdown. Counters wrap at `Word`, which stands for 2^64.

**AdmissionControl** (`gateway/admission_control.rs`). Each `fetch_add` and
`fetch_sub` of `try_admit` and of the permit's Drop is a step of the caller.
The gateway itself uses one region, `ws`, two families and the default limits
(it does not pass the `admission_control` section of the configuration on);
the module leaves keys and limits open.

**HandshakeLimits** (`gateway/rate_limit.rs`,
`gateway/distributed_rate_limit.rs`, the two websocket handlers of
`gateway/server.rs`) extends it with what a handler does under its permit:
authenticate, then ask the token's, the gateway's, the address's, the user's
and the tenant's limit. `stage` is the limit a caller has come to, `read` the
time it has read for it, `window` the bucket of every key; a refusal anywhere
drops the permit, and what the limits before it have counted stays counted.
`accepted`, `refusedAt` and `putBack` are history. The other HTTP handlers ask the same
limits without a permit: to the limits they are callers admitted by a
controller that never refuses. A limit may have a window of zero seconds, which
nothing refuses in the configuration: the in-process limiters then find their
window expired at every call, and the tenants' counter takes it for one second
(`TenantSeconds`). `FixedKey` is the keys of tokens, the gateway, addresses and
users that have a window.

**AdaptiveLimiter** (`gateway/rate_limit.rs` and the two loops of
`request_pipeline/responses_part3.rs`). `lim` is the state under the mutex.
A request listens, decides under the mutex, and only then awaits; what it does
between two awaits is a sequence of operations (`work`), because the mutex is
released before waiters are notified and because the streaming loop drops its
permit before it reports a failed attempt while the buffered one reports
first. `Cancel` is the future being dropped at an await. tokio's
`notify_waiters` reaches every future already made, awaited or not (`Hears`).

**SupervisorStore** (`supervisor/state_store.rs`, `persistence.rs`). `primary`
and `backup` are the two files, each a whole state, `Missing` or `Corrupt`,
since files are replaced by a rename. A command loads them one read at a time
without a lock, repairs what it finds, replays a leftover WAL, changes its
copy and persists it: lock, compare versions, write the state file, write the
backup. It may fail or be killed at every step. A state is its write
version and a set of facts stamped by the change that made them.
**CasRegister** is what commands are promised: a register on which one may
only replace the value it has seen. It leaves that rule in two cases only: after
damage, and when a command that found nothing (`recovering`) puts an older value
back over a newer one, which the register marks as `suspect` at that very step
(`overwritten` in the store). Finding nothing, and putting back what is there
anyway, does not count.
`ImplementsRegister` is the refinement.

**BoundedTtlCache** (`gateway/bounded_ttl_cache.rs`). Everything that changes
the cache runs under one mutex and is one action; a get reads the map first
without it, and every call carries the time it has read. `Prune`, `Evict` and
`Compact` are the maintenance each action includes.

**ContextCrdt** (`gateway/crdt.rs`) holds the clock and the merge as operators
on a replica's state; **CrdtSync** (`gateway/crdt_sync.rs`) runs replicas over
a network that loses, delays and repeats. The release of the replica's lock
before the envelope is stored, the worker's wait for an answer and the
receiver's duplicate check, merge and record are separate steps. Wall clocks
disagree and go back. One operation uses one reading of the clock for its
timestamp and for compaction (the code reads it twice in a row), and
`broadcast_snapshot`, which nothing calls, is left out.

**RelayClient** (`gateway/relay_client.rs`). `session` and `conn` are the
loop's connection and those its older tasks still hold; `sink` who holds the
sending half, taken for one frame at a time; `task` the progress of each request, with
the bytes its decoder holds back until a character is whole
(characters have one or two bytes; one that is split over three chunks does not
occur); `sent` the frames
on each connection. A connection is open, closed or silent (accepts and never
answers). A send to a silent platform may end in an error (`GiveUp`) or never
end: the code sets no timeout on it. Requests the loop has not read leave no trace; waiting for the
registration's answer has no timeout in the code, and has none here.

## 4. Runs

| run | instance | shows |
|---|---|---|
| wal | 3 events of different sizes, 2 reservations, 9 bytes in segments of 5 | durability, capacity with exact reservations, segments that read back what was appended, a frontier that passes only what was read, also when compactions fail |
| delivery | a sink event and a local decision, 2 records, 2 crashes, an aborted worker, processes with and without a machine client, no torn writes, answers 200, 422, fair | the frontier passes only settled records, a sink event is appended once per process, refinement of AuditQueue, every logged record is acknowledged |
| breaker | 3 requests, 1 provider, threshold 2, 2 successes to close, one reload, fair | open admits nobody new, closed counts the streak, a healthy provider gets its traffic back |
| shadow | 2 callers, 2 workers, 1 item, 2 bytes, shutdown, fair | every counter exact (reservations, totals, active workers), no job in two places, a reservation finds its slot, accepted jobs run, shutdown stops the workers |
| handshake | 3 callers of 2 families in region `ws` (limits 2 and 1), 5 keys with limits 1-2 and windows of 0-2 s, 2 seconds, 3 handshakes | exact counters, sessions within the limits, no window overfull (tenants: until a window is put back), `Retry-After` long enough |
| limiter | 2 buffered and 1 streaming request, limit 2, 1 retry, delays up to 2, fair | exact permits, no lost wakeup, everyone ends once no new requests arrive |
| store | 2 commands, 1 instance, history of 1, 3 changes, a leftover WAL, 1 damaged file | only committed states, a version identifies its state, the backup is never ahead, refinement of CasRegister |
| cache | 2 callers, 3 keys, capacity 2, 4 inserts, lifetimes 1-2 | every entry has its records, capacity, bounded heaps, room costs one entry at most and that the oldest, at any time a caller may have read |
| crdt | 2 gateways, 1 entry, 1 field, clocks 0-1, 3 mutations, 1 fault | clock ahead, same knowledge gives the same view, nothing vanishes or is forgotten, no field gets older |
| relay | 2 requests, 1 streamed in up to 2 chunks, 2 sessions, backoff 1-2, fair | answers whole and on their connection, text intact under any cut, exact backoff, every request answered and silence noticed, unless a send never ends |
| delivery_retain | 2 events, a torn write, a crash, answers 200, 422, 503 | a sentence that the code breaks (section 5) |
| store_first_use | 2 commands, 2 changes, no damage | another sentence that the code breaks: the version goes back |

*Bounds.* Three actors are enough for every pattern that was looked for: one
that changes the state, one that acts on the old state, and one that meets the
result. Limits are the smallest that are reached and exceeded (a segment that
holds a large or two small records, a queue of one, a threshold of two, a
limit that can be halved and raised again). Crashes, torn writes, aborts and reloads are
bounded by named constants (`MaxCrashes`, `MaxTears`, `MaxAborts`,
`MaxReloads`), the log by `MaxRecords` and `MaxAcks`; retries by the code's own
budget. The proofs do not depend on these values, nor on
the number of providers: a second one multiplies the states of `breaker` by
fifteen and adds only that a request goes on to the next candidate. The crdt
run has one entry and one field because merge treats each by itself; two
gateways with three mutations give a removal, a concurrent write and a third
to be overtaken. The cache rebuilds its heaps at once (`RebuildFactor` and
`MinRecords` 1) so that rebuilding happens within the five inserts that two
callers can make (each checks the bound of four before its own). In shadow, two
jobs never hold bytes at the same time, the cap being that of the larger one;
that the counter is exact when they do is the theorem's part. In the
handshake one caller's token has no limit and one names no user, so that
limits are skipped too.
`store` and `cache` use symmetry of callers and keys, which their safety
properties do not tell apart; the runs that check liveness use none.

*Fairness.* Weak fairness says a task that can go on is polled and that time
passes. Strong fairness is used where something is retried for ever: an API
or a disk that is tried again and again answers well sooner or later
(delivery), and tokio's FIFO mutex serves a worker that keeps asking
(shadow). Callers, crashes, aborts, cancellations and reloads are never forced.
In `relay`, pings, the idle timeout and a lost connection come in time; the
sending half's mutex is tokio's, first in first out, so whoever waits for it
gets it (strong fairness of `LoopLocks` and `TaskLocks`); a frame is sent
unless the platform has fallen silent. In that case nothing is assumed: a peer
that keeps acknowledging the kernel's probes of a full window holds the send up
for ever, so `GiveUp` may happen and need not, and `EveryRequestAnswered` and
`SilenceNoticed` except a session whose sending half is held for ever (`Stuck`).
The local gateway answers, fails or runs into its
30 s timeout; that an event stream ends is an assumption on the upstream.
In `breaker` recovery assumes providers that answer again; in
`limiter` that the upstream answers or times out. With new requests
arriving for ever a waiter of the limiter can starve, since a notification
wakes everyone and the order is not kept: `Drains` therefore speaks of the
time after the last arrival.

Every property has a mutant in `PROJECT.json`: a plausible slip in the code,
defined next to the definition it replaces, that makes TLC report that
property.

## 5. Where the code and its words disagree

Each run marked *violation* checks one sentence of the repository.

- **delivery_retain.** A record appended behind a torn tail, before the tail's
  acknowledgement, is skipped without being delivered or kept.
- **store_first_use.** In a new directory, without damage, one command finds no
  state file, another persists versions 1 and 2, and the first reads the backup
  of version 1 in between, takes it for one that survived a loss and puts it
  over version 2 without the lock (`state_store.rs:658`; by the comments at 133
  and 389 stale stores are rejected and the version is monotonic). That this is
  the only way is what `ImplementsRegister` and `BackupNeverAhead` show: both
  hold until the repair replaces a committed state by another.

Other disagreements met while modelling, without a run of their own:

- A truncated tail that was quarantined and skipped makes the checkpoint
  unreadable as soon as the next record is appended behind it
  (`event_wal.rs:631`; the comment at 214 expects it to load).
- Outcomes recorded between the reload's snapshot and its publication are lost,
  so a circuit that opens in between is closed in the new configuration
  (`server.rs:3133` and 3158; by the comments at 3131 and 3142 degraded
  providers are not flooded again). `ClosedCountsStreak` excepts exactly the
  providers of which an outcome was missed, until their next success.
- A compaction that fails half-way leaves the writer's count above the bytes on
  disk until the next recount, so appends can be refused while there is room
  (`event_wal.rs:516`, 697). The capacity itself is kept.
- `event_delivery.rs:8` says that production emission uses the sink's persist
  functions only; `enforcement.rs:1160` uses `persist_durable_decision_local`,
  which does not consult the dedup set, so a repeated access decision is logged
  and delivered again (`OncePerProcess` is about the sink's events).
- A send to a platform that accepts and never reads has no timeout
  (`relay_client.rs:331`). The loop awaits its ping there, and while it does the
  45 s idle timer is not polled.
- Shutdown resets the shadow queue's item counter while jobs in hand still owe
  a decrement, so it wraps below zero (`shadow_queue.rs:349` and 385; the cap
  promised at line 7 is then gone, which no caller can notice any more).
- The in-process counter that stands in for a tenant's shared window aligns
  windows to the clock and compares for inequality only: a late caller puts
  the old window back, and the current one can accept more than its limit
  (`distributed_rate_limit.rs:515`; line 533 promises "maximum requests allowed in
  the window"). TLC refutes that limit at once when it is asked of tenants without
  exception. `AcceptedWithinWindow` asks it of a tenant until a window was put
  back (`putBack`), and the theorem `TenantExcessBounded` bounds what comes after:
  a window is filled at most once more for every window that was put back.
- A window of zero seconds passes validation and disables the limits of the
  gateway, the addresses or the users it is set for.
- An append whose write and truncation both fail leaves a partial record, which
  its comment excludes (`event_wal.rs:426`); 507 is quarantined although 5xx is
  said to replay (`event_delivery.rs:26`); the backlog estimate is zero after a
  compaction and a restart while a record waits (`event_delivery.rs:178`); late
  answers reach an open circuit, which "shouldn't happen"
  (`circuit_breaker.rs:136`), and can close a half-open one as if they were
  probes; a caller that is being refused is counted for a moment, so another
  can be refused by a region that has capacity (`admission_control.rs:98`).

## 6. Proofs

TLAPS checks the following for every value of the constants, under the
assumptions named in the modules (among them: records of at least two bytes,
positive thresholds of the breaker and limits of admission, queue and limiter,
finite sets of callers where they are counted). The windows of the
request limits may be zero.

**EventDelivery_proofs** covers the log and delivery from it.

*The log.* `TypeCorrect`, `PassesWhatWasRead`, `Durability`,
`CapacityNeverExceeded`, `ReadsBackWhatWasWritten`. The type invariant is not
inductive by itself: recovery takes the largest segment number and recounts
the bytes, which are numbers only if the disk is finite, so `TypeInv` adds
`IsDisk`, a bound on segment numbers and file lengths. Durability then follows
action by action: a write goes behind every logged record of its file, a
compaction removes only segments below the checkpoint, a truncation goes back
to where its own append began. `CapacityInv` counts bytes as cells of rows,
one row for every segment and for every reservation, so that a step changes
one row (`CellsUpdate`); a reservation that was given back must hold nothing,
or a later request would inherit it. A failed compaction takes rows away and
leaves the count, which is why the count is at least the rows, and equal to them
only outside `overcounted`. `ReadBackInv` says of every segment that
no torn write touched that its bytes are those of its records, each beginning
where another ends (`Readable`), and that the writer stands at the end of its
segment; what the reader finds at a boundary is then a logged record.

*Delivery.* `DeliveryTypeCorrect`, `DeliveryImplementsWal`,
`FrontierPassesSettled`, `AppendedOncePerProcess`, `DeliveryImplementsQueue`.
`ControlInv` says who owns an item and that a task which quarantines nothing
was committed by the API or carries a malformed item; with it every step is a
step of the log, whose theorems carry over. The frontier passes only settled
records because of what an old item still means: between the frontier and the
end of a claimed item lies nothing undelivered but the item (`ClaimInv`), also
for a task that outlived its worker while a new one moved on. `AppendInv`
bounds the records of an event of the sink by the crashes and its entry in the dedup set.
For the refinement of AuditQueue the queue is the one listing, in append order,
of the records beyond the frontier; `QueueInv` says that this listing exists
and that whatever is in flight is a logged record. The refinement is proved
for the behaviours without a torn write, `[](torn = {})`, which is also what
the run checks; with one, records can be skipped (section 5), and
`FrontierPassesSettled` says what holds of the other segments.

**CircuitBreaker_proofs.** `BreakerTypeCorrect`, `OpenShutsOut`,
`ClosedIsExact`, `OpenIsTimed`, from one inductive invariant `BreakerInv`. It
adds to the checked invariants that a snapshot under way is below the threshold
and counts the streak of the manager it was taken from, except for providers
of which that manager or the coming one has missed an outcome (`Soundness`):
the streak runs on while the snapshot stands still. It also says
that a request belongs to a published configuration (`Placement`), else a
publication could put it in front of a circuit it has not asked.

**HandshakeLimits_proofs.** First the controller alone:
`AdmissionTypeCorrect`, `AdmissionExact`, `AdmissionBounded`. The counters are exact because a step changes a counter
by as much as it changes the set of callers it counts (`AtMove`). The limit of
a region is not inductive for permits alone: a permit is preceded by a place
in the region, so `Admitted` bounds everyone the region has let pass.

Then the handshake. `HandshakeImplementsAdmission`: every step of a
handshake is a step or a stutter of AdmissionControl, so its theorems carry
over, and `SessionsBounded` follows since a session holds its permit.
`LimitsTypeCorrect`, `WindowsNeverOverfull`, `TenantExcessBounded` and
`RetryAfterSuffices` come from
`LimitsInv`: whoever is between two limits holds a permit (`UnderPermit`), no
window after the current one has accepted anybody (`NoneAhead`), the current
one has counted whom it has accepted (`AcceptedCounted`) and was open when it
first refused somebody (`RefusedSince`), and who has passed the gateway's lock
has not read a time after its window (`NotBeyond`). Late callers are why these
are needed: the window they find is not the one their time belongs to. For
tenants `TenantCounts` charges every window put back with one filling of the
limit and splits the rest by where a window lies: the present one has accepted
no more than it counts, a later one nothing beyond those fillings, an earlier
one at most its limit. A step forward keeps this, and a step back pays for
itself; with nothing put back it is the plain limit.

**Stores_proofs** covers the state store and the cache.

*The state store.* `TypeCorrect`, `OnlyCommitted`,
`VersionsIdentify`, `BackupBehind`, `RefinesRegister`. `StoreInv` adds who
holds the lock and where (`Exclusive`), what the copy of every command is at
every step (`CopyInStep`), and that no state known to a command is newer than
the file's, or has its version without being the same (`Current`). The last
holds until the state file is damaged or a repair replaces a committed state by
another (`Suspect`). A load that found no file and means to write one is still
bound by it: what it puts back is the state the file holds, or the step itself
makes the store suspect. The refinement allows the register to fall back from
then on.

*The cache.* `CacheTypeCorrect`, `AlwaysTracked`, `NeverOverfull`,
`RecordsBounded`, `OldestGoFirst`. `Sound` (types, finite heaps, both records
of every entry, no generation twice) is kept by pruning, eviction and
rebuilding one by one; room for an insertion exists because the smallest
generations can be counted off, and a rebuild leaves one record for an entry,
under the threshold. That eviction takes one entry only (`EvictsFirst`) needs
the capacity as well: while it holds, the record of any entry would make room,
so the smallest generation that does belongs to the oldest.

**CrdtSync_proofs.** Merging is idempotent,
commutative and associative on all states, which makes the order and number of
envelopes irrelevant. `SyncTyped` carries the clock: every timestamp in a
replica's state is behind its clock, `ClockAlwaysAhead`, and with it
`FieldsNeverOlder`. `NeverForgotten` needs to know which number every envelope
in flight, stored or owed has (`Numbered`): an answer clears the pending
envelope only if it is the one that was sent.

`ReplicasAgree` and `NothingEverVanishes` need the history. `History` says that
there is a function from mutations to states, what each contributed, such that
every replica and every envelope is explained by the mutations it has taken in:
a field is the greatest register contributed (`FieldsOf`), the tags and the
latest tombstones are those contributed (`TagsOf`, `TombsOf`) as long as
nothing was compacted, and an entry is there exactly if it was written
(`Grown`) as long as nothing was removed. A mutation is a merge with its own
contribution (`UpsertIsMerge`, `RemoveIsMerge`), an envelope a merge with that
of several, and compaction without tombstones changes no field and no entry.
Each of the three is characterised by what it contains and not by a fold, so
no induction over the set of mutations is needed, and two states explained by
the same mutations show the same (`SameView`). Restarts reset a clock, so two
mutations may carry the same timestamp; the argument does not need them to
differ.

**AdaptiveLimiter_proofs.** `LimiterTypeCorrect`, `PermitsAlwaysExact`,
`WakeupsKept`, for any number of requests. Both depend on what is left of a
request's work between two awaits: it holds the drop of the permit exactly
while the permit is out, and every change of the limiter is followed by a
notification. `LimiterInv` lists what can be left (`WorkLeft`) and ties it to
the request's place; a waiter that was told to wait has made its future before
it decided, so it hears a notification sent in between.

**ShadowQueue_proofs.** `ShadowTypeCorrect`, `CountersAlwaysExact`,
`ReservationIsPromise`, for any number of callers and workers. A step changes
a counter by as much as it changes the set it counts (`CallerCounts`,
`WorkerCounts`). For bytes that is not enough: a release loads the counter,
clamps the payload to it, and subtracts later. `BytesExact` adds that what was
loaded is the whole payload, which is so because the job itself is still
charged, and `OnePlace` that no job is charged twice. The counters are exact
until shutdown swaps them out or the last worker drops the channel (`Early`),
and since no worker comes back, a step that ends there began there.

**RelayClient_proofs.** `RelayTypeCorrect`, `EveryAnswerWhole`,
`EveryTextIntact`, `BackoffAlwaysExact`, for any number of requests, sessions
and chunks. What was
sent says nothing about what will be, so `Answering` lists for every place of a
task which frames are out and which are left: together they are always the
beginning and the rest of one answer. A task may be over with less only because
its connection was closed, and that lasts: a new session uses a new connection
(`Aside`). For the text, `Intact` says that what was passed on ends at the end
of a character and that what is held back is at most one first byte. A step
keeps this because of two facts about UTF-8 (`PrefixOf`, `SuffixSplits`): cut at
any byte, a well-formed text is whole or lacks the end of one character, and
what follows whole characters is well-formed by itself. A text that was once
malformed stays so, so nothing need be said about replaced bytes.

`BackoffExact` compares the wait, which is doubled and capped again and again,
with the closed form in the number of failures. The powers of two are a
recursive function, and that it satisfies its equation is itself proved: on
every initial segment of the numbers the equation has one solution
(`DoublingExists`, `DoublingUnique`), since a least number without one cannot
exist. `Backoffs` then says for every place of the loop how often the wait was
doubled, and `WaitLevels` that it stays at its limit from the failure at which
the counter stops counting; that this failure comes late enough is the last
part of `RelayAssumption`, which is about the bound alone.

The type invariants of the proved modules and a few facts on which others rest
(`OpenIsTimed`, `AdmissionBounded`) are left to these proofs and not repeated
in the runs; `OpenIsTimed` is what recovery after a reload depends on, and
`AdmissionBounded` is checked through the sessions it bounds.

*Only model-checked:* all liveness (`EventuallyAcknowledged`,
`RecoversWhenHealthy`, `AcceptedIsRun`, `ShutdownStopsWorkers`, `Drains`,
`EveryRequestAnswered`, `SilenceNoticed`), which the prover does not handle
under fairness.

## 7. Not modelled

`PROJECT.json` lists every component with its reason, and the hazards met
while reading the ones that are planned. Left out for good are pure
transformation (format translation, providers, policy evaluation, detection),
cryptography (trail verification), host management and the CLI; they make up
most of the repository's lines, and a model of them would be a copy. The Redis
side of the limits is one script or command of the store for each operation.
Reconciliation promises something about an API whose answers the repository
does not hold. That replicas converge in the end is not checked: the state
space under fairness is beyond TLC, and `ReplicasAgree` with `NeverForgotten`
is the safety half of it.

Within the modelled parts: the contents of events and requests, logging and
metrics, the breaker's disabled mode, a reload that changes thresholds, the
richer-payload forward of the event sink, the peak gauges of the shadow queue,
the addresses and headers of a relayed request. The replay of a leftover WAL is
an action of SupervisorStore without a property of its own: no code of this
version writes one.
