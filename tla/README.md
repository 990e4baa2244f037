# Verification of PolarDB session consistency in polar-proxy

polar-proxy is a fork of ProxySQL that routes PostgreSQL reads to PolarDB
replicas without breaking the client's view of its own writes. This directory
holds TLA+ models of the parts of it where several threads, servers and epochs
meet, TLC runs on small instances, and TLAPS proofs for every instance.

## The system

| Part | Source | Module |
| --- | --- | --- |
| Backend server objects, server-list snapshots, thread caches, retire and reclaim | `PgSQL_PolarDB_Topology.cpp`, `PgSQL_HostGroups_Manager.cpp` | `ServerLifetime`, `ServerLifetimeProofs` |
| Shared LSN caches, writer epoch, monitor and RFQ updates, lock-free reads | `PgSQL_HostGroups_Manager.cpp`, `PgSQL_PolarDB_Topology.cpp`, `PgSQL_Thread.cpp`, `PgSQL_Monitor.cpp` | `LsnCache`, `LsnCacheProofs` |
| Session consistency: routing, waits, reader failures, results | `PgSQL_PolarDB_Flow.cpp`, `_Failure.cpp`, `_Wrap.cpp`, `PgSQL_Session.cpp`, `PgSQL_PolarDB.h` | `SessionConsistency` |
| Reader pool: capacity waiters, reservations, wakes, worker retention | `PgSQL_PolarDB_ReaderPool*.cpp` | planned |
| Reader-pool warmup | `PgSQL_PolarDB_ReaderPool_Warmup.cpp` | planned |
| Transaction split | `PgSQL_PolarDB_Split.cpp` | planned |
| Policy resolution, hostgroup configuration | `PgSQL_PolarDB_Consistency.cpp` | planned, as operators |
| Notices, counters, wire format, SQL text of the wait wrapper | `_Notices.cpp`, `_Protocol.cpp`, `_Wrap.cpp` | left out: output and data |
| MySQL side, admin, cluster, query processor, query cache | `MySQL_*.cpp`, `ProxySQL_*.cpp`, `*_Query_*.cpp` | left out: inherited, not part of the consistency protocol |

A *worker* thread runs many client sessions. A request is *collected* and
*planned* (writer, reader with or without a wait target, or an error), a reader
connection is *acquired* from the pool, the query is *dispatched* with an LSN
wait in front of it unless the reader is known to have reached the target, and
the ReadyForQuery (RFQ) of the answer carries the backend's WAL position back
to the session and to the shared caches. The *monitor* fills the same caches
from health checks. The *topology* code advances the *writer epoch* when the
writer set changes; positions are comparable only within one epoch.

The three modules look at three layers of this. `ServerLifetime` is about the
memory under everything else: server objects reached without a lock.
`LsnCache` is about the shared cells, one atomic operation per step.
`SessionConsistency` is about what clients see; it takes each update of the
cells as one step, which `LsnCache` justifies.

## ServerLifetime

State: the life of every server object (`unborn`, `listed`, `retired`,
`detached`, `deleted`), the published snapshot pointer `cur` and generation
`gen` as two stores, the contents and the owners of each snapshot (thread-local
caches, local variables, connections), the retired lists, the connections with
their list and parent, and the holder of the manager's write lock (`phase`).

One action per call or per critical section of a call: `CommitBegin`/`End`
(`commit`), `ReadOnlyActionBegin`/`End` (`read_only_action_v2`), `Purge`,
`SetStatus`, `AddServer`, `ReviveServer` and the two halves of the publication
`StorePointer`/`StoreGeneration`; on the worker side the lock-free acquisition
(`LoadGeneration`, `LoadPointer`, `TakeExisting`, `CreateSelected`), the classic
one (`ClassicSelect`, `ClassicTake`, `ClassicMiss`, `ClassicSlow`), the three
return paths, the destruction of connections, and the periodic maintenance
(`Maintain`, `DeleteRetired`) that refreshes the cache, prunes and reclaims.
Workers begin with a cached snapshot because `PgSQL_Thread::init` loads one.

`ReturnExact` and `ReturnBatch` take any connection out of USED, with a snapshot
of its own or without: `get_MyConn_from_pool` hands out keyed connections too,
and the batch return of a worker's cache does not look at the snapshot. A
batch may replace the worker's cached list before it deletes what it took out
(`RouteWake`): storing another connection, or passing on a wake that could not be
queued, matches a waiting request against the current list. Both run under the
server's lock while the server is ONLINE. The reusability test of a return may
also refresh the cache, before the connection leaves USED; in the model that is
`LoadGeneration`, `LoadPointer` and `GiveUp` followed by the return.

* `server_lifetime` checks that no owned snapshot names a freed server, that the
  parent of every connection and the server chosen by `get_MyConn_from_pool` are
  allocated, and that only listed servers have pooled connections. Two workers,
  one connection, one server in the first list and one that may be added, and
  generations up to four: a server can be purged and reclaimed while the other
  worker is more than one generation behind.
* `server_reclaim` checks that a server which stays retired is pinned again
  and again by the snapshot of a connection or by the cache of the
  administrative thread (one server, two workers, generations up to three). Fairness:
  calls that hold a lock or a snapshot run to their end (weak fairness), and
  every worker reaches its maintenance and gets the manager's lock there
  (strong fairness, since other calls take the lock in between). The worker loop
  calls `get_multiple_idle_connections` on a timer, also when idle.

The clear of the snapshots at shutdown is left out: every worker, monitor and
ping thread has been joined by then, so nothing runs beside it.

The excuse in the second property is needed: `set_status(OFFLINE_HARD)` loads a
snapshot on the calling thread, an admin or monitor thread that never calls
`polardb_refresh_thread_snapshots()` although the comment on that function
(`PgSQL_PolarDB_Topology.cpp:168`) asks it of every thread that reads one.

### Proofs of ServerLifetime

`ServerLifetimeProofs` proves `TypeOK`, `SnapshotsNameLiveServers`,
`PooledOnlyOnListed` and `ParentsAreAllocated` for every set of servers,
connections and workers and every bound on the generations. The assumptions
are those of `LifetimeAssumption`: a first list among the servers, the two
statuses the code tests for, at least one generation, and distinct null values.

Apart from the types none of the four is inductive by itself. The invariant
`IInv` adds:

* `ListInv`: the published snapshot lists exactly the listed servers, the
  pointer is one ahead of the generation during a publication and equal to it
  otherwise, and a server off the list is named only by snapshots of generations
  up to the one it was retired at. This is what the number stored with a retired
  server stands for.
* `OwnerInv`: an owned snapshot is the published one or is on the retired list,
  and names no reclaimed server. With `ListInv` it shows that the cut-off of
  `polardb_detach_reclaimable_retired_servers_under_fast_topology_lock` is safe:
  a snapshot that names a retired server is no younger than the retirement, so,
  while it has an owner, it keeps the server from being reclaimed
  (`ReclaimIsSafe`).
* `ConnInv`: a connection that is on no list is in the hands of one worker that
  rejects it, and its parent is listed or was retired no earlier than the
  snapshot that shields it: the one the connection carries or the worker's
  cached one. The rejection reads the parent without the lock, so the property
  has to survive a purge and a maintenance of another worker in between.
* `StatusInv`: a server off the list is not ONLINE, and the ones a publication is
  about to set ONLINE are listed. It is what makes `RouteWake` safe: the refresh
  drops the cached snapshot that may be the only shield, but the server is ONLINE
  then, so it is still listed, and a later purge stamps it with a generation no
  older than the new cached snapshot. Without the status test the parent can be
  freed before the destructor reads it; that is the mutant of
  `ParentsAreAllocated`.

TLC checked `IInv` on the instance of `server_lifetime` before it was proved.

The steps of the administrative thread are first reduced to five kinds
(`AdminSteps`): republish, a step that leaves list and connections alone, the
store of the generation, the exit of the thread and a change of status. The
reclamation property of `server_reclaim` is a liveness property and stays with
TLC.

## LsnCache

State: the epoch, the cells `lsn` and `stamp` of each server, the shared `group`
and `replay` maxima, the per-server spin guard, the manager's lock, and the
local state of the topology refresh, of the monitor and of each worker. A cell
holds the position together with its provenance (the epoch it was observed in
and stored in, and whether an RFQ, a primary or a replica reported it); the code
compares positions only, and so do the actions.

The refresh (`RefreshBegin` ... `RefreshEnd`) locks every guard, clears the
cells one store at a time, advances the epoch and unlocks. The monitor fetches
without a lock and stores later under the manager's lock and the guard. A worker
captures its scope, then either accepts an RFQ (unlocked epoch check, per-pass
table, guard, second epoch check, stores) or samples the cells without a lock.

* `lsn_cache_rfq`: RFQ positions in the cells belong to the current epoch, and an
  RFQ dropped because of the per-pass table is covered by the cell. Two workers,
  one server, two writer changes, positions up to 2.
* `lsn_cache_sample`: a replay maximum returned by
  `get_polardb_max_replica_replay_lsn` was stored in the asked epoch, and a
  sampled stamp never comes with an older position than it stamps. One worker,
  the monitor with both roles, one writer change.

Atomics are sequentially consistent in the model. The code relies on release
stores and acquire loads for the stamp; `get_polardb_max_replica_replay_lsn`
loads the maximum relaxed between its two epoch loads, which is weaker than what
is modelled. The group maximum and the unlock that follows it, and likewise the
replay maximum, are one step. No liveness is claimed: a spin guard is not fair.

### Proofs of LsnCache

`LsnCacheProofs` proves, for any sets of servers and workers, any bounds and any
monitor roles, from `CacheAssumption` only:

* `TypeCorrect`: `Spec => []TypeOK`;
* `RfqCellsStayCurrent`: `Spec => []RfqCellsAreCurrent`;
* `ReplayProofsStayInScope`: `Spec => []ReplayProofIsOfScope`.

`RfqCellsAreCurrent` is not inductive: the cells may be stored into while the
refresh is clearing them. The invariant `IInv` adds

* `Locks`: who holds a guard or the manager's lock at which step. The refresh
  holds every guard from the first reset to the epoch store, and a worker past
  its second epoch check has the current epoch as its scope, which is stable
  because it holds a guard the refresh needs (`GuardExcludesReset`);
* `RfqInv`: during the refresh the cells already visited hold no RFQ position, and
  what the monitor fetched is none;
* `ReplayInv`: the replay maximum was stored in the current epoch by a replica, and
  a worker that loaded it has a value stored no earlier than its scope and no
  later than the current epoch; the second epoch comparison closes that gap.

The proof has one lemma per conjunct (`TypeStep`, `LocksStep`, `RfqStep`,
`ReplayStep`), one case per action, and TLC checked `IInv` on both instances above.
`StampNeverExposesOlderLsn` and `CoalescedIsCovered` are model-checked only, as is
everything about liveness, which is outside the prover's reach.

## SessionConsistency

State per session: `sess` (`write_lsn`, `observed_lsn`, the two unknown marks, the
scope they belong to, whether the session is older than the activation, whether
waits are disabled), `req` (the request under way: step, backend, scope, target,
how the wait is enforced, policy, retries) and, as history, `acks`: the last
position the client wrote and the largest it saw. Around the sessions: the
writer's position, the replay of each reader, the caches, a monitor sample in
flight and the worker's activation flag.

Actions follow a request: `RouteRead`/`RouteWrite`/`RouteInactive` (observe,
collect, plan and execute run in one handler), `AttachWriter`, `AcquireReader`,
`AcquireNoRfq`, `AcquireFails`, `SetupFails`, `ResetFails`, `Dispatch`,
`WrapFails`, the external `ExecuteOnWriter`/`ExecuteOnReader`, the failures
`LostReader`, `WaitTimesOut`, `ReaderErrs`, `GenericFailure`, and `Result`. A read
whose reader is lost goes to another reader at most once; a simple read that had
bypassed its wait does not, an extended read keeps its wait requirement and
does (`WaitWasBypassed`, `MayRetryReader`). The
policies of a request (`Actions`) are the code's action variables.

Assumptions: an RFQ position is the position of the state the statement saw; a
reader's replay never goes back within an epoch; connections to an old writer
do not survive a writer change; history is reset by a writer change, since the
code drops session targets then on purpose. Requests run outside transactions.
`WholeHistory = FALSE` counts in the history what the code undertakes to track
(answers of requests whose scope is still current, and pre-activation writes of
sessions that are then routed); `TRUE` counts everything. A zero RFQ payload on
a read records nothing in the session (`PgSQL_PolarDB_Flow.cpp:2466`), so
`MonotonicReads` speaks of answers that carried a position.

* `session_ryw`: `ReadYourWrites`, `MonotonicReads`, `BypassOnlyCaughtUp` for one
  session, two readers, four policies, three modes, a writer change, with and
  without PolarDB routing active at the start. Two positions and two epochs are
  enough for a reader to be behind, level or of another timeline.
* `session_global`: two sessions share the group maximum; a GLOBAL_LSN read covers
  what either had been told before. One position, one epoch, one reader.
* `session_monitor`: monitor samples arrive late, within one epoch; read-your-writes
  and the bypass condition hold. Across epochs the second does not (see below).

Five runs show where the code departs from its documents. The quotations are in
`PROJECT.json`.

* `session_activation_write`: a write in flight at the activation. The attach-time
  activation marks a session that has no scope; the next rebind discards the mark.
* `session_failover_write`: a write routed before and executed after an epoch
  change leaves no trace in the session.
* `session_failover_wait`: a request planned before an epoch change is dispatched
  after it with the target of the previous writer.
* `session_monitor_bypass`: a monitor sample of the old epoch, applied after the
  change, makes a reader look caught up.
* `session_setup_retry`: a simple read whose connection breaks before dispatch is
  acquired again without its wait target. The passing runs exclude such reads
  (`dropped`) and check all others.

No liveness is checked here: the retry counters of the generic connect path are
not modelled, so a request may be retried without bound.

## Mutants

The definitions whose comment begins with "Deliberate error" are wrong versions
of the definition that follows them. Each property of a passing run is violated
when the definition is replaced by one of them.

## Running

    tlc -workers 2 -config SessionRyw.cfg MCSessionConsistency
    tlapm LsnCacheProofs.tla
    tlapm ServerLifetimeProofs.tla

## Plan

1. Reader pool: ownership of connections, capacity waiters, reservations and
   their wakes (no lost wake, no connection handed out twice or leaked, every
   parked session is served or times out), worker-local retention.
2. Transaction split: the split state machine with reader failure, and its
   refinement of a transaction that runs on the writer.
3. Warmup queue: bounded queue, in-flight records, requeue.
4. Extended protocol: deferred RFQs of a frame, the wait carried per batch.
5. Policy resolution and the split eligibility test as operators against a
   reference definition.
6. Proofs: the inductive invariants of `SessionConsistency` and of the reader
   pool, and that `SessionConsistency` uses the caches as `LsnCache` provides them.
