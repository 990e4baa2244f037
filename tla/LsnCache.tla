------------------------------ MODULE LsnCache ------------------------------
(***************************************************************************)
(* The shared LSN caches of one PolarDB writer/reader pair: the LSN and    *)
(* timestamp cells of every server, the group LSN, the maximum replica     *)
(* replay LSN and the writer epoch.  Workers, the monitor and the thread   *)
(* that changes the topology update them concurrently under a spin guard   *)
(* per server; request routing samples them with no lock.                  *)
(*                                                                         *)
(* A cell holds the observation that wrote it: its position, the writer    *)
(* epoch it was taken in (seen), the epoch it was stored in (stored) and   *)
(* where it came from.  The code stores the position alone; the other      *)
(* fields let the properties say what a number means.  The timestamp cell  *)
(* holds the observation whose time it is, so no clock is needed.          *)
(***************************************************************************)
EXTENDS Integers, FiniteSets

CONSTANTS
    Servers,     \* servers of the pair, writer and readers
    Workers,     \* query workers
    MonitorRoles,\* node roles whose samples the monitor stores; none when
                 \* pgsql-polardb_monitor_lsn_updates is off
    MaxLsn,      \* bound on positions
    MaxEpoch,    \* bound on writer changes
    NoActor,     \* a free lock
    NoServer     \* no request or sample under way

ASSUME CacheAssumption ==
    /\ MaxLsn \in Nat \ {0}
    /\ MaxEpoch \in Nat \ {0}
    /\ NoActor \notin Workers
    /\ NoServer \notin Servers
    /\ MonitorRoles \subseteq {"primary", "replica"}
    /\ {"topology", "monitor"} \cap (Workers \cup {NoActor}) = {}

VARIABLES
    epoch,       \* repl_config.polardb_writer_epoch
    lsn,         \* polardb_current_lsn, by server
    stamp,       \* lsn_updated_at, by server
    group,       \* polardb_group_lsn
    replay,      \* polardb_max_replica_replay_lsn
    guard,       \* holder of polardb_lsn_cache_guard, by server
    hgm,         \* holder of the hostgroups manager's write lock
    topo,        \* step of the writer-epoch refresh
    left,        \* servers the refresh step under way has still to visit
    mon,         \* step of the monitor
    fetched,     \* health result the monitor is going to apply
    fetchedFrom, \* the server it was taken from
    pc,          \* step of each worker
    scope,       \* request_scope.epoch of the worker's request
    srv,         \* server of the worker's request
    obs,         \* position carried by the worker's RFQ
    table,       \* polardb_pass_lsn_updates, by worker and server
    got          \* what the worker's lock-free read returned

cells == <<lsn, stamp, group, replay>>
topoVars == <<topo, left>>
monVars == <<mon, fetched, fetchedFrom>>
workerVars == <<pc, scope, srv, obs, table, got>>
vars == <<epoch, cells, guard, hgm, topoVars, monVars, workerVars>>

Epochs == 1..MaxEpoch
Nothing == [pos |-> 0, seen |-> 0, stored |-> 0, src |-> "none"]
Observations == [pos : 0..MaxLsn, seen : 0..MaxEpoch, stored : 0..MaxEpoch,
                 src : {"none", "rfq", "primary", "replica"}]
NoEntry == [epoch |-> 0, max |-> 0]

Init ==
    /\ epoch = 1
    /\ lsn = [s \in Servers |-> Nothing]
    /\ stamp = [s \in Servers |-> Nothing]
    /\ group = Nothing
    /\ replay = Nothing
    /\ guard = [s \in Servers |-> NoActor]
    /\ hgm = NoActor
    /\ topo = "idle" /\ left = {}
    /\ mon = "idle" /\ fetched = Nothing /\ fetchedFrom = NoServer
    /\ pc = [w \in Workers |-> "idle"]
    /\ scope = [w \in Workers |-> 0]
    /\ srv = [w \in Workers |-> NoServer]
    /\ obs = [w \in Workers |-> 0]
    /\ table = [w \in Workers |-> [s \in Servers |-> NoEntry]]
    /\ got = [w \in Workers |-> <<Nothing, Nothing>>]

\* polardb_atomic_max_u64: only the numbers are compared.
AtomicMax(cell, o) == IF o.pos > cell.pos THEN o ELSE cell

(***************************************************************************)
(* polardb_refresh_writer_epoch_under_hgm_write_lock, run when the writer  *)
(* identity changed.                                                       *)
(***************************************************************************)
RefreshBegin ==
    /\ topo = "idle" /\ hgm = NoActor
    /\ epoch < MaxEpoch
    /\ hgm' = "topology" /\ topo' = "lock" /\ left' = Servers
    /\ UNCHANGED <<epoch, cells, guard, monVars, workerVars>>

LockGuard(s) ==
    /\ topo = "lock" /\ s \in left
    /\ guard[s] = NoActor
    /\ guard' = [guard EXCEPT ![s] = "topology"]
    /\ left' = left \ {s}
    /\ UNCHANGED <<epoch, cells, hgm, topo, monVars, workerVars>>

ResetGroup ==
    /\ topo = "lock" /\ left = {}
    /\ group' = Nothing
    /\ topo' = "replay"
    /\ UNCHANGED <<epoch, lsn, stamp, replay, guard, hgm, left, monVars, workerVars>>

ResetReplay ==
    /\ topo = "replay"
    /\ replay' = Nothing
    /\ topo' = "servers" /\ left' = Servers
    /\ UNCHANGED <<epoch, lsn, stamp, group, guard, hgm, monVars, workerVars>>

\* polardb_reset_server_lsn_cache: the LSN, then the timestamp.
ResetLsn(s) ==
    /\ topo = "servers" /\ s \in left /\ lsn[s] # Nothing
    /\ lsn' = [lsn EXCEPT ![s] = Nothing]
    /\ UNCHANGED <<epoch, stamp, group, replay, guard, hgm, topoVars, monVars, workerVars>>

ResetStamp(s) ==
    /\ topo = "servers" /\ s \in left /\ lsn[s] = Nothing
    /\ stamp' = [stamp EXCEPT ![s] = Nothing]
    /\ left' = left \ {s}
    /\ UNCHANGED <<epoch, lsn, group, replay, guard, hgm, topo, monVars, workerVars>>

\* Deliberate error: the epoch is advanced inside the loop over the hostgroups
\* of the pair, of which there are one or two.
AdvanceEpochTwice ==
    /\ topo = "servers" /\ left = {}
    /\ epoch' \in {epoch + 1, epoch + 2}
    /\ topo' = "unlock" /\ left' = Servers
    /\ UNCHANGED <<cells, guard, hgm, monVars, workerVars>>

AdvanceEpoch ==
    /\ topo = "servers" /\ left = {}
    /\ epoch' = epoch + 1
    /\ topo' = "unlock" /\ left' = Servers
    /\ UNCHANGED <<cells, guard, hgm, monVars, workerVars>>

UnlockGuard(s) ==
    /\ topo = "unlock" /\ s \in left
    /\ guard' = [guard EXCEPT ![s] = NoActor]
    /\ left' = left \ {s}
    /\ UNCHANGED <<epoch, cells, hgm, topo, monVars, workerVars>>

RefreshEnd ==
    /\ topo = "unlock" /\ left = {}
    /\ topo' = "idle" /\ hgm' = NoActor
    /\ UNCHANGED <<epoch, cells, guard, left, monVars, workerVars>>

(***************************************************************************)
(* The monitor: a health result is fetched with no lock and applied later, *)
(* under the manager's lock, by polardb_update_server_lsn_from_monitor.    *)
(***************************************************************************)
MonitorFetch(s, p, role) ==
    /\ mon = "idle"
    /\ mon' = "fetched"
    /\ fetched' = [pos |-> p, seen |-> epoch, stored |-> 0, src |-> role]
    /\ fetchedFrom' = s
    /\ UNCHANGED <<epoch, cells, guard, hgm, topoVars, workerVars>>

MonitorLock ==
    /\ mon = "fetched" /\ hgm = NoActor
    /\ hgm' = "monitor" /\ mon' = "locked"
    /\ fetched' = [fetched EXCEPT !.stored = epoch]
    /\ UNCHANGED <<epoch, cells, guard, topoVars, fetchedFrom, workerVars>>

\* No server of that address is ONLINE: the result is dropped.
MonitorSkip ==
    /\ mon = "locked"
    /\ mon' = "idle" /\ fetched' = Nothing /\ fetchedFrom' = NoServer
    /\ hgm' = NoActor
    /\ UNCHANGED <<epoch, cells, guard, topoVars, workerVars>>

MonitorGuard ==
    /\ mon = "locked" /\ guard[fetchedFrom] = NoActor
    /\ guard' = [guard EXCEPT ![fetchedFrom] = "monitor"]
    /\ mon' = "lsn"
    /\ UNCHANGED <<epoch, cells, hgm, topoVars, fetched, fetchedFrom, workerVars>>

\* Deliberate error: the time of the observation is stored before its LSN.
MonitorStampFirst ==
    /\ mon = "lsn"
    /\ stamp' = [stamp EXCEPT ![fetchedFrom] = fetched]
    /\ \/ mon' = "lsn" /\ UNCHANGED lsn
       \/ mon' = "stamp" /\ lsn' = [lsn EXCEPT ![fetchedFrom] = AtomicMax(@, fetched)]
    /\ UNCHANGED <<epoch, group, replay, guard, hgm, topoVars, fetched,
                   fetchedFrom, workerVars>>

MonitorAdvanceLsn ==
    /\ mon = "lsn"
    /\ lsn' = [lsn EXCEPT ![fetchedFrom] = AtomicMax(@, fetched)]
    /\ mon' = "stamp"
    /\ UNCHANGED <<epoch, stamp, group, replay, guard, hgm, topoVars, fetched,
                   fetchedFrom, workerVars>>

MonitorAdvanceStamp ==
    /\ mon = "stamp"
    /\ stamp' = [stamp EXCEPT ![fetchedFrom] = fetched]
    /\ mon' = "group"
    /\ UNCHANGED <<epoch, lsn, group, replay, guard, hgm, topoVars, fetched,
                   fetchedFrom, workerVars>>

\* The group accepts every observation, the replay maximum only a replica's.
MonitorAdvanceGroup ==
    /\ mon = "group"
    /\ group' = AtomicMax(group, fetched)
    /\ mon' = "replay"
    /\ UNCHANGED <<epoch, lsn, stamp, replay, guard, hgm, topoVars, fetched,
                   fetchedFrom, workerVars>>

MonitorEnd ==
    /\ mon = "replay"
    /\ replay' = IF fetched.src = "replica" THEN AtomicMax(replay, fetched) ELSE replay
    /\ guard' = [guard EXCEPT ![fetchedFrom] = NoActor]
    /\ hgm' = NoActor
    /\ mon' = "idle" /\ fetched' = Nothing /\ fetchedFrom' = NoServer
    /\ UNCHANGED <<epoch, lsn, stamp, group, topoVars, workerVars>>

(***************************************************************************)
(* A worker's request: its writer scope is captured when it is routed.     *)
(* Then it either reports the LSN of a ReadyForQuery, or reads the cells.  *)
(***************************************************************************)
shared == <<epoch, cells, guard, hgm, topoVars, monVars>>

Goto(w, step) == pc' = [pc EXCEPT ![w] = step]

Finish(w) ==
    /\ Goto(w, "idle")
    /\ scope' = [scope EXCEPT ![w] = 0]
    /\ srv' = [srv EXCEPT ![w] = NoServer]
    /\ obs' = [obs EXCEPT ![w] = 0]
    /\ got' = [got EXCEPT ![w] = <<Nothing, Nothing>>]

Capture(w, s, p) ==
    /\ pc[w] = "idle"
    /\ scope' = [scope EXCEPT ![w] = epoch]
    /\ srv' = [srv EXCEPT ![w] = s]
    /\ obs' = [obs EXCEPT ![w] = p]
    /\ Goto(w, "routed")
    /\ UNCHANGED <<shared, table, got>>

\* polardb_finish_worker_pass forgets the updates of the pass.
FinishPass(w) ==
    /\ pc[w] = "idle"
    /\ table' = [table EXCEPT ![w] = [s \in Servers |-> NoEntry]]
    /\ UNCHANGED <<shared, pc, scope, srv, obs, got>>

\* Deliberate error: an entry of another writer scope counts as a hit.
MatchesAnyScope(w) == table[w][srv[w]] # NoEntry

Matches(w) == table[w][srv[w]].epoch = scope[w]

\* polardb_accept_rfq_server_lsn up to the guard: the unlocked epoch check and
\* polardb_track_server_lsn_update.  due: a millisecond has passed since the
\* last shared update; full: the table has no room for a new entry.
AcceptRfq(w, due, full) ==
    LET entry == table[w][srv[w]]
        higher == obs[w] > entry.max
    IN  /\ pc[w] = "routed"
        /\ \/ /\ epoch # scope[w]
              /\ Finish(w) /\ UNCHANGED table
           \/ /\ epoch = scope[w] /\ Matches(w) /\ ~higher /\ ~due
              /\ Goto(w, "coalesced") /\ UNCHANGED <<table, scope, srv, obs, got>>
           \/ /\ epoch = scope[w] /\ Matches(w) /\ (higher \/ due)
              /\ table' = [table EXCEPT ![w][srv[w]].max = IF higher THEN obs[w] ELSE @]
              /\ Goto(w, "lock") /\ UNCHANGED <<scope, srv, obs, got>>
           \/ /\ epoch = scope[w] /\ ~Matches(w)
              /\ table' = IF full THEN table
                          ELSE [table EXCEPT ![w][srv[w]] =
                                   [epoch |-> scope[w], max |-> obs[w]]]
              /\ Goto(w, "lock") /\ UNCHANGED <<scope, srv, obs, got>>
        /\ UNCHANGED shared

AcceptGuard(w) ==
    /\ pc[w] = "lock" /\ guard[srv[w]] = NoActor
    /\ guard' = [guard EXCEPT ![srv[w]] = w]
    /\ Goto(w, "recheck")
    /\ UNCHANGED <<epoch, cells, hgm, topoVars, monVars, scope, srv, obs, table, got>>

\* Deliberate error: the epoch is not loaded again under the guard.
AcceptNoRecheck(w) ==
    /\ pc[w] = "recheck"
    /\ Goto(w, "lsn")
    /\ UNCHANGED <<shared, scope, srv, obs, table, got>>

AcceptRecheck(w) ==
    /\ pc[w] = "recheck"
    /\ IF epoch = scope[w]
       THEN Goto(w, "lsn") /\ UNCHANGED <<guard, scope, srv, obs, got>>
       ELSE Finish(w) /\ guard' = [guard EXCEPT ![srv[w]] = NoActor]
    /\ UNCHANGED <<epoch, cells, hgm, topoVars, monVars, table>>

Rfq(w) == [pos |-> obs[w], seen |-> scope[w], stored |-> epoch, src |-> "rfq"]

\* polardb_advance_lsn: the LSN, then the time of the observation.
AcceptAdvanceLsn(w) ==
    /\ pc[w] = "lsn"
    /\ lsn' = [lsn EXCEPT ![srv[w]] = AtomicMax(@, Rfq(w))]
    /\ Goto(w, "stamp")
    /\ UNCHANGED <<epoch, stamp, group, replay, guard, hgm, topoVars, monVars,
                   scope, srv, obs, table, got>>

AcceptAdvanceStamp(w) ==
    /\ pc[w] = "stamp"
    /\ stamp' = [stamp EXCEPT ![srv[w]] = Rfq(w)]
    /\ Goto(w, "group")
    /\ UNCHANGED <<epoch, lsn, group, replay, guard, hgm, topoVars, monVars,
                   scope, srv, obs, table, got>>

AcceptEnd(w) ==
    /\ pc[w] = "group"
    /\ group' = AtomicMax(group, Rfq(w))
    /\ guard' = [guard EXCEPT ![srv[w]] = NoActor]
    /\ Finish(w)
    /\ UNCHANGED <<epoch, lsn, stamp, replay, hgm, topoVars, monVars, table>>

(***************************************************************************)
(* Lock-free reads.                                                        *)
(***************************************************************************)
\* polardb_sample_lsn: the timestamp, then the LSN.
SampleStamp(w) ==
    /\ pc[w] = "routed"
    /\ got' = [got EXCEPT ![w] = <<stamp[srv[w]], Nothing>>]
    /\ Goto(w, "sampling")
    /\ UNCHANGED <<shared, scope, srv, obs, table>>

SampleLsn(w) ==
    /\ pc[w] = "sampling"
    /\ got' = [got EXCEPT ![w][2] = lsn[srv[w]]]
    /\ Goto(w, "sampled")
    /\ UNCHANGED <<shared, scope, srv, obs, table>>

\* get_polardb_max_replica_replay_lsn: the epoch is compared before and after
\* the load.
ReplayCheck(w) ==
    /\ pc[w] = "routed"
    /\ IF epoch = scope[w]
       THEN Goto(w, "replay") /\ UNCHANGED <<scope, srv, obs, got>>
       ELSE Finish(w)
    /\ UNCHANGED <<shared, table>>

ReplayLoad(w) ==
    /\ pc[w] = "replay"
    /\ got' = [got EXCEPT ![w] = <<replay, Nothing>>]
    /\ Goto(w, "replayed")
    /\ UNCHANGED <<shared, scope, srv, obs, table>>

\* Deliberate error: the value is trusted without the second comparison.
ReplayTrust(w) ==
    /\ pc[w] = "replayed"
    /\ Goto(w, "proved")
    /\ UNCHANGED <<shared, scope, srv, obs, table, got>>

ReplayRecheck(w) ==
    /\ pc[w] = "replayed"
    /\ IF epoch = scope[w]
       THEN Goto(w, "proved") /\ UNCHANGED <<scope, srv, obs, got>>
       ELSE Finish(w)
    /\ UNCHANGED <<shared, table>>

Done(w) ==
    /\ pc[w] \in {"coalesced", "sampled", "proved"}
    /\ Finish(w)
    /\ UNCHANGED <<shared, table>>

(***************************************************************************)
(* The specification.                                                      *)
(***************************************************************************)
TopologyStep ==
    \/ RefreshBegin \/ ResetGroup \/ ResetReplay \/ AdvanceEpoch \/ RefreshEnd
    \/ \E s \in Servers : LockGuard(s) \/ ResetLsn(s) \/ ResetStamp(s) \/ UnlockGuard(s)

MonitorStep ==
    \/ MonitorLock \/ MonitorSkip \/ MonitorGuard \/ MonitorAdvanceLsn \/ MonitorAdvanceStamp
    \/ MonitorAdvanceGroup \/ MonitorEnd
    \/ \E s \in Servers, p \in 1..MaxLsn, role \in MonitorRoles :
           MonitorFetch(s, p, role)

WorkerStep(w) ==
    \/ \E s \in Servers, p \in 1..MaxLsn : Capture(w, s, p)
    \/ \E due, full \in BOOLEAN : AcceptRfq(w, due, full)
    \/ FinishPass(w)
    \/ AcceptGuard(w) \/ AcceptRecheck(w) \/ AcceptAdvanceLsn(w)
    \/ AcceptAdvanceStamp(w) \/ AcceptEnd(w)
    \/ SampleStamp(w) \/ SampleLsn(w)
    \/ ReplayCheck(w) \/ ReplayLoad(w) \/ ReplayRecheck(w)
    \/ Done(w)

Next == TopologyStep \/ MonitorStep \/ \E w \in Workers : WorkerStep(w)

Spec == Init /\ [][Next]_vars

(***************************************************************************)
(* Properties.                                                             *)
(***************************************************************************)
\* Every variable has its type: the epoch, the cells and the steps of every
\* thread that touches them.
TypeOK ==
    /\ epoch \in Epochs
    /\ lsn \in [Servers -> Observations]
    /\ stamp \in [Servers -> Observations]
    /\ group \in Observations
    /\ replay \in Observations
    /\ guard \in [Servers -> Workers \cup {NoActor, "topology", "monitor"}]
    /\ hgm \in {NoActor, "topology", "monitor"}
    /\ topo \in {"idle", "lock", "replay", "servers", "unlock"}
    /\ left \subseteq Servers
    /\ mon \in {"idle", "fetched", "locked", "lsn", "stamp", "group", "replay"}
    /\ fetched \in Observations
    /\ fetchedFrom \in Servers \cup {NoServer}
    /\ pc \in [Workers -> {"idle", "routed", "coalesced", "lock", "recheck", "lsn", "stamp",
                           "group", "sampling", "sampled", "replay", "replayed", "proved"}]
    /\ scope \in [Workers -> 0..MaxEpoch]
    /\ srv \in [Workers -> Servers \cup {NoServer}]
    /\ obs \in [Workers -> 0..MaxLsn]
    /\ table \in [Workers -> [Servers -> [epoch : 0..MaxEpoch, max : 0..MaxLsn]]]
    /\ got \in [Workers -> Observations \X Observations]

\* An RFQ position found in a server cell or in the group cell was reported by
\* a request of the current writer epoch, at every instant of a writer change:
\* polardb_accept_rfq_server_lsn never repopulates a cache the change cleared,
\* and the caches are clear before the epoch is visible.
RfqCellsAreCurrent ==
    /\ \A s \in Servers : \A o \in {lsn[s], stamp[s]} : o.src = "rfq" => o.seen = epoch
    /\ group.src = "rfq" => group.seen = epoch

\* A replica replay position handed to a request was stored in the writer epoch
\* of that request and came from a replica: get_polardb_max_replica_replay_lsn
\* cannot return the maximum of another timeline.
ReplayProofIsOfScope ==
    \A w \in Workers : pc[w] = "proved" /\ got[w][1] # Nothing
        => got[w][1].stored = scope[w] /\ got[w][1].src = "replica"

\* A sampled timestamp never makes an older LSN look fresh: the LSN returned
\* with it is at least the one that observation carried, unless a writer
\* change cleared or refilled the cell in between.
StampNeverExposesOlderLsn ==
    \A w \in Workers : pc[w] = "sampled" =>
        LET t == got[w][1]  l == got[w][2]
        IN  t # Nothing /\ l.stored = t.stored => l.pos >= t.pos

\* An RFQ the worker coalesced (accepted with no shared write) hides nothing:
\* while its writer scope is current, the server's cell is at least its LSN.
CoalescedIsCovered ==
    \A w \in Workers : pc[w] = "coalesced" /\ epoch = scope[w] /\ topo \in {"idle", "lock"}
        => lsn[srv[w]].pos >= obs[w]
=============================================================================
