--------------------------- MODULE ServerLifetime ---------------------------
(***************************************************************************)
(* The lifetime of a backend server object (PgSQL_SrvC) in the hostgroups  *)
(* manager.  Workers read the server list without a lock, through          *)
(* generation-stamped immutable snapshots held by shared_ptr; the manager  *)
(* unlinks a server under its own write lock and frees it only when no     *)
(* snapshot that can still name it has an owner.                           *)
(*                                                                         *)
(* A snapshot is identified by its generation; 0 is the null shared_ptr.   *)
(* Its owners are the published pointer, the thread-local caches, the      *)
(* local variables of running calls, and the connections that carry it.    *)
(***************************************************************************)
EXTENDS Integers, FiniteSets

CONSTANTS
    Servers,       \* server objects that may ever be allocated
    InitServers,   \* the ones of the first configuration
    Conns,         \* backend connection objects
    Workers,       \* query worker threads
    Admin,         \* the admin or monitor thread that changes the server list
    Statuses,      \* the statuses the administrative calls may set
    NoServer,      \* the null server pointer
    NoConn,        \* the null connection pointer
    MaxGen         \* bound on the number of published server lists

ASSUME LifetimeAssumption ==
    /\ InitServers \subseteq Servers
    /\ {"ONLINE", "OFFLINE_HARD"} \subseteq Statuses
    /\ MaxGen \in Nat \ {0}
    /\ Admin \notin Workers
    /\ NoServer \notin Servers
    /\ NoConn \notin Conns

VARIABLES
    life,          \* where each server object is in its life
    status,        \* PgSQL_SrvC::status
    gen,           \* polardb_server_list_generation_
    cur,           \* generation of the snapshot polardb_server_list_snapshot_ points to
    content,       \* the servers each published snapshot names
    retiredSnaps,  \* polardb_retired_server_list_snapshots_
    retiredAt,     \* generation recorded in polardb_retired_servers_
    cached,        \* thread_local cached_snapshot
    held,          \* the snapshot a running call holds in a local variable
    pc,            \* what each worker is in the middle of
    picked,        \* server chosen by get_MyConn_from_pool, by worker
    rejected,      \* connection being rejected by a return call, by worker
    doomed,        \* retired_servers_to_delete, by worker
    cstate,        \* the list a connection is on
    cparent,       \* PgSQL_Connection::parent
    csnap,         \* polardb_selected_server_snapshot
    phase,         \* the call that holds the manager's write lock, or "idle"
    publishing,    \* between the pointer store and the generation store
    closing,       \* the publication under way is the last step of the call
    mutated,       \* the call changed pgsql_servers
    reviving       \* servers set ONLINE right after the publication under way

Threads == Workers \cup {Admin}
Gens == 1..MaxGen

Lives == {"unborn", "listed", "retired", "detached", "deleted"}
WorkerSteps == {"idle", "loading", "holding", "classic", "slow",
                "rejecting", "batch", "waiting", "deleting"}

listVars == <<life, status, gen, cur, content, retiredSnaps, retiredAt>>
threadVars == <<cached, held, pc, picked, rejected, doomed>>
connVars == <<cstate, cparent, csnap>>
lockVars == <<phase, publishing, closing, mutated, reviving>>
vars == <<listVars, threadVars, connVars, lockVars>>

(***************************************************************************)
(* Derived state.                                                          *)
(***************************************************************************)
Listed == {s \in Servers : life[s] = "listed"}

HgmFree == phase = "idle"

\* Every owner of a snapshot other than the manager's own retired list.
Owned == {cur} \cup {cached[t] : t \in Threads} \cup {held[t] : t \in Workers}
               \cup {csnap[c] : c \in Conns}

\* pgsql_pool_no_live_connections: FREE and USED are both empty.
NoLiveConnections(s) ==
    \A c \in Conns : cparent[c] = s => cstate[c] \notin {"FREE", "USED"}

Init ==
    /\ life = [s \in Servers |-> IF s \in InitServers THEN "listed" ELSE "unborn"]
    /\ status = [s \in Servers |-> "ONLINE"]
    /\ gen = 1
    /\ cur = 1
    /\ content = [g \in Gens |-> IF g = 1 THEN InitServers ELSE {}]
    /\ retiredSnaps = {}
    /\ retiredAt = [s \in Servers |-> 0]
    /\ cached = [t \in Threads |-> IF t = Admin THEN 0 ELSE 1]
    /\ held = [t \in Workers |-> 0]
    /\ pc = [t \in Workers |-> "idle"]
    /\ picked = [t \in Workers |-> NoServer]
    /\ rejected = [t \in Workers |-> NoConn]
    /\ doomed = [t \in Workers |-> {}]
    /\ cstate = [c \in Conns |-> "none"]
    /\ cparent = [c \in Conns |-> NoServer]
    /\ csnap = [c \in Conns |-> 0]
    /\ phase = "idle"
    /\ publishing = FALSE
    /\ closing = FALSE
    /\ mutated = FALSE
    /\ reviving = {}

(***************************************************************************)
(* Publication.  The caller holds the manager's write lock and the fast    *)
(* topology lock, but lock-free readers run between the two stores.        *)
(***************************************************************************)
\* Store the pointer of the next snapshot and retire the previous one.
StorePointer(servers) ==
    /\ gen < MaxGen
    /\ cur' = gen + 1
    /\ content' = [content EXCEPT ![gen + 1] = servers]
    /\ retiredSnaps' = retiredSnaps \cup {cur}
    /\ publishing' = TRUE

\* Deliberate error: the generation runs ahead of the published snapshot.
GenerationAhead == cur + 1

\* The generation stored after the pointer is the one the snapshot carries.
PublishedGeneration == cur

\* Store the generation and prune; the local old_snapshot is still an owner,
\* so the snapshot just replaced survives this prune.
StoreGeneration ==
    /\ publishing
    /\ gen' = PublishedGeneration
    /\ retiredSnaps' = {g \in retiredSnaps : g \in Owned \/ g = gen}
    /\ status' = [s \in Servers |-> IF s \in reviving THEN "ONLINE" ELSE status[s]]
    /\ phase' = IF closing THEN "idle" ELSE phase
    /\ mutated' = (mutated /\ ~closing)
    /\ publishing' = FALSE
    /\ closing' = FALSE
    /\ reviving' = {}
    /\ UNCHANGED <<life, cur, content, retiredAt, threadVars, connVars>>

\* purge_pgsql_servers_table: unlink every OFFLINE_HARD server without
\* connections, stamp it with the current generation and publish the rest.
Purge ==
    LET gone == {s \in Listed : status[s] = "OFFLINE_HARD" /\ NoLiveConnections(s)}
    IN  IF gone = {}
        THEN UNCHANGED <<life, retiredAt, cur, content, retiredSnaps, publishing>>
        ELSE /\ life' = [s \in Servers |-> IF s \in gone THEN "retired" ELSE life[s]]
             /\ retiredAt' = [s \in Servers |-> IF s \in gone THEN gen ELSE retiredAt[s]]
             /\ StorePointer(Listed \ gone)

(***************************************************************************)
(* The administrative calls, all under the manager's write lock.           *)
(***************************************************************************)
CommitBegin ==
    /\ HgmFree
    /\ Purge
    /\ phase' = "commit"
    /\ UNCHANGED <<status, gen, closing, mutated, reviving, threadVars, connVars>>

CommitEnd ==
    /\ phase = "commit" /\ ~publishing
    /\ IF mutated
       THEN StorePointer(Listed) /\ closing' = TRUE /\ UNCHANGED <<phase, mutated>>
       ELSE /\ phase' = "idle"
            /\ UNCHANGED <<cur, content, retiredSnaps, publishing, closing, mutated>>
    /\ UNCHANGED <<life, status, gen, retiredAt, reviving, threadVars, connVars>>

ReadOnlyActionBegin ==
    /\ HgmFree
    /\ phase' = "read_only"
    /\ UNCHANGED <<listVars, threadVars, connVars, publishing, closing, mutated, reviving>>

ReadOnlyActionEnd ==
    /\ phase = "read_only" /\ ~publishing
    /\ IF mutated
       THEN Purge
       ELSE UNCHANGED <<life, retiredAt, cur, content, retiredSnaps, publishing>>
    /\ IF publishing'
       THEN closing' = TRUE /\ UNCHANGED <<phase, mutated>>
       ELSE phase' = "idle" /\ mutated' = FALSE /\ UNCHANGED closing
    /\ UNCHANGED <<status, gen, reviving, threadVars, connVars>>

\* An admin client's thread ends with its connection (a monitor thread never
\* does) and its thread-local cache is destroyed.
AdminThreadExit ==
    /\ HgmFree /\ cached[Admin] # 0
    /\ cached' = [cached EXCEPT ![Admin] = 0]
    /\ UNCHANGED <<listVars, connVars, lockVars, held, pc, picked, rejected, doomed>>

\* A call that has begun keeps one generation for its final publication.
RoomFor(n) == gen + n < MaxGen

\* set_status under the manager's lock.  OFFLINE_HARD takes the current
\* snapshot (refreshing the calling thread's cache) and destroys the FREE list.
SetStatus(s, st) ==
    /\ phase \in {"commit", "read_only"} /\ ~publishing
    /\ RoomFor(0)
    /\ life[s] = "listed" /\ status[s] # st
    /\ phase = "read_only" => ~(status[s] = "OFFLINE_HARD" /\ st = "ONLINE")
    /\ status' = [status EXCEPT ![s] = st]
    /\ mutated' = TRUE
    /\ IF st = "OFFLINE_HARD"
       THEN /\ cached' = [cached EXCEPT ![Admin] = cur]
            /\ LET drop == {c \in Conns : cparent[c] = s /\ cstate[c] = "FREE"}
               IN  /\ cstate' = [c \in Conns |-> IF c \in drop THEN "none" ELSE cstate[c]]
                   /\ cparent' = [c \in Conns |-> IF c \in drop THEN NoServer ELSE cparent[c]]
       ELSE UNCHANGED <<cached, cstate, cparent>>
    /\ UNCHANGED <<life, gen, cur, content, retiredSnaps, retiredAt, held, pc, picked,
                   rejected, doomed, csnap, phase, publishing, closing, reviving>>

\* add(), and insert_HGM for a host that has no object in the hostgroup.
AddServer(s) ==
    /\ phase \in {"commit", "read_only"} /\ ~publishing
    /\ RoomFor(1)
    /\ life[s] = "unborn"
    /\ life' = [life EXCEPT ![s] = "listed"]
    /\ StorePointer(Listed \cup {s})
    /\ mutated' = TRUE
    /\ UNCHANGED <<status, gen, retiredAt, phase, closing, reviving, threadVars, connVars>>

\* insert_HGM for an OFFLINE_HARD object: publish, then set ONLINE.
ReviveServer(s) ==
    /\ phase = "read_only" /\ ~publishing
    /\ RoomFor(1)
    /\ life[s] = "listed" /\ status[s] = "OFFLINE_HARD"
    /\ StorePointer(Listed)
    /\ reviving' = {s}
    /\ mutated' = TRUE
    /\ UNCHANGED <<life, status, gen, retiredAt, phase, closing, threadVars, connVars>>

(***************************************************************************)
(* Reader acquisition: no lock until a connection must be created.         *)
(***************************************************************************)
Goto(t, step) == pc' = [pc EXCEPT ![t] = step]

\* get_polardb_server_list_snapshot: compare generations, reload if different.
LoadGeneration(t) ==
    /\ pc[t] = "idle"
    /\ IF cached[t] = gen
       THEN held' = [held EXCEPT ![t] = cached[t]] /\ Goto(t, "holding")
       ELSE Goto(t, "loading") /\ UNCHANGED held
    /\ UNCHANGED <<listVars, connVars, lockVars, cached, picked, rejected, doomed>>

LoadPointer(t) ==
    /\ pc[t] = "loading"
    /\ cached' = [cached EXCEPT ![t] = cur]
    /\ held' = [held EXCEPT ![t] = cur]
    /\ Goto(t, "holding")
    /\ UNCHANGED <<listVars, connVars, lockVars, picked, rejected, doomed>>

\* Leave the call: its local variables go out of scope.
Leave(t) ==
    /\ held' = [held EXCEPT ![t] = 0]
    /\ picked' = [picked EXCEPT ![t] = NoServer]
    /\ Goto(t, "idle")

GiveUp(t) ==
    /\ pc[t] \in {"holding", "slow"}
    /\ Leave(t)
    /\ UNCHANGED <<listVars, connVars, lockVars, cached, rejected, doomed>>

\* Move c to USED of server s, carrying snapshot g.
Use(c, s, g) ==
    /\ cstate' = [cstate EXCEPT ![c] = "USED"]
    /\ cparent' = [cparent EXCEPT ![c] = s]
    /\ csnap' = [csnap EXCEPT ![c] = g]

\* Deliberate error: the status is not checked again under the server's lock.
TakeExistingAnyStatus(t, s, c) ==
    /\ pc[t] = "holding"
    /\ s \in content[held[t]]
    /\ cstate[c] = "none" \/ (cstate[c] = "FREE" /\ cparent[c] = s)
    /\ Use(c, s, held[t])
    /\ Leave(t)
    /\ UNCHANGED <<listVars, lockVars, cached, rejected, doomed>>

\* take_existing_connection on a server named by the held snapshot.
TakeExisting(t, s, c) ==
    /\ pc[t] = "holding"
    /\ s \in content[held[t]] /\ status[s] = "ONLINE"
    /\ cstate[c] = "FREE" /\ cparent[c] = s
    /\ Use(c, s, held[t])
    /\ Leave(t)
    /\ UNCHANGED <<listVars, lockVars, cached, rejected, doomed>>

\* The ALLOW_CREATE part of get_connection_from_selected_server: under the
\* manager's lock, refused when the list changed since the selection.
CreateSelected(t, s, c) ==
    /\ pc[t] = "holding" /\ HgmFree
    /\ gen = held[t]
    /\ s \in content[held[t]] /\ status[s] = "ONLINE"
    /\ cstate[c] = "none" \/ (cstate[c] = "FREE" /\ cparent[c] = s)
    /\ Use(c, s, held[t])
    /\ Leave(t)
    /\ UNCHANGED <<listVars, lockVars, cached, rejected, doomed>>

(***************************************************************************)
(* get_MyConn_from_pool: select under the manager's lock, take the pooled  *)
(* connection under the server's lock only, fall back to the manager's.    *)
(***************************************************************************)
ClassicSelect(t, s) ==
    /\ pc[t] = "idle" /\ HgmFree
    /\ life[s] = "listed" /\ status[s] = "ONLINE"
    /\ cached' = [cached EXCEPT ![t] = cur]
    /\ held' = [held EXCEPT ![t] = cur]
    /\ picked' = [picked EXCEPT ![t] = s]
    /\ Goto(t, "classic")
    /\ UNCHANGED <<listVars, connVars, lockVars, rejected, doomed>>

ClassicTake(t, c) ==
    /\ pc[t] = "classic"
    /\ status[picked[t]] = "ONLINE"
    /\ cstate[c] = "FREE" /\ cparent[c] = picked[t]
    /\ Use(c, picked[t], 0)
    /\ Leave(t)
    /\ UNCHANGED <<listVars, lockVars, cached, rejected, doomed>>

ClassicMiss(t) ==
    /\ pc[t] = "classic"
    /\ Goto(t, "slow")
    /\ picked' = [picked EXCEPT ![t] = NoServer]
    /\ UNCHANGED <<listVars, connVars, lockVars, cached, held, rejected, doomed>>

ClassicSlow(t, s, c) ==
    /\ pc[t] = "slow" /\ HgmFree
    /\ life[s] = "listed" /\ status[s] = "ONLINE"
    /\ cstate[c] = "none" \/ (cstate[c] = "FREE" /\ cparent[c] = s)
    /\ Use(c, s, 0)
    /\ Leave(t)
    /\ UNCHANGED <<listVars, lockVars, cached, rejected, doomed>>

(***************************************************************************)
(* Returns.  FREE drops the connection's snapshot.                         *)
(***************************************************************************)
ToFree(c) ==
    /\ cstate' = [cstate EXCEPT ![c] = "FREE"]
    /\ csnap' = [csnap EXCEPT ![c] = 0]
    /\ UNCHANGED cparent

Destroy(c) ==
    /\ cstate' = [cstate EXCEPT ![c] = "none"]
    /\ csnap' = [csnap EXCEPT ![c] = 0]
    /\ cparent' = [cparent EXCEPT ![c] = NoServer]

\* push_MyConn_to_pool: one critical section of the server's lock.
ReturnGeneric(t, c) ==
    /\ pc[t] = "idle"
    /\ cstate[c] = "USED" /\ csnap[c] = 0
    /\ \/ status[cparent[c]] = "ONLINE" /\ ToFree(c)
       \/ Destroy(c)
    /\ UNCHANGED <<listVars, threadVars, lockVars>>

\* return_connection_with_match_key: a connection that cannot be stored has
\* left USED but its parent is read again, and then by its destructor.
ReturnExact(t, c) ==
    /\ pc[t] = "idle"
    /\ cstate[c] = "USED"
    /\ \/ status[cparent[c]] = "ONLINE" /\ ToFree(c) /\ UNCHANGED <<pc, rejected>>
       \/ /\ cstate' = [cstate EXCEPT ![c] = "rejected"]
          /\ rejected' = [rejected EXCEPT ![t] = c]
          /\ Goto(t, "rejecting")
          /\ UNCHANGED <<cparent, csnap>>
    /\ UNCHANGED <<listVars, lockVars, cached, held, picked, doomed>>

\* polardb_return_reader_connections: the same for the cached connections of
\* one server, with or without a snapshot of their own.  One that cannot be
\* stored has left USED and is deleted after the call.
ReturnBatch(t, c) ==
    /\ pc[t] = "idle"
    /\ cstate[c] = "USED"
    /\ \/ status[cparent[c]] = "ONLINE" /\ ToFree(c) /\ UNCHANGED <<pc, rejected>>
       \/ /\ cstate' = [cstate EXCEPT ![c] = "rejected"]
          /\ rejected' = [rejected EXCEPT ![t] = c]
          /\ Goto(t, "batch")
          /\ UNCHANGED <<cparent, csnap>>
    /\ UNCHANGED <<listVars, lockVars, cached, held, picked, doomed>>

\* Deliberate error: a wake is matched whatever the status of the server.
RouteWakeAnyStatus(t) ==
    /\ pc[t] = "batch" /\ cached[t] # gen
    /\ cached' = [cached EXCEPT ![t] = cur]
    /\ UNCHANGED <<listVars, connVars, lockVars, held, pc, picked, rejected, doomed>>

\* Another connection of the batch is stored, or a wake that could not be
\* queued is passed on: matching it with a waiting request resolves the server
\* list again.  Both happen under the server's lock while it is ONLINE.
RouteWake(t) ==
    /\ pc[t] = "batch" /\ cached[t] # gen
    /\ status[cparent[rejected[t]]] = "ONLINE"
    /\ cached' = [cached EXCEPT ![t] = cur]
    /\ UNCHANGED <<listVars, connVars, lockVars, held, pc, picked, rejected, doomed>>

DeleteRejected(t) ==
    /\ pc[t] \in {"rejecting", "batch"}
    /\ Destroy(rejected[t])
    /\ rejected' = [rejected EXCEPT ![t] = NoConn]
    /\ Goto(t, "idle")
    /\ UNCHANGED <<listVars, lockVars, cached, held, picked, doomed>>

\* destroy_MyConn_from_pool: under the manager's lock.
DestroyUsed(t, c) ==
    /\ pc[t] = "idle" /\ HgmFree
    /\ cstate[c] = "USED"
    /\ Destroy(c)
    /\ UNCHANGED <<listVars, threadVars, lockVars>>

(***************************************************************************)
(* get_multiple_idle_connections: every worker's periodic maintenance.     *)
(***************************************************************************)
MaintainBegin(t) ==
    /\ pc[t] = "idle"
    /\ Goto(t, "waiting")
    /\ UNCHANGED <<listVars, connVars, lockVars, cached, held, picked, rejected, doomed>>

\* Deliberate error: an idle worker keeps the snapshot it has.
KeepCache(t) == cached

\* The thread caches after worker t called get_polardb_server_list_snapshot().
RefreshedCache(t) == [cached EXCEPT ![t] = cur]

OwnedAfterRefresh(t) ==
    {cur} \cup {RefreshedCache(t)[u] : u \in Threads} \cup {held[u] : u \in Workers}
          \cup {csnap[c] : c \in Conns}

\* Deliberate error: a server retired at a generation is reclaimed together
\* with the servers retired before it.
ReclaimableTooEarly(snaps) ==
    {s \in Servers : life[s] = "retired" /\ \A g \in snaps : retiredAt[s] <= g}

\* Retired servers older than every retired snapshot that still has an owner.
Reclaimable(snaps) ==
    {s \in Servers : /\ life[s] = "retired"
                     /\ IF snaps = {} THEN retiredAt[s] < gen + 1
                                      ELSE \A g \in snaps : retiredAt[s] < g}

\* drop_all_idle_connections, then at most one FREE connection is moved to
\* USED for a ping, carrying the refreshed snapshot.
Maintain(t, ping) ==
    LET kept == retiredSnaps \cap OwnedAfterRefresh(t)
        gone == Reclaimable(kept)
        drop == {c \in Conns : cstate[c] = "FREE" /\ status[cparent[c]] # "ONLINE"}
        pinged == {c \in ping : cstate[c] = "FREE" /\ status[cparent[c]] = "ONLINE"}
    IN  /\ pc[t] = "waiting" /\ HgmFree
        /\ cached' = RefreshedCache(t)
        /\ retiredSnaps' = kept
        /\ life' = [s \in Servers |-> IF s \in gone THEN "detached" ELSE life[s]]
        /\ doomed' = [doomed EXCEPT ![t] = gone]
        /\ Goto(t, IF gone = {} THEN "idle" ELSE "deleting")
        /\ cstate' = [c \in Conns |-> IF c \in drop THEN "none"
                                      ELSE IF c \in pinged THEN "USED" ELSE cstate[c]]
        /\ csnap' = [c \in Conns |-> IF c \in pinged THEN cur ELSE csnap[c]]
        /\ cparent' = [c \in Conns |-> IF c \in drop THEN NoServer ELSE cparent[c]]
        /\ UNCHANGED <<status, gen, cur, content, retiredAt, held, picked, rejected,
                       lockVars>>

\* delete retired_server, after both locks are released.
DeleteRetired(t) ==
    /\ pc[t] = "deleting"
    /\ life' = [s \in Servers |-> IF s \in doomed[t] THEN "deleted" ELSE life[s]]
    /\ doomed' = [doomed EXCEPT ![t] = {}]
    /\ Goto(t, "idle")
    /\ UNCHANGED <<status, gen, cur, content, retiredSnaps, retiredAt, cached, held,
                   picked, rejected, connVars, lockVars>>

(***************************************************************************)
(* The specification.                                                      *)
(***************************************************************************)
AdminStep ==
    \/ StoreGeneration
    \/ CommitBegin
    \/ CommitEnd
    \/ ReadOnlyActionBegin
    \/ ReadOnlyActionEnd
    \/ AdminThreadExit
    \/ \E s \in Servers : AddServer(s) \/ ReviveServer(s)
    \/ \E s \in Servers, st \in Statuses : SetStatus(s, st)

WorkerStep(t) ==
    \/ LoadGeneration(t)
    \/ LoadPointer(t)
    \/ GiveUp(t)
    \/ ClassicMiss(t)
    \/ RouteWake(t)
    \/ MaintainBegin(t)
    \/ DeleteRejected(t)
    \/ DeleteRetired(t)
    \/ \E s \in Servers : ClassicSelect(t, s)
    \/ \E s \in Servers, c \in Conns :
          TakeExisting(t, s, c) \/ CreateSelected(t, s, c) \/ ClassicSlow(t, s, c)
    \/ \E c \in Conns : \/ ClassicTake(t, c) \/ ReturnGeneric(t, c)
                        \/ ReturnExact(t, c) \/ ReturnBatch(t, c)
                        \/ DestroyUsed(t, c)
    \/ \E ping \in {{}} \cup {{c} : c \in Conns} : Maintain(t, ping)

Next == AdminStep \/ \E t \in Workers : WorkerStep(t)

Spec == Init /\ [][Next]_vars

\* Every call that took a lock or a snapshot runs to its end, the worker loop
\* reaches its maintenance again and again, and a worker that waits for the
\* manager's lock there gets it if the lock is released again and again.
Fairness ==
    /\ WF_vars(StoreGeneration)
    /\ WF_vars(CommitEnd)
    /\ WF_vars(ReadOnlyActionEnd)
    /\ \A t \in Workers :
         /\ WF_vars(LoadPointer(t))
         /\ WF_vars(GiveUp(t))
         /\ WF_vars(ClassicMiss(t))
         /\ WF_vars(DeleteRejected(t))
         /\ WF_vars(DeleteRetired(t))
         /\ SF_vars(MaintainBegin(t))
         /\ SF_vars(Maintain(t, {}))

FairSpec == Spec /\ Fairness

(***************************************************************************)
(* Properties.                                                             *)
(***************************************************************************)
\* Every variable has its type: lists, generations and connections of the
\* hostgroups manager and its callers.
TypeOK ==
    /\ life \in [Servers -> Lives]
    /\ status \in [Servers -> Statuses]
    /\ gen \in Gens
    /\ cur \in Gens
    /\ content \in [Gens -> SUBSET Servers]
    /\ retiredSnaps \subseteq Gens
    /\ retiredAt \in [Servers -> 0..MaxGen]
    /\ cached \in [Threads -> 0..MaxGen]
    /\ held \in [Workers -> 0..MaxGen]
    /\ pc \in [Workers -> WorkerSteps]
    /\ picked \in [Workers -> Servers \cup {NoServer}]
    /\ rejected \in [Workers -> Conns \cup {NoConn}]
    /\ doomed \in [Workers -> SUBSET Servers]
    /\ cstate \in [Conns -> {"none", "FREE", "USED", "rejected"}]
    /\ cparent \in [Conns -> Servers \cup {NoServer}]
    /\ csnap \in [Conns -> 0..MaxGen]
    /\ phase \in {"idle", "commit", "read_only"}
    /\ publishing \in BOOLEAN
    /\ closing \in BOOLEAN
    /\ mutated \in BOOLEAN
    /\ reviving \subseteq Servers

\* No snapshot that some thread, call, connection or the published pointer
\* still owns names a server object that has been freed: the raw PgSQL_SrvC
\* pointers of get_polardb_server_list_snapshot() are always valid.
SnapshotsNameLiveServers ==
    \A g \in Owned \ {0} : \A s \in content[g] : life[s] # "deleted"

\* The parent of every connection object is allocated: while it is pooled, in
\* use, being pinged, or already taken out of USED by a return call that is
\* about to delete it (return_connection_with_match_key); so is the server
\* get_MyConn_from_pool chose before it dropped the manager's lock.
ParentsAreAllocated ==
    /\ \A c \in Conns : cstate[c] # "none" => life[cparent[c]] # "deleted"
    /\ \A t \in Workers : picked[t] # NoServer => life[picked[t]] # "deleted"

\* A server leaves the list only when it has no pooled connection, and none
\* ever appears on it afterwards, although workers that selected it earlier
\* still take and create connections without the manager's lock.
PooledOnlyOnListed ==
    \A c \in Conns : cstate[c] \in {"FREE", "USED"} => life[cparent[c]] = "listed"

\* A snapshot the worker maintenance pass does not control, the cache of the
\* administrative thread or that of a connection in use, may name server s.
PinnedElsewhere(s) ==
    \E g \in {cached[Admin]} \cup {csnap[c] : c \in Conns} : g # 0 /\ g <= retiredAt[s]

\* A server that stays retired forever is pinned again and again by such a
\* snapshot: get_multiple_idle_connections() reclaims every other one, and no
\* idle worker keeps a generation alive.
RetiredServersAreReclaimed ==
    \A s \in Servers :
        <>[](life[s] \in {"retired", "detached"}) => []<>PinnedElsewhere(s)
=============================================================================
