------------------------ MODULE ServerLifetimeProofs ------------------------
(***************************************************************************)
(* Proofs about ServerLifetime for every set of servers, connections and   *)
(* workers and every number of publications: no owned snapshot names a     *)
(* freed server, the parent of every connection is allocated, and only     *)
(* listed servers have pooled connections.                                 *)
(***************************************************************************)
EXTENDS ServerLifetime, TLAPS

\* The states of a server object that is no longer on any list.
Unlisted == {"retired", "detached", "deleted"}

\* The published list is the list of the manager, the pointer is ahead of the
\* generation exactly during a publication, and a server is named only by the
\* snapshots of the generations up to the one it was retired at.
ListInv ==
    /\ publishing => phase # "idle"
    /\ cur = IF publishing THEN gen + 1 ELSE gen
    /\ content[cur] = Listed
    /\ \A s \in Servers : life[s] \in Unlisted =>
        /\ retiredAt[s] < cur
        /\ \A g \in 1..cur : s \in content[g] => g <= retiredAt[s]

\* Every snapshot that has an owner is the published one or is still on the
\* retired list, and names no server that has been reclaimed.
OwnerInv ==
    /\ \A g \in Owned \ {0} : /\ g <= cur
                              /\ g # cur => g \in retiredSnaps
                              /\ \A s \in content[g] : life[s] \notin {"detached", "deleted"}
    /\ \A t \in Workers : /\ cached[t] # 0
                          /\ \A s \in doomed[t] : life[s] \in {"detached", "deleted"}

\* A server that has left the list is not ONLINE and never becomes so again: a
\* server set ONLINE by the publication under way is still on the list.
StatusInv ==
    /\ \A s \in Servers : life[s] \in Unlisted => status[s] # "ONLINE"
    /\ reviving \subseteq Listed
    /\ reviving # {} => publishing

Rejecting(t) == pc[t] \in {"rejecting", "batch"}

\* The snapshot that protects the parent of connection c while t rejects it.
Shield(t, c) == IF csnap[c] # 0 THEN csnap[c] ELSE cached[t]

\* A connection outside the lists is in the hands of a rejecting worker.
InHands(c) ==
    /\ cstate[c] # "none" => cparent[c] \in Servers
    /\ cstate[c] = "rejected" => \E t \in Workers : Rejecting(t) /\ rejected[t] = c

\* The parent of the connection t rejects is listed, or was retired no earlier
\* than the generation of the snapshot that shields it.
Shielded(t) ==
    LET c == rejected[t]
        s == cparent[c]
    IN  /\ c \in Conns /\ cstate[c] = "rejected"
        /\ life[s] = "listed" \/ (life[s] = "retired" /\ Shield(t, c) <= retiredAt[s])

\* The server get_MyConn_from_pool chose is named by the snapshot it holds.
PickHeld(t) ==
    /\ picked[t] # NoServer <=> pc[t] = "classic"
    /\ pc[t] = "classic" => held[t] # 0 /\ picked[t] \in content[held[t]]

ConnInv ==
    /\ PooledOnlyOnListed
    /\ \A c \in Conns : InHands(c)
    /\ \A t \in Workers : PickHeld(t)
    /\ \A t \in Workers : Rejecting(t) => Shielded(t)
    /\ \A t, u \in Workers : Rejecting(t) /\ Rejecting(u) /\ rejected[t] = rejected[u] => t = u

IInv == TypeOK /\ ListInv /\ OwnerInv /\ StatusInv /\ ConnInv

-----------------------------------------------------------------------------
USE LifetimeAssumption DEF listVars, threadVars, connVars, lockVars, vars

\* A snapshot no younger than a retirement is older than the published one and
\* blocks the reclaim (the cut-off of polardb_detach_reclaimable_retired_servers_under_fast_topology_lock).
LEMMA CutOff ==
    ASSUME NEW g \in Int, NEW r \in Int, NEW k \in Int, g <= r, r < k
    PROVE  g # k /\ ~(r < g)
  OBVIOUS

\* Every owned snapshot is a generation or null.
LEMMA OwnedType ==
    ASSUME TypeOK
    PROVE  \A g \in Owned \ {0} : g \in 1..MaxGen
  BY DEF TypeOK, Owned, Gens

\* The null snapshot counts as generation zero.
LEMMA ZeroGen == 0 \in 0..MaxGen
  OBVIOUS

\* A generation that is not newer than the published one.
LEMMA UpTo ==
    ASSUME NEW g \in 1..MaxGen, NEW k \in Int, g <= k
    PROVE  g \in 1..k
  OBVIOUS

\* Storing the pointer of a snapshot of known servers keeps the types
\* (polardb_update_server_list_snapshot_under_hgm_and_fast_topology_locks).
LEMMA StorePointerType ==
    ASSUME TypeOK, NEW S \in SUBSET Servers, StorePointer(S)
    PROVE  /\ cur' \in Gens /\ content' \in [Gens -> SUBSET Servers]
           /\ retiredSnaps' \subseteq Gens /\ publishing' \in BOOLEAN
  BY DEF TypeOK, StorePointer, Gens

\* So does a purge, whether or not it unlinks a server.
LEMMA PurgeType ==
    ASSUME TypeOK, Purge
    PROVE  /\ life' \in [Servers -> Lives] /\ retiredAt' \in [Servers -> 0..MaxGen]
           /\ cur' \in Gens /\ content' \in [Gens -> SUBSET Servers]
           /\ retiredSnaps' \subseteq Gens /\ publishing' \in BOOLEAN
<1> DEFINE gone == {s \in Listed : status[s] = "OFFLINE_HARD" /\ NoLiveConnections(s)}
<1>1. CASE gone = {}
  BY <1>1 DEF Purge, TypeOK
<1>2. CASE gone # {}
  <2>1. /\ life' = [s \in Servers |-> IF s \in gone THEN "retired" ELSE life[s]]
        /\ retiredAt' = [s \in Servers |-> IF s \in gone THEN gen ELSE retiredAt[s]]
        /\ StorePointer(Listed \ gone)
    BY <1>2 DEF Purge
  <2>2. Listed \ gone \in SUBSET Servers
    BY DEF Listed
  <2>3. /\ cur' \in Gens /\ content' \in [Gens -> SUBSET Servers]
        /\ retiredSnaps' \subseteq Gens /\ publishing' \in BOOLEAN
    BY <2>1, <2>2, StorePointerType
  <2>4. life' \in [Servers -> Lives] /\ retiredAt' \in [Servers -> 0..MaxGen]
    <3> HIDE DEF gone
    <3> QED BY <2>1 DEF TypeOK, Lives, Gens
  <2> QED BY <2>3, <2>4
<1> QED BY <1>1, <1>2

\* The three ways a connection changes hands keep the types of the connections.
LEMMA ConnType ==
    ASSUME TypeOK, NEW c,
           \/ \E s \in Servers \cup {NoServer}, g \in 0..MaxGen : Use(c, s, g)
           \/ ToFree(c) \/ Destroy(c)
    PROVE  /\ cstate' \in [Conns -> {"none", "FREE", "USED", "rejected"}]
           /\ cparent' \in [Conns -> Servers \cup {NoServer}]
           /\ csnap' \in [Conns -> 0..MaxGen]
<1>1. ASSUME NEW s \in Servers \cup {NoServer}, NEW g \in 0..MaxGen, Use(c, s, g)
      PROVE  /\ cstate' \in [Conns -> {"none", "FREE", "USED", "rejected"}]
             /\ cparent' \in [Conns -> Servers \cup {NoServer}]
             /\ csnap' \in [Conns -> 0..MaxGen]
  BY <1>1, Zenon DEF Use, TypeOK
<1>2. CASE ToFree(c)
  <2>1. cstate' = [cstate EXCEPT ![c] = "FREE"] /\ csnap' = [csnap EXCEPT ![c] = 0] /\ cparent' = cparent
    BY <1>2 DEF ToFree
  <2>2. cstate' \in [Conns -> {"none", "FREE", "USED", "rejected"}]
    BY <2>1, Zenon DEF TypeOK
  <2>3. csnap' \in [Conns -> 0..MaxGen]
    BY <2>1, ZeroGen, Zenon DEF TypeOK
  <2> QED BY <2>1, <2>2, <2>3 DEF TypeOK
<1>3. CASE Destroy(c)
  <2>1. /\ cstate' = [cstate EXCEPT ![c] = "none"] /\ csnap' = [csnap EXCEPT ![c] = 0]
        /\ cparent' = [cparent EXCEPT ![c] = NoServer]
    BY <1>3 DEF Destroy
  <2>2. cstate' \in [Conns -> {"none", "FREE", "USED", "rejected"}]
    BY <2>1, Zenon DEF TypeOK
  <2>3. csnap' \in [Conns -> 0..MaxGen]
    BY <2>1, ZeroGen, Zenon DEF TypeOK
  <2>4. cparent' \in [Conns -> Servers \cup {NoServer}]
    BY <2>1, Zenon DEF TypeOK
  <2> QED BY <2>2, <2>3, <2>4
<1> QED BY <1>1, <1>2, <1>3

\* So do the locals of a worker that leaves its call.
LEMMA LeaveType ==
    ASSUME TypeOK, NEW t \in Workers, Leave(t)
    PROVE  /\ held' \in [Workers -> 0..MaxGen] /\ pc' \in [Workers -> WorkerSteps]
           /\ picked' \in [Workers -> Servers \cup {NoServer}]
  BY DEF TypeOK, Leave, Goto, WorkerSteps

\* The types are preserved by every step.
LEMMA TypeStep ==
    ASSUME TypeOK, [Next]_vars
    PROVE  TypeOK'
<1> USE DEF Gens
<1>1. CASE UNCHANGED vars
  BY <1>1 DEF TypeOK
<1>2. CASE StoreGeneration
  BY <1>2, Zenon DEF StoreGeneration, PublishedGeneration, TypeOK
<1>3. CASE CommitBegin
  BY <1>3, PurgeType DEF CommitBegin, TypeOK
<1>4. CASE CommitEnd
  <2>0. Listed \in SUBSET Servers
    BY DEF Listed
  <2>1. CASE mutated
    BY <1>4, <2>0, <2>1, StorePointerType DEF CommitEnd, TypeOK
  <2>2. CASE ~mutated
    BY <1>4, <2>2, Zenon DEF CommitEnd, TypeOK
  <2> QED BY <2>1, <2>2
<1>5. CASE ReadOnlyActionBegin
  BY <1>5 DEF ReadOnlyActionBegin, TypeOK
<1>6. CASE ReadOnlyActionEnd
  <2>1. /\ life' \in [Servers -> Lives] /\ retiredAt' \in [Servers -> 0..MaxGen]
        /\ cur' \in Gens /\ content' \in [Gens -> SUBSET Servers]
        /\ retiredSnaps' \subseteq Gens /\ publishing' \in BOOLEAN
    <3>1. CASE mutated
      BY <1>6, <3>1, PurgeType DEF ReadOnlyActionEnd
    <3>2. CASE ~mutated
      BY <1>6, <3>2, Zenon DEF ReadOnlyActionEnd, TypeOK
    <3> QED BY <3>1, <3>2
  <2> QED BY <1>6, <2>1, Zenon DEF ReadOnlyActionEnd, TypeOK
<1>7. CASE AdminThreadExit
  BY <1>7 DEF AdminThreadExit, TypeOK, Threads
<1>8. ASSUME NEW s \in Servers, AddServer(s)
      PROVE  TypeOK'
  <2>1. Listed \cup {s} \in SUBSET Servers
    BY DEF Listed
  <2> QED BY <1>8, <2>1, StorePointerType DEF AddServer, TypeOK, Lives
<1>9. ASSUME NEW s \in Servers, ReviveServer(s)
      PROVE  TypeOK'
  <2>1. Listed \in SUBSET Servers
    BY DEF Listed
  <2> QED BY <1>9, <2>1, StorePointerType DEF ReviveServer, TypeOK
<1>10. ASSUME NEW s \in Servers, NEW st \in Statuses, SetStatus(s, st)
       PROVE  TypeOK'
  <2>1. status' \in [Servers -> Statuses] /\ mutated' \in BOOLEAN
    BY <1>10 DEF SetStatus, TypeOK
  <2>2. /\ cached' \in [Threads -> 0..MaxGen]
        /\ cstate' \in [Conns -> {"none", "FREE", "USED", "rejected"}]
        /\ cparent' \in [Conns -> Servers \cup {NoServer}]
    <3>1. CASE st = "OFFLINE_HARD"
      BY <1>10, <3>1 DEF SetStatus, TypeOK, Threads
    <3>2. CASE st # "OFFLINE_HARD"
      BY <1>10, <3>2 DEF SetStatus, TypeOK
    <3> QED BY <3>1, <3>2
  <2> QED BY <1>10, <2>1, <2>2 DEF SetStatus, TypeOK
<1>11. ASSUME NEW t \in Workers, WorkerStep(t)
       PROVE  TypeOK'
  <2> USE DEF WorkerSteps, Threads, Goto, Leave
  <2>1. CASE LoadGeneration(t)
    <3>1. held' \in [Workers -> 0..MaxGen] /\ pc' \in [Workers -> WorkerSteps]
      <4>1. CASE cached[t] = gen
        <5>1. held' = [held EXCEPT ![t] = cached[t]] /\ pc' = [pc EXCEPT ![t] = "holding"]
          BY <2>1, <4>1 DEF LoadGeneration
        <5>2. cached[t] \in 0..MaxGen /\ held \in [Workers -> 0..MaxGen]
          BY DEF TypeOK
        <5>3. pc \in [Workers -> WorkerSteps]
          BY DEF TypeOK
        <5> QED BY <5>1, <5>2, <5>3
      <4>2. CASE cached[t] # gen
        BY <2>1, <4>2, Zenon DEF LoadGeneration, TypeOK
      <4> QED BY <4>1, <4>2
    <3> QED BY <2>1, <3>1 DEF LoadGeneration, TypeOK
  <2>2. CASE LoadPointer(t)
    BY <2>2 DEF LoadPointer, TypeOK
  <2>3. CASE GiveUp(t)
    BY <2>3 DEF GiveUp, TypeOK
  <2>4. CASE ClassicMiss(t)
    BY <2>4 DEF ClassicMiss, TypeOK
  <2>5. CASE RouteWake(t)
    BY <2>5 DEF RouteWake, TypeOK
  <2>6. CASE MaintainBegin(t)
    BY <2>6 DEF MaintainBegin, TypeOK
  <2>7. CASE DeleteRejected(t)
    <3>1. /\ cstate' \in [Conns -> {"none", "FREE", "USED", "rejected"}]
          /\ cparent' \in [Conns -> Servers \cup {NoServer}]
          /\ csnap' \in [Conns -> 0..MaxGen]
      BY <2>7, ConnType DEF DeleteRejected
    <3>2. rejected' \in [Workers -> Conns \cup {NoConn}] /\ pc' \in [Workers -> WorkerSteps]
      BY <2>7 DEF DeleteRejected, TypeOK
    <3> QED BY <2>7, <3>1, <3>2 DEF DeleteRejected, TypeOK
  <2>8. CASE DeleteRetired(t)
    BY <2>8 DEF DeleteRetired, TypeOK, Lives
  <2>9. ASSUME NEW s \in Servers, ClassicSelect(t, s)
        PROVE  TypeOK'
    BY <2>9 DEF ClassicSelect, TypeOK
  <2>10. ASSUME NEW s \in Servers, NEW c \in Conns,
                TakeExisting(t, s, c) \/ CreateSelected(t, s, c) \/ ClassicSlow(t, s, c)
         PROVE  TypeOK'
    <3>1. /\ Leave(t)
          /\ \E s0 \in Servers \cup {NoServer}, g \in 0..MaxGen : Use(c, s0, g)
          /\ UNCHANGED <<listVars, lockVars, cached, rejected, doomed>>
      BY <2>10 DEF TakeExisting, CreateSelected, ClassicSlow, TypeOK
    <3>2. /\ cstate' \in [Conns -> {"none", "FREE", "USED", "rejected"}]
          /\ cparent' \in [Conns -> Servers \cup {NoServer}]
          /\ csnap' \in [Conns -> 0..MaxGen]
      BY <3>1, ConnType
    <3>3. /\ held' \in [Workers -> 0..MaxGen] /\ pc' \in [Workers -> WorkerSteps]
          /\ picked' \in [Workers -> Servers \cup {NoServer}]
      BY <3>1, LeaveType, Zenon
    <3> QED BY <3>1, <3>2, <3>3, Zenon DEF TypeOK
  <2>11. ASSUME NEW c \in Conns, ClassicTake(t, c)
         PROVE  TypeOK'
    <3>1. /\ Leave(t)
          /\ \E s0 \in Servers \cup {NoServer}, g \in 0..MaxGen : Use(c, s0, g)
          /\ UNCHANGED <<listVars, lockVars, cached, rejected, doomed>>
      BY <2>11 DEF ClassicTake, TypeOK
    <3>2. /\ cstate' \in [Conns -> {"none", "FREE", "USED", "rejected"}]
          /\ cparent' \in [Conns -> Servers \cup {NoServer}]
          /\ csnap' \in [Conns -> 0..MaxGen]
      BY <3>1, ConnType
    <3>3. /\ held' \in [Workers -> 0..MaxGen] /\ pc' \in [Workers -> WorkerSteps]
          /\ picked' \in [Workers -> Servers \cup {NoServer}]
      BY <3>1, LeaveType, Zenon
    <3> QED BY <3>1, <3>2, <3>3, Zenon DEF TypeOK
  <2>12. ASSUME NEW c \in Conns,
                ReturnGeneric(t, c) \/ ReturnExact(t, c) \/ ReturnBatch(t, c) \/ DestroyUsed(t, c)
         PROVE  TypeOK'
    <3>1. CASE /\ ToFree(c) \/ Destroy(c)
               /\ UNCHANGED <<listVars, threadVars, lockVars>>
      <4>1. /\ cstate' \in [Conns -> {"none", "FREE", "USED", "rejected"}]
            /\ cparent' \in [Conns -> Servers \cup {NoServer}]
            /\ csnap' \in [Conns -> 0..MaxGen]
        BY <3>1, ConnType
      <4> QED BY <3>1, <4>1 DEF TypeOK
    <3>2. ASSUME NEW step \in {"rejecting", "batch"},
                 cstate' = [cstate EXCEPT ![c] = "rejected"],
                 rejected' = [rejected EXCEPT ![t] = c],
                 Goto(t, step),
                 UNCHANGED <<cparent, csnap, listVars, lockVars, cached, held, picked, doomed>>
          PROVE  TypeOK'
      BY <3>2 DEF TypeOK
    <3> QED BY <2>12, <3>1, <3>2 DEF ReturnGeneric, ReturnExact, ReturnBatch, DestroyUsed
  <2>13. ASSUME NEW ping, Maintain(t, ping)
         PROVE  TypeOK'
    <3>1. /\ life' \in [Servers -> Lives] /\ doomed' \in [Workers -> SUBSET Servers]
          /\ pc' \in [Workers -> WorkerSteps] /\ retiredSnaps' \subseteq Gens
      BY <2>13, Zenon DEF Maintain, Reclaimable, TypeOK, Lives
    <3>2. /\ cached' \in [Threads -> 0..MaxGen]
          /\ cstate' \in [Conns -> {"none", "FREE", "USED", "rejected"}]
          /\ cparent' \in [Conns -> Servers \cup {NoServer}]
          /\ csnap' \in [Conns -> 0..MaxGen]
      BY <2>13 DEF Maintain, RefreshedCache, TypeOK
    <3> QED BY <2>13, <3>1, <3>2, Zenon DEF Maintain, TypeOK
  <2> QED BY <1>11, <2>1, <2>2, <2>3, <2>4, <2>5, <2>6, <2>7, <2>8, <2>9, <2>10, <2>11, <2>12, <2>13
          DEF WorkerStep
<1> QED BY <1>1, <1>2, <1>3, <1>4, <1>5, <1>6, <1>7, <1>8, <1>9, <1>10, <1>11 DEF Next, AdminStep

-----------------------------------------------------------------------------
\* A publication: the pointer moves to a snapshot of the new list; a server
\* either stays as it was, appears, or is purged without live connections.
Republish ==
    /\ ~publishing /\ phase' # "idle" /\ gen' = gen
    /\ StorePointer(Listed')
    /\ \A s \in Servers :
        \/ life'[s] = life[s] /\ retiredAt'[s] = retiredAt[s]
        \/ life[s] = "unborn" /\ life'[s] = "listed"
        \/ /\ life[s] = "listed" /\ NoLiveConnections(s)
           /\ life'[s] = "retired" /\ retiredAt'[s] = gen
    /\ UNCHANGED <<threadVars, connVars>>

\* A step of an administrative call that publishes nothing.
Quiet ==
    /\ ~publishing /\ ~publishing'
    /\ UNCHANGED <<life, gen, cur, content, retiredSnaps, retiredAt, threadVars, connVars>>

\* A purge that unlinks a server is a publication, any other changes nothing
\* (purge_pgsql_servers_table).
LEMMA PurgeStep ==
    ASSUME TypeOK, ~publishing, phase' # "idle", gen' = gen, Purge,
           UNCHANGED <<threadVars, connVars>>
    PROVE  Republish \/ Quiet
<1> DEFINE gone == {s \in Listed : status[s] = "OFFLINE_HARD" /\ NoLiveConnections(s)}
<1>1. CASE gone = {}
  BY <1>1 DEF Purge, Quiet
<1>2. CASE gone # {}
  <2>1. /\ life' = [s \in Servers |-> IF s \in gone THEN "retired" ELSE life[s]]
        /\ retiredAt' = [s \in Servers |-> IF s \in gone THEN gen ELSE retiredAt[s]]
        /\ StorePointer(Listed \ gone)
    BY <1>2 DEF Purge
  <2>2. Listed' = Listed \ gone
    BY <2>1 DEF Listed
  <2>3. \A s \in gone : s \in Servers /\ life[s] = "listed" /\ NoLiveConnections(s)
    BY DEF Listed
  <2> HIDE DEF gone
  <2> QED BY <2>1, <2>2, <2>3 DEF Republish, TypeOK
<1> QED BY <1>1, <1>2

\* What an administrative step does to the list.
LEMMA AdminSteps ==
    ASSUME TypeOK, ListInv, AdminStep
    PROVE  \/ Republish \/ Quiet \/ StoreGeneration \/ AdminThreadExit
           \/ \E s \in Servers, st \in Statuses : SetStatus(s, st)
<1>1. CASE CommitBegin
  <2>1. ~publishing /\ phase' # "idle" /\ gen' = gen /\ Purge /\ UNCHANGED <<threadVars, connVars>>
    BY <1>1 DEF CommitBegin, HgmFree, ListInv
  <2> QED BY <2>1, PurgeStep
<1>2. CASE CommitEnd
  <2>1. CASE mutated
    <3>1. Listed' = Listed
      BY <1>2 DEF CommitEnd, Listed
    <3> QED BY <1>2, <2>1, <3>1 DEF CommitEnd, Republish
  <2>2. CASE ~mutated
    BY <1>2, <2>2 DEF CommitEnd, Quiet
  <2> QED BY <2>1, <2>2
<1>3. CASE ReadOnlyActionBegin
  BY <1>3 DEF ReadOnlyActionBegin, HgmFree, ListInv, Quiet
<1>4. CASE ReadOnlyActionEnd
  <2>1. CASE publishing'
    <3>1. ~publishing /\ phase' # "idle" /\ gen' = gen /\ Purge /\ UNCHANGED <<threadVars, connVars>>
      BY <1>4, <2>1, Zenon DEF ReadOnlyActionEnd
    <3> QED BY <3>1, PurgeStep
  <2>2. CASE ~publishing'
    <3>1. mutated => UNCHANGED <<life, retiredAt, cur, content, retiredSnaps>>
      BY <1>4, <2>2 DEF ReadOnlyActionEnd, Purge, StorePointer
    <3> QED BY <1>4, <2>2, <3>1 DEF ReadOnlyActionEnd, Quiet
  <2> QED BY <2>1, <2>2
<1>5. ASSUME NEW s \in Servers, AddServer(s)
      PROVE  Republish
  <2>1. Listed' = Listed \cup {s}
    BY <1>5 DEF AddServer, Listed, TypeOK
  <2>2. phase' # "idle"
    BY <1>5 DEF AddServer
  <2> QED BY <1>5, <2>1, <2>2 DEF AddServer, Republish, TypeOK
<1>6. ASSUME NEW s \in Servers, ReviveServer(s)
      PROVE  Republish
  <2>1. Listed' = Listed
    BY <1>6 DEF ReviveServer, Listed
  <2> QED BY <1>6, <2>1 DEF ReviveServer, Republish
<1> QED BY <1>1, <1>2, <1>3, <1>4, <1>5, <1>6 DEF AdminStep

\* What a worker's step leaves alone, and which of its steps touch the list.
LEMMA WorkerFrame ==
    ASSUME NEW t \in Workers, WorkerStep(t)
    PROVE  /\ UNCHANGED <<gen, cur, content, retiredAt, lockVars>>
           /\ \/ UNCHANGED <<life, retiredSnaps, doomed>>
              \/ DeleteRetired(t)
              \/ \E ping \in {{}} \cup {{c} : c \in Conns} : Maintain(t, ping)
<1>1. ASSUME NEW ping, Maintain(t, ping)
      PROVE  UNCHANGED <<gen, cur, content, retiredAt, lockVars>>
  BY <1>1, Zenon DEF Maintain
<1>2. CASE DeleteRetired(t)
  BY <1>2 DEF DeleteRetired
<1> QED BY <1>1, <1>2, Zenon DEF WorkerStep, LoadGeneration, LoadPointer, GiveUp, ClassicMiss, RouteWake,
        MaintainBegin, DeleteRejected, ClassicSelect, TakeExisting, CreateSelected, ClassicSlow,
        ClassicTake, ReturnGeneric, ReturnExact, ReturnBatch, DestroyUsed

\* A reclaim and a deletion move servers that are on no list.
LEMMA ReclaimLife ==
    ASSUME TypeOK, OwnerInv, NEW t \in Workers, WorkerStep(t)
    PROVE  \A s \in Servers : life'[s] = life[s] \/ {life[s], life'[s]} \subseteq Unlisted
<1>1. CASE DeleteRetired(t)
  BY <1>1 DEF DeleteRetired, OwnerInv, TypeOK, Unlisted
<1>2. ASSUME NEW ping, Maintain(t, ping)
      PROVE  \A s \in Servers : life'[s] = life[s] \/ {life[s], life'[s]} \subseteq Unlisted
  BY <1>2 DEF Maintain, Reclaimable, TypeOK, Unlisted
<1> QED BY <1>1, <1>2, WorkerFrame

\* A server leaves the list only when it is OFFLINE_HARD and no call sets the
\* status of one that is not listed.
LEMMA StatusStep ==
    ASSUME TypeOK, ListInv, OwnerInv, StatusInv, [Next]_vars
    PROVE  StatusInv'
<1>1. ASSUME UNCHANGED <<life, status, reviving, publishing>>
      PROVE  StatusInv'
  BY <1>1 DEF StatusInv, Listed
<1>2. ASSUME Purge, ~publishing, UNCHANGED <<status, reviving>>
      PROVE  StatusInv'
  <2> DEFINE gone == {s \in Listed : status[s] = "OFFLINE_HARD" /\ NoLiveConnections(s)}
  <2>1. \A s \in Servers : life'[s] = life[s] \/ status[s] = "OFFLINE_HARD"
    <3>1. CASE gone = {}
      BY <1>2, <3>1 DEF Purge
    <3>2. CASE gone # {}
      <4>1. life' = [s \in Servers |-> IF s \in gone THEN "retired" ELSE life[s]]
        BY <1>2, <3>2 DEF Purge
      <4>2. \A s \in gone : status[s] = "OFFLINE_HARD"
        OBVIOUS
      <4> HIDE DEF gone
      <4> QED BY <4>1, <4>2, Zenon
    <3> QED BY <3>1, <3>2
  <2>2. reviving' = {}
    BY <1>2 DEF StatusInv
  <2> QED BY <1>2, <2>1, <2>2 DEF StatusInv
<1>3. CASE UNCHANGED vars
  BY <1>1, <1>3
<1>4. CASE StoreGeneration
  <2>1. life' = life /\ reviving' = {} /\ status' = [s \in Servers |-> IF s \in reviving THEN "ONLINE" ELSE status[s]]
    BY <1>4 DEF StoreGeneration
  <2>2. \A s \in Servers : life[s] \in Unlisted => s \notin reviving
    BY DEF StatusInv, Listed, Unlisted
  <2> QED BY <2>1, <2>2 DEF StatusInv
<1>5. CASE CommitBegin
  BY <1>2, <1>5, Zenon DEF CommitBegin, HgmFree, ListInv
<1>6. CASE CommitEnd
  <2>1. UNCHANGED <<life, status, reviving>> /\ ~publishing
    BY <1>6 DEF CommitEnd
  <2> QED BY <2>1 DEF StatusInv, Listed
<1>7. CASE ReadOnlyActionBegin
  BY <1>1, <1>7 DEF ReadOnlyActionBegin
<1>8. CASE ReadOnlyActionEnd
  <2>1. CASE mutated
    BY <1>2, <1>8, <2>1, Zenon DEF ReadOnlyActionEnd
  <2>2. CASE ~mutated
    BY <1>1, <1>8, <2>2, Zenon DEF ReadOnlyActionEnd
  <2> QED BY <2>1, <2>2
<1>9. CASE AdminThreadExit
  BY <1>1, <1>9 DEF AdminThreadExit
<1>10. ASSUME NEW s \in Servers, AddServer(s)
       PROVE  StatusInv'
  <2>1. /\ UNCHANGED <<status, reviving>> /\ ~publishing
        /\ \A u \in Servers : life'[u] = life[u] \/ life'[u] = "listed"
    BY <1>10 DEF AddServer, TypeOK
  <2> QED BY <2>1 DEF StatusInv, Unlisted
<1>11. ASSUME NEW s \in Servers, ReviveServer(s)
       PROVE  StatusInv'
  <2>1. UNCHANGED <<life, status>> /\ reviving' = {s} /\ life[s] = "listed" /\ publishing'
    BY <1>11 DEF ReviveServer, StorePointer
  <2> QED BY <2>1 DEF StatusInv, Listed
<1>12. ASSUME NEW s \in Servers, NEW st \in Statuses, SetStatus(s, st)
       PROVE  StatusInv'
  <2>1. /\ UNCHANGED <<life, reviving, publishing>> /\ life[s] = "listed"
        /\ \A u \in Servers \ {s} : status'[u] = status[u]
    BY <1>12 DEF SetStatus, TypeOK
  <2> QED BY <2>1 DEF StatusInv, Listed, Unlisted
<1>13. ASSUME NEW t \in Workers, WorkerStep(t)
       PROVE  StatusInv'
  <2>1. UNCHANGED <<status, reviving, publishing>>
    <3>1. UNCHANGED status
      BY <1>13, Zenon DEF WorkerStep, LoadGeneration, LoadPointer, GiveUp, ClassicMiss, RouteWake,
         MaintainBegin, DeleteRejected, DeleteRetired, ClassicSelect, TakeExisting, CreateSelected,
         ClassicSlow, ClassicTake, ReturnGeneric, ReturnExact, ReturnBatch, DestroyUsed, Maintain
    <3> QED BY <1>13, <3>1, WorkerFrame
  <2>2. \A s \in Servers : life'[s] = life[s] \/ {life[s], life'[s]} \subseteq Unlisted
    BY <1>13, ReclaimLife
  <2> QED BY <2>1, <2>2 DEF StatusInv, Listed, Unlisted
<1> QED BY <1>3, <1>4, <1>5, <1>6, <1>7, <1>8, <1>9, <1>10, <1>11, <1>12, <1>13 DEF Next, AdminStep

\* Every step keeps ListInv.
LEMMA ListStep ==
    ASSUME TypeOK, ListInv, OwnerInv, [Next]_vars
    PROVE  ListInv'
<1>1. CASE UNCHANGED vars
  BY <1>1 DEF ListInv, Listed
<1>2. CASE Republish
  <2>1. /\ cur = gen /\ cur' = gen + 1 /\ gen' = gen /\ publishing' /\ gen \in 1..MaxGen
        /\ gen < MaxGen /\ content' = [content EXCEPT ![gen + 1] = Listed']
    BY <1>2 DEF Republish, StorePointer, ListInv, TypeOK, Gens
  <2>2. content'[cur'] = Listed' /\ \A g \in 1..cur : content'[g] = content[g]
    BY <2>1 DEF TypeOK, Gens
  <2>3. ASSUME NEW s \in Servers, life'[s] \in Unlisted
        PROVE  /\ retiredAt'[s] < cur'
               /\ \A g \in 1..cur' : s \in content'[g] => g <= retiredAt'[s]
    <3>1. s \notin content'[cur']
      BY <2>2, <2>3 DEF Listed, Unlisted
    <3>2. \/ life[s] \in Unlisted /\ retiredAt'[s] = retiredAt[s]
          \/ retiredAt'[s] = gen
      BY <1>2, <2>3 DEF Republish, Unlisted
    <3>3. retiredAt[s] \in Int
      BY DEF TypeOK
    <3>4. \A g \in 1..cur' : g # cur' => g \in 1..cur
      BY <2>1
    <3>5. CASE life[s] \in Unlisted /\ retiredAt'[s] = retiredAt[s]
      BY <2>1, <2>2, <3>1, <3>3, <3>4, <3>5 DEF ListInv
    <3>6. CASE retiredAt'[s] = gen
      BY <2>1, <3>1, <3>4, <3>6
    <3> QED BY <3>2, <3>5, <3>6
  <2> QED BY <1>2, <2>1, <2>2, <2>3 DEF ListInv, Republish
<1>3. CASE Quiet
  BY <1>3 DEF Quiet, ListInv, Listed
<1>4. CASE StoreGeneration
  BY <1>4 DEF StoreGeneration, PublishedGeneration, ListInv, Listed
<1>5. CASE AdminThreadExit
  BY <1>5 DEF AdminThreadExit, ListInv, Listed
<1>6. ASSUME NEW s \in Servers, NEW st \in Statuses, SetStatus(s, st)
      PROVE  ListInv'
  BY <1>6 DEF SetStatus, ListInv, Listed
<1>7. ASSUME NEW t \in Workers, WorkerStep(t)
      PROVE  ListInv'
  <2>1. UNCHANGED <<gen, cur, content, retiredAt, phase, publishing>>
    BY <1>7, WorkerFrame
  <2>2. \A s \in Servers : life'[s] = life[s] \/ {life[s], life'[s]} \subseteq Unlisted
    BY <1>7, ReclaimLife
  <2>3. Listed' = Listed
    BY <2>2 DEF Listed, Unlisted
  <2>4. \A s \in Servers : life'[s] \in Unlisted => life[s] \in Unlisted
    BY <2>2
  <2> QED BY <2>1, <2>3, <2>4 DEF ListInv
<1> QED BY <1>1, <1>2, <1>3, <1>4, <1>5, <1>6, <1>7, AdminSteps DEF Next

-----------------------------------------------------------------------------
Reclaimed == {"detached", "deleted"}

\* The owners are the published pointer, the thread caches, the running calls
\* and the connections.
LEMMA OwnedBy ==
    ASSUME NEW g
    PROVE  g \in Owned <=> \/ g = cur
                           \/ \E t \in Threads : g = cached[t]
                           \/ \E t \in Workers : g = held[t]
                           \/ \E c \in Conns : g = csnap[c]
  BY DEF Owned

\* A step that gives no snapshot a first owner and leaves the lists alone keeps
\* OwnerInv.
LEMMA SameOwners ==
    ASSUME OwnerInv, UNCHANGED <<cur, content, life, retiredSnaps, doomed>>,
           Owned' \subseteq Owned \cup {0}, \A t \in Workers : cached'[t] # 0
    PROVE  OwnerInv'
  BY DEF OwnerInv

\* The snapshots a worker's step hands out are owned already.
LEMMA WorkerOwners ==
    ASSUME TypeOK, ListInv, NEW t \in Workers, WorkerStep(t)
    PROVE  /\ \A u \in Threads : cached'[u] \in {cached[u], cur}
           /\ \A u \in Workers : held'[u] \in {held[u], cached[u], cur, 0}
           /\ \A c \in Conns : csnap'[c] \in {csnap[c], held[t], cur, 0}
<1> USE DEF TypeOK, Threads
<1>1. CASE LoadGeneration(t)
  BY <1>1 DEF LoadGeneration
<1>2. CASE LoadPointer(t)
  BY <1>2 DEF LoadPointer
<1>3. CASE GiveUp(t)
  BY <1>3 DEF GiveUp, Leave
<1>4. CASE ClassicMiss(t) \/ MaintainBegin(t) \/ DeleteRetired(t)
  BY <1>4 DEF ClassicMiss, MaintainBegin, DeleteRetired
<1>5. CASE RouteWake(t)
  BY <1>5 DEF RouteWake
<1>6. CASE DeleteRejected(t)
  BY <1>6 DEF DeleteRejected, Destroy
<1>7. ASSUME NEW s \in Servers, ClassicSelect(t, s)
      PROVE  /\ \A u \in Threads : cached'[u] \in {cached[u], cur}
             /\ \A u \in Workers : held'[u] \in {held[u], cached[u], cur, 0}
             /\ UNCHANGED csnap
  BY <1>7 DEF ClassicSelect
<1>8. ASSUME NEW c \in Conns, NEW s, NEW g \in {0, held[t]}, Use(c, s, g), Leave(t), UNCHANGED cached
      PROVE  /\ \A u \in Workers : held'[u] \in {held[u], 0}
             /\ \A d \in Conns : csnap'[d] \in {csnap[d], held[t], 0}
  BY <1>8 DEF Use, Leave
<1>9. ASSUME NEW c \in Conns, ToFree(c) \/ Destroy(c)
      PROVE  \A d \in Conns : csnap'[d] \in {csnap[d], 0}
  BY <1>9 DEF ToFree, Destroy
<1>10. ASSUME NEW ping, Maintain(t, ping)
       PROVE  /\ \A u \in Threads : cached'[u] \in {cached[u], cur}
              /\ UNCHANGED held
              /\ \A c \in Conns : csnap'[c] \in {csnap[c], cur}
  BY <1>10 DEF Maintain, RefreshedCache
<1> HIDE DEF TypeOK, Threads
<1>11. ASSUME NEW s \in Servers, NEW c \in Conns,
              TakeExisting(t, s, c) \/ CreateSelected(t, s, c) \/ ClassicSlow(t, s, c) \/ ClassicTake(t, c)
       PROVE  /\ UNCHANGED cached
              /\ \A u \in Workers : held'[u] \in {held[u], 0}
              /\ \A d \in Conns : csnap'[d] \in {csnap[d], held[t], 0}
  BY <1>8, <1>11, Zenon DEF TakeExisting, CreateSelected, ClassicSlow, ClassicTake
<1>12. ASSUME NEW c \in Conns, ClassicTake(t, c)
       PROVE  /\ UNCHANGED cached
              /\ \A u \in Workers : held'[u] \in {held[u], 0}
              /\ \A d \in Conns : csnap'[d] \in {csnap[d], held[t], 0}
  BY <1>8, <1>12, Zenon DEF ClassicTake
<1>13. ASSUME NEW c \in Conns,
              ReturnGeneric(t, c) \/ ReturnExact(t, c) \/ ReturnBatch(t, c) \/ DestroyUsed(t, c)
       PROVE  /\ UNCHANGED <<cached, held>>
              /\ \A d \in Conns : csnap'[d] \in {csnap[d], 0}
  BY <1>9, <1>13 DEF ReturnGeneric, ReturnExact, ReturnBatch, DestroyUsed
<1> QED BY <1>1, <1>2, <1>3, <1>4, <1>5, <1>6, <1>7, <1>10, <1>11, <1>12, <1>13, Zenon DEF WorkerStep

\* Hence no snapshot gains its first owner in a worker's step.
LEMMA OwnersShrink ==
    ASSUME TypeOK, ListInv, NEW t \in Workers, WorkerStep(t)
    PROVE  Owned' \subseteq Owned \cup {0}
<1>1. cur' = cur
  BY WorkerFrame
<1>2. /\ \A u \in Threads : cached'[u] \in {cached[u], cur}
      /\ \A u \in Workers : held'[u] \in {held[u], cached[u], cur, 0}
      /\ \A c \in Conns : csnap'[c] \in {csnap[c], held[t], cur, 0}
  BY WorkerOwners
<1>3. Workers \subseteq Threads
  BY DEF Threads
<1> QED BY <1>1, <1>2, <1>3, Zenon DEF Owned

\* A reclaimed server is named by no snapshot that keeps an owner: the retired
\* snapshots in use are younger than its retirement
\* (polardb_detach_reclaimable_retired_servers_under_fast_topology_lock).
LEMMA ReclaimIsSafe ==
    ASSUME TypeOK, ListInv, OwnerInv, NEW t \in Workers, NEW ping, Maintain(t, ping),
           NEW s \in Servers, life[s] = "retired", life'[s] # "retired",
           NEW g \in OwnedAfterRefresh(t) \ {0}
    PROVE  g = cur \/ retiredAt[s] < g
<1>1. g \in Owned
  <2>1. \A u \in Threads : RefreshedCache(t)[u] \in {cached[u], cur}
    BY DEF RefreshedCache, TypeOK, Threads
  <2> QED BY <2>1 DEF OwnedAfterRefresh, Owned
<1>2. g # cur => g \in retiredSnaps \cap OwnedAfterRefresh(t)
  BY <1>1, Zenon DEF OwnerInv
<1>3. s \in Reclaimable(retiredSnaps \cap OwnedAfterRefresh(t))
  BY Zenon DEF Maintain
<1> QED BY <1>2, <1>3 DEF Reclaimable

\* Every step keeps OwnerInv.
LEMMA OwnerStep ==
    ASSUME TypeOK, ListInv, OwnerInv, [Next]_vars
    PROVE  OwnerInv'
<1>1. CASE UNCHANGED vars
  BY <1>1 DEF OwnerInv, Owned
<1>2. CASE Republish
  <2>1. /\ cur = gen /\ cur' = gen + 1 /\ gen \in 1..MaxGen /\ gen < MaxGen
        /\ content' = [content EXCEPT ![gen + 1] = Listed']
        /\ retiredSnaps' = retiredSnaps \cup {cur}
    BY <1>2 DEF Republish, StorePointer, ListInv, TypeOK, Gens
  <2>2. \A s \in Servers : life'[s] \in Reclaimed <=> life[s] \in Reclaimed
    BY <1>2, Zenon DEF Republish, Reclaimed
  <2>3. ASSUME NEW g \in Owned' \ {0}, g # cur'
        PROVE  g \in Owned \ {0} /\ g \in 1..cur /\ content'[g] = content[g]
    <3>1. g \in Owned
      BY <1>2, <2>3 DEF Owned, Republish
    <3>2. g \in Nat
      BY <3>1 DEF Owned, TypeOK, Gens
    <3>3. g <= cur
      BY <2>3, <3>1 DEF OwnerInv
    <3> QED BY <2>1, <2>3, <3>1, <3>2, <3>3 DEF TypeOK, Gens
  <2>4. content'[cur'] = Listed'
    BY <2>1 DEF TypeOK, Gens
  <2>5. \A g \in Gens : content[g] \subseteq Servers
    BY DEF TypeOK
  <2>6. ASSUME NEW g \in Owned' \ {0}
        PROVE  /\ g <= cur'
               /\ g # cur' => g \in retiredSnaps'
               /\ \A s \in content'[g] : life'[s] \notin Reclaimed
    <3>1. CASE g = cur'
      BY <2>1, <2>4, <3>1 DEF Listed, Reclaimed
    <3>2. CASE g # cur'
      BY <2>1, <2>2, <2>3, <2>5, <3>2 DEF OwnerInv, Reclaimed, Gens
    <3> QED BY <3>1, <3>2
  <2>7. \A t \in Workers : cached'[t] # 0 /\ \A s \in doomed'[t] : life'[s] \in Reclaimed
    BY <1>2, <2>2 DEF Republish, OwnerInv, Reclaimed, TypeOK
  <2> QED BY <2>6, <2>7 DEF OwnerInv, Reclaimed
<1>3. CASE Quiet
  <2>1. UNCHANGED <<life, cur, content, retiredSnaps, cached, held, doomed, csnap>>
    BY <1>3 DEF Quiet
  <2>2. Owned' = Owned
    BY <2>1 DEF Owned
  <2> QED BY <2>1, <2>2, SameOwners, Zenon DEF OwnerInv
<1>4. CASE StoreGeneration
  <2>1. Owned' = Owned
    BY <1>4 DEF StoreGeneration, Owned
  <2> QED BY <1>4, <2>1 DEF StoreGeneration, OwnerInv
<1>5. CASE AdminThreadExit
  <2>1. Owned' \subseteq Owned \cup {0} /\ \A t \in Workers : cached'[t] = cached[t]
    BY <1>5 DEF AdminThreadExit, Owned, TypeOK, Threads
  <2> QED BY <1>5, <2>1, SameOwners DEF AdminThreadExit, OwnerInv
<1>6. ASSUME NEW s \in Servers, NEW st \in Statuses, SetStatus(s, st)
      PROVE  OwnerInv'
  <2>1. /\ \A u \in Threads : cached'[u] \in {cached[u], cur}
        /\ \A t \in Workers : cached'[t] = cached[t]
    BY <1>6 DEF SetStatus, TypeOK, Threads
  <2>2. UNCHANGED <<cur, content, life, retiredSnaps, doomed, held, csnap>>
    BY <1>6 DEF SetStatus
  <2>3. Owned' \subseteq Owned \cup {0}
    BY <2>1, <2>2 DEF Owned
  <2> QED BY <2>1, <2>2, <2>3, SameOwners DEF OwnerInv
<1>7. ASSUME NEW t \in Workers, WorkerStep(t)
      PROVE  OwnerInv'
  <2>1. Owned' \subseteq Owned \cup {0}
    BY <1>7, OwnersShrink
  <2>2. \A u \in Workers : cached'[u] # 0
    <3>1. \A u \in Workers : cached'[u] \in {cached[u], cur}
      BY <1>7, WorkerOwners DEF Threads
    <3>2. cur # 0 /\ \A u \in Workers : cached[u] # 0
      BY DEF OwnerInv, TypeOK, Gens
    <3> QED BY <3>1, <3>2
  <2>3. UNCHANGED <<cur, content>>
    BY <1>7, WorkerFrame
  <2>4. CASE UNCHANGED <<life, retiredSnaps, doomed>>
    BY <2>1, <2>2, <2>3, <2>4, SameOwners
  <2>5. CASE DeleteRetired(t)
    <3>1. \A s \in Servers : life'[s] \in Reclaimed <=> life[s] \in Reclaimed
      BY <2>5 DEF DeleteRetired, OwnerInv, Reclaimed, TypeOK
    <3>2. \A u \in Workers : doomed'[u] \subseteq doomed[u] /\ doomed[u] \subseteq Servers
      BY <2>5 DEF DeleteRetired, TypeOK
    <3>3. UNCHANGED retiredSnaps
      BY <2>5 DEF DeleteRetired
    <3>4. \A g \in Owned \ {0} : content[g] \subseteq Servers
      <4>1. \A g \in Owned : g \in 0..MaxGen
        BY DEF Owned, TypeOK, Gens
      <4> QED BY <4>1 DEF TypeOK, Gens
    <3> QED BY <2>1, <2>2, <2>3, <3>1, <3>2, <3>3, <3>4 DEF OwnerInv, Reclaimed
  <2>6. ASSUME NEW ping, Maintain(t, ping)
        PROVE  OwnerInv'
    <3>1. retiredSnaps' = retiredSnaps \cap OwnedAfterRefresh(t)
      BY <2>6, Zenon DEF Maintain
    <3>2. Owned' \subseteq OwnedAfterRefresh(t)
      <4>1. cached' = RefreshedCache(t) /\ held' = held /\ \A c \in Conns : csnap'[c] \in {csnap[c], cur}
        BY <2>6 DEF Maintain, TypeOK
      <4> QED BY <2>3, <4>1, Zenon DEF Owned, OwnedAfterRefresh
    <3>3. ASSUME NEW g \in Owned' \ {0}
          PROVE  /\ g <= cur /\ g \in 1..cur
                 /\ g # cur => g \in retiredSnaps'
                 /\ \A s \in content[g] : s \in Servers /\ life[s] \notin Reclaimed
      <4>1. g \in Owned /\ g \in OwnedAfterRefresh(t)
        BY <2>1, <3>2, <3>3
      <4>2. g \in 1..MaxGen
        BY <3>3, <4>1, OwnedType
      <4>3. g <= cur /\ cur \in Int
        BY <3>3, <4>1 DEF OwnerInv, TypeOK, Gens
      <4>4. g # cur => g \in retiredSnaps'
        BY <3>1, <3>3, <4>1 DEF OwnerInv
      <4>5. \A s \in content[g] : s \in Servers /\ life[s] \notin Reclaimed
        BY <3>3, <4>1, <4>2 DEF OwnerInv, Reclaimed, TypeOK, Gens
      <4>6. g \in 1..cur
        BY <4>2, <4>3, UpTo
      <4> QED BY <4>3, <4>4, <4>5, <4>6, Zenon
    <3>4. ASSUME NEW g \in Owned' \ {0}, NEW s \in content[g]
          PROVE  life'[s] \notin Reclaimed
      <4>1. s \in Servers /\ life[s] \notin Reclaimed /\ g \in 1..cur
        BY <3>3, <3>4
      <4>2. life'[s] = life[s] \/ (life[s] = "retired" /\ life'[s] # "retired")
        BY <2>6, <4>1 DEF Maintain, Reclaimable, TypeOK
      <4>3. ASSUME life[s] = "retired", life'[s] # "retired"
            PROVE  FALSE
        <5>1. g = cur \/ retiredAt[s] < g
          BY <2>6, <3>2, <3>4, <4>1, <4>3, ReclaimIsSafe, Zenon
        <5>2. g <= retiredAt[s] /\ retiredAt[s] < cur
          BY <3>4, <4>1, <4>3 DEF ListInv, Unlisted
        <5>3. g \in Int /\ retiredAt[s] \in Int /\ cur \in Int
          BY <4>1 DEF TypeOK, Gens
        <5> QED BY <5>1, <5>2, <5>3, CutOff, Zenon
      <4> QED BY <4>1, <4>2, <4>3
    <3>5. \A u \in Workers : \A s \in doomed'[u] : life'[s] \in Reclaimed
      <4>1. \A s \in Servers : life[s] \in Reclaimed => life'[s] \in Reclaimed
        BY <2>6 DEF Maintain, TypeOK, Reclaimed
      <4>2. \A s \in doomed'[t] : life'[s] \in Reclaimed
        BY <2>6 DEF Maintain, Reclaimable, TypeOK, Reclaimed
      <4>3. \A u \in Workers \ {t} : doomed'[u] = doomed[u] /\ doomed[u] \subseteq Servers
        BY <2>6 DEF Maintain, TypeOK
      <4> QED BY <4>1, <4>2, <4>3 DEF OwnerInv, Reclaimed
    <3> QED BY <2>2, <2>3, <3>3, <3>4, <3>5 DEF OwnerInv, Reclaimed
  <2> QED BY <1>7, <2>4, <2>5, <2>6, WorkerFrame
<1> QED BY <1>1, <1>2, <1>3, <1>4, <1>5, <1>6, <1>7, AdminSteps DEF Next

-----------------------------------------------------------------------------
\* The snapshot that shields a rejected connection has an owner, so it is not
\* newer than the published one.
LEMMA ShieldOwned ==
    ASSUME TypeOK, OwnerInv, NEW t \in Workers, NEW c \in Conns
    PROVE  /\ Shield(t, c) \in Owned \ {0} /\ Shield(t, c) <= cur
           /\ Shield(t, c) \in Int /\ cur \in Int
<1>1. Shield(t, c) \in Owned \ {0}
  BY DEF Shield, Owned, OwnerInv, Threads
<1>2. Shield(t, c) \in Int /\ cur \in Int
  BY DEF Shield, TypeOK, Threads, Gens
<1> QED BY <1>1, <1>2 DEF OwnerInv

\* A worker's step that touches no connection and neither starts nor is in the
\* middle of a rejection keeps ConnInv.
LEMMA BystanderStep ==
    ASSUME TypeOK, ConnInv, NEW t \in Workers,
           UNCHANGED <<life, retiredAt, content, connVars, rejected>>,
           ~Rejecting(t), pc'[t] \notin {"rejecting", "batch", "classic"}, picked'[t] = NoServer,
           \A u \in Workers \ {t} : /\ pc'[u] = pc[u] /\ cached'[u] = cached[u]
                                    /\ held'[u] = held[u] /\ picked'[u] = picked[u]
    PROVE  ConnInv'
<1>1. \A u \in Workers : Rejecting(u)' <=> Rejecting(u)
  BY DEF Rejecting
<1>2. \A u \in Workers, c \in Conns : Rejecting(u) => Shield(u, c)' = Shield(u, c)
  BY DEF Shield
<1>3. PooledOnlyOnListed'
  BY DEF ConnInv, PooledOnlyOnListed
<1>4. \A c \in Conns : InHands(c)'
  BY <1>1, Zenon DEF ConnInv, InHands
<1>5. \A u \in Workers : PickHeld(u)'
  BY Zenon DEF ConnInv, PickHeld
<1>6. ASSUME NEW u \in Workers, Rejecting(u)
      PROVE  Shielded(u)'
  <2>1. Shielded(u) /\ pc'[u] = pc[u]
    BY <1>6 DEF ConnInv
  <2> QED BY <1>2, <1>6, <2>1 DEF Shielded
<1>7. \A u, v \in Workers : Rejecting(u)' /\ Rejecting(v)' /\ rejected'[u] = rejected'[v] => u = v
  BY <1>1 DEF ConnInv
<1> QED BY <1>1, <1>3, <1>4, <1>5, <1>6, <1>7, Zenon DEF ConnInv

\* Connection c is handed to a session: its server is listed.
LEMMA UseStep ==
    ASSUME TypeOK, ConnInv, NEW t \in Workers, NEW c \in Conns, NEW s \in Servers, NEW g \in 0..MaxGen,
           life[s] = "listed", cstate[c] \in {"none", "FREE"}, ~Rejecting(t),
           Use(c, s, g), Leave(t), UNCHANGED <<listVars, cached, rejected>>
    PROVE  ConnInv'
<1>1. /\ cstate'[c] = "USED" /\ cparent'[c] = s
      /\ \A d \in Conns \ {c} : cstate'[d] = cstate[d] /\ cparent'[d] = cparent[d] /\ csnap'[d] = csnap[d]
  BY DEF Use, TypeOK
<1>2. /\ pc'[t] = "idle" /\ picked'[t] = NoServer
      /\ \A u \in Workers \ {t} : pc'[u] = pc[u] /\ held'[u] = held[u] /\ picked'[u] = picked[u]
  BY DEF Leave, Goto, TypeOK
<1>3. \A u \in Workers : Rejecting(u)' <=> Rejecting(u)
  BY <1>2, Zenon DEF Rejecting
<1>4. \A u \in Workers : Rejecting(u) => rejected[u] \in Conns \ {c}
  BY Zenon DEF ConnInv, Shielded
<1>5. \A u \in Workers : \A d \in Conns \ {c} : Shield(u, d)' = Shield(u, d)
  BY <1>1, Zenon DEF Shield
<1>6. PooledOnlyOnListed'
  BY <1>1 DEF ConnInv, PooledOnlyOnListed
<1>7. \A d \in Conns : InHands(d)'
  BY <1>1, <1>3, Zenon DEF ConnInv, InHands
<1>8. \A u \in Workers : PickHeld(u)'
  BY <1>2, Zenon DEF ConnInv, PickHeld
<1>9. ASSUME NEW u \in Workers, Rejecting(u)
      PROVE  Shielded(u)'
  <2>1. Shielded(u) /\ rejected[u] \in Conns \ {c} /\ u # t
    BY <1>4, <1>9 DEF ConnInv
  <2> QED BY <1>1, <1>2, <1>5, <2>1, Zenon DEF Shielded
<1> QED BY <1>3, <1>6, <1>7, <1>8, <1>9 DEF ConnInv

\* Connection c leaves USED for FREE or is destroyed in the same critical section.
LEMMA ReturnStep ==
    ASSUME TypeOK, ConnInv, NEW c \in Conns, cstate[c] = "USED", ToFree(c) \/ Destroy(c),
           UNCHANGED <<listVars, threadVars>>
    PROVE  ConnInv'
<1>1. /\ cstate'[c] = "none" \/ (cstate'[c] = "FREE" /\ cparent'[c] = cparent[c])
      /\ \A d \in Conns \ {c} : cstate'[d] = cstate[d] /\ cparent'[d] = cparent[d] /\ csnap'[d] = csnap[d]
  BY DEF ToFree, Destroy, TypeOK
<1>2. \A u \in Workers : Rejecting(u)' <=> Rejecting(u)
  BY DEF Rejecting
<1>3. \A u \in Workers : Rejecting(u) => rejected[u] \in Conns \ {c}
  BY DEF ConnInv, Shielded
<1>4. \A u \in Workers : \A d \in Conns \ {c} : Shield(u, d)' = Shield(u, d)
  BY <1>1 DEF Shield
<1>5. PooledOnlyOnListed'
  <2>1. PooledOnlyOnListed
    BY DEF ConnInv
  <2> QED BY <1>1, <2>1 DEF PooledOnlyOnListed
<1>6. \A d \in Conns : InHands(d)'
  BY <1>1, <1>2 DEF ConnInv, InHands
<1>7. ASSUME NEW u \in Workers, Rejecting(u)
      PROVE  Shielded(u)'
  <2>1. Shielded(u) /\ rejected[u] \in Conns \ {c}
    BY <1>3, <1>7, Zenon DEF ConnInv
  <2> QED BY <1>1, <1>4, <2>1, Zenon DEF Shielded
<1>8. \A u \in Workers : PickHeld(u)'
  BY Zenon DEF ConnInv, PickHeld
<1>9. \A u, v \in Workers : Rejecting(u)' /\ Rejecting(v)' /\ rejected'[u] = rejected'[v] => u = v
  BY <1>2 DEF ConnInv
<1> QED BY <1>2, <1>5, <1>6, <1>7, <1>8, <1>9 DEF ConnInv

\* Connection c has left USED and worker t is about to delete it: its server is
\* still listed, and a later purge stamps it with a generation no older than
\* the shield.
LEMMA RejectStep ==
    ASSUME TypeOK, ConnInv, NEW t \in Workers, NEW c \in Conns, pc[t] = "idle", cstate[c] = "USED",
           NEW step \in {"rejecting", "batch"},
           cstate' = [cstate EXCEPT ![c] = "rejected"], rejected' = [rejected EXCEPT ![t] = c],
           Goto(t, step), UNCHANGED <<cparent, csnap, listVars, cached, held, picked>>
    PROVE  ConnInv'
<1>1. cstate'[c] = "rejected" /\ \A d \in Conns \ {c} : cstate'[d] = cstate[d]
  BY DEF TypeOK
<1>2. /\ pc'[t] = step /\ rejected'[t] = c
      /\ \A u \in Workers \ {t} : pc'[u] = pc[u] /\ rejected'[u] = rejected[u]
  BY DEF Goto, TypeOK
<1>3. \A u \in Workers : Rejecting(u)' <=> Rejecting(u) \/ u = t
  BY <1>2 DEF Rejecting
<1>4. ~Rejecting(t) /\ \A u \in Workers : Rejecting(u) => rejected[u] \in Conns \ {c}
  BY Zenon DEF ConnInv, Shielded, Rejecting
<1>5. \A u \in Workers, d \in Conns : Shield(u, d)' = Shield(u, d)
  BY DEF Shield
<1>6. PooledOnlyOnListed' /\ life[cparent[c]] = "listed"
  BY <1>1, Zenon DEF ConnInv, PooledOnlyOnListed
<1>7. \A d \in Conns : InHands(d)'
  <2>1. \A d \in Conns : cstate'[d] # "none" => cparent'[d] \in Servers
    BY <1>1, Zenon DEF ConnInv, InHands
  <2>2. ASSUME NEW d \in Conns \ {c}, cstate'[d] = "rejected"
        PROVE  \E u \in Workers : Rejecting(u)' /\ rejected'[u] = d
    <3>1. PICK u \in Workers : Rejecting(u) /\ rejected[u] = d
      BY <1>1, <2>2, Zenon DEF ConnInv, InHands
    <3> QED BY <1>2, <1>3, <1>4, <3>1
  <2> QED BY <1>2, <1>3, <2>1, <2>2, Zenon DEF InHands
<1>8. \A u \in Workers : PickHeld(u)'
  BY <1>2, Zenon DEF ConnInv, PickHeld
<1>9. ASSUME NEW u \in Workers, Rejecting(u)'
      PROVE  Shielded(u)'
  <2>1. CASE u = t
    BY <1>1, <1>2, <1>6, <2>1 DEF Shielded
  <2>2. CASE u # t
    <3>1. Rejecting(u) /\ rejected'[u] = rejected[u] /\ rejected[u] \in Conns \ {c} /\ pc'[u] = pc[u]
      BY <1>2, <1>3, <1>4, <1>9, <2>2
    <3>2. Shielded(u)
      BY <3>1, Zenon DEF ConnInv
    <3> QED BY <1>1, <1>5, <3>1, <3>2, Zenon DEF Shielded
  <2> QED BY <2>1, <2>2, Zenon
<1>10. \A u, v \in Workers : Rejecting(u)' /\ Rejecting(v)' /\ rejected'[u] = rejected'[v] => u = v
  <2>1. ASSUME NEW u \in Workers, NEW v \in Workers, Rejecting(u)', Rejecting(v)',
               rejected'[u] = rejected'[v]
        PROVE  u = v
    <3>1. CASE u = t \/ v = t
      BY <1>2, <1>3, <1>4, <2>1, <3>1, Zenon
    <3>2. CASE u # t /\ v # t
      <4>1. Rejecting(u) /\ Rejecting(v) /\ rejected[u] = rejected[v]
        BY <1>2, <1>3, <2>1, <3>2, Zenon
      <4> QED BY <4>1 DEF ConnInv
    <3> QED BY <3>1, <3>2
  <2> QED BY <2>1
<1> QED BY <1>6, <1>7, <1>8, <1>9, <1>10, Zenon DEF ConnInv

\* A rejected connection is deleted by the worker that rejects it.
LEMMA DeleteStep ==
    ASSUME TypeOK, ConnInv, NEW t \in Workers, DeleteRejected(t)
    PROVE  ConnInv'
<1> DEFINE c == rejected[t]
<1>1. Rejecting(t) /\ c \in Conns /\ cstate[c] = "rejected" /\ pc[t] # "classic"
  BY Zenon DEF DeleteRejected, Rejecting, ConnInv, Shielded
<1>2. /\ cstate'[c] = "none"
      /\ \A d \in Conns \ {c} : cstate'[d] = cstate[d] /\ cparent'[d] = cparent[d] /\ csnap'[d] = csnap[d]
  BY <1>1 DEF DeleteRejected, Destroy, TypeOK
<1>3. /\ pc'[t] = "idle"
      /\ \A u \in Workers \ {t} : pc'[u] = pc[u] /\ rejected'[u] = rejected[u]
  BY DEF DeleteRejected, Goto, TypeOK
<1>4. \A u \in Workers : Rejecting(u)' <=> Rejecting(u) /\ u # t
  BY <1>3 DEF Rejecting
<1>5. \A u \in Workers : Rejecting(u) /\ u # t => rejected[u] \in Conns \ {c}
  BY <1>1 DEF ConnInv, Shielded
<1>6. UNCHANGED <<listVars, cached, held, picked>>
  BY DEF DeleteRejected
<1> HIDE DEF c
<1>7. \A u \in Workers : \A d \in Conns \ {c} : Shield(u, d)' = Shield(u, d)
  BY <1>2, <1>6 DEF Shield
<1>8. PooledOnlyOnListed'
  BY <1>2, <1>6 DEF ConnInv, PooledOnlyOnListed
<1>9. \A d \in Conns : InHands(d)'
  <2>1. \A d \in Conns : cstate'[d] # "none" => cparent'[d] \in Servers
    BY <1>2, Zenon DEF ConnInv, InHands
  <2>2. ASSUME NEW d \in Conns, cstate'[d] = "rejected"
        PROVE  \E u \in Workers : Rejecting(u)' /\ rejected'[u] = d
    <3>1. d # c
      BY <1>2, <2>2
    <3>2. PICK u \in Workers : Rejecting(u) /\ rejected[u] = d
      BY <1>2, <2>2, <3>1, Zenon DEF ConnInv, InHands
    <3> QED BY <1>3, <1>4, <3>1, <3>2 DEF c
  <2> QED BY <2>1, <2>2 DEF InHands
<1>10. \A u \in Workers : PickHeld(u)'
  BY <1>1, <1>3, <1>6, Zenon DEF ConnInv, PickHeld
<1>11. ASSUME NEW u \in Workers, Rejecting(u)'
       PROVE  Shielded(u)'
  <2>1. Rejecting(u) /\ rejected'[u] = rejected[u] /\ rejected[u] \in Conns \ {c} /\ pc'[u] = pc[u]
    BY <1>3, <1>4, <1>5, <1>11
  <2>2. Shielded(u)
    BY <2>1, Zenon DEF ConnInv
  <2> QED BY <1>2, <1>6, <1>7, <2>1, <2>2, Zenon DEF Shielded
<1>12. \A u, v \in Workers : Rejecting(u)' /\ Rejecting(v)' /\ rejected'[u] = rejected'[v] => u = v
  BY <1>3, <1>4, Zenon DEF ConnInv
<1> QED BY <1>8, <1>9, <1>10, <1>11, <1>12, Zenon DEF ConnInv

\* Maintenance drops and pings FREE connections, and reclaims no server that
\* the parent of a rejected connection may be: its shield is owned and is no
\* younger than the retirement.
LEMMA MaintainStep ==
    ASSUME TypeOK, ListInv, OwnerInv, ConnInv, NEW t \in Workers, NEW ping, Maintain(t, ping)
    PROVE  ConnInv'
<1>1. \A c \in Conns :
        \/ cstate'[c] = cstate[c] /\ cparent'[c] = cparent[c] /\ csnap'[c] = csnap[c]
        \/ cstate[c] = "FREE" /\ (cstate'[c] = "none" \/ (cstate'[c] = "USED" /\ cparent'[c] = cparent[c]))
  <2>1. ASSUME NEW c \in Conns, cstate[c] # "FREE"
        PROVE  cstate'[c] = cstate[c] /\ cparent'[c] = cparent[c] /\ csnap'[c] = csnap[c]
    BY <2>1 DEF Maintain, TypeOK
  <2>2. ASSUME NEW c \in Conns, cstate[c] = "FREE", status[cparent[c]] # "ONLINE"
        PROVE  cstate'[c] = "none"
    BY <2>2 DEF Maintain, TypeOK
  <2>3. ASSUME NEW c \in Conns, cstate[c] = "FREE", status[cparent[c]] = "ONLINE"
        PROVE  /\ cparent'[c] = cparent[c]
               /\ cstate'[c] = "USED" \/ (cstate'[c] = cstate[c] /\ csnap'[c] = csnap[c])
    BY <2>3 DEF Maintain, TypeOK
  <2> QED BY <2>1, <2>2, <2>3
<1>2. /\ pc[t] = "waiting" /\ pc'[t] \in {"idle", "deleting"}
      /\ \A u \in Workers \ {t} : pc'[u] = pc[u] /\ cached'[u] = cached[u]
      /\ UNCHANGED <<content, retiredAt, held, picked, rejected>>
  BY DEF Maintain, RefreshedCache, Goto, TypeOK, Threads
<1>3. \A s \in Servers : life'[s] = life[s] \/ (life[s] = "retired" /\ life'[s] # "retired")
  BY Zenon DEF Maintain, Reclaimable, TypeOK
<1>4. \A u \in Workers : (Rejecting(u)' <=> Rejecting(u)) /\ (Rejecting(u) => u # t)
  BY <1>2, Zenon DEF Rejecting
<1>5. PooledOnlyOnListed'
  <2>1. \A c \in Conns : cstate[c] \in {"FREE", "USED"} =>
          cparent[c] \in Servers /\ life[cparent[c]] = "listed"
    BY Zenon DEF ConnInv, PooledOnlyOnListed, InHands
  <2> QED BY <1>1, <1>3, <2>1, Zenon DEF PooledOnlyOnListed
<1>6. \A c \in Conns : InHands(c)'
  <2>1. ASSUME NEW c \in Conns
        PROVE  InHands(c)'
    <3>1. InHands(c)
      BY DEF ConnInv
    <3>2. CASE cstate'[c] = cstate[c] /\ cparent'[c] = cparent[c]
      BY <1>2, <1>4, <3>1, <3>2 DEF InHands
    <3>3. CASE cstate[c] = "FREE" /\ (cstate'[c] = "none" \/ (cstate'[c] = "USED" /\ cparent'[c] = cparent[c]))
      BY <3>1, <3>3, Zenon DEF InHands
    <3> QED BY <1>1, <3>2, <3>3
  <2> QED BY <2>1
<1>7. \A u \in Workers : PickHeld(u)'
  BY <1>2, Zenon DEF ConnInv, PickHeld
<1>8. ASSUME NEW u \in Workers, Rejecting(u)
      PROVE  Shielded(u)'
  <2>1. PICK c \in Conns, s \in Servers :
          /\ c = rejected[u] /\ s = cparent[c]
          /\ cstate[c] = "rejected"
          /\ life[s] = "listed" \/ (life[s] = "retired" /\ Shield(u, c) <= retiredAt[s])
    <3>1. Shielded(u)
      BY <1>8 DEF ConnInv
    <3>2. rejected[u] \in Conns /\ cstate[rejected[u]] = "rejected"
      BY <3>1, Zenon DEF Shielded
    <3>3. cparent[rejected[u]] \in Servers
      BY <3>2, Zenon DEF ConnInv, InHands
    <3> QED BY <3>1, <3>3, Zenon DEF Shielded
  <2>2. s \in Servers
    OBVIOUS
  <2>3. cstate'[c] = "rejected" /\ cparent'[c] = s /\ csnap'[c] = csnap[c]
    BY <1>1, <2>1, Zenon
  <2>4. u # t /\ pc'[u] = pc[u] /\ cached'[u] = cached[u] /\ rejected'[u] = c
    BY <1>2, <1>4, <1>8, <2>1, Zenon
  <2>5. Shield(u, c)' = Shield(u, c)
    BY <2>3, <2>4, Zenon DEF Shield
  <2>6. ASSUME life[s] = "retired", life'[s] # "retired"
        PROVE  FALSE
    <3>1. Shield(u, c) \in OwnedAfterRefresh(t) \ {0}
      <4>1. RefreshedCache(t)[u] = cached[u]
        BY <2>4, Zenon DEF RefreshedCache, TypeOK, Threads
      <4>2. Shield(u, c) # 0
        BY <2>1, ShieldOwned
      <4> QED BY <2>1, <4>1, <4>2 DEF Shield, OwnedAfterRefresh, Threads
    <3>2. Shield(u, c) = cur \/ retiredAt[s] < Shield(u, c)
      BY <2>2, <2>6, <3>1, ReclaimIsSafe
    <3>3. Shield(u, c) <= retiredAt[s] /\ retiredAt[s] < cur
      BY <2>1, <2>2, <2>6 DEF ListInv, Unlisted
    <3>4. Shield(u, c) \in Int /\ cur \in Int /\ retiredAt[s] \in Int
      <4>1. Shield(u, c) \in Int
        BY <2>1, ShieldOwned
      <4>2. cur \in Int
        BY DEF TypeOK, Gens
      <4>3. retiredAt[s] \in Int
        BY <2>2 DEF TypeOK
      <4> QED BY <4>1, <4>2, <4>3
    <3> QED BY <3>2, <3>3, <3>4, CutOff
  <2>7. life'[s] = life[s] /\ retiredAt'[s] = retiredAt[s]
    BY <1>2, <1>3, <2>2, <2>6, Zenon
  <2> QED BY <2>1, <2>3, <2>4, <2>5, <2>7, Zenon DEF Shielded
<1>9. \A u, v \in Workers : Rejecting(u)' /\ Rejecting(v)' /\ rejected'[u] = rejected'[v] => u = v
  BY <1>2, <1>4, Zenon DEF ConnInv
<1> QED BY <1>4, <1>5, <1>6, <1>7, <1>8, <1>9, Zenon DEF ConnInv

\* A publication unlinks no server with live connections and stamps those it
\* unlinks with the generation every owned snapshot is bounded by.
LEMMA RepublishStep ==
    ASSUME TypeOK, ListInv, OwnerInv, ConnInv, Republish
    PROVE  ConnInv'
<1>1. UNCHANGED <<threadVars, connVars>> /\ cur = gen
  BY DEF Republish, ListInv
<1>2. \A u \in Workers : Rejecting(u)' <=> Rejecting(u)
  BY <1>1 DEF Rejecting
<1>3. PooledOnlyOnListed'
  <2>1. ASSUME NEW c \in Conns, cstate[c] \in {"FREE", "USED"}
        PROVE  life'[cparent[c]] = "listed"
    <3>1. cparent[c] \in Servers /\ life[cparent[c]] = "listed"
      BY <2>1 DEF ConnInv, InHands, PooledOnlyOnListed
    <3>2. ~NoLiveConnections(cparent[c])
      BY <2>1 DEF NoLiveConnections
    <3> QED BY <3>1, <3>2 DEF Republish
  <2> QED BY <1>1, <2>1 DEF PooledOnlyOnListed
<1>4. \A c \in Conns : InHands(c)'
  BY <1>1, <1>2, Zenon DEF ConnInv, InHands
<1>5. \A u \in Workers : PickHeld(u)'
  <2>1. ASSUME NEW u \in Workers, pc[u] = "classic"
        PROVE  held[u] # 0 /\ picked[u] \in content'[held[u]]
    <3>1. held[u] # 0 /\ picked[u] \in content[held[u]]
      BY <2>1, Zenon DEF ConnInv, PickHeld
    <3>2. held[u] <= cur /\ held[u] \in 1..MaxGen
      <4>1. held[u] \in Owned \ {0}
        BY <3>1 DEF Owned
      <4> QED BY <4>1, OwnedType DEF OwnerInv
    <3>3. content'[held[u]] = content[held[u]]
      <4>1. content' = [content EXCEPT ![gen + 1] = Listed']
        BY Zenon DEF Republish, StorePointer
      <4>2. held[u] # gen + 1
        BY <1>1, <3>2 DEF TypeOK, Gens
      <4> QED BY <3>2, <4>1, <4>2 DEF TypeOK, Gens
    <3> QED BY <3>1, <3>3
  <2> QED BY <1>1, <2>1 DEF ConnInv, PickHeld
<1>6. ASSUME NEW u \in Workers, Rejecting(u)
      PROVE  Shielded(u)'
  <2>1. PICK c \in Conns, s \in Servers :
          /\ c = rejected[u] /\ s = cparent[c]
          /\ cstate[c] = "rejected"
          /\ life[s] = "listed" \/ (life[s] = "retired" /\ Shield(u, c) <= retiredAt[s])
    <3>1. Shielded(u)
      BY <1>6 DEF ConnInv
    <3>2. rejected[u] \in Conns /\ cstate[rejected[u]] = "rejected"
      BY <3>1, Zenon DEF Shielded
    <3>3. cparent[rejected[u]] \in Servers
      BY <3>2, Zenon DEF ConnInv, InHands
    <3> QED BY <3>1, <3>3, Zenon DEF Shielded
  <2>2. s \in Servers
    OBVIOUS
  <2>3. Shield(u, c) <= gen /\ Shield(u, c)' = Shield(u, c)
    BY <1>1, <2>1, ShieldOwned, Zenon DEF Shield
  <2>4. life'[s] = "listed" \/ (life'[s] = "retired" /\ Shield(u, c) <= retiredAt'[s])
    BY <2>1, <2>2, <2>3, Zenon DEF Republish
  <2>5. rejected'[u] = c /\ cparent'[c] = s /\ cstate'[c] = cstate[c] /\ csnap'[c] = csnap[c] /\ pc' = pc
    BY <1>1, <2>1, Zenon
  <2> QED BY <2>1, <2>3, <2>4, <2>5 DEF Shielded
<1> QED BY <1>1, <1>2, <1>3, <1>4, <1>5, <1>6 DEF ConnInv

\* Every step keeps ConnInv.
LEMMA ConnStep ==
    ASSUME TypeOK, ListInv, OwnerInv, StatusInv, ConnInv, [Next]_vars
    PROVE  ConnInv'
<1>1. ASSUME UNCHANGED <<life, content, retiredAt, held, pc, picked, rejected, connVars>>,
             \A u \in Workers : cached'[u] = cached[u]
      PROVE  ConnInv'
  <2>1. \A u \in Workers : (Rejecting(u)' <=> Rejecting(u)) /\ (Shielded(u)' <=> Shielded(u))
    BY <1>1 DEF Rejecting, Shielded, Shield
  <2>2. \A u \in Workers : PickHeld(u)' <=> PickHeld(u)
    BY <1>1, Zenon DEF PickHeld
  <2>3. PooledOnlyOnListed' /\ \A c \in Conns : InHands(c)'
    BY <1>1, <2>1, Zenon DEF ConnInv, InHands, PooledOnlyOnListed
  <2> QED BY <1>1, <2>1, <2>2, <2>3, Zenon DEF ConnInv
<1>2. CASE UNCHANGED vars
  BY <1>1, <1>2
<1>3. CASE Republish
  BY <1>3, RepublishStep
<1>4. CASE Quiet \/ StoreGeneration
  BY <1>1, <1>4 DEF Quiet, StoreGeneration
<1>5. CASE AdminThreadExit
  <2>1. \A u \in Workers : cached'[u] = cached[u]
    BY <1>5 DEF AdminThreadExit, TypeOK, Threads
  <2> QED BY <1>1, <1>5, <2>1, Zenon DEF AdminThreadExit
<1>6. ASSUME NEW s \in Servers, NEW st \in Statuses, SetStatus(s, st)
      PROVE  ConnInv'
  <2>1. \A u \in Workers : cached'[u] = cached[u]
    BY <1>6 DEF SetStatus, TypeOK, Threads
  <2>2. UNCHANGED <<life, content, retiredAt, held, pc, picked, rejected, csnap>>
    BY <1>6 DEF SetStatus
  <2>3. \A c \in Conns :
          \/ cstate'[c] = cstate[c] /\ cparent'[c] = cparent[c]
          \/ cstate[c] = "FREE" /\ cstate'[c] = "none"
    <3>1. CASE st = "OFFLINE_HARD"
      <4>1. LET drop == {c \in Conns : cparent[c] = s /\ cstate[c] = "FREE"}
            IN  /\ cstate' = [c \in Conns |-> IF c \in drop THEN "none" ELSE cstate[c]]
                /\ cparent' = [c \in Conns |-> IF c \in drop THEN NoServer ELSE cparent[c]]
        BY <1>6, <3>1 DEF SetStatus
      <4> QED BY <4>1
    <3>2. CASE st # "OFFLINE_HARD"
      BY <1>6, <3>2 DEF SetStatus
    <3> QED BY <3>1, <3>2, Zenon
  <2>4. \A u \in Workers : Rejecting(u)' <=> Rejecting(u)
    BY <2>2 DEF Rejecting
  <2>5. PooledOnlyOnListed' /\ \A c \in Conns : InHands(c)'
    BY <2>2, <2>3, <2>4, Zenon DEF ConnInv, InHands, PooledOnlyOnListed
  <2>6. \A u \in Workers : PickHeld(u)'
    BY <2>2, Zenon DEF ConnInv, PickHeld
  <2>7. ASSUME NEW u \in Workers, Rejecting(u)
        PROVE  Shielded(u)'
    <3>1. Shielded(u)
      BY <2>7 DEF ConnInv
    <3> QED BY <2>1, <2>2, <2>3, <3>1 DEF Shielded, Shield
  <2> QED BY <2>2, <2>4, <2>5, <2>6, <2>7 DEF ConnInv
<1>7. ASSUME NEW t \in Workers, WorkerStep(t)
      PROVE  ConnInv'
  <2>1. CASE LoadGeneration(t) \/ LoadPointer(t) \/ GiveUp(t) \/ ClassicMiss(t) \/ MaintainBegin(t)
    <3>1. UNCHANGED <<life, retiredAt, content, connVars, rejected>>
      BY <2>1 DEF LoadGeneration, LoadPointer, GiveUp, ClassicMiss, MaintainBegin
    <3>2. ~Rejecting(t) /\ (pc[t] # "classic" => picked[t] = NoServer)
      BY <2>1, Zenon DEF LoadGeneration, LoadPointer, GiveUp, ClassicMiss, MaintainBegin, Rejecting, ConnInv, PickHeld
    <3>3. pc'[t] \notin {"rejecting", "batch", "classic"} /\ picked'[t] = NoServer
      BY <2>1, <3>2, Zenon DEF LoadGeneration, LoadPointer, GiveUp, ClassicMiss, MaintainBegin, Leave, Goto, TypeOK
    <3>4. \A u \in Workers \ {t} : /\ pc'[u] = pc[u] /\ cached'[u] = cached[u]
                                   /\ held'[u] = held[u] /\ picked'[u] = picked[u]
      BY <2>1, Zenon DEF LoadGeneration, LoadPointer, GiveUp, ClassicMiss, MaintainBegin, Leave, Goto, TypeOK, Threads
    <3> QED BY <3>1, <3>2, <3>3, <3>4, BystanderStep
  <2>2. CASE RouteWake(t)
    <3>1. /\ pc[t] = "batch" /\ \A u \in Workers \ {t} : cached'[u] = cached[u]
          /\ UNCHANGED <<listVars, connVars, held, pc, picked, rejected>>
      BY <2>2 DEF RouteWake, TypeOK, Threads
    <3>2. \A u \in Workers : Rejecting(u)' <=> Rejecting(u)
      BY <3>1 DEF Rejecting
    <3>3. ASSUME NEW u \in Workers, Rejecting(u)
          PROVE  Shielded(u)'
      <4>1. Shielded(u)
        BY <3>3, Zenon DEF ConnInv
      <4>2. CASE u = t
        <5>1. status[cparent[rejected[t]]] = "ONLINE"
          BY <2>2 DEF RouteWake
        <5>2. cparent[rejected[t]] \in Servers
          BY <4>1, <4>2, Zenon DEF ConnInv, Shielded, InHands
        <5>3. life[cparent[rejected[t]]] # "retired"
          BY <5>1, <5>2 DEF StatusInv, Unlisted
        <5> QED BY <3>1, <4>1, <4>2, <5>3, Zenon DEF Shielded
      <4>3. CASE u # t
        BY <3>1, <4>1, <4>3, Zenon DEF Shielded, Shield
      <4> QED BY <4>2, <4>3, Zenon
    <3>4. \A u \in Workers : PickHeld(u)'
      BY <3>1, Zenon DEF ConnInv, PickHeld
    <3>5. PooledOnlyOnListed' /\ \A c \in Conns : InHands(c)'
      BY <3>1, <3>2, Zenon DEF ConnInv, InHands, PooledOnlyOnListed
    <3> QED BY <3>1, <3>2, <3>3, <3>4, <3>5, Zenon DEF ConnInv
  <2>3. CASE DeleteRejected(t)
    BY <2>3, DeleteStep
  <2>4. CASE DeleteRetired(t)
    <3>1. /\ pc[t] = "deleting" /\ pc'[t] = "idle"
          /\ \A u \in Workers \ {t} : pc'[u] = pc[u]
          /\ UNCHANGED <<content, retiredAt, cached, held, picked, rejected, connVars>>
      BY <2>4 DEF DeleteRetired, Goto, TypeOK
    <3>2. \A s \in Servers : life[s] \in {"listed", "retired"} => life'[s] = life[s]
      BY <2>4 DEF DeleteRetired, OwnerInv, TypeOK
    <3>3. \A u \in Workers : Rejecting(u)' <=> Rejecting(u)
      BY <3>1 DEF Rejecting
    <3>4. PooledOnlyOnListed' /\ \A c \in Conns : InHands(c)'
      BY <3>1, <3>2, <3>3, Zenon DEF ConnInv, InHands, PooledOnlyOnListed
    <3>5. \A u \in Workers : PickHeld(u)'
      BY <3>1, Zenon DEF ConnInv, PickHeld
    <3>6. ASSUME NEW u \in Workers, Rejecting(u)
          PROVE  Shielded(u)'
      <4>1. Shielded(u) /\ cparent[rejected[u]] \in Servers
        BY <3>6, Zenon DEF ConnInv, Shielded, InHands
      <4>2. pc'[u] = pc[u]
        BY <3>1, <3>6 DEF Rejecting
      <4> QED BY <3>1, <3>2, <4>1, <4>2, Zenon DEF Shielded, Shield
    <3> QED BY <3>1, <3>3, <3>4, <3>5, <3>6, Zenon DEF ConnInv
  <2>5. ASSUME NEW s \in Servers, ClassicSelect(t, s)
        PROVE  ConnInv'
    <3>1. /\ pc[t] = "idle" /\ pc'[t] = "classic" /\ held'[t] = cur /\ picked'[t] = s
          /\ \A u \in Workers \ {t} : /\ pc'[u] = pc[u] /\ cached'[u] = cached[u]
                                      /\ held'[u] = held[u] /\ picked'[u] = picked[u]
          /\ UNCHANGED <<listVars, connVars, rejected>>
      BY <2>5 DEF ClassicSelect, Goto, TypeOK, Threads
    <3>2. s \in content[cur] /\ cur # 0 /\ s # NoServer
      <4>1. s \in Listed
        BY <2>5 DEF ClassicSelect, Listed
      <4>2. content[cur] = Listed
        BY DEF ListInv
      <4>3. cur # 0
        BY DEF TypeOK, Gens
      <4> QED BY <4>1, <4>2, <4>3
    <3>3. \A u \in Workers : (Rejecting(u)' <=> Rejecting(u)) /\ (Rejecting(u) => u # t)
      BY <3>1 DEF Rejecting
    <3>4. PooledOnlyOnListed' /\ \A c \in Conns : InHands(c)'
      BY <3>1, <3>3, Zenon DEF ConnInv, InHands, PooledOnlyOnListed
    <3>5. \A u \in Workers : PickHeld(u)'
      BY <3>1, <3>2, Zenon DEF ConnInv, PickHeld
    <3>6. ASSUME NEW u \in Workers, Rejecting(u)
          PROVE  Shielded(u)'
      <4>1. Shielded(u) /\ u # t
        BY <3>3, <3>6 DEF ConnInv
      <4> QED BY <3>1, <4>1, Zenon DEF Shielded, Shield
    <3> QED BY <3>1, <3>3, <3>4, <3>5, <3>6, Zenon DEF ConnInv
  <2>6. ASSUME NEW s \in Servers, NEW c \in Conns, TakeExisting(t, s, c)
        PROVE  ConnInv'
    <3>1. life[s] = "listed" /\ cstate[c] = "FREE" /\ ~Rejecting(t)
      BY <2>6, Zenon DEF TakeExisting, Rejecting, ConnInv, PooledOnlyOnListed
    <3>2. held[t] \in 0..MaxGen
      BY DEF TypeOK
    <3> QED BY <2>6, <3>1, <3>2, UseStep, Zenon DEF TakeExisting
  <2>7. ASSUME NEW s \in Servers, NEW c \in Conns, CreateSelected(t, s, c)
        PROVE  ConnInv'
    <3>1. life[s] = "listed"
      <4>1. ~publishing /\ held[t] = cur
        BY <2>7, Zenon DEF CreateSelected, HgmFree, ListInv
      <4> QED BY <2>7, <4>1, Zenon DEF CreateSelected, ListInv, Listed
    <3>2. held[t] \in 0..MaxGen /\ cstate[c] \in {"none", "FREE"} /\ ~Rejecting(t)
      BY <2>7 DEF TypeOK, CreateSelected, Rejecting
    <3> QED BY <2>7, <3>1, <3>2, UseStep, Zenon DEF CreateSelected
  <2>8. ASSUME NEW s \in Servers, NEW c \in Conns, ClassicSlow(t, s, c)
        PROVE  ConnInv'
    <3>1. cstate[c] \in {"none", "FREE"} /\ ~Rejecting(t)
      BY <2>8, Zenon DEF ClassicSlow, Rejecting
    <3> QED BY <2>8, <3>1, ZeroGen, UseStep, Zenon DEF ClassicSlow
  <2>9. ASSUME NEW c \in Conns, ClassicTake(t, c)
        PROVE  ConnInv'
    <3>1. /\ picked[t] \in Servers /\ life[picked[t]] = "listed" /\ cstate[c] = "FREE"
          /\ ~Rejecting(t)
      <4>1. pc[t] = "classic" /\ cstate[c] = "FREE" /\ cparent[c] = picked[t]
        BY <2>9, Zenon DEF ClassicTake
      <4>2. cparent[c] \in Servers /\ life[cparent[c]] = "listed"
        BY <4>1, Zenon DEF ConnInv, PooledOnlyOnListed, InHands
      <4> QED BY <4>1, <4>2, Zenon DEF Rejecting
    <3> QED BY <2>9, <3>1, ZeroGen, UseStep, Zenon DEF ClassicTake
  <2>10. ASSUME NEW c \in Conns,
                ReturnGeneric(t, c) \/ ReturnExact(t, c) \/ ReturnBatch(t, c) \/ DestroyUsed(t, c)
         PROVE  ConnInv'
    <3>1. cstate[c] = "USED" /\ pc[t] = "idle"
      BY <2>10, Zenon DEF ReturnGeneric, ReturnExact, ReturnBatch, DestroyUsed
    <3>2. CASE (ToFree(c) \/ Destroy(c)) /\ UNCHANGED <<listVars, threadVars>>
      BY <3>1, <3>2, ReturnStep
    <3>3. ASSUME NEW step \in {"rejecting", "batch"},
                 cstate' = [cstate EXCEPT ![c] = "rejected"], rejected' = [rejected EXCEPT ![t] = c],
                 Goto(t, step), UNCHANGED <<cparent, csnap, listVars, cached, held, picked>>
          PROVE  ConnInv'
      BY <3>1, <3>3, RejectStep, Zenon
    <3> QED BY <2>10, <3>2, <3>3, Zenon DEF ReturnGeneric, ReturnExact, ReturnBatch, DestroyUsed
  <2>11. ASSUME NEW ping, Maintain(t, ping)
         PROVE  ConnInv'
    BY <2>11, MaintainStep
  <2> QED BY <1>7, <2>1, <2>2, <2>3, <2>4, <2>5, <2>6, <2>7, <2>8, <2>9, <2>10, <2>11 DEF WorkerStep
<1> QED BY <1>2, <1>3, <1>4, <1>5, <1>6, <1>7, AdminSteps DEF Next

-----------------------------------------------------------------------------
\* The first configuration: one published list, no connection.
LEMMA InitIInv == Init => IInv
<1> SUFFICES ASSUME Init PROVE IInv
  OBVIOUS
<1>1. TypeOK
  <2>1. /\ life \in [Servers -> Lives] /\ status \in [Servers -> Statuses]
        /\ gen \in Gens /\ cur \in Gens /\ content \in [Gens -> SUBSET Servers]
        /\ retiredSnaps \subseteq Gens /\ retiredAt \in [Servers -> 0..MaxGen]
    BY ZeroGen DEF Init, Gens, Lives
  <2>2. /\ cached \in [Threads -> 0..MaxGen] /\ held \in [Workers -> 0..MaxGen]
        /\ pc \in [Workers -> WorkerSteps] /\ picked \in [Workers -> Servers \cup {NoServer}]
        /\ rejected \in [Workers -> Conns \cup {NoConn}] /\ doomed \in [Workers -> SUBSET Servers]
    BY ZeroGen DEF Init, WorkerSteps
  <2>3. /\ cstate \in [Conns -> {"none", "FREE", "USED", "rejected"}]
        /\ cparent \in [Conns -> Servers \cup {NoServer}] /\ csnap \in [Conns -> 0..MaxGen]
    BY ZeroGen DEF Init
  <2> QED BY <2>1, <2>2, <2>3, Zenon DEF Init, TypeOK
<1>2. ListInv
  BY DEF Init, ListInv, Listed, Unlisted, Gens
<1>3. OwnerInv
  <2>1. \A g \in Owned : g \in {0, 1}
    BY DEF Init, Owned
  <2>2. \A s \in Servers : life[s] \notin {"detached", "deleted"}
    BY DEF Init
  <2> QED BY <2>1, <2>2 DEF Init, OwnerInv, Threads, Gens
<1>4. ConnInv
  BY DEF Init, ConnInv, PooledOnlyOnListed, InHands, PickHeld, Rejecting
<1>5. StatusInv
  BY DEF Init, StatusInv, Unlisted
<1> QED BY <1>1, <1>2, <1>3, <1>4, <1>5 DEF IInv

\* The inductive invariant holds in every reachable state.
THEOREM Invariance == Spec => []IInv
<1>1. IInv /\ [Next]_vars => IInv'
  BY TypeStep, ListStep, OwnerStep, StatusStep, ConnStep DEF IInv
<1> QED BY InitIInv, <1>1, PTL DEF Spec

\* Every variable of the hostgroups manager and its callers keeps its type.
THEOREM TypeCorrect == Spec => []TypeOK
<1>1. IInv => TypeOK
  BY DEF IInv
<1> QED BY <1>1, Invariance, PTL

\* No snapshot with an owner names a freed server: a pointer taken from
\* get_polardb_server_list_snapshot() is valid as long as the snapshot is held.
THEOREM SnapshotsStayValid == Spec => []SnapshotsNameLiveServers
<1>1. IInv => SnapshotsNameLiveServers
  BY DEF IInv, OwnerInv, SnapshotsNameLiveServers
<1> QED BY <1>1, Invariance, PTL

\* A connection appears only on a listed server, although sessions take and
\* return connections without the manager's lock.
THEOREM PooledStaysListed == Spec => []PooledOnlyOnListed
<1>1. IInv => PooledOnlyOnListed
  BY DEF IInv, ConnInv
<1> QED BY <1>1, Invariance, PTL

\* The parent of every connection, pooled, used or being rejected, and the
\* server get_MyConn_from_pool chose are allocated.
THEOREM ParentsStayAllocated == Spec => []ParentsAreAllocated
<1>1. ASSUME IInv PROVE ParentsAreAllocated
  <2>1. ASSUME NEW c \in Conns, cstate[c] # "none"
        PROVE  life[cparent[c]] # "deleted"
    <3>1. CASE cstate[c] = "rejected"
      <4>1. PICK t \in Workers : Rejecting(t) /\ rejected[t] = c
        BY <1>1, <3>1 DEF IInv, ConnInv, InHands
      <4>2. Shielded(t)
        BY <1>1, <4>1 DEF IInv, ConnInv
      <4> QED BY <4>1, <4>2 DEF Shielded
    <3>2. CASE cstate[c] \in {"FREE", "USED"}
      BY <1>1, <3>2 DEF IInv, ConnInv, PooledOnlyOnListed
    <3> QED BY <1>1, <2>1, <3>1, <3>2 DEF IInv, TypeOK
  <2>2. ASSUME NEW t \in Workers, picked[t] # NoServer
        PROVE  life[picked[t]] # "deleted"
    <3>1. held[t] # 0 /\ picked[t] \in content[held[t]]
      BY <1>1, <2>2 DEF IInv, ConnInv, PickHeld
    <3>2. held[t] \in Owned \ {0}
      BY <3>1 DEF Owned
    <3> QED BY <1>1, <3>1, <3>2 DEF IInv, OwnerInv
  <2> QED BY <2>1, <2>2 DEF ParentsAreAllocated
<1>2. IInv => ParentsAreAllocated
  BY <1>1
<1> QED BY <1>2, Invariance, PTL
=============================================================================
