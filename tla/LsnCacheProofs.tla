--------------------------- MODULE LsnCacheProofs ---------------------------
(***************************************************************************)
(* Proofs about LsnCache for every set of servers and workers and every    *)
(* bound: the type invariant, that RFQ positions in the caches belong to   *)
(* the current writer epoch, and that a replica replay proof is of the     *)
(* scope of the request that uses it.                                      *)
(***************************************************************************)
EXTENDS LsnCache, TLAPS

\* Who holds which lock, and which servers and epochs the holders work on.
Locks ==
    /\ hgm = "topology" <=> topo # "idle"
    /\ hgm = "monitor" <=> mon \in {"locked", "lsn", "stamp", "group", "replay"}
    /\ topo = "lock" => \A s \in Servers \ left : guard[s] = "topology"
    /\ topo \in {"replay", "servers"} => \A s \in Servers : guard[s] = "topology"
    /\ topo = "unlock" => \A s \in left : guard[s] = "topology"
    /\ topo \in {"lock", "replay", "servers"} => epoch < MaxEpoch
    /\ mon # "idle" => fetchedFrom \in Servers
    /\ mon \in {"lsn", "stamp", "group", "replay"} => guard[fetchedFrom] = "monitor"
    /\ \A w \in Workers :
        /\ pc[w] # "idle" => srv[w] \in Servers
        /\ pc[w] \in {"recheck", "lsn", "stamp", "group"} => guard[srv[w]] = w
        /\ scope[w] <= epoch
        /\ pc[w] \in {"lsn", "stamp", "group"} => scope[w] = epoch

\* A writer change has removed the RFQ positions from the cells it has reset.
RfqInv ==
    /\ RfqCellsAreCurrent
    /\ fetched.src # "rfq"
    /\ topo \in {"replay", "servers"} => group.src # "rfq"
    /\ topo = "servers" =>
        \A s \in Servers \ left : lsn[s].src # "rfq" /\ stamp[s].src # "rfq"

\* The replay maximum is of the current epoch, and so is what the monitor adds;
\* a worker that has loaded it holds a value no older than its scope.
ReplayInv ==
    /\ replay # Nothing => replay.stored = epoch /\ replay.src = "replica"
    /\ mon \in {"locked", "lsn", "stamp", "group", "replay"} => fetched.stored = epoch
    /\ topo = "servers" => replay = Nothing
    /\ \A w \in Workers : pc[w] = "replayed" /\ got[w][1] # Nothing =>
        /\ scope[w] <= got[w][1].stored /\ got[w][1].stored <= epoch
        /\ got[w][1].src = "replica"
    /\ ReplayProofIsOfScope

IInv == TypeOK /\ Locks /\ RfqInv /\ ReplayInv

-----------------------------------------------------------------------------
\* Epochs that bound each other are equal (the two epoch comparisons of
\* get_polardb_max_replica_replay_lsn).
LEMMA Antisymmetric ==
    ASSUME NEW a \in Int, NEW b \in Int, a <= b, b <= a
    PROVE  a = b
  OBVIOUS

\* An epoch bounds itself.
LEMMA Reflexive == \A a \in Int : a <= a
  OBVIOUS

USE CacheAssumption DEF cells, topoVars, monVars, workerVars, shared, vars, Epochs

\* An empty cell is a cell (polardb_reset_server_lsn_cache stores zero).
LEMMA NothingType == Nothing \in Observations /\ Nothing.src = "none"
  BY DEF Nothing, Observations

\* polardb_atomic_max_u64 leaves one of its two arguments in the cell.
LEMMA AtomicMaxType ==
    ASSUME NEW c \in Observations, NEW o \in Observations
    PROVE  AtomicMax(c, o) \in Observations /\ AtomicMax(c, o) \in {c, o}
  BY DEF AtomicMax

\* Stamping a result with the epoch it is stored in keeps its other fields
\* (polardb_update_server_lsn_from_monitor).
LEMMA StoredType ==
    ASSUME NEW o \in Observations, NEW e \in 0..MaxEpoch
    PROVE  LET n == [o EXCEPT !.stored = e]
           IN  n \in Observations /\ n.stored = e /\ n.src = o.src /\ n.seen = o.seen
  BY DEF Observations

\* What a worker's lock-free read returns is a pair of observations.
LEMMA GotType ==
    ASSUME NEW g \in [Workers -> Observations \X Observations], NEW w \in Workers,
           NEW a \in Observations, NEW b \in Observations
    PROVE  /\ [g EXCEPT ![w] = <<a, b>>] \in [Workers -> Observations \X Observations]
           /\ [g EXCEPT ![w][2] = b] \in [Workers -> Observations \X Observations]
<1>1. g[w] \in Observations \X Observations
  OBVIOUS
<1>2. [g[w] EXCEPT ![2] = b] \in Observations \X Observations
  BY <1>1
<1> QED
  BY <1>2

\* An RFQ of a worker is an observation of the worker's scope.
LEMMA RfqObservation ==
    ASSUME TypeOK, NEW w \in Workers
    PROVE  Rfq(w) \in Observations /\ Rfq(w).src = "rfq" /\ Rfq(w).seen = scope[w]
  BY DEF TypeOK, Rfq, Observations

\* A worker that finishes its request leaves well-typed locals.
LEMMA FinishType ==
    ASSUME TypeOK, NEW w \in Workers, Finish(w)
    PROVE  /\ pc' \in [Workers -> {"idle", "routed", "coalesced", "lock", "recheck", "lsn",
                 "stamp", "group", "sampling", "sampled", "replay", "replayed", "proved"}]
           /\ scope' \in [Workers -> 0..MaxEpoch]
           /\ srv' \in [Workers -> Servers \cup {NoServer}]
           /\ obs' \in [Workers -> 0..MaxLsn]
           /\ got' \in [Workers -> Observations \X Observations]
<1>1. got' \in [Workers -> Observations \X Observations]
  BY NothingType, GotType DEF TypeOK, Finish
<1> QED
  BY <1>1 DEF TypeOK, Finish, Goto

\* A worker that goes on to its next step, with a well-typed per-pass table and
\* everything else unchanged, keeps the types.
LEMMA GotoType ==
    ASSUME TypeOK, NEW w \in Workers,
           NEW step \in {"idle", "routed", "coalesced", "lock", "recheck", "lsn",
                 "stamp", "group", "sampling", "sampled", "replay", "replayed", "proved"},
           Goto(w, step), UNCHANGED <<shared, scope, srv, obs, got>>,
           table' \in [Workers -> [Servers -> [epoch : 0..MaxEpoch, max : 0..MaxLsn]]]
    PROVE  TypeOK'
<1>1. pc' \in [Workers -> {"idle", "routed", "coalesced", "lock", "recheck", "lsn",
                 "stamp", "group", "sampling", "sampled", "replay", "replayed", "proved"}]
  BY DEF Goto, TypeOK
<1> QED
  BY <1>1 DEF TypeOK

\* Every step keeps the types; the epoch stays within its bound because a
\* writer change starts only below it.
LEMMA TypeStep ==
    ASSUME TypeOK, Locks, [Next]_vars
    PROVE  TypeOK'
<1> USE DEF TypeOK
<1>1. CASE UNCHANGED vars
  BY <1>1
<1>2. CASE TopologyStep
  <2>1. CASE RefreshBegin \/ RefreshEnd
    BY <2>1 DEF RefreshBegin, RefreshEnd
  <2>2. CASE ResetGroup \/ ResetReplay
    BY <2>2, NothingType DEF ResetGroup, ResetReplay
  <2>3. CASE AdvanceEpoch
    BY <2>3 DEF AdvanceEpoch, Locks
  <2>4. ASSUME NEW s \in Servers, LockGuard(s) \/ UnlockGuard(s)
        PROVE  TypeOK'
    BY <2>4 DEF LockGuard, UnlockGuard
  <2>5. ASSUME NEW s \in Servers, ResetLsn(s)
        PROVE  TypeOK'
    <3>1. lsn' \in [Servers -> Observations]
      BY <2>5, NothingType DEF ResetLsn
    <3> QED
      BY <2>5, <3>1 DEF ResetLsn
  <2>6. ASSUME NEW s \in Servers, ResetStamp(s)
        PROVE  TypeOK'
    <3>1. stamp' \in [Servers -> Observations]
      BY <2>6, NothingType DEF ResetStamp
    <3> QED
      BY <2>6, <3>1 DEF ResetStamp
  <2> QED
    BY <1>2, <2>1, <2>2, <2>3, <2>4, <2>5, <2>6 DEF TopologyStep
<1>3. CASE MonitorStep
  <2>1. ASSUME NEW s \in Servers, NEW p \in 1..MaxLsn, NEW role \in MonitorRoles,
               MonitorFetch(s, p, role)
        PROVE  TypeOK'
    <3>1. fetched' \in Observations
      BY <2>1 DEF MonitorFetch, Observations
    <3> QED
      BY <2>1, <3>1 DEF MonitorFetch
  <2>2. CASE MonitorLock
    <3>1. fetched' \in Observations
      BY <2>2, StoredType DEF MonitorLock
    <3> QED
      BY <2>2, <3>1 DEF MonitorLock
  <2>3. CASE MonitorSkip
    BY <2>3, NothingType DEF MonitorSkip
  <2>4. CASE MonitorGuard
    BY <2>4 DEF MonitorGuard
  <2>5. CASE MonitorAdvanceLsn
    <3>1. lsn' \in [Servers -> Observations]
      BY <2>5, AtomicMaxType DEF MonitorAdvanceLsn
    <3> QED
      BY <2>5, <3>1 DEF MonitorAdvanceLsn
  <2>6. CASE MonitorAdvanceStamp
    <3>1. stamp' \in [Servers -> Observations]
      BY <2>6 DEF MonitorAdvanceStamp
    <3> QED
      BY <2>6, <3>1 DEF MonitorAdvanceStamp
  <2>7. CASE MonitorAdvanceGroup
    <3>1. group' \in Observations
      BY <2>7, AtomicMaxType DEF MonitorAdvanceGroup
    <3> QED
      BY <2>7, <3>1 DEF MonitorAdvanceGroup
  <2>8. CASE MonitorEnd
    <3>1. replay' \in Observations
      BY <2>8, AtomicMaxType DEF MonitorEnd
    <3> QED
      BY <2>8, <3>1, NothingType DEF MonitorEnd
  <2> QED
    BY <1>3, <2>1, <2>2, <2>3, <2>4, <2>5, <2>6, <2>7, <2>8 DEF MonitorStep
<1>4. ASSUME NEW w \in Workers, WorkerStep(w)
      PROVE  TypeOK'
  <2>1. ASSUME NEW s \in Servers, NEW p \in 1..MaxLsn, Capture(w, s, p)
        PROVE  TypeOK'
    BY <2>1 DEF Capture, Goto
  <2>2. ASSUME NEW due \in BOOLEAN, NEW full \in BOOLEAN, AcceptRfq(w, due, full)
        PROVE  TypeOK'
    <3> DEFINE Entries == [epoch : 0..MaxEpoch, max : 0..MaxLsn]
    <3>1. srv[w] \in Servers
      BY <2>2 DEF AcceptRfq, Locks
    <3>2. table[w][srv[w]] \in Entries
      BY <3>1
    <3>3. \A e \in Entries :
            [table EXCEPT ![w][srv[w]] = e] \in [Workers -> [Servers -> Entries]]
      BY <3>1
    <3>4. [epoch |-> scope[w], max |-> obs[w]] \in Entries
      OBVIOUS
    <3>5. \A m \in 0..MaxLsn : [table[w][srv[w]] EXCEPT !.max = m] \in Entries
      BY <3>2
    <3>6. table' \in [Workers -> [Servers -> Entries]]
      <4>1. PICK m \in 0..MaxLsn, e \in Entries :
              table' \in {table, [table EXCEPT ![w][srv[w]].max = m],
                         [table EXCEPT ![w][srv[w]] = e]}
        <5>1. table[w][srv[w]].max \in 0..MaxLsn
          BY <3>2
        <5> QED
          BY <2>2, <3>4, <5>1 DEF AcceptRfq
      <4>2. [table EXCEPT ![w][srv[w]].max = m] \in [Workers -> [Servers -> Entries]]
        BY <3>1, <3>5
      <4>3. table \in [Workers -> [Servers -> Entries]]
        OBVIOUS
      <4>4. [table EXCEPT ![w][srv[w]] = e] \in [Workers -> [Servers -> Entries]]
        BY <3>3
      <4> HIDE DEF TypeOK, Entries
      <4> QED
        BY <4>1, <4>2, <4>3, <4>4
    <3>7. CASE Finish(w)
      BY <2>2, <3>6, <3>7, FinishType DEF AcceptRfq
    <3>8. CASE ~Finish(w)
      <4>1. /\ Goto(w, "coalesced") \/ Goto(w, "lock")
            /\ UNCHANGED <<shared, scope, srv, obs, got>>
        BY <2>2, <3>8 DEF AcceptRfq
      <4> HIDE DEF TypeOK
      <4> QED
        BY <3>6, <4>1, GotoType
    <3> QED
      BY <3>7, <3>8
  <2>3. CASE FinishPass(w)
    BY <2>3 DEF FinishPass, NoEntry
  <2>4. CASE AcceptGuard(w)
    BY <2>4 DEF AcceptGuard, Goto
  <2>5. CASE AcceptRecheck(w)
    <3>1. CASE epoch = scope[w]
      <4>1. table \in [Workers -> [Servers -> [epoch : 0..MaxEpoch, max : 0..MaxLsn]]]
        OBVIOUS
      <4> HIDE DEF TypeOK
      <4> QED
        BY <2>5, <3>1, <4>1, GotoType DEF AcceptRecheck
    <3>2. CASE epoch # scope[w]
      <4>1. Finish(w) /\ guard' = [guard EXCEPT ![srv[w]] = NoActor]
        BY <2>5, <3>2 DEF AcceptRecheck
      <4>2. guard' \in [Servers -> Workers \cup {NoActor, "topology", "monitor"}]
        BY <4>1
      <4>3. UNCHANGED <<epoch, cells, hgm, topoVars, monVars, table>>
        BY <2>5 DEF AcceptRecheck
      <4> QED
        BY <4>1, <4>2, <4>3, FinishType
    <3> QED
      BY <3>1, <3>2
  <2>6. CASE AcceptAdvanceLsn(w)
    <3>1. lsn' \in [Servers -> Observations]
      BY <2>6, AtomicMaxType, RfqObservation DEF AcceptAdvanceLsn
    <3> QED
      BY <2>6, <3>1 DEF AcceptAdvanceLsn, Goto
  <2>7. CASE AcceptAdvanceStamp(w)
    <3>1. stamp' \in [Servers -> Observations]
      BY <2>7, RfqObservation DEF AcceptAdvanceStamp
    <3> QED
      BY <2>7, <3>1 DEF AcceptAdvanceStamp, Goto
  <2>8. CASE AcceptEnd(w)
    <3>1. group' \in Observations
      BY <2>8, AtomicMaxType, RfqObservation DEF AcceptEnd
    <3> QED
      BY <2>8, <3>1, FinishType DEF AcceptEnd
  <2>9. CASE SampleStamp(w)
    <3>1. stamp[srv[w]] \in Observations
      BY <2>9 DEF SampleStamp, Locks
    <3>2. got' \in [Workers -> Observations \X Observations]
      BY <2>9, <3>1, NothingType, GotType DEF SampleStamp
    <3> QED
      BY <2>9, <3>2 DEF SampleStamp, Goto
  <2>10. CASE SampleLsn(w)
    <3>1. lsn[srv[w]] \in Observations
      BY <2>10 DEF SampleLsn, Locks
    <3>2. got' \in [Workers -> Observations \X Observations]
      BY <2>10, <3>1, GotType DEF SampleLsn
    <3> QED
      BY <2>10, <3>2 DEF SampleLsn, Goto
  <2>11. CASE ReplayLoad(w)
    <3>1. got' \in [Workers -> Observations \X Observations]
      BY <2>11, NothingType, GotType DEF ReplayLoad
    <3> QED
      BY <2>11, <3>1 DEF ReplayLoad, Goto
  <2>12. CASE ReplayCheck(w) \/ ReplayRecheck(w) \/ Done(w)
    <3>1. ASSUME Finish(w), UNCHANGED <<shared, table>>
          PROVE  TypeOK'
      BY <3>1, FinishType
    <3>2. table \in [Workers -> [Servers -> [epoch : 0..MaxEpoch, max : 0..MaxLsn]]]
      OBVIOUS
    <3> HIDE DEF TypeOK
    <3> QED
      BY <2>12, <3>1, <3>2, GotoType DEF ReplayCheck, ReplayRecheck, Done
  <2> QED
    BY <1>4, <2>1, <2>2, <2>3, <2>4, <2>5, <2>6, <2>7, <2>8, <2>9, <2>10, <2>11,
       <2>12 DEF WorkerStep
<1> QED
  BY <1>1, <1>2, <1>3, <1>4 DEF Next

-----------------------------------------------------------------------------
\* Every step keeps the locking discipline: a worker that has checked the epoch
\* under a server's guard keeps it, because the writer change that would
\* advance it needs every guard.
LEMMA LocksStep ==
    ASSUME TypeOK, Locks, [Next]_vars
    PROVE  Locks'
<1> USE DEF Locks
<1>1. CASE UNCHANGED vars
  BY <1>1
<1>2. CASE TopologyStep
  <2>1. CASE RefreshBegin
    BY <2>1 DEF RefreshBegin, TypeOK
  <2>2. ASSUME NEW s \in Servers, LockGuard(s)
        PROVE  Locks'
    BY <2>2 DEF LockGuard, TypeOK
  <2>3. CASE ResetGroup
    BY <2>3 DEF ResetGroup, TypeOK
  <2>4. CASE ResetReplay
    BY <2>4 DEF ResetReplay, TypeOK
  <2>5. ASSUME NEW s \in Servers, ResetLsn(s) \/ ResetStamp(s)
        PROVE  Locks'
    BY <2>5 DEF ResetLsn, ResetStamp, TypeOK
  <2>6. CASE AdvanceEpoch
    <3>1. \A w \in Workers : pc[w] \notin {"recheck", "lsn", "stamp", "group"}
      BY <2>6 DEF AdvanceEpoch
    <3>2. \A w \in Workers : scope[w] <= epoch + 1
      BY DEF TypeOK
    <3> QED
      BY <2>6, <3>1, <3>2 DEF AdvanceEpoch, TypeOK
  <2>7. ASSUME NEW s \in Servers, UnlockGuard(s)
        PROVE  Locks'
    BY <2>7 DEF UnlockGuard, TypeOK
  <2>8. CASE RefreshEnd
    BY <2>8 DEF RefreshEnd, TypeOK
  <2> QED
    BY <1>2, <2>1, <2>2, <2>3, <2>4, <2>5, <2>6, <2>7, <2>8 DEF TopologyStep
<1>3. CASE MonitorStep
  <2>1. ASSUME NEW s \in Servers, NEW p \in 1..MaxLsn, NEW role \in MonitorRoles,
               MonitorFetch(s, p, role)
        PROVE  Locks'
    BY <2>1 DEF MonitorFetch, TypeOK
  <2>2. CASE MonitorLock
    BY <2>2 DEF MonitorLock, TypeOK
  <2>3. CASE MonitorSkip
    BY <2>3 DEF MonitorSkip, TypeOK
  <2>4. CASE MonitorGuard
    BY <2>4 DEF MonitorGuard, TypeOK
  <2>5. CASE MonitorAdvanceLsn \/ MonitorAdvanceStamp \/ MonitorAdvanceGroup
    BY <2>5 DEF MonitorAdvanceLsn, MonitorAdvanceStamp, MonitorAdvanceGroup, TypeOK
  <2>6. CASE MonitorEnd
    BY <2>6 DEF MonitorEnd, TypeOK
  <2> QED
    BY <1>3, <2>1, <2>2, <2>3, <2>4, <2>5, <2>6 DEF MonitorStep
<1>4. ASSUME NEW w \in Workers, WorkerStep(w)
      PROVE  Locks'
  <2>a. ASSUME Finish(w), UNCHANGED shared
        PROVE  Locks'
    BY <2>a DEF Finish, Goto, TypeOK
  <2>b. ASSUME NEW step \in {"coalesced", "lock", "replay", "proved"}, Goto(w, step),
               pc[w] # "idle", UNCHANGED <<shared, scope, srv>>
        PROVE  Locks'
    BY <2>b DEF Goto, TypeOK
  <2>1. ASSUME NEW s \in Servers, NEW p \in 1..MaxLsn, Capture(w, s, p)
        PROVE  Locks'
    BY <2>1 DEF Capture, Goto, TypeOK
  <2>2. ASSUME NEW due \in BOOLEAN, NEW full \in BOOLEAN, AcceptRfq(w, due, full)
        PROVE  Locks'
    BY <2>2, <2>a, <2>b DEF AcceptRfq
  <2>3. CASE FinishPass(w)
    BY <2>3 DEF FinishPass
  <2>4. CASE AcceptGuard(w)
    BY <2>4 DEF AcceptGuard, Goto, TypeOK
  <2>5. CASE AcceptRecheck(w)
    BY <2>5 DEF AcceptRecheck, Goto, Finish, TypeOK
  <2>6. CASE AcceptAdvanceLsn(w) \/ AcceptAdvanceStamp(w)
    BY <2>6, SMTT(30) DEF AcceptAdvanceLsn, AcceptAdvanceStamp, Goto, TypeOK
  <2>7. CASE AcceptEnd(w)
    <3>1. srv[w] \in Servers /\ guard[srv[w]] = w
      BY <2>7 DEF AcceptEnd, TypeOK
    <3>2. \A s \in Servers : s # srv[w] => guard'[s] = guard[s]
      BY <2>7 DEF AcceptEnd, TypeOK
    <3>3. pc'[w] = "idle" /\ scope'[w] = 0
      BY <2>7 DEF AcceptEnd, Finish, Goto, TypeOK
    <3>4. \A v \in Workers \ {w} :
            pc'[v] = pc[v] /\ scope'[v] = scope[v] /\ srv'[v] = srv[v]
      BY <2>7 DEF AcceptEnd, Finish, Goto, TypeOK
    <3>5. UNCHANGED <<epoch, hgm, topoVars, monVars>>
      BY <2>7 DEF AcceptEnd
    <3> QED
      BY <3>1, <3>2, <3>3, <3>4, <3>5 DEF TypeOK
  <2>8. CASE SampleStamp(w) \/ SampleLsn(w) \/ ReplayLoad(w)
    <3>1. PICK step \in {"sampling", "sampled", "replayed"} :
            pc[w] # "idle" /\ Goto(w, step) /\ UNCHANGED <<shared, scope, srv>>
      BY <2>8 DEF SampleStamp, SampleLsn, ReplayLoad
    <3> QED
      BY <3>1 DEF Goto, TypeOK
  <2>9. CASE ReplayCheck(w) \/ ReplayRecheck(w) \/ Done(w)
    BY <2>9, <2>a, <2>b DEF ReplayCheck, ReplayRecheck, Done
  <2> QED
    BY <1>4, <2>1, <2>2, <2>3, <2>4, <2>5, <2>6, <2>7, <2>8, <2>9 DEF WorkerStep
<1> QED
  BY <1>1, <1>2, <1>3, <1>4 DEF Next

-----------------------------------------------------------------------------
\* While a worker holds the guard of its server, no writer change is between
\* its first reset and its epoch store.
LEMMA GuardExcludesReset ==
    ASSUME TypeOK, Locks, NEW w \in Workers, pc[w] \in {"lsn", "stamp", "group"}
    PROVE  topo \notin {"replay", "servers"} /\ srv[w] \in Servers /\ scope[w] = epoch
  BY DEF TypeOK, Locks

\* Every step keeps RfqInv: an RFQ enters a cell only in its own epoch, and the
\* epoch advances only when every cell has been cleared.
LEMMA RfqStep ==
    ASSUME TypeOK, Locks, RfqInv, [Next]_vars
    PROVE  RfqInv'
<1> USE DEF RfqInv, RfqCellsAreCurrent
<1>1. CASE UNCHANGED vars
  BY <1>1
<1>2. CASE TopologyStep
  <2>1. CASE RefreshBegin \/ RefreshEnd
    BY <2>1 DEF RefreshBegin, RefreshEnd
  <2>2. ASSUME NEW s \in Servers, LockGuard(s) \/ UnlockGuard(s)
        PROVE  RfqInv'
    BY <2>2 DEF LockGuard, UnlockGuard
  <2>3. CASE ResetGroup
    BY <2>3, NothingType DEF ResetGroup
  <2>4. CASE ResetReplay
    BY <2>4 DEF ResetReplay
  <2>5. ASSUME NEW s \in Servers, ResetLsn(s)
        PROVE  RfqInv'
    BY <2>5, NothingType DEF ResetLsn, TypeOK
  <2>6. ASSUME NEW s \in Servers, ResetStamp(s)
        PROVE  RfqInv'
    BY <2>6, NothingType DEF ResetStamp, TypeOK
  <2>7. CASE AdvanceEpoch
    BY <2>7 DEF AdvanceEpoch
  <2> QED
    BY <1>2, <2>1, <2>2, <2>3, <2>4, <2>5, <2>6, <2>7 DEF TopologyStep
<1>3. CASE MonitorStep
  <2>1. ASSUME NEW s \in Servers, NEW p \in 1..MaxLsn, NEW role \in MonitorRoles,
               MonitorFetch(s, p, role)
        PROVE  RfqInv'
    BY <2>1 DEF MonitorFetch
  <2>2. CASE MonitorLock
    <3>1. fetched'.src = fetched.src
      BY <2>2, StoredType DEF MonitorLock, TypeOK
    <3> QED
      BY <2>2, <3>1 DEF MonitorLock
  <2>3. CASE MonitorSkip \/ MonitorGuard
    <3>1. fetched'.src # "rfq"
      BY <2>3, NothingType DEF MonitorSkip, MonitorGuard
    <3>2. UNCHANGED <<epoch, lsn, stamp, group, topo, left>>
      BY <2>3 DEF MonitorSkip, MonitorGuard
    <3> QED
      BY <3>1, <3>2
  <2>4. CASE MonitorAdvanceLsn
    <3>1. \A s \in Servers : lsn'[s] \in {lsn[s], fetched}
      BY <2>4, AtomicMaxType DEF MonitorAdvanceLsn, TypeOK
    <3>2. UNCHANGED <<epoch, stamp, group, fetched, topo, left>>
      BY <2>4 DEF MonitorAdvanceLsn
    <3> QED
      BY <3>1, <3>2
  <2>5. CASE MonitorAdvanceStamp
    <3>1. \A s \in Servers : stamp'[s] \in {stamp[s], fetched}
      BY <2>5 DEF MonitorAdvanceStamp, TypeOK
    <3>2. UNCHANGED <<epoch, lsn, group, fetched, topo, left>>
      BY <2>5 DEF MonitorAdvanceStamp
    <3> QED
      BY <3>1, <3>2
  <2>6. CASE MonitorAdvanceGroup
    <3>1. group' \in {group, fetched}
      BY <2>6, AtomicMaxType DEF MonitorAdvanceGroup, TypeOK
    <3> QED
      BY <2>6, <3>1 DEF MonitorAdvanceGroup
  <2>7. CASE MonitorEnd
    BY <2>7, NothingType DEF MonitorEnd
  <2> QED
    BY <1>3, <2>1, <2>2, <2>3, <2>4, <2>5, <2>6, <2>7 DEF MonitorStep
<1>4. ASSUME NEW w \in Workers, WorkerStep(w)
      PROVE  RfqInv'
  <2>1. CASE AcceptAdvanceLsn(w)
    <3>1. \A s \in Servers : lsn'[s] \in {lsn[s], Rfq(w)}
      BY <2>1, AtomicMaxType, RfqObservation DEF AcceptAdvanceLsn, TypeOK
    <3>2. Rfq(w).src = "rfq" /\ Rfq(w).seen = epoch
      BY <2>1, RfqObservation DEF AcceptAdvanceLsn, Locks
    <3>3. topo \notin {"replay", "servers"}
      BY <2>1, GuardExcludesReset DEF AcceptAdvanceLsn
    <3>4. UNCHANGED <<epoch, stamp, group, fetched, topo, left>>
      BY <2>1 DEF AcceptAdvanceLsn
    <3> QED
      BY <3>1, <3>2, <3>3, <3>4
  <2>2. CASE AcceptAdvanceStamp(w)
    <3>1. \A s \in Servers : stamp'[s] \in {stamp[s], Rfq(w)}
      BY <2>2 DEF AcceptAdvanceStamp, TypeOK
    <3>2. Rfq(w).src = "rfq" /\ Rfq(w).seen = epoch
      BY <2>2, RfqObservation DEF AcceptAdvanceStamp, Locks
    <3>3. topo \notin {"replay", "servers"}
      BY <2>2, GuardExcludesReset DEF AcceptAdvanceStamp
    <3>4. UNCHANGED <<epoch, lsn, group, fetched, topo, left>>
      BY <2>2 DEF AcceptAdvanceStamp
    <3> QED
      BY <3>1, <3>2, <3>3, <3>4
  <2>3. CASE AcceptEnd(w)
    <3>1. group' \in {group, Rfq(w)}
      BY <2>3, AtomicMaxType, RfqObservation DEF AcceptEnd, TypeOK
    <3>2. Rfq(w).src = "rfq" /\ Rfq(w).seen = epoch
      BY <2>3, RfqObservation DEF AcceptEnd, Locks
    <3>3. topo \notin {"replay", "servers"}
      BY <2>3, GuardExcludesReset DEF AcceptEnd
    <3>4. UNCHANGED <<epoch, lsn, stamp, fetched, topo, left>>
      BY <2>3 DEF AcceptEnd
    <3> QED
      BY <3>1, <3>2, <3>3, <3>4
  <2>4. CASE UNCHANGED <<epoch, lsn, stamp, group, fetched, topo, left>>
    BY <2>4
  <2> QED
    BY <1>4, <2>1, <2>2, <2>3, <2>4 DEF WorkerStep, Capture, AcceptRfq, FinishPass,
       AcceptGuard, AcceptRecheck, SampleStamp, SampleLsn, ReplayCheck, ReplayLoad,
       ReplayRecheck, Done
<1> QED
  BY <1>1, <1>2, <1>3, <1>4 DEF Next

-----------------------------------------------------------------------------
\* Every step keeps ReplayInv: the maximum is zero from its reset to the epoch
\* store, and the monitor, which holds the manager's lock from its epoch to its
\* store, cannot overlap a writer change.
LEMMA ReplayStep ==
    ASSUME TypeOK, Locks, ReplayInv, [Next]_vars
    PROVE  ReplayInv'
<1> USE DEF ReplayInv, ReplayProofIsOfScope
<1>1. CASE UNCHANGED vars
  BY <1>1
<1>2. CASE TopologyStep
  <2>1. CASE RefreshBegin \/ RefreshEnd
    BY <2>1 DEF RefreshBegin, RefreshEnd
  <2>2. ASSUME NEW s \in Servers,
               LockGuard(s) \/ UnlockGuard(s) \/ ResetLsn(s) \/ ResetStamp(s)
        PROVE  ReplayInv'
    BY <2>2 DEF LockGuard, UnlockGuard, ResetLsn, ResetStamp
  <2>3. CASE ResetGroup \/ ResetReplay
    BY <2>3 DEF ResetGroup, ResetReplay
  <2>4. CASE AdvanceEpoch
    <3>1. mon \notin {"locked", "lsn", "stamp", "group", "replay"}
      BY <2>4 DEF AdvanceEpoch, Locks
    <3>2. \A w \in Workers : got[w][1].stored <= epoch => got[w][1].stored <= epoch + 1
      BY DEF TypeOK, Observations
    <3> QED
      BY <2>4, <3>1, <3>2 DEF AdvanceEpoch
  <2> QED
    BY <1>2, <2>1, <2>2, <2>3, <2>4 DEF TopologyStep
<1>3. CASE MonitorStep
  <2>1. ASSUME NEW s \in Servers, NEW p \in 1..MaxLsn, NEW role \in MonitorRoles,
               MonitorFetch(s, p, role)
        PROVE  ReplayInv'
    BY <2>1 DEF MonitorFetch
  <2>2. CASE MonitorLock
    <3>1. fetched'.stored = epoch
      BY <2>2, StoredType DEF MonitorLock, TypeOK
    <3> QED
      BY <2>2, <3>1 DEF MonitorLock
  <2>3. CASE MonitorSkip \/ MonitorGuard
    BY <2>3 DEF MonitorSkip, MonitorGuard
  <2>4. CASE MonitorAdvanceLsn \/ MonitorAdvanceStamp \/ MonitorAdvanceGroup
    BY <2>4 DEF MonitorAdvanceLsn, MonitorAdvanceStamp, MonitorAdvanceGroup
  <2>5. CASE MonitorEnd
    <3>1. replay' = replay \/ (replay' = fetched /\ fetched.src = "replica")
      BY <2>5, AtomicMaxType DEF MonitorEnd, TypeOK
    <3>2. topo = "idle" /\ topo' = "idle" /\ fetched.stored = epoch
      BY <2>5 DEF MonitorEnd, Locks
    <3> QED
      BY <2>5, <3>1, <3>2 DEF MonitorEnd
  <2> QED
    BY <1>3, <2>1, <2>2, <2>3, <2>4, <2>5 DEF MonitorStep
<1>4. ASSUME NEW w \in Workers, WorkerStep(w)
      PROVE  ReplayInv'
  <2>1. UNCHANGED <<epoch, replay, mon, fetched, topo>>
    BY <1>4 DEF WorkerStep, Capture, AcceptRfq, FinishPass, AcceptGuard, AcceptRecheck,
       AcceptAdvanceLsn, AcceptAdvanceStamp, AcceptEnd, SampleStamp, SampleLsn,
       ReplayCheck, ReplayLoad, ReplayRecheck, Done
  <2>2. \A v \in Workers \ {w} :
          pc'[v] = pc[v] /\ got'[v] = got[v] /\ scope'[v] = scope[v]
    <3>1. CASE Finish(w)
      BY <3>1 DEF Finish, Goto, TypeOK
    <3>2. ASSUME NEW s \in Servers, NEW p \in 1..MaxLsn, Capture(w, s, p)
          PROVE  \A v \in Workers \ {w} :
                    pc'[v] = pc[v] /\ got'[v] = got[v] /\ scope'[v] = scope[v]
      BY <3>2 DEF Capture, Goto, TypeOK
    <3>3. ASSUME NEW step, Goto(w, step), UNCHANGED <<got, scope>>
          PROVE  \A v \in Workers \ {w} :
                    pc'[v] = pc[v] /\ got'[v] = got[v] /\ scope'[v] = scope[v]
      BY <3>3 DEF Goto, TypeOK
    <3>4. CASE SampleStamp(w) \/ SampleLsn(w) \/ ReplayLoad(w)
      <4>1. UNCHANGED scope /\ \E step \in {"sampling", "sampled", "replayed"} : Goto(w, step)
        BY <3>4 DEF SampleStamp, SampleLsn, ReplayLoad
      <4>2. \A v \in Workers \ {w} : got'[v] = got[v]
        BY <3>4 DEF SampleStamp, SampleLsn, ReplayLoad, TypeOK
      <4> QED
        BY <4>1, <4>2 DEF Goto, TypeOK
    <3>5. CASE FinishPass(w)
      BY <3>5 DEF FinishPass
    <3> QED
      BY <1>4, <3>1, <3>2, <3>3, <3>4, <3>5 DEF WorkerStep, AcceptRfq, AcceptGuard,
         AcceptRecheck, AcceptAdvanceLsn, AcceptAdvanceStamp, AcceptEnd, ReplayCheck,
         ReplayRecheck, Done
  <2>3. CASE ReplayLoad(w)
    <3>1. got'[w][1] = replay /\ pc'[w] = "replayed" /\ scope'[w] = scope[w]
      BY <2>3 DEF ReplayLoad, Goto, TypeOK
    <3>2. scope[w] <= epoch /\ epoch <= epoch
      <4>1. scope[w] <= epoch
        BY DEF Locks
      <4>2. epoch \in Int
        BY DEF TypeOK
      <4> QED
        BY <4>1, <4>2, Reflexive, Zenon
    <3> QED
      BY <2>1, <2>2, <3>1, <3>2, SMTT(30)
  <2>4. CASE ReplayRecheck(w)
    <3>1. pc'[w] # "replayed"
      BY <2>4 DEF ReplayRecheck, Goto, Finish, TypeOK
    <3>2. pc'[w] = "proved" =>
            pc[w] = "replayed" /\ got' = got /\ scope' = scope /\ scope[w] = epoch
      BY <2>4 DEF ReplayRecheck, Goto, Finish, TypeOK
    <3>3. got[w][1].stored \in Int /\ epoch \in Int
      BY DEF TypeOK, Observations
    <3>4. ASSUME pc'[w] = "proved", got'[w][1] # Nothing
          PROVE  got'[w][1].stored = scope'[w] /\ got'[w][1].src = "replica"
      <4>1. /\ epoch <= got[w][1].stored /\ got[w][1].stored <= epoch
            /\ got[w][1].src = "replica"
        BY <3>2, <3>4
      <4>2. got[w][1].stored = epoch
        BY <3>3, <4>1, Antisymmetric
      <4> QED
        BY <3>2, <3>4, <4>1, <4>2
    <3> QED
      BY <2>1, <2>2, <3>1, <3>4, SMTT(30)
  <2>5. CASE pc'[w] \notin {"replayed", "proved"}
    <3>1. \A v \in Workers : pc'[v] \in {"replayed", "proved"} =>
            pc'[v] = pc[v] /\ got'[v] = got[v] /\ scope'[v] = scope[v]
      BY <2>2, <2>5
    <3> QED
      BY <2>1, <3>1
  <2>6. CASE FinishPass(w)
    BY <2>1, <2>6 DEF FinishPass
  <2>7. ReplayLoad(w) \/ ReplayRecheck(w) \/ FinishPass(w) \/ pc'[w] \notin {"replayed", "proved"}
    <3>1. ASSUME NEW step \in {"idle", "routed", "coalesced", "lock", "recheck", "lsn",
                               "stamp", "group", "sampling", "sampled", "replay"},
                 Goto(w, step)
          PROVE  pc'[w] \notin {"replayed", "proved"}
      BY <3>1 DEF Goto, TypeOK
    <3>2. Finish(w) => Goto(w, "idle")
      BY DEF Finish
    <3> QED
      BY <1>4, <3>1, <3>2 DEF WorkerStep, Capture, AcceptRfq, AcceptGuard, AcceptRecheck,
         AcceptAdvanceLsn, AcceptAdvanceStamp, AcceptEnd, SampleStamp, SampleLsn,
         ReplayCheck, Done
  <2> QED
    BY <2>3, <2>4, <2>5, <2>6, <2>7
<1> QED
  BY <1>1, <1>2, <1>3, <1>4 DEF Next

-----------------------------------------------------------------------------
\* The caches start empty and unlocked.
LEMMA InitIInv == Init => IInv
<1> SUFFICES ASSUME Init PROVE IInv
  OBVIOUS
<1>1. TypeOK
  <2>1. table \in [Workers -> [Servers -> [epoch : 0..MaxEpoch, max : 0..MaxLsn]]]
    BY DEF Init, NoEntry
  <2>2. got \in [Workers -> Observations \X Observations]
    BY NothingType DEF Init
  <2>3. /\ pc \in [Workers -> {"idle"}] /\ scope \in [Workers -> {0}]
        /\ srv \in [Workers -> {NoServer}] /\ obs \in [Workers -> {0}]
    BY DEF Init
  <2> QED
    BY <2>1, <2>2, <2>3, NothingType DEF Init, TypeOK
<1>2. Locks
  BY DEF Init, Locks
<1>3. RfqInv
  BY NothingType DEF Init, RfqInv, RfqCellsAreCurrent
<1>4. ReplayInv
  BY DEF Init, ReplayInv, ReplayProofIsOfScope
<1> QED
  BY <1>1, <1>2, <1>3, <1>4 DEF IInv

\* The inductive invariant holds in every reachable state.
THEOREM Invariance == Spec => []IInv
<1>1. Init => IInv
  BY InitIInv
<1>2. IInv /\ [Next]_vars => IInv'
  BY TypeStep, LocksStep, RfqStep, ReplayStep DEF IInv
<1> QED
  BY <1>1, <1>2, PTL DEF Spec

\* Type correctness of the caches, the locks and every thread's locals.
THEOREM TypeCorrect == Spec => []TypeOK
<1>1. IInv => TypeOK
  BY DEF IInv
<1> QED
  BY <1>1, Invariance, PTL

\* For any number of servers and workers: an RFQ position in a server or group
\* cell belongs to the current writer epoch at every instant
\* (polardb_accept_rfq_server_lsn against the writer-epoch refresh).
THEOREM RfqCellsStayCurrent == Spec => []RfqCellsAreCurrent
<1>1. IInv => RfqCellsAreCurrent
  BY DEF IInv, RfqInv
<1> QED
  BY <1>1, Invariance, PTL

\* For any number of servers and workers: the replica replay position a request
\* gets from get_polardb_max_replica_replay_lsn is of its own writer scope.
THEOREM ReplayProofsStayInScope == Spec => []ReplayProofIsOfScope
<1>1. IInv => ReplayProofIsOfScope
  BY DEF IInv, ReplayInv
<1> QED
  BY <1>1, Invariance, PTL
=============================================================================
