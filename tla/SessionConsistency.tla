------------------------- MODULE SessionConsistency -------------------------
(***************************************************************************)
(* Session consistency of reads routed to PolarDB replicas: what a session *)
(* remembers of its writes and reads, how a request is planned from it,    *)
(* how a reader is acquired, waits, fails and is retried, and what the     *)
(* ReadyForQuery (RFQ) of the answer teaches the session.                  *)
(*                                                                         *)
(* Every action is one handler of the session's worker thread.  The shared *)
(* LSN caches change in one step here; their internal steps are the        *)
(* subject of LsnCache.  Requests run outside transactions.                *)
(***************************************************************************)
EXTENDS Integers, FiniteSetsExt

CONSTANTS
    Sessions,    \* client sessions
    Readers,     \* servers of the reader hostgroup
    Policies,    \* request policies: the *_action variables of a request
    Modes,       \* consistency modes the requests use
    Monitoring,  \* whether monitor samples advance the caches
    InitActive,  \* whether the worker may start with PolarDB routing active,
                 \* and whether it may start without
    WholeHistory,\* whether the history counts every answer, or those the
                 \* code undertakes to track
    MaxLsn,      \* bound on WAL positions
    MaxEpoch,    \* bound on writer changes
    NoServer     \* no server chosen

\* The per-event actions of a request (PolarDB_Query_ReaderPlan).
Actions == [missing : {"warning", "primary", "error"},
            timeout : {"warning", "primary", "error", "disconnect"},
            fallback : {"primary", "error"},
            loss : {"replica_then_primary", "replica_then_error", "primary",
                    "error", "disconnect"},
            rerr : {"primary", "error", "disconnect"}]

ASSUME ConsistencyAssumption ==
    /\ Policies \subseteq Actions /\ Policies # {}
    /\ Modes \subseteq {"session", "global", "eventual", "off"}
    /\ {Monitoring, WholeHistory} \cup InitActive \subseteq BOOLEAN
    /\ MaxLsn \in Nat \ {0} /\ MaxEpoch \in Nat \ {0}
    /\ "writer" \notin Readers /\ NoServer \notin Readers \cup {"writer"}

ReaderRetryLimit == 1

VARIABLES
    epoch,   \* polardb_writer_epoch
    wal,     \* write position of the current writer
    replay,  \* replay position of each reader
    group,   \* polardb_group_lsn
    cell,    \* polardb_current_lsn of each reader
    sample,  \* monitor result fetched and not yet applied
    active,  \* PgSQL_Thread::polardb_is_active
    sess,    \* polardb_session_consistency and polardb_config, by session
    req,     \* the request under way and its polardb_query, by session
    acks     \* what each session's client has been told (history)

shared == <<epoch, wal, replay, group, cell, sample, active>>
vars == <<shared, sess, req, acks>>

Lsns == 0..MaxLsn
Servers == Readers \cup {"writer"}
NoSample == [src |-> NoServer, pos |-> 0]
LsnModes == {"session", "global"}
Larger(a, b) == IF a > b THEN a ELSE b

\* The client's last write and the newest state it has seen, as positions of
\* the current writer's timeline.
NoAcks == [own |-> 0, seen |-> 0]

NewSession == [write |-> 0, observed |-> 0, wUnk |-> FALSE, oUnk |-> FALSE,
               scope |-> 0, crossed |-> ~active, waitOff |-> FALSE]

Idle == [st |-> "idle", kind |-> "read", at |-> NoServer, scope |-> 0,
         target |-> 0, how |-> "none", mode |-> "off",
         pol |-> [missing |-> "primary", timeout |-> "primary",
                  fallback |-> "primary", loss |-> "primary", rerr |-> "primary"],
         ext |-> FALSE, retries |-> 0, degraded |-> "no", stale |-> FALSE,
         dropped |-> FALSE, pos |-> 0, since |-> 0, floor |-> 0]

\* A session of an active worker may be older than the activation and may
\* then have written: its client's writes are already in the WAL.
Init ==
    /\ epoch = 1 /\ wal \in {0, 1} /\ group = 0 /\ sample = NoSample
    /\ replay = [r \in Readers |-> 0]
    /\ cell = [r \in Readers |-> 0]
    /\ active \in InitActive
    /\ \E old \in [Sessions -> BOOLEAN] :
        /\ ~active => \A s \in Sessions : old[s]
        /\ sess = [s \in Sessions |-> [NewSession EXCEPT !.crossed = old[s]]]
        /\ acks = [s \in Sessions |-> IF old[s] /\ active
                     THEN [NoAcks EXCEPT !.own = wal] ELSE NoAcks]
    /\ req = [s \in Sessions |-> Idle]

-----------------------------------------------------------------------------
(***************************************************************************)
(* The database and the shared caches around the sessions.                 *)
(***************************************************************************)
\* A write of a client of another proxy.
OtherWrite ==
    /\ wal < MaxLsn /\ wal' = wal + 1
    /\ UNCHANGED <<epoch, replay, group, cell, sample, active, sess, req, acks>>

Replay(r) ==
    /\ replay[r] < wal /\ replay' = [replay EXCEPT ![r] = @ + 1]
    /\ UNCHANGED <<epoch, wal, group, cell, sample, active, sess, req, acks>>

\* Failover: another server is promoted with what it had replayed, the readers
\* follow it, and the topology thread clears the caches and advances the epoch.
\* Positions of the old timeline mean nothing on the new one.
WriterChange ==
    /\ epoch < MaxEpoch /\ epoch' = epoch + 1
    /\ wal' \in Lsns
    /\ replay' \in [Readers -> 0..wal']
    /\ group' = 0 /\ cell' = [r \in Readers |-> 0]
    /\ acks' = [s \in Sessions |-> NoAcks]
    /\ req' = [s \in Sessions |-> [req[s] EXCEPT !.floor = 0]]
    /\ UNCHANGED <<sample, active, sess>>

\* The monitor reads a server's position, and later stores it with no check
\* of the epoch: polardb_update_server_lsn_from_monitor.
MonitorFetch(n) ==
    /\ Monitoring /\ sample = NoSample
    /\ sample' = [src |-> n, pos |-> IF n = "writer" THEN wal ELSE replay[n]]
    /\ UNCHANGED <<epoch, wal, replay, group, cell, active, sess, req, acks>>

MonitorApply ==
    /\ sample # NoSample
    /\ group' = Larger(group, sample.pos)
    /\ cell' = IF sample.src \in Readers
               THEN [cell EXCEPT ![sample.src] = Larger(@, sample.pos)] ELSE cell
    /\ sample' = NoSample
    /\ UNCHANGED <<epoch, wal, replay, active, sess, req, acks>>

\* The worker learns that a PolarDB pair exists.
Activate ==
    /\ ~active /\ active' = TRUE
    /\ UNCHANGED <<epoch, wal, replay, group, cell, sample, sess, req, acks>>

-----------------------------------------------------------------------------
(***************************************************************************)
(* Routing: observe, collect, plan and execute run in one handler.         *)
(***************************************************************************)
\* polardb_rebind_session_lsn_scope: state of another scope, or of none, goes.
Rebind(x, e) ==
    IF x.scope = e THEN x
    ELSE [x EXCEPT !.write = 0, !.observed = 0, !.wUnk = FALSE, !.oUnk = FALSE,
                   !.scope = e]

\* Deliberate error: a session older than the activation is trusted.
ActivatedTrusting(x) == [x EXCEPT !.crossed = FALSE]

\* polardb_activate_session_for_request
Activated(x) == IF x.crossed THEN [x EXCEPT !.wUnk = TRUE, !.crossed = FALSE] ELSE x

\* observe_route_inputs: rebind, then activate.
Observed(s) == Activated(Rebind(sess[s], epoch))

\* Deliberate error: what the session has read does not count.
SessionTargetOfWrites(x) == x.write

\* PolarDB_SessionConsistency::target
SessionTarget(x) == Larger(x.write, x.observed)

\* Deliberate error: GLOBAL_LSN uses the session's target.
TargetOfSessionOnly(x, mode) == SessionTarget(x)

\* target_with_global_lsn
Target(x, mode) ==
    IF mode = "global" THEN Larger(SessionTarget(x), group) ELSE SessionTarget(x)

ToReader(q) == [q EXCEPT !.st = "attach", !.at = "reader"]

\* polardb_redirect_to_writer: clear_reader_route forgets the reader's plan.
ToWriter(q) == [Idle EXCEPT !.st = "attach", !.at = "writer", !.kind = q.kind,
                            !.mode = q.mode, !.scope = q.scope, !.floor = q.floor]

\* RoutePlan::missing_lsn
MissingLsn(q, allow) ==
    CASE q.pol.missing = "error" -> Idle
      [] q.pol.missing = "warning" /\ allow ->
            [ToReader(q) EXCEPT !.degraded = "plan"]
      [] q.pol.missing = "primary" \/ q.pol.fallback = "primary" -> ToWriter(q)
      [] OTHER -> Idle

PolicyError(q) ==
    q.mode = "global" /\ "warning" \in {q.pol.missing, q.pol.timeout}

\* polardb_plan and polardb_execute, for a read outside a transaction.  A hint,
\* the rule, the placement or the query's shape may ask for the primary; the
\* ordinary routing of mode off may name either hostgroup.
Plan(x, q, shape) ==
    LET t == Target(x, q.mode)
        allow == ~q.ext /\ q.mode # "global"
    IN  CASE shape = "primary" -> ToWriter(q)
          [] q.mode = "off" /\ shape = "plain" -> ToReader(q)
          [] q.mode = "off" -> ToWriter(q)
          [] shape = "no_reader_group" ->
                IF q.pol.fallback = "error" THEN Idle ELSE ToWriter(q)
          [] q.mode = "eventual" -> ToReader(q)
          [] PolicyError(q) -> Idle
          [] x.wUnk \/ x.oUnk -> MissingLsn(q, allow)
          [] q.mode = "global" /\ group = 0 -> MissingLsn(q, FALSE)
          [] t = 0 -> ToReader(q)
          [] x.waitOff -> ToWriter(q)
          [] OTHER -> [ToReader(q) EXCEPT !.target = t]

\* The largest position the RFQs of this proxy's clients have reported.
Known == Max({acks[s].seen : s \in Sessions})

RouteRead(s, mode, p, ext, shape) ==
    /\ req[s].st = "idle" /\ active
    /\ LET x == Observed(s)
           q == [Idle EXCEPT !.mode = mode, !.pol = p, !.ext = ext,
                             !.scope = epoch,
                             !.floor = IF mode = "global" THEN Known ELSE 0]
       IN  sess' = [sess EXCEPT ![s] = x]
           /\ req' = [req EXCEPT ![s] = Plan(x, q, shape)]
    /\ UNCHANGED <<shared, acks>>

\* Statements that are not replica eligible: a write, or a session setting,
\* which is classified as a write but produces no WAL.
RouteWrite(s, kind, mode) ==
    /\ req[s].st = "idle" /\ active
    /\ sess' = [sess EXCEPT ![s] = Observed(s)]
    /\ req' = [req EXCEPT ![s] =
                  ToWriter([Idle EXCEPT !.kind = kind, !.mode = mode, !.scope = epoch])]
    /\ UNCHANGED <<shared, acks>>

\* The worker is not active yet: the pipeline is skipped, no scope is captured.
RouteInactive(s, kind) ==
    /\ req[s].st = "idle" /\ ~active
    /\ req' = [req EXCEPT ![s] = ToWriter([Idle EXCEPT !.kind = kind])]
    /\ UNCHANGED <<shared, sess, acks>>

-----------------------------------------------------------------------------
(***************************************************************************)
(* A request ends without a result: an error answer leaves the session as  *)
(* it is, a disconnect ends it and a new client takes its place.           *)
(***************************************************************************)
Become(s, q) == req' = [req EXCEPT ![s] = q] /\ UNCHANGED <<sess, acks>>

Disconnect(s) ==
    /\ req' = [req EXCEPT ![s] = Idle]
    /\ sess' = [sess EXCEPT ![s] = NewSession]
    /\ acks' = [acks EXCEPT ![s] = NoAcks]

\* A retry on the primary may be declined: its stream is busy, rows were sent.
WriterRetry(s) == Become(s, ToWriter(req[s])) \/ Become(s, Idle)

Do(s, action) ==
    CASE action = "primary" -> WriterRetry(s)
      [] action = "disconnect" -> Disconnect(s)
      [] OTHER -> Become(s, Idle)

-----------------------------------------------------------------------------
(***************************************************************************)
(* Acquiring a backend connection.                                         *)
(***************************************************************************)
\* The pooled or fresh attach enables a session that is not enabled yet.  Such
\* a request was routed before the activation, so the session has no scope, and
\* the write-unknown mark of the activation is discarded by the next rebind:
\* from here on the earlier writes are tracked no more.
AttachWriter(s) ==
    LET enables == active /\ sess[s].crossed IN
    /\ req[s].st = "attach" /\ req[s].at = "writer"
    /\ req' = [req EXCEPT ![s] = [@ EXCEPT !.st = "setup", !.since = epoch]]
    /\ sess' = [sess EXCEPT ![s] = IF enables THEN Activated(@) ELSE @]
    /\ acks' = [acks EXCEPT ![s] = IF enables /\ ~WholeHistory THEN NoAcks ELSE @]
    /\ UNCHANGED shared

\* Deliberate error: a position short of the target passes.
ReachedNearly(r, t) == cell[r] + 1 >= t

\* The target test of a reader node: its cached LSN has reached the target.
Reached(r, t) == cell[r] >= t

\* polardb_finish_reader_wait_selection on an acquired reader: the cached LSN
\* counts only while it is fresh.
OnReader(q, r, fresh) ==
    [q EXCEPT !.st = "setup", !.at = r,
              !.how = IF q.target = 0
                      THEN IF q.how = "bypass" THEN "bypass" ELSE "none"
                      ELSE IF fresh /\ Reached(r, q.target) THEN "bypass" ELSE "wait"]

AcquireReader(s, r, fresh) ==
    /\ req[s].st = "attach" /\ req[s].at = "reader"
    /\ Become(s, OnReader(req[s], r, fresh))
    /\ UNCHANGED shared

\* RFQ_UNAVAILABLE: no reader reports positions.
AcquireNoRfq(s) ==
    LET q == req[s] IN
    /\ q.st = "attach" /\ q.at = "reader" /\ q.target > 0
    /\ CASE q.pol.missing = "warning" /\ ~q.ext /\ q.mode # "global" ->
              Become(s, [q EXCEPT !.target = 0, !.degraded = "acquire"])
         [] q.pol.missing = "error" -> Become(s, Idle)
         [] OTHER -> Become(s, ToWriter(q))
    /\ UNCHANGED shared

\* No reader qualifies, or the capacity deadline has passed.
AcquireFails(s) ==
    /\ req[s].st = "attach" /\ req[s].at = "reader"
    /\ IF req[s].pol.fallback = "primary" /\ req[s].mode # "off"
       THEN Become(s, ToWriter(req[s])) ELSE Become(s, Idle)
    /\ UNCHANGED shared

\* The connection breaks before the query is dispatched: the connect failed,
\* or a session variable could not be set.  The request goes back to
\* acquisition, where a simple query no longer has its wait specification.
SetupFails(s) ==
    LET q == req[s] IN
    /\ q.st = "setup"
    /\ \/ Become(s, Idle)
       \/ Disconnect(s)
       \/ q.at = "writer" /\ Become(s, [q EXCEPT !.st = "attach"])
       \/ /\ q.at \in Readers
          /\ Become(s, [q EXCEPT !.st = "attach", !.at = "reader",
                                 !.target = IF q.ext THEN @ ELSE 0,
                                 !.dropped = @ \/ (q.target > 0 /\ ~q.ext)])
    /\ UNCHANGED shared

\* The reset of a reused connection fails: a bypassed wait is not retried on
\* a reader (polardb_redirect_wait_retry_to_writer).
ResetFails(s) ==
    /\ req[s].st = "setup" /\ req[s].how = "bypass"
    /\ IF req[s].pol.loss \in {"primary", "replica_then_primary"}
       THEN Become(s, ToWriter(req[s])) ELSE Disconnect(s)
    /\ UNCHANGED shared

-----------------------------------------------------------------------------
(***************************************************************************)
(* Dispatch and execution on the backend.                                  *)
(***************************************************************************)
Dispatch(s) ==
    /\ req[s].st = "setup"
    /\ Become(s, [req[s] EXCEPT !.st = "sent",
                                !.since = IF req[s].at = "writer" THEN @ ELSE epoch])
    /\ UNCHANGED shared

\* polardb_fail_wrap_and_disable_session_waits
WrapFails(s) ==
    /\ req[s].st = "setup" /\ req[s].how = "wait" /\ ~req[s].ext
    /\ req' = [req EXCEPT ![s] = Idle]
    /\ sess' = [sess EXCEPT ![s].waitOff = TRUE]
    /\ UNCHANGED <<shared, acks>>

\* RESET and DISCARD clear the transient wait state only.
ResetSession(s) ==
    /\ req[s].st = "idle" /\ sess[s].waitOff
    /\ sess' = [sess EXCEPT ![s].waitOff = FALSE]
    /\ UNCHANGED <<shared, req, acks>>

\* A connection to the old writer does not survive a writer change.
ExecuteOnWriter(s) ==
    LET q == req[s]
        p == IF q.kind = "write" THEN wal + 1 ELSE wal
    IN
    /\ q.st = "sent" /\ q.at = "writer" /\ q.since = epoch
    /\ p <= MaxLsn /\ wal' = p
    /\ Become(s, [q EXCEPT !.st = "done", !.pos = p])
    /\ UNCHANGED <<epoch, replay, group, cell, sample, active>>

\* The backend waits until it has replayed the target; a best-effort wait that
\* times out runs the query anyway, with a notice.
ExecuteOnReader(s) ==
    LET q == req[s]
        late == q.how = "wait" /\ replay[q.at] < q.target
    IN
    /\ q.st = "sent" /\ q.at \in Readers
    /\ late => q.pol.timeout = "warning"
    /\ Become(s, [q EXCEPT !.st = "done", !.pos = replay[q.at], !.since = epoch,
                           !.stale = late, !.pol = Idle.pol, !.ext = FALSE,
                           !.retries = 0])
    /\ UNCHANGED shared

-----------------------------------------------------------------------------
(***************************************************************************)
(* Failures of a dispatched request.                                       *)
(***************************************************************************)
\* A read the planner placed on a replica, failure still under its policy.
Automatic(q) == q.at \in Readers /\ q.mode # "off" /\ q.degraded # "plan"

\* wait_was_bypassed, recorded for an ordinary read only: an extended read keeps
\* its wait requirement and fails as a wait, so the next reader has to reach
\* the target again.
WaitWasBypassed(q) == q.how = "bypass" /\ ~q.ext

\* Deliberate error: the attempts are not counted.
MayRetryReaderAgain(q) == ~WaitWasBypassed(q)

\* polardb_reader_failure_decision: another reader, once, and never after a
\* bypassed wait.
MayRetryReader(q) == ~WaitWasBypassed(q) /\ q.retries < ReaderRetryLimit

\* CONNECTION_LOST
LostReader(s) ==
    LET q == req[s]
        again == /\ q.pol.loss \in {"replica_then_primary", "replica_then_error"}
                 /\ MayRetryReader(q)
    IN
    /\ q.st = "sent" /\ Automatic(q)
    /\ \/ again /\ \E r \in Readers \ {q.at}, fresh \in BOOLEAN :
              Become(s, OnReader([q EXCEPT !.retries = @ + 1], r, fresh))
       \/ CASE q.pol.loss = "replica_then_primary" -> Do(s, "primary")
            [] q.pol.loss = "replica_then_error" -> Do(s, "error")
            [] OTHER -> Do(s, q.pol.loss)
    /\ UNCHANGED shared

\* WAIT_TIMEOUT: the backend cancelled the query.
WaitTimesOut(s) ==
    LET q == req[s] IN
    /\ q.st = "sent" /\ Automatic(q) /\ q.how = "wait" /\ replay[q.at] < q.target
    /\ Do(s, q.pol.timeout)
    /\ UNCHANGED shared

\* REUSABLE_ERROR; a cancellation is always answered with its error.
ReaderErrs(s) ==
    /\ req[s].st = "sent" /\ Automatic(req[s])
    /\ Do(s, req[s].pol.rerr) \/ Do(s, "error")
    /\ UNCHANGED shared

\* Everything else takes the generic path: retry, error or broken session.
GenericFailure(s) ==
    LET q == req[s] IN
    /\ q.st = "sent" /\ ~Automatic(q)
    /\ \/ Become(s, [q EXCEPT !.st = "attach",
                              !.at = IF q.at = "writer" THEN @ ELSE "reader"])
       \/ Become(s, Idle)
       \/ Disconnect(s)
    /\ UNCHANGED shared

-----------------------------------------------------------------------------
(***************************************************************************)
(* Results: polardb_finish_wait, then polardb_process_result.              *)
(***************************************************************************)
\* polardb_process_positioned_rfq_lsn: only the primary clears the marks.
Positioned(x, q) ==
    [x EXCEPT !.observed = Larger(@, q.pos),
              !.write = IF q.kind # "read" THEN Larger(@, q.pos) ELSE @,
              !.wUnk = IF q.at = "writer" THEN FALSE ELSE @,
              !.oUnk = IF q.at = "writer" THEN FALSE ELSE @]

\* Deliberate error: only reads mark the session.
MissingOnReads(x, q) ==
    IF q.mode \notin LsnModes THEN x
    ELSE [x EXCEPT !.oUnk = @ \/ q.kind = "read"]

\* polardb_process_missing_rfq_lsn
Missing(x, q) ==
    IF q.mode \notin LsnModes THEN x
    ELSE [x EXCEPT !.wUnk = @ \/ q.kind # "read", !.oUnk = @ \/ q.kind = "read"]

\* polardb_process_zero_rfq_lsn: normal for reads and settings, which it teaches
\* nothing; a write has left a position that was not reported.
Zero(x, q) ==
    IF q.kind = "write" /\ q.mode \in LsnModes THEN [x EXCEPT !.wUnk = TRUE] ELSE x

\* What the client's history gains from the answer.  The code undertakes to
\* track what ran under the scope it was routed in, and what a session older
\* than the activation wrote before it was enabled.
Told(a, x, q, payload) ==
    LET write == /\ q.kind = "write" /\ q.since = epoch
                 /\ \/ WholeHistory
                    \/ q.scope = epoch /\ (payload = "positioned" \/ q.mode \in LsnModes)
                    \/ q.scope = 0 /\ x.crossed
        seen == /\ q.since = epoch
                /\ \/ WholeHistory /\ q.kind = "read" /\ q.mode \in LsnModes
                   \/ q.scope = epoch /\ payload = "positioned"
    IN  [own |-> IF write THEN Larger(a.own, q.pos) ELSE a.own,
         seen |-> IF seen THEN Larger(a.seen, q.pos) ELSE a.seen]

\* An RFQ is used only while the scope the request captured is the current one.
Result(s, payload) ==
    LET q == req[s]
        x == Rebind(sess[s], q.scope)
        waited == IF q.how = "wait" /\ ~q.stale THEN q.target ELSE 0
        rfq == IF payload = "positioned" THEN q.pos ELSE 0
        accepted == active /\ q.scope = epoch
    IN
    /\ q.st = "done"
    /\ payload = "positioned" => q.pos > 0
    /\ group' = IF accepted THEN Larger(group, Larger(waited, rfq)) ELSE group
    /\ cell' = IF accepted /\ q.at \in Readers
               THEN [cell EXCEPT ![q.at] = Larger(@, Larger(waited, rfq))] ELSE cell
    /\ sess' = [sess EXCEPT ![s] =
                   CASE ~accepted -> @
                     [] payload = "positioned" -> Positioned(x, q)
                     [] payload = "missing" -> Missing(x, q)
                     [] OTHER -> Zero(x, q)]
    /\ acks' = [acks EXCEPT ![s] = Told(@, sess[s], q, payload)]
    /\ req' = [req EXCEPT ![s] = Idle]
    /\ UNCHANGED <<epoch, wal, replay, sample, active>>

-----------------------------------------------------------------------------
Environment ==
    \/ OtherWrite
    \/ \E r \in Readers : Replay(r)
    \/ WriterChange
    \/ \E n \in Servers : MonitorFetch(n)
    \/ MonitorApply
    \/ Activate

SessionStep(s) ==
    \/ \E mode \in Modes, p \in Policies, ext \in BOOLEAN,
          shape \in {"plain", "primary", "no_reader_group"} :
              RouteRead(s, mode, p, ext, shape)
    \/ \E kind \in {"write", "setting"}, mode \in Modes : RouteWrite(s, kind, mode)
    \/ \E kind \in {"read", "write"} : RouteInactive(s, kind)
    \/ AttachWriter(s)
    \/ \E r \in Readers, fresh \in BOOLEAN : AcquireReader(s, r, fresh)
    \/ AcquireNoRfq(s) \/ AcquireFails(s)
    \/ SetupFails(s) \/ ResetFails(s)
    \/ Dispatch(s) \/ WrapFails(s) \/ ResetSession(s)
    \/ ExecuteOnWriter(s) \/ ExecuteOnReader(s)
    \/ LostReader(s) \/ WaitTimesOut(s) \/ ReaderErrs(s) \/ GenericFailure(s)
    \/ \E payload \in {"positioned", "zero", "missing"} : Result(s, payload)

Next == Environment \/ \E s \in Sessions : SessionStep(s)

Spec == Init /\ [][Next]_vars

-----------------------------------------------------------------------------
(***************************************************************************)
(* Properties.                                                             *)
(***************************************************************************)
\* Every variable has its type; in particular no request is retried on more
\* readers than POLARDB_READER_RETRY_LIMIT allows.
TypeOK ==
    /\ epoch \in 1..MaxEpoch /\ wal \in Lsns /\ group \in Lsns
    /\ replay \in [Readers -> Lsns] /\ cell \in [Readers -> Lsns]
    /\ sample \in [src : Servers \cup {NoServer}, pos : Lsns]
    /\ active \in BOOLEAN
    /\ sess \in [Sessions -> [write : Lsns, observed : Lsns, wUnk : BOOLEAN,
                 oUnk : BOOLEAN, scope : 0..MaxEpoch, crossed : BOOLEAN,
                 waitOff : BOOLEAN]]
    /\ req \in [Sessions -> [st : {"idle", "attach", "setup", "sent", "done"},
                 kind : {"read", "write", "setting"},
                 at : Servers \cup {"reader", NoServer}, scope : 0..MaxEpoch,
                 target : Lsns, how : {"none", "bypass", "wait"},
                 mode : {"session", "global", "eventual", "off"}, pol : Actions,
                 ext : BOOLEAN, retries : 0..ReaderRetryLimit,
                 degraded : {"no", "plan", "acquire"}, stale : BOOLEAN,
                 dropped : BOOLEAN, pos : Lsns, since : 0..MaxEpoch, floor : Lsns]]
    /\ acks \in [Sessions -> [own : Lsns, seen : Lsns]]

\* A read in an LSN mode has its answer, and the answer carries no warning.
Answered(q) ==
    /\ q.st = "done" /\ q.kind = "read" /\ q.mode \in LsnModes
    /\ q.degraded = "no" /\ ~q.stale /\ q.since = epoch

\* Read your writes: wherever routing, retries, failures and RFQs with no
\* position take a read of LSN mode, it sees every write its session tracked,
\* unless a broken connection setup made it lose its target.
ReadYourWrites ==
    \A s \in Sessions :
        Answered(req[s]) /\ ~req[s].dropped => req[s].pos >= acks[s].own

\* Monotonic reads: such a read never sees less than an earlier answer whose
\* RFQ had a position, whatever server and mode that answer came from.
MonotonicReads ==
    \A s \in Sessions :
        Answered(req[s]) /\ ~req[s].dropped => req[s].pos >= acks[s].seen

\* A GLOBAL_LSN read sees every position any session of the proxy had been
\* told of before it was routed (polardb_target_with_global_lsn).
GlobalReadsCoverGroup ==
    \A s \in Sessions :
        Answered(req[s]) /\ ~req[s].dropped /\ req[s].mode = "global"
            => req[s].pos >= req[s].floor

\* While no monitor sample of an earlier writer is applied, the backend wait is
\* skipped only on a reader that has replayed the target
\* (wait_bypass_allowed; invariant I9).
BypassOnlyCaughtUp ==
    \A s \in Sessions :
        LET q == req[s] IN
        q.st \in {"setup", "sent"} /\ q.how = "bypass" /\ q.scope = epoch
            => replay[q.at] >= q.target

\* Read your writes for every read, the ones whose connection broke during
\* setup included: the wait is mandatory on every reader that is not known to have caught up.
RetriedReadsKeepTheirTarget ==
    \A s \in Sessions : Answered(req[s]) => req[s].pos >= acks[s].own

\* A read never starts to wait for a position of a previous writer.
WaitsOnlyForCurrentWriter ==
    \A s \in Sessions :
        req[s].st = "sent" /\ req[s].how = "wait" => req[s].since = req[s].scope
=============================================================================
