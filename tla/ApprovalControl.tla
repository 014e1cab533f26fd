---- MODULE ApprovalControl ----
(***************************************************************************)
(* One-time consumption of a signed execution authorization.               *)
(*                                                                         *)
(* The module composes three parts of cops/execution that share one SQLite *)
(* approval database: the store itself (store.py), the authority processes *)
(* that serve consume requests one connection at a time (control.py,       *)
(* ApprovalAuthority and ApprovalAuthorityServer) and the worker-side      *)
(* client with its single idempotent retry (ApprovalControlClient).  Local *)
(* consumers that open the store directly and use atomically_consume race  *)
(* with them.                                                              *)
(*                                                                         *)
(* A SQLite transaction is one step.  Everything the authority does between*)
(* two transactions is interleaved with the other processes, and a crash or*)
(* a lost connection may come between any two steps.                       *)
(***************************************************************************)
EXTENDS Naturals

CONSTANTS
    Auths,       \* authorization identifiers, one signed envelope each
    Requests,    \* request_id values (UUIDs)
    Plans,       \* action plans as sent in a request
    Snapshots,   \* approved plan snapshots, what an envelope binds
    Workers,     \* worker identities
    Authorities, \* authority processes on the database
    Calls,       \* calls of consume_authorization
    Locals,      \* direct users of atomically_consume
    SnapshotOf,  \* plan -> its approved snapshot
    Envelope,    \* authorization -> what its signature covers
    Trusted,     \* authorizations whose key and engagement verify
    AuthorityWorker, \* authority -> the worker identity it serves
    MinRemaining,    \* minimum_remaining_seconds of the local consumers
    StoreFaults, \* whether ownership checks may fail and lock waits time out
    MaxTime      \* bound on the wall clock

Documents == [rid: Requests, auth: Auths, plan: Plans, worker: Workers]

\* A row of approval_consumptions; request_digest is a digest of the whole
\* document, so the document stands for it.
Rows == [doc: Documents, auth: Auths, snap: Snapshots, worker: Workers, at: Nat]

Envelopes == [snap: Snapshots, worker: Workers, issued: Nat, expiry: Nat]

LocalClaims == [auth: Auths, plan: Plans, worker: Workers]

\* A call opens at most two connections (range(2) in consume_authorization).
Conns == Calls \X (1..2)

ASSUME ConstantsAssumption ==
    /\ SnapshotOf \in [Plans -> Snapshots]
    /\ Envelope \in [Auths -> Envelopes]
    /\ Trusted \subseteq Auths
    /\ AuthorityWorker \in [Authorities -> Workers]
    /\ MinRemaining \in Nat
    /\ StoreFaults \in BOOLEAN
    /\ MaxTime \in Nat

VARIABLES
    clock,     \* UTC seconds
    status,    \* approvals.status per authorization ("absent": no row)
    rows,      \* approval_consumptions
    stage,     \* connection -> how far its request has got
    busy,      \* authority -> the connection it is serving, if any
    seen,      \* connection -> now_str of atomically_consume_request
    answer,    \* connection -> {} (rejection) or {row} (ok response)
    cstate,    \* call -> idle, waiting, granted, rejected or failed
    cdoc,      \* call -> the document it sends, fixed
    attempt,   \* call -> connection number in use
    receipt,   \* call -> {} or the row its receipt was built from
    lstate,    \* local consumer -> idle, verified, consumed or refused
    lclaim     \* local consumer -> what it claims, fixed

store    == <<status, rows>>
serving  == <<stage, busy, seen, answer>>
calls    == <<cstate, cdoc, attempt, receipt>>
locals   == <<lstate, lclaim>>
vars     == <<clock, status, rows, stage, busy, seen, answer,
              cstate, cdoc, attempt, receipt, lstate, lclaim>>

StatusValues == {"absent", "approved", "consumed", "expired", "legacy-untrusted"}

StageValues == {"none", "queued", "verify", "recheck", "sample",
                "commit", "reply", "answered", "closed"}

\* The store as a constructor finds it: rows migrated from an unsigned
\* database are legacy-untrusted, every other authorization is yet to come.
\* Two calls may carry one request_id: the client draws a fresh UUID, but the
\* authority must also withstand a peer that sends a used one again.
Init ==
    /\ clock = 0
    /\ status \in [Auths -> {"absent", "legacy-untrusted"}]
    /\ rows = {}
    /\ stage = [c \in Conns |-> "none"]
    /\ busy = [h \in Authorities |-> {}]
    /\ seen = [c \in Conns |-> 0]
    /\ answer = [c \in Conns |-> {}]
    /\ cstate = [k \in Calls |-> "idle"]
    /\ cdoc \in [Calls -> Documents]
    /\ attempt = [k \in Calls |-> 1]
    /\ receipt = [k \in Calls |-> {}]
    /\ lstate = [l \in Locals |-> "idle"]
    /\ lclaim \in [Locals -> LocalClaims]

----------------------------------------------------------------------------
\* Environment

Tick ==
    /\ clock < MaxTime
    /\ clock' = clock + 1
    /\ UNCHANGED <<store, serving, calls, locals>>

\* The primary key refuses a second envelope under the same identifier.
StoreAuthorization(a) ==
    /\ status[a] = "absent"
    /\ status' = [status EXCEPT ![a] = "approved"]
    /\ UNCHANGED <<clock, rows, serving, calls, locals>>

----------------------------------------------------------------------------
\* Operators shared by the authority and the local consumers

Bindings(d) == [doc |-> d, auth |-> d.auth, snap |-> SnapshotOf[d.plan], worker |-> d.worker]

\* Mutant: the request digest is left out of the comparison.
MatchesNoDigest(r, d) ==
    /\ r.doc.rid = d.rid
    /\ r.auth = d.auth
    /\ r.snap = SnapshotOf[d.plan]
    /\ r.worker = d.worker

\* _assert_matching_consumption: every binding of the row, digest included.
Matches(r, d) ==
    /\ r.doc = Bindings(d).doc
    /\ r.auth = Bindings(d).auth
    /\ r.snap = Bindings(d).snap
    /\ r.worker = Bindings(d).worker

\* SELECT * FROM approval_consumptions WHERE request_id = ?
RowsFor(rid) == {r \in rows : r.doc.rid = rid}

InWindow(a, t) == Envelope[a].issued <= t /\ t < Envelope[a].expiry

\* get_authorization followed by verify_execution_authorization.
Verifies(a, p, w) ==
    /\ status[a] = "approved"
    /\ a \in Trusted
    /\ InWindow(a, clock)
    /\ Envelope[a].snap = SnapshotOf[p]
    /\ Envelope[a].worker = w

----------------------------------------------------------------------------
\* The authority: one connection at a time, in serve_forever order

Doc(c) == cdoc[c[1]]

At(h, c, s) == c \in busy[h] /\ stage[c] = s

Goto(c, s) == stage' = [stage EXCEPT ![c] = s]

\* The handler leaves consume_document with this response in hand.
Respond(c, response) ==
    /\ Goto(c, "reply")
    /\ answer' = [answer EXCEPT ![c] = response]
    /\ seen' = [seen EXCEPT ![c] = 0]

\* Connections end and whatever they carried is gone.
Close(C) ==
    /\ stage' = [c \in Conns |-> IF c \in C THEN "closed" ELSE stage[c]]
    /\ answer' = [c \in Conns |-> IF c \in C THEN {} ELSE answer[c]]

\* The outcome of one assert_protected_owner, which depends on files that
\* other processes may change at any time.
OwnerChecks == IF StoreFaults THEN BOOLEAN ELSE {TRUE}

\* accept, _read_json_line, assert_ready with the document checks, and the
\* first get_matching_consumption.
Accept(h, c) ==
    LET d == Doc(c)
        prior == RowsFor(d.rid)
    IN  /\ stage[c] = "queued"
        /\ busy[h] = {}
        /\ busy' = [busy EXCEPT ![h] = {c}]
        /\ \E ownerOk \in OwnerChecks :
            LET accepted == ownerOk /\ d.worker = AuthorityWorker[h]
            IN  \/ /\ ~accepted
                   /\ Respond(c, {})
                \/ /\ accepted
                   /\ prior = {}
                   /\ Goto(c, "verify")
                   /\ UNCHANGED <<answer, seen>>
                \/ /\ accepted
                   /\ prior # {}
                   /\ Respond(c, {r \in prior : Matches(r, d)})
        /\ UNCHANGED <<clock, store, calls, locals>>

Verify(h, c) ==
    LET d == Doc(c)
    IN  /\ At(h, c, "verify")
        /\ Goto(c, IF Verifies(d.auth, d.plan, d.worker) THEN "sample" ELSE "recheck")
        /\ UNCHANGED <<clock, store, busy, seen, answer, calls, locals>>

\* Mutant: a failed verification rejects without looking for a prior row.
RecheckNothing(h, c) ==
    /\ At(h, c, "recheck")
    /\ Respond(c, {})
    /\ UNCHANGED <<clock, store, busy, calls, locals>>

\* The except branch: only an exact, durably recorded retry is recovered.
Recheck(h, c) ==
    LET d == Doc(c)
    IN  /\ At(h, c, "recheck")
        /\ Respond(c, {r \in RowsFor(d.rid) : Matches(r, d)})
        /\ UNCHANGED <<clock, store, busy, calls, locals>>

\* now_str is read before BEGIN IMMEDIATE, so before any wait for the lock.
Sample(h, c) ==
    /\ At(h, c, "sample")
    /\ seen' = [seen EXCEPT ![c] = clock]
    /\ Goto(c, "commit")
    /\ UNCHANGED <<clock, store, busy, answer, calls, locals>>

\* BEGIN IMMEDIATE does not get the write lock within the busy timeout.
LockTimeout(h, c) ==
    /\ StoreFaults
    /\ At(h, c, "commit")
    /\ Respond(c, {})
    /\ UNCHANGED <<clock, store, busy, calls, locals>>

\* The transaction of atomically_consume_request, by outcome.
CommitPrior(h, c) ==
    LET d == Doc(c)
        prior == RowsFor(d.rid)
    IN  /\ At(h, c, "commit")
        /\ prior # {}
        /\ Respond(c, {r \in prior : Matches(r, d)})
        /\ UNCHANGED <<clock, store, busy, calls, locals>>

\* What the transaction checks once no row carries the request_id.
Consumable(d, t) ==
    /\ status[d.auth] = "approved"
    /\ Envelope[d.auth].worker = d.worker
    /\ Envelope[d.auth].issued <= t

CommitRefuse(h, c) ==
    LET d == Doc(c)
    IN  /\ At(h, c, "commit")
        /\ RowsFor(d.rid) = {}
        /\ ~Consumable(d, seen[c])
        /\ Respond(c, {})
        /\ UNCHANGED <<clock, store, busy, calls, locals>>

\* Mutant: the UPDATE to expired does not look at the current status.
CommitExpireBlind(h, c) ==
    LET d == Doc(c)
    IN  /\ At(h, c, "commit")
        /\ RowsFor(d.rid) = {}
        /\ seen[c] >= Envelope[d.auth].expiry
        /\ status' = [status EXCEPT ![d.auth] = "expired"]
        /\ Respond(c, {})
        /\ UNCHANGED <<clock, rows, busy, calls, locals>>

CommitExpire(h, c) ==
    LET d == Doc(c)
    IN  /\ At(h, c, "commit")
        /\ RowsFor(d.rid) = {}
        /\ Consumable(d, seen[c])
        /\ seen[c] >= Envelope[d.auth].expiry
        /\ \E ownerOk \in OwnerChecks :
            status' = IF ownerOk THEN [status EXCEPT ![d.auth] = "expired"] ELSE status
        /\ Respond(c, {})
        /\ UNCHANGED <<clock, rows, busy, calls, locals>>

NewRow(d, t) ==
    [doc |-> d, auth |-> d.auth, snap |-> Envelope[d.auth].snap, worker |-> d.worker, at |-> t]

\* Mutant: the last valid second is one too late.
CommitConsumeLate(h, c) ==
    LET d == Doc(c)
        row == NewRow(d, seen[c])
    IN  /\ At(h, c, "commit")
        /\ RowsFor(d.rid) = {}
        /\ Consumable(d, seen[c])
        /\ seen[c] <= Envelope[d.auth].expiry
        /\ status' = [status EXCEPT ![d.auth] = "consumed"]
        /\ rows' = rows \cup {row}
        /\ Respond(c, {row})
        /\ UNCHANGED <<clock, busy, calls, locals>>

\* Mutant: the response is prepared before the commit and sent even when the
\* transaction rolls back.
CommitConsumeAckFirst(h, c) ==
    LET d == Doc(c)
        row == NewRow(d, seen[c])
    IN  /\ At(h, c, "commit")
        /\ RowsFor(d.rid) = {}
        /\ Consumable(d, seen[c])
        /\ seen[c] < Envelope[d.auth].expiry
        /\ Respond(c, {row})
        /\ \/ /\ status' = [status EXCEPT ![d.auth] = "consumed"]
              /\ rows' = rows \cup {row}
           \/ FALSE \in OwnerChecks /\ UNCHANGED store
        /\ UNCHANGED <<clock, busy, calls, locals>>

\* UPDATE and INSERT; the UNIQUE authorization_id or a failed ownership check
\* rolls both back.
CommitConsume(h, c) ==
    LET d == Doc(c)
        row == NewRow(d, seen[c])
        unique == \A r \in rows : r.auth # d.auth
    IN  /\ At(h, c, "commit")
        /\ RowsFor(d.rid) = {}
        /\ Consumable(d, seen[c])
        /\ seen[c] < Envelope[d.auth].expiry
        /\ \/ /\ unique
              /\ status' = [status EXCEPT ![d.auth] = "consumed"]
              /\ rows' = rows \cup {row}
              /\ Respond(c, {row})
           \/ /\ ~unique \/ FALSE \in OwnerChecks
              /\ Respond(c, {})
              /\ UNCHANGED store
        /\ UNCHANGED <<clock, busy, calls, locals>>

\* Mutant: a failed write leaves the handler holding the dead connection.
ReplyKeepsConnection(h, c) ==
    /\ At(h, c, "reply")
    /\ \/ /\ Goto(c, "answered")
          /\ busy' = [busy EXCEPT ![h] = {}]
          /\ UNCHANGED answer
       \/ Close({c}) /\ UNCHANGED busy
    /\ UNCHANGED <<clock, store, seen, calls, locals>>

\* The response is written, or the connection deadline or the peer's departure
\* makes the write fail; serve_forever goes on either way.
Reply(h, c) ==
    /\ At(h, c, "reply")
    /\ \/ /\ Goto(c, "answered")
          /\ UNCHANGED answer
       \/ Close({c})
    /\ busy' = [busy EXCEPT ![h] = {}]
    /\ UNCHANGED <<clock, store, seen, calls, locals>>

\* The process dies; its connection ends without a complete response.
Crash(h) ==
    /\ busy[h] # {}
    /\ Close(busy[h])
    /\ seen' = [c \in Conns |-> IF c \in busy[h] THEN 0 ELSE seen[c]]
    /\ busy' = [busy EXCEPT ![h] = {}]
    /\ UNCHANGED <<clock, store, calls, locals>>

\* A connection that no authority ever accepts: refused, or lost with the
\* listener's backlog.
Unreachable(c) ==
    /\ stage[c] = "queued"
    /\ Close({c})
    /\ UNCHANGED <<clock, store, busy, seen, calls, locals>>

Authority(h) ==
    \/ \E c \in Conns :
        \/ Accept(h, c) \/ Verify(h, c) \/ Recheck(h, c)
        \/ Sample(h, c) \/ LockTimeout(h, c) \/ CommitPrior(h, c)
        \/ CommitRefuse(h, c) \/ CommitExpire(h, c) \/ CommitConsume(h, c)
        \/ Reply(h, c)
    \/ Crash(h)

----------------------------------------------------------------------------
\* The client: consume_authorization

Start(k) ==
    /\ cstate[k] = "idle"
    /\ cstate' = [cstate EXCEPT ![k] = "waiting"]
    /\ Goto(<<k, 1>>, "queued")
    /\ UNCHANGED <<clock, store, busy, seen, answer, cdoc, attempt, receipt, locals>>

\* assert_ready refuses the socket before anything is sent.
NotReady(k) ==
    /\ cstate[k] = "idle"
    /\ cstate' = [cstate EXCEPT ![k] = "failed"]
    /\ UNCHANGED <<clock, store, serving, cdoc, attempt, receipt, locals>>

\* Mutant: the retries are not counted.
TransportErrorForever(k) ==
    /\ cstate[k] = "waiting"
    /\ Goto(<<k, 1>>, "queued")
    /\ answer' = [answer EXCEPT ![<<k, 1>>] = {}]
    /\ UNCHANGED <<clock, store, busy, seen, cstate, cdoc, attempt, receipt, locals>>

\* Timeout or end of stream before a complete response.  The first one sends
\* the same document again, the second one gives up.  The authority may still
\* have the abandoned connection in its backlog or in service.
TransportError(k) ==
    /\ cstate[k] = "waiting"
    /\ \/ /\ attempt[k] = 1
          /\ attempt' = [attempt EXCEPT ![k] = 2]
          /\ stage' = [stage EXCEPT ![<<k, 1>>] = IF @ = "answered" THEN "closed" ELSE @,
                                    ![<<k, 2>>] = "queued"]
          /\ answer' = [answer EXCEPT ![<<k, 1>>] = IF stage[<<k, 1>>] = "answered" THEN {} ELSE @]
          /\ UNCHANGED cstate
       \/ /\ attempt[k] = 2
          /\ cstate' = [cstate EXCEPT ![k] = "failed"]
          /\ stage' = [stage EXCEPT ![<<k, 2>>] = IF @ = "answered" THEN "closed" ELSE @]
          /\ answer' = [answer EXCEPT ![<<k, 2>>] = IF stage[<<k, 2>>] = "answered" THEN {} ELSE @]
          /\ UNCHANGED attempt
    /\ UNCHANGED <<clock, store, busy, seen, cdoc, receipt, locals>>

\* The response checks of consume_authorization.
ResponseAccepted(k, r) ==
    LET d == cdoc[k]
    IN  /\ r.doc.rid = d.rid
        /\ r.auth = d.auth
        /\ r.snap = SnapshotOf[d.plan]
        /\ r.worker = d.worker

Receive(k) ==
    LET c == <<k, attempt[k]>>
        good == {r \in answer[c] : ResponseAccepted(k, r)}
    IN  /\ cstate[k] = "waiting"
        /\ stage[c] = "answered"
        /\ cstate' = [cstate EXCEPT ![k] = IF good = {} THEN "rejected" ELSE "granted"]
        /\ receipt' = [receipt EXCEPT ![k] = good]
        /\ Close({c})
        /\ UNCHANGED <<clock, store, busy, seen, cdoc, attempt, locals>>

Client(k) == Start(k) \/ NotReady(k) \/ TransportError(k) \/ Receive(k)

----------------------------------------------------------------------------
\* Local consumers: verify, then atomically_consume

LocalVerify(l) ==
    LET m == lclaim[l]
    IN  /\ lstate[l] = "idle"
        /\ lstate' = [lstate EXCEPT ![l] =
              IF Verifies(m.auth, m.plan, m.worker) THEN "verified" ELSE "refused"]
        /\ UNCHANGED <<clock, store, serving, calls, lclaim>>

\* Mutant: the UPDATE of atomically_consume does not require status 'approved'.
LocalConsumeBlind(l) ==
    /\ lstate[l] = "verified"
    /\ clock < Envelope[lclaim[l].auth].expiry
    /\ status' = [status EXCEPT ![lclaim[l].auth] = "consumed"]
    /\ lstate' = [lstate EXCEPT ![l] = "consumed"]
    /\ UNCHANGED <<clock, rows, serving, calls, lclaim>>

\* Time is observed under the write lock here.
LocalConsume(l) ==
    LET m == lclaim[l]
        e == Envelope[m.auth]
        consumable == status[m.auth] = "approved" /\ e.worker = m.worker /\ e.issued <= clock
    IN  /\ lstate[l] = "verified"
        /\ \/ /\ consumable
              /\ clock >= e.expiry
              /\ status' = [status EXCEPT ![m.auth] = "expired"]
              /\ lstate' = [lstate EXCEPT ![l] = "refused"]
           \/ /\ consumable
              /\ clock < e.expiry
              /\ e.expiry >= clock + MinRemaining
              /\ status' = [status EXCEPT ![m.auth] = "consumed"]
              /\ lstate' = [lstate EXCEPT ![l] = "consumed"]
           \/ /\ ~consumable \/ (clock < e.expiry /\ e.expiry < clock + MinRemaining)
              /\ lstate' = [lstate EXCEPT ![l] = "refused"]
              /\ UNCHANGED status
        /\ UNCHANGED <<clock, rows, serving, calls, lclaim>>

Local(l) == LocalVerify(l) \/ LocalConsume(l)

----------------------------------------------------------------------------

Next ==
    \/ Tick
    \/ \E a \in Auths : StoreAuthorization(a)
    \/ \E h \in Authorities : Authority(h)
    \/ \E c \in Conns : Unreachable(c)
    \/ \E k \in Calls : Client(k)
    \/ \E l \in Locals : Local(l)

Spec == Init /\ [][Next]_vars

\* Every step of a request in service ends: socket operations share one total
\* deadline and the lock wait is bounded by busy_timeout.  A waiting client has
\* a socket timeout.  Nothing else is owed: not a start, not a crash.
Serve(h) ==
    \E c \in Conns :
        \/ Verify(h, c) \/ Recheck(h, c) \/ Sample(h, c)
        \/ LockTimeout(h, c) \/ CommitPrior(h, c) \/ CommitRefuse(h, c)
        \/ CommitExpire(h, c) \/ CommitConsume(h, c) \/ Reply(h, c)

Fairness ==
    /\ \A h \in Authorities : WF_vars(Serve(h))
    /\ \A k \in Calls : WF_vars(TransportError(k) \/ Receive(k))

LiveSpec == Spec /\ Fairness

----------------------------------------------------------------------------
\* Properties

TypeOK ==
    /\ clock \in 0..MaxTime
    /\ status \in [Auths -> StatusValues]
    /\ rows \subseteq Rows
    /\ stage \in [Conns -> StageValues]
    /\ busy \in [Authorities -> SUBSET Conns]
    /\ seen \in [Conns -> Nat]
    /\ answer \in [Conns -> SUBSET Rows]
    /\ cstate \in [Calls -> {"idle", "waiting", "granted", "rejected", "failed"}]
    /\ cdoc \in [Calls -> Documents]
    /\ attempt \in [Calls -> 1..2]
    /\ receipt \in [Calls -> SUBSET Rows]
    /\ lstate \in [Locals -> {"idle", "verified", "consumed", "refused"}]
    /\ lclaim \in [Locals -> LocalClaims]

LocallyConsumed(a) == \E l \in Locals : lstate[l] = "consumed" /\ lclaim[l].auth = a

\* An authorization is consumed at most once over every path to the store: no
\* two receipts rows for one authorization or one request_id, no two local
\* consumers, and never one of each (atomically_consume_request against
\* atomically_consume).
SingleUse ==
    /\ \A r1, r2 \in rows : (r1.auth = r2.auth \/ r1.doc.rid = r2.doc.rid) => r1 = r2
    /\ \A l1, l2 \in Locals :
        (lstate[l1] = "consumed" /\ lstate[l2] = "consumed" /\ lclaim[l1].auth = lclaim[l2].auth)
            => l1 = l2
    /\ \A r \in rows : ~LocallyConsumed(r.auth)

\* approvals.status and the claims agree at every commit: consumed exactly
\* when a receipt row or a local consumer holds the authorization, so neither
\* half of the two-table transaction is ever visible alone.
StatusMatchesClaims ==
    \A a \in Auths :
        status[a] = "consumed" <=> ((\E r \in rows : r.auth = a) \/ LocallyConsumed(a))

\* Every receipt row binds exactly what the operator signed: a trusted
\* envelope, the snapshot of the plan in the request, the worker that sent it,
\* and a consumption time inside the signed window and not in the future.
RowsBindEnvelope ==
    \A r \in rows :
        /\ r.auth = r.doc.auth
        /\ r.auth \in Trusted
        /\ r.snap = Envelope[r.auth].snap
        /\ r.snap = SnapshotOf[r.doc.plan]
        /\ r.worker = Envelope[r.auth].worker
        /\ r.worker = r.doc.worker
        /\ InWindow(r.auth, r.at)
        /\ r.at <= clock

\* A client that returns a receipt holds the durable row of its own document,
\* whichever attempt was answered and whatever was lost before.
GrantedIsDurable ==
    \A k \in Calls :
        cstate[k] = "granted" =>
            \E r \in rows : receipt[k] = {r} /\ r.doc = cdoc[k]

\* What is in flight is sound: a request past verification verified against
\* the signed envelope and holds no time later than now, and every response on
\* its way and every receipt held is a durable row of the document it answers.
InFlightSound ==
    /\ \A c \in Conns :
        /\ stage[c] \in {"sample", "commit"} =>
            /\ Doc(c).auth \in Trusted
            /\ Envelope[Doc(c).auth].snap = SnapshotOf[Doc(c).plan]
            /\ Envelope[Doc(c).auth].worker = Doc(c).worker
        /\ seen[c] <= clock
        /\ \A r \in answer[c] : r \in rows /\ r.doc = Doc(c)
    /\ \A k \in Calls :
        /\ \A r \in receipt[k] : r \in rows /\ r.doc = cdoc[k]
        /\ cstate[k] = "granted" => receipt[k] # {}

\* Two holders of one authorization are the same request: calls that are both
\* granted sent identical documents, and no call is granted what a local
\* consumer took.
HoldersAgree ==
    /\ \A k1, k2 \in Calls :
        (cstate[k1] = "granted" /\ cstate[k2] = "granted" /\ cdoc[k1].auth = cdoc[k2].auth)
            => cdoc[k1] = cdoc[k2]
    /\ \A k \in Calls : cstate[k] = "granted" => ~LocallyConsumed(cdoc[k].auth)

\* No step takes an authorization back to approved, revives an expired or
\* legacy one, or changes or removes a receipt row (there is no DELETE and no
\* UPDATE of approval_consumptions).
FinalStep ==
    /\ rows \subseteq rows'
    /\ \A a \in Auths :
        /\ status[a] \in {"consumed", "expired", "legacy-untrusted"} => status'[a] = status[a]
        /\ status[a] = "approved" => status'[a] \in {"approved", "consumed", "expired"}

ClaimsAreFinal == [][FinalStep]_vars

\* Once the exact row of a document is durable, an authority of that worker
\* never turns away a connection carrying the document, however its lookups and
\* another connection's commit interleave.  Only a failed ownership check or a
\* lock timeout could, so this is checked without StoreFaults.
RetryStep ==
    \A c \in Conns :
        (\E r \in rows : r.doc = Doc(c)) /\ stage[c] # "reply" /\ stage'[c] = "reply"
            => \/ answer'[c] # {}
               \/ \E h \in Authorities : c \in busy'[h] /\ AuthorityWorker[h] # Doc(c).worker

ExactRetryAnswered == [][RetryStep]_vars

\* A serial authority always gets back to accept: no connection pins it.
AuthorityReturns == \A h \in Authorities : busy[h] # {} ~> busy[h] = {}

\* consume_authorization returns or raises, whatever happens to its requests.
CallsTerminate ==
    \A k \in Calls : cstate[k] = "waiting" ~> cstate[k] \in {"granted", "rejected", "failed"}

\* The composition implements the abstract one-time grant: the status column
\* gives the phase, the receipt rows and the local consumers the claimant on
\* record, the granted calls and the local consumers the deliveries.
PhaseOf(s) ==
    CASE s = "absent" -> "none"
      [] s = "legacy-untrusted" -> "untrusted"
      [] s = "approved" -> "issued"
      [] s = "consumed" -> "claimed"
      [] s = "expired" -> "expired"

GrantPhase == [a \in Auths |-> PhaseOf(status[a])]

GrantWinner ==
    [a \in Auths |->
        {<<"request", r.doc>> : r \in {q \in rows : q.auth = a}}
          \cup {<<"local", l>> : l \in {m \in Locals : lstate[m] = "consumed" /\ lclaim[m].auth = a}}]

GrantDelivered ==
    {<<cdoc[k].auth, <<"request", cdoc[k]>>>> : k \in {j \in Calls : cstate[j] = "granted"}}
      \cup {<<lclaim[l].auth, <<"local", l>>>> : l \in {m \in Locals : lstate[m] = "consumed"}}

Grant == INSTANCE OneTimeGrant WITH
    Grants <- Auths,
    Claimants <- ({"request"} \X Documents) \cup ({"local"} \X Locals),
    phase <- GrantPhase,
    winner <- GrantWinner,
    delivered <- GrantDelivered

\* Refinement: every step is a step of OneTimeGrant or leaves it unchanged.
ImplementsOneTimeGrant == Grant!GrantSpec
====
