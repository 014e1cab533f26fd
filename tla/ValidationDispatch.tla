---- MODULE ValidationDispatch ----
(***************************************************************************)
(* Dispatch of service validation actions over the assessment budget       *)
(* (execute_service_validation_action in                                   *)
(* cops/discovery/service_validation_execution.py).                        *)
(*                                                                         *)
(* Calls run in any number of processes over one ledger.  A call holds no  *)
(* lock between its ledger transactions, so other calls, cancellation and  *)
(* a restart come in between.  A ledger operation may be denied, may fail  *)
(* before its commit, or may fail after it; the call learns only that it   *)
(* raised.  Observe covers a denial and a transaction that is lost.  The   *)
(* gate, the provider and the verifier are the caller's.                   *)
(*                                                                         *)
(* stage[c] is the statement call c is about to run, verdict[c] what it    *)
(* will return ("raised": an exception leaves the call).                   *)
(***************************************************************************)
EXTENDS AssessmentBudget

CONSTANTS
    Calls,     \* invocations of execute_service_validation_action
    RequestOf, \* call -> its AttemptRequest
    Proof,     \* calls whose action is controlled_proof
    Held,      \* call -> {} or the prerequisite receipt it was handed
    Grants     \* call -> approvals that bind its plan, endpoint, action and attempt

ASSUME CallAssumption ==
    /\ RequestOf \in [Calls -> Requests]
    /\ Proof \subseteq Calls
    /\ Held \in [Calls -> Optional(Prerequisites)]
    /\ Grants \in [Calls -> SUBSET Approvals]

VARIABLES
    stage,     \* call -> the statement it is about to run
    verdict,   \* call -> the status it returns
    approval,  \* call -> {} or the approval it accepted
    filing,    \* call -> {} or the receipt and prerequisite it reconciles
    asked,     \* calls that consulted their authorization gate
    probed     \* calls that invoked their provider

callVars == <<stage, verdict, approval, filing, asked, probed>>
allVars == <<vars, callVars>>

Stages == {"idle", "reserve", "gate", "release", "mark", "check", "undo",
           "provider", "verify", "settle", "durable", "doubt", "done", "crashed"}

Undispatched == {"blocked_selection", "provider_unavailable", "blocked_prerequisite",
                 "budget_denied", "authorization_error", "authorization_denied",
                 "dispatch_error"}

Conclusive == {"completed", "insufficient_evidence"}

Verdicts == Undispatched \cup Conclusive \cup {"none", "dispatch_uncertain", "raised"}

DispatchInit ==
    /\ Init
    /\ stage = [c \in Calls |-> "idle"]
    /\ verdict = [c \in Calls |-> "none"]
    /\ approval = [c \in Calls |-> {}]
    /\ filing = [c \in Calls |-> {}]
    /\ asked = {}
    /\ probed = {}

AttemptOf(c) == RequestOf[c].id

Consumed(c) == IF c \in Proof THEN Held[c] ELSE {}

\* Call c moves on to statement s, to return v in the end.
Go(c, s, v) ==
    /\ stage' = [stage EXCEPT ![c] = s]
    /\ verdict' = [verdict EXCEPT ![c] = v]

Return(c, v) == Go(c, "done", v)

----------------------------------------------------------------------------
\* Before the reservation

\* The checks that touch nothing: retained bounds, selection, adapters, and a
\* controlled proof's prerequisite receipt.
Preflight(c) ==
    /\ stage[c] = "idle"
    /\ \/ \E v \in {"raised", "blocked_selection", "provider_unavailable"} : Return(c, v)
       \/ c \in Proof /\ Return(c, "blocked_prerequisite")
       \/ (c \in Proof => Held[c] # {}) /\ Go(c, "reserve", "none")
    /\ UNCHANGED <<vars, approval, filing, asked, probed>>

\* What the totals checked after reserve's INSERT would be.
Room(S, l, r) ==
    /\ Cardinality(S \cap Charged) < l.attempts
    /\ Cardinality(S \cap Active) < l.concurrency
    /\ ChargedTokens(S) + r.tokens <= l.tokens
    /\ ChargedOutput(S) + r.output <= l.output

Admitted(r, now) ==
    /\ Admissible(r, Inherited(r), now)
    /\ Room(Attempts, Policy, r)
    /\ Room({}, Inherited(r), r)
    /\ \A b \in Ancestry(r) : Room(Subtree(b), limits[b], r)

\* A row that is still reserved for an equal request is what reserve returns
\* for it, so the call goes on; nothing tells the two apart.
Fresh(r) == state[r.id] = "reserved" /\ request[r.id] = r

ReserveAttempt(c, now) ==
    LET r == RequestOf[c]
    IN  /\ stage[c] = "reserve"
        /\ \/ Reserve(r, Inherited(r), now) /\ (Go(c, "gate", "none") \/ Return(c, "raised"))
           \/ /\ Observe(now)
              /\ \/ Fresh(r) /\ Go(c, "gate", "none")
                 \/ /\ IF state[r.id] = "absent" THEN ~Admitted(r, now) ELSE ~Fresh(r)
                    /\ Return(c, "budget_denied")
                 \/ Return(c, "raised")
        /\ UNCHANGED <<approval, filing, asked, probed>>

----------------------------------------------------------------------------
\* Authorization

\* The executor's own window check includes the instant of expiry, which
\* mark_dispatched does not.
ExactApproval(c, x, now) ==
    /\ x \in Grants[c]
    /\ Window[x].issued < Window[x].expires
    /\ Window[x].issued <= now /\ now <= Window[x].expires

\* The gate raises, is interrupted, or returns something.
Gate(c, now) ==
    /\ stage[c] = "gate"
    /\ now >= seen
    /\ asked' = asked \cup {c}
    /\ \/ \E v \in {"authorization_error", "raised", "authorization_denied"} :
              Go(c, "release", v) /\ UNCHANGED approval
       \/ \E x \in Approvals :
              /\ ExactApproval(c, x, now)
              /\ approval' = [approval EXCEPT ![c] = {x}]
              /\ Go(c, "mark", "none")
    /\ UNCHANGED <<vars, filing, probed>>

\* release_undispatched after the gate: a denial or a store failure leaves the
\* call.
ReleaseReservation(c, now) ==
    LET a == AttemptOf(c)
    IN  /\ stage[c] = "release"
        /\ \/ ReleaseUndispatched(a, now) /\ \E v \in {verdict[c], "raised"} : Return(c, v)
           \/ Observe(now) /\ Return(c, "raised")
        /\ UNCHANGED <<approval, filing, asked, probed>>

----------------------------------------------------------------------------
\* Dispatch intent

\* Mutant: an intent that cannot be confirmed is dispatched all the same.
MarkAttemptOptimistic(c, now) ==
    LET a == AttemptOf(c)
        X == approval[c]
    IN  /\ stage[c] = "mark"
        /\ \/ MarkDispatched(a, X, Consumed(c), now) /\ Go(c, "provider", "none")
           \/ Observe(now) /\ Go(c, "provider", "none")
        /\ UNCHANGED <<approval, filing, asked, probed>>

\* mark_dispatched returns, or it raises: denied, or with its transaction
\* committed or lost.  An interrupt takes the same path and is raised again.
MarkAttempt(c, now) ==
    LET a == AttemptOf(c)
        X == approval[c]
        P == Consumed(c)
    IN  /\ stage[c] = "mark"
        /\ \/ /\ MarkDispatched(a, X, P, now)
              /\ Go(c, "provider", "none") \/ \E v \in {"none", "raised"} : Go(c, "check", v)
           \/ Observe(now) /\ \E v \in {"none", "raised"} : Go(c, "check", v)
        /\ UNCHANGED <<approval, filing, asked, probed>>

\* get_attempt decides what the failure means; a failed read counts as a
\* dispatch.
CheckAttempt(c, now) ==
    LET Verdict(v) == IF verdict[c] = "raised" THEN "raised" ELSE v
    IN  /\ stage[c] = "check"
        /\ Observe(now)
        /\ \/ /\ state[AttemptOf(c)] = "reserved"
              /\ Go(c, "undo", Verdict(IF c \in Proof THEN "blocked_prerequisite"
                                                     ELSE "dispatch_error"))
           \/ Go(c, "doubt", Verdict("dispatch_uncertain"))
        /\ UNCHANGED <<approval, filing, asked, probed>>

Releasable(a) ==
    /\ state[a] \in {"reserved", "released"}
    /\ \A b \in Subtree(a) \ {a} : state[b] = "released"

\* release_undispatched after a failed intent: a denial is swallowed.
Undo(c, now) ==
    LET a == AttemptOf(c)
    IN  /\ stage[c] = "undo"
        /\ \/ ReleaseUndispatched(a, now) /\ \E v \in {verdict[c], "raised"} : Return(c, v)
           \/ Observe(now) /\ (Return(c, "raised") \/ (~Releasable(a) /\ Return(c, verdict[c])))
        /\ UNCHANGED <<approval, filing, asked, probed>>

\* mark_uncertain wherever a dispatch is in doubt: a denial is swallowed, a
\* store failure is not.
Doubt(c, now) ==
    LET a == AttemptOf(c)
    IN  /\ stage[c] = "doubt"
        /\ \/ MarkUncertain(a, now) /\ \E v \in {verdict[c], "raised"} : Return(c, v)
           \/ /\ Observe(now)
              /\ \/ Return(c, "raised")
                 \/ state[a] \notin {"dispatched", "uncertain"} /\ Return(c, verdict[c])
        /\ UNCHANGED <<approval, filing, asked, probed>>

----------------------------------------------------------------------------
\* Provider, verifier and settlement

\* The provider returns a well-formed bounded output, or it raises, is
\* interrupted, or returns something malformed or over its bound.
Provider(c) ==
    /\ stage[c] = "provider"
    /\ probed' = probed \cup {c}
    /\ \/ Go(c, "verify", "none")
       \/ \E v \in {"dispatch_uncertain", "raised"} : Go(c, "doubt", v)
    /\ UNCHANGED <<vars, approval, filing, asked>>

\* The receipt's identifier is derived from the attempt, its usage is known
\* and its output is the canonical size of a result that fits the reservation.
Filings(c, v) ==
    {[receipt |-> r, establishes |-> P] :
        r \in {s \in Receipts : /\ s.attempt = AttemptOf(c) /\ s.id = AttemptOf(c)
                                /\ Known(s) /\ s.usage.output <= RequestOf[c].output
                                /\ s.outcome = IF v = "completed" THEN "completed" ELSE "failed"},
        P \in IF v = "completed" /\ c \notin Proof THEN Optional(Prerequisites) ELSE {{}}}

\* Evidence that is not bound to the dispatch, an unexpected effect, a missing
\* cleanup or an oversized result leaves the attempt in doubt.
Verify(c) ==
    /\ stage[c] = "verify"
    /\ \/ \E v \in {"dispatch_uncertain", "raised"} : Go(c, "doubt", v) /\ UNCHANGED filing
       \/ \E v \in Conclusive : \E f \in Filings(c, v) :
              filing' = [filing EXCEPT ![c] = {f}] /\ Go(c, "settle", v)
    /\ UNCHANGED <<vars, approval, asked, probed>>

\* reconcile stores the receipt or raises; it may be stored although it raised.
Settle(c, now) ==
    \E f \in filing[c] :
        /\ stage[c] = "settle"
        /\ \/ /\ Reconcile(f.receipt, f.establishes, now)
              /\ \/ Return(c, verdict[c])
                 \/ \E v \in {verdict[c], "raised"} : Go(c, "durable", v)
           \/ Observe(now) /\ \E v \in {verdict[c], "raised"} : Go(c, "durable", v)
        /\ UNCHANGED <<approval, filing, asked, probed>>

\* reconciliation_is_durable: the exact receipt, the row it left, and its
\* prerequisite still unconsumed.
Durable(f) ==
    LET r == f.receipt
    IN  /\ r \in receipts
        /\ state[r.attempt] = IF Known(r) THEN "settled" ELSE "usage_unknown"
        /\ used[r.attempt] = r.usage
        /\ outcome[r.attempt] = r.outcome
        /\ IF f.establishes = {}
           THEN \A q \in prereqs : q.source # r.attempt
           ELSE \A p \in f.establishes :
                    /\ [prerequisite |-> p, source |-> r.attempt] \in prereqs
                    /\ consumer[p.id] = {}

\* Mutant: what is not found is assumed to be stored.
RecoverTrusting(c) ==
    \E f \in filing[c] :
        /\ stage[c] = "durable"
        /\ Return(c, verdict[c])
        /\ UNCHANGED <<vars, approval, filing, asked, probed>>

\* The read-only check takes no clock reading; a failed read counts as not
\* durable.
Recover(c) ==
    \E f \in filing[c] :
        /\ stage[c] = "durable"
        /\ \/ Durable(f) /\ Return(c, verdict[c])
           \/ Go(c, "doubt", IF verdict[c] = "raised" THEN "raised" ELSE "dispatch_uncertain")
        /\ UNCHANGED <<vars, approval, filing, asked, probed>>

----------------------------------------------------------------------------
\* The rest of the engagement

\* The process running the call dies.
Crash(c) ==
    /\ stage[c] \notin {"idle", "done", "crashed"}
    /\ Go(c, "crashed", verdict[c])
    /\ UNCHANGED <<vars, approval, filing, asked, probed>>

\* Another process cancels the engagement or opens its ledger.
Elsewhere(now) == (Cancel(now) \/ Reopen(now)) /\ UNCHANGED callVars

Step(c) ==
    \/ Preflight(c)
    \/ Provider(c)
    \/ Verify(c)
    \/ Recover(c)
    \/ \E now \in Times :
        \/ ReserveAttempt(c, now)
        \/ Gate(c, now)
        \/ ReleaseReservation(c, now)
        \/ MarkAttempt(c, now)
        \/ CheckAttempt(c, now)
        \/ Undo(c, now)
        \/ Doubt(c, now)
        \/ Settle(c, now)

DispatchNext ==
    \/ \E c \in Calls : Step(c) \/ Crash(c)
    \/ \E now \in Times : Elsewhere(now)

DispatchSpec == DispatchInit /\ [][DispatchNext]_allVars

----------------------------------------------------------------------------
\* Properties

\* Whatever the calls, the failures and the restarts, a provider is invoked at
\* most once per attempt, per approval and per prerequisite: no retry and no
\* second call with the same identifier reaches the target again.
ProviderOnce ==
    \A c, d \in probed : c # d =>
        /\ AttemptOf(c) # AttemptOf(d)
        /\ approval[c] \cap approval[d] = {}
        /\ {p.id : p \in Consumed(c)} \cap {p.id : p \in Consumed(d)} = {}

\* An attempt whose provider is about to be invoked, or ever was, stays charged,
\* with its approval and its prerequisite spent on it: cancellation, release by
\* another call and restart never give it back.
ProbeAccounted ==
    \A c \in Calls :
        stage[c] \in {"provider", "verify", "settle", "durable"} \/ c \in probed =>
            /\ Begun(AttemptOf(c))
            /\ approval[c] # {}
            /\ \A x \in approval[c] : spent[x] = {AttemptOf(c)}
            /\ \A p \in Consumed(c) : consumer[p.id] = {AttemptOf(c)}

\* What a call returns is what happened: a status that says nothing was
\* dispatched follows no provider invocation; a reported status has its exact
\* receipt in the ledger, also when reconcile raised; an uncertain one never
\* leaves a dispatch of this call looking as if it were still running.
HonestVerdict ==
    \A c \in Calls : stage[c] = "done" =>
        /\ verdict[c] \in Undispatched => c \notin probed
        /\ verdict[c] \in Conclusive =>
            /\ c \in probed
            /\ \E f \in filing[c] :
                /\ f.receipt \in receipts
                /\ state[AttemptOf(c)] = "settled"
                /\ \A p \in f.establishes : [prerequisite |-> p, source |-> AttemptOf(c)] \in prereqs
        /\ verdict[c] = "dispatch_uncertain" /\ c \in probed => state[AttemptOf(c)] # "dispatched"

\* docs/SERVICE_VALIDATION_PLAYBOOK.md: "A terminal or reused attempt fails
\* before approval and provider dispatch": no two calls with one attempt
\* identifier both reach their authorization gate.
ReusedAttemptFailsBeforeApproval ==
    \A c, d \in asked : AttemptOf(c) = AttemptOf(d) => c = d
====
