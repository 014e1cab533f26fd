---- MODULE AssessmentBudget ----
(***************************************************************************)
(* The aggregate assessment budget ledger (cops/assessment_budget.py).     *)
(*                                                                         *)
(* AssessmentBudgetLedger runs every operation as one BEGIN IMMEDIATE      *)
(* transaction, so an operation is one step and any number of processes    *)
(* may take them in any order.  A process that dies leaves only what it    *)
(* committed; the next constructor call reopens the ledger.                *)
(*                                                                         *)
(* Times are milliseconds since started_at_ms.  Tokens stand for tokens    *)
(* and for cost, which the code treats alike.                              *)
(***************************************************************************)
EXTENDS Naturals, FiniteSets, FiniteSetsExt

CONSTANTS
    Attempts,      \* attempt_id values
    Requests,      \* AttemptRequest values a controller may pass to reserve
    LimitChoices,  \* BudgetLimits values a controller may pass as child_limits
    Policy,        \* limits of the engagement's policy
    Receipts,      \* Receipt values a controller may reconcile
    Prerequisites, \* validation prerequisite receipts: id and payload
    Approvals,     \* approval_receipt_id values
    Window,        \* approval -> its validity window
    Unknown,       \* None in a usage field
    MaxTime        \* bound on the clock

Limits ==
    [attempts: Nat, tokens: Nat, output: Nat, elapsed: Nat,
     concurrency: Nat, depth: Nat, children: Nat]

\* parent is {} or the set holding the parent_id.
AttemptRequest == [id: Attempts, parent: SUBSET Attempts, tokens: Nat, output: Nat]

Usage == [tokens: Nat \cup {Unknown}, output: Nat \cup {Unknown}]

Outcomes == {"completed", "failed", "cancelled", "runner_stopped", "target_denied"}

\* A prerequisite's identifier is kept apart from its payload: the ledger must
\* tell one identifier with two payloads from an exact repetition.
PrerequisiteIds == {p.id : p \in Prerequisites}

ASSUME BudgetAssumption ==
    /\ IsFiniteSet(Attempts)
    /\ \A r \in Requests :
        /\ r \in AttemptRequest
        /\ r.parent = {} \/ \E p \in Attempts \ {r.id} : r.parent = {p}
    /\ LimitChoices \subseteq Limits
    /\ Policy \in Limits
    /\ \A r \in Receipts : r.attempt \in Attempts /\ r.outcome \in Outcomes /\ r.usage \in Usage
    /\ Window \in [Approvals -> [issued: Nat, expires: Nat]]
    /\ Unknown \notin Nat
    /\ MaxTime \in Nat

VARIABLES
    seen,       \* last_seen_ms
    cancelled,  \* engagement.cancelled
    state,      \* attempt -> its state ("absent": no row)
    request,    \* attempt -> its request
    limits,     \* attempt -> its effective limits
    line,       \* attempt -> its ancestors, fixed with parent_id at insertion
    used,       \* attempt -> the usage last reported
    outcome,    \* attempt -> the outcome last reported
    requested,  \* attempts with cancel_requested
    receipts,   \* the receipts table
    prereqs,    \* validation_prerequisites: prerequisite and source attempt
    consumer,   \* prerequisite id -> {} or the attempt that consumed it
    spent       \* approval -> {} or the attempt it was spent on

rowVars  == <<request, limits, line>>
useVars  == <<used, outcome, receipts>>
preVars  == <<prereqs, consumer, spent>>
vars     == <<seen, cancelled, state, request, limits, line, used, outcome,
              requested, receipts, prereqs, consumer, spent>>

States == {"absent", "reserved", "dispatched", "uncertain", "usage_unknown",
           "settled", "released"}

ActiveStates == {"reserved", "dispatched", "uncertain"}

ChargedStates == ActiveStates \cup {"usage_unknown", "settled"}

NoUsage == [tokens |-> Unknown, output |-> Unknown]

\* A new ledger: the constructor inserts the engagement row.
Init ==
    /\ seen = 0
    /\ cancelled = FALSE
    /\ state = [a \in Attempts |-> "absent"]
    /\ request = [a \in Attempts |-> [id |-> a, parent |-> {}, tokens |-> 0, output |-> 0]]
    /\ limits = [a \in Attempts |-> Policy]
    /\ line = [a \in Attempts |-> {}]
    /\ used = [a \in Attempts |-> NoUsage]
    /\ outcome = [a \in Attempts |-> "none"]
    /\ requested = {}
    /\ receipts = {}
    /\ prereqs = {}
    /\ consumer = [p \in PrerequisiteIds |-> {}]
    /\ spent = [x \in Approvals |-> {}]

----------------------------------------------------------------------------
\* What the rows are charged

Rows == {a \in Attempts : state[a] # "absent"}

Active == {a \in Attempts : state[a] \in ActiveStates}

Charged == {a \in Attempts : state[a] \in ChargedStates}

\* _descends_from: the attempt itself and everything below it.
Subtree(a) == {b \in Rows : b = a \/ a \in line[b]}

\* usage(): a settled attempt is charged what it reported, any other one at
\* least its reservation.
Charge(a, reported, reserved) ==
    IF state[a] = "settled" THEN reported
    ELSE IF reported # Unknown /\ reported > reserved THEN reported ELSE reserved

TokenCharge == [a \in Attempts |-> Charge(a, used[a].tokens, request[a].tokens)]

OutputCharge == [a \in Attempts |-> Charge(a, used[a].output, request[a].output)]

ChargedTokens(S) == SumFunctionOnSet(TokenCharge, S \cap Charged)

ChargedOutput(S) == SumFunctionOnSet(OutputCharge, S \cap Charged)

CountsWithin(S, l) ==
    /\ Cardinality(S \cap Charged) <= l.attempts
    /\ Cardinality(S \cap Active) <= l.concurrency

\* _within over the rows S.
Within(S, l) ==
    /\ CountsWithin(S, l)
    /\ ChargedTokens(S) <= l.tokens
    /\ ChargedOutput(S) <= l.output

IsWithin(l, m) ==
    /\ l.attempts <= m.attempts
    /\ l.tokens <= m.tokens
    /\ l.output <= m.output
    /\ l.elapsed <= m.elapsed
    /\ l.concurrency <= m.concurrency
    /\ l.depth <= m.depth
    /\ l.children <= m.children

Depth(a) == Cardinality(line[a])

----------------------------------------------------------------------------
\* Transactions.  Each one reads the clock under the write lock, fails when it
\* is behind last_seen_ms, and advances last_seen_ms even when the operation
\* itself is denied.

Observed(now) == now >= seen /\ seen' = now

\* An operation that is denied, an exact repetition of reserve or reconcile,
\* and the reads: get_attempt, cancellation_report, snapshot and
\* remaining_elapsed_ms.
Observe(now) ==
    /\ Observed(now)
    /\ UNCHANGED <<cancelled, state, rowVars, useVars, requested, preVars>>

\* What reserve inherits, and the chain of rows it walks.
Inherited(r) == IF r.parent = {} THEN Policy ELSE limits[CHOOSE p \in r.parent : TRUE]

Ancestry(r) == r.parent \cup UNION {line[p] : p \in r.parent}

Siblings(r) == {b \in Rows : request[b].parent = r.parent}

\* Mutant: depth is measured from the root only.
AdmissibleRootDepth(r, l, now) ==
    /\ ~cancelled
    /\ now <= Policy.elapsed
    /\ r.parent \subseteq Rows
    /\ \A b \in Ancestry(r) : state[b] # "released" /\ now <= limits[b].elapsed
    /\ IsWithin(l, Inherited(r))
    /\ r.parent # {} => Cardinality(Siblings(r)) < Inherited(r).children
    /\ Cardinality(Ancestry(r)) <= Policy.depth

\* The checks of reserve that come before the INSERT.
Admissible(r, l, now) ==
    /\ ~cancelled
    /\ now <= Policy.elapsed
    /\ r.parent \subseteq Rows
    /\ \A b \in Ancestry(r) :
        /\ state[b] # "released"
        /\ Cardinality(Ancestry(r)) - Depth(b) <= limits[b].depth
        /\ now <= limits[b].elapsed
    /\ IsWithin(l, Inherited(r))
    /\ r.parent # {} => Cardinality(Siblings(r)) < Inherited(r).children
    /\ Cardinality(Ancestry(r)) <= Policy.depth

\* Mutant: only the parent's subtree is checked, not those further up.
ReserveParentOnly(r, l, now) ==
    /\ Observed(now)
    /\ state[r.id] = "absent"
    /\ Admissible(r, l, now)
    /\ state' = [state EXCEPT ![r.id] = "reserved"]
    /\ request' = [request EXCEPT ![r.id] = r]
    /\ limits' = [limits EXCEPT ![r.id] = l]
    /\ line' = [line EXCEPT ![r.id] = Ancestry(r)]
    /\ UNCHANGED <<cancelled, useVars, requested, preVars>>
    /\ Within(Attempts, Policy)'
    /\ \A b \in r.parent \cup {r.id} : Within(Subtree(b), limits[b])'

\* Mutant: the totals of the engagement are left to the subtrees.
ReserveOwnOnly(r, l, now) ==
    /\ Observed(now)
    /\ state[r.id] = "absent"
    /\ Admissible(r, l, now)
    /\ state' = [state EXCEPT ![r.id] = "reserved"]
    /\ request' = [request EXCEPT ![r.id] = r]
    /\ limits' = [limits EXCEPT ![r.id] = l]
    /\ line' = [line EXCEPT ![r.id] = Ancestry(r)]
    /\ UNCHANGED <<cancelled, useVars, requested, preVars>>
    /\ \A b \in Ancestry(r) \cup {r.id} : Within(Subtree(b), limits[b])'

\* reserve: the row is inserted first and the totals of the engagement, of
\* every ancestor's subtree and of the row itself are checked with it.
Reserve(r, l, now) ==
    /\ Observed(now)
    /\ state[r.id] = "absent"
    /\ Admissible(r, l, now)
    /\ state' = [state EXCEPT ![r.id] = "reserved"]
    /\ request' = [request EXCEPT ![r.id] = r]
    /\ limits' = [limits EXCEPT ![r.id] = l]
    /\ line' = [line EXCEPT ![r.id] = Ancestry(r)]
    /\ UNCHANGED <<cancelled, useVars, requested, preVars>>
    /\ Within(Attempts, Policy)'
    /\ \A b \in Ancestry(r) \cup {r.id} : Within(Subtree(b), limits[b])'

\* mark_dispatched's checks of the row and of its line.
Dispatchable(a, now) ==
    /\ ~cancelled
    /\ now <= Policy.elapsed
    /\ state[a] = "reserved"
    /\ \A b \in line[a] \cup {a} : state[b] # "released" /\ now <= limits[b].elapsed

Current(x, now) == Window[x].issued <= now /\ now < Window[x].expires

\* Mutant: a consumed prerequisite is only looked up, not refused.
MarkDispatchedReuse(a, X, P, now) ==
    /\ Observed(now)
    /\ Dispatchable(a, now)
    /\ \A x \in X : Current(x, now) /\ spent[x] = {}
    /\ \A p \in P : \E q \in prereqs : q.prerequisite = p
    /\ state' = [state EXCEPT ![a] = "dispatched"]
    /\ spent' = [x \in Approvals |-> IF x \in X THEN {a} ELSE spent[x]]
    /\ consumer' = [i \in PrerequisiteIds |->
          IF \E p \in P : p.id = i THEN consumer[i] \cup {a} ELSE consumer[i]]
    /\ UNCHANGED <<cancelled, rowVars, useVars, requested, prereqs>>

\* X is {} or one approval, P is {} or one prerequisite.
MarkDispatched(a, X, P, now) ==
    /\ Observed(now)
    /\ Dispatchable(a, now)
    /\ \A x \in X :
        /\ Current(x, now)
        /\ spent[x] = {}
        /\ \A y \in Approvals : a \notin spent[y]
    /\ \A p \in P : consumer[p.id] = {} /\ \E q \in prereqs : q.prerequisite = p
    /\ state' = [state EXCEPT ![a] = "dispatched"]
    /\ spent' = [x \in Approvals |-> IF x \in X THEN {a} ELSE spent[x]]
    /\ consumer' = [i \in PrerequisiteIds |-> IF \E p \in P : p.id = i THEN {a} ELSE consumer[i]]
    /\ UNCHANGED <<cancelled, rowVars, useVars, requested, prereqs>>

MarkUncertain(a, now) ==
    /\ Observed(now)
    /\ state[a] \in {"dispatched", "uncertain"}
    /\ state' = [state EXCEPT ![a] = "uncertain"]
    /\ UNCHANGED <<cancelled, rowVars, useVars, requested, preVars>>

\* Mutant: descendants are not looked at.
ReleaseAlone(a, now) ==
    /\ Observed(now)
    /\ state[a] \in {"reserved", "released"}
    /\ state' = [state EXCEPT ![a] = "released"]
    /\ UNCHANGED <<cancelled, rowVars, useVars, requested, preVars>>

\* Mutant: an attempt in flight is released like a reservation.
ReleaseActive(a, now) ==
    /\ Observed(now)
    /\ state[a] \in ActiveStates \cup {"released"}
    /\ \A b \in Subtree(a) \ {a} : state[b] = "released"
    /\ state' = [state EXCEPT ![a] = "released"]
    /\ UNCHANGED <<cancelled, rowVars, useVars, requested, preVars>>

ReleaseUndispatched(a, now) ==
    /\ Observed(now)
    /\ state[a] \in {"reserved", "released"}
    /\ \A b \in Subtree(a) \ {a} : state[b] = "released"
    /\ state' = [state EXCEPT ![a] = "released"]
    /\ UNCHANGED <<cancelled, rowVars, useVars, requested, preVars>>

\* Mutant: a later receipt may also correct the outcome.
RevisesOutcome(c) ==
    /\ used[c.attempt].tokens \in {Unknown, c.usage.tokens}
    /\ used[c.attempt].output \in {Unknown, c.usage.output}

\* A later receipt may fill in what is unknown and change nothing else.
Revises(c) ==
    /\ c.outcome = outcome[c.attempt]
    /\ used[c.attempt].tokens \in {Unknown, c.usage.tokens}
    /\ used[c.attempt].output \in {Unknown, c.usage.output}

Known(c) == Unknown \notin {c.usage.tokens, c.usage.output}

\* What reconcile may insert: one prerequisite per completed attempt, under an
\* identifier that is free or already stands for exactly this.
Establishes(c, p) ==
    LET entry == [prerequisite |-> p, source |-> c.attempt]
    IN  /\ c.outcome = "completed"
        /\ \/ entry \in prereqs
           \/ \A q \in prereqs : q.prerequisite.id # p.id /\ q.source # c.attempt

\* Mutant: the reservation does not cap the retained output.
ReconcileAnyOutput(c, P, now) ==
    LET a == c.attempt
    IN  /\ Observed(now)
        /\ \A d \in receipts : d.id # c.id
        /\ state[a] \in {"dispatched", "uncertain", "usage_unknown"}
        /\ state[a] = "usage_unknown" => Revises(c)
        /\ \A p \in P : Establishes(c, p)
        /\ state' = [state EXCEPT ![a] = IF Known(c) THEN "settled" ELSE "usage_unknown"]
        /\ used' = [used EXCEPT ![a] = c.usage]
        /\ outcome' = [outcome EXCEPT ![a] = c.outcome]
        /\ receipts' = receipts \cup {c}
        /\ prereqs' = prereqs \cup {[prerequisite |-> p, source |-> a] : p \in P}
        /\ UNCHANGED <<cancelled, rowVars, requested, consumer, spent>>

\* Mutant: a receipt identifier may come back with another payload.
ReconcileAnyId(c, P, now) ==
    LET a == c.attempt
    IN  /\ Observed(now)
        /\ state[a] \in {"dispatched", "uncertain", "usage_unknown"}
        /\ state[a] = "usage_unknown" => Revises(c)
        /\ c.usage.output # Unknown => c.usage.output <= request[a].output
        /\ \A p \in P : Establishes(c, p)
        /\ state' = [state EXCEPT ![a] = IF Known(c) THEN "settled" ELSE "usage_unknown"]
        /\ used' = [used EXCEPT ![a] = c.usage]
        /\ outcome' = [outcome EXCEPT ![a] = c.outcome]
        /\ receipts' = receipts \cup {c}
        /\ prereqs' = prereqs \cup {[prerequisite |-> p, source |-> a] : p \in P}
        /\ UNCHANGED <<cancelled, rowVars, requested, consumer, spent>>

\* A receipt seen for the first time; P is {} or one prerequisite.
Reconcile(c, P, now) ==
    LET a == c.attempt
    IN  /\ Observed(now)
        /\ \A d \in receipts : d.id # c.id
        /\ state[a] \in {"dispatched", "uncertain", "usage_unknown"}
        /\ state[a] = "usage_unknown" => Revises(c)
        /\ c.usage.output # Unknown => c.usage.output <= request[a].output
        /\ \A p \in P : Establishes(c, p)
        /\ state' = [state EXCEPT ![a] = IF Known(c) THEN "settled" ELSE "usage_unknown"]
        /\ used' = [used EXCEPT ![a] = c.usage]
        /\ outcome' = [outcome EXCEPT ![a] = c.outcome]
        /\ receipts' = receipts \cup {c}
        /\ prereqs' = prereqs \cup {[prerequisite |-> p, source |-> a] : p \in P}
        /\ UNCHANGED <<cancelled, rowVars, requested, consumer, spent>>

Cancel(now) ==
    /\ Observed(now)
    /\ cancelled' = TRUE
    /\ requested' = requested \cup Active
    /\ state' = [a \in Attempts |-> IF state[a] = "reserved" THEN "released" ELSE state[a]]
    /\ UNCHANGED <<rowVars, useVars, preVars>>

\* Mutant: a restart takes unfinished dispatches for reservations.
ReopenRetries(now) ==
    /\ Observed(now)
    /\ state' = [a \in Attempts |-> IF state[a] = "dispatched" THEN "reserved" ELSE state[a]]
    /\ UNCHANGED <<cancelled, rowVars, useVars, requested, preVars>>

\* The constructor on an existing ledger: a process may have died between
\* dispatch intent and receipt.
Reopen(now) ==
    /\ Observed(now)
    /\ state' = [a \in Attempts |-> IF state[a] = "dispatched" THEN "uncertain" ELSE state[a]]
    /\ UNCHANGED <<cancelled, rowVars, useVars, requested, preVars>>

Times == 0..MaxTime

Optional(S) == {{}} \cup {{x} : x \in S}

Next ==
    \E now \in Times :
        \/ Observe(now)
        \/ \E r \in Requests : \E l \in LimitChoices \cup {Inherited(r)} : Reserve(r, l, now)
        \/ \E a \in Attempts : \E X \in Optional(Approvals) : \E P \in Optional(Prerequisites) :
              MarkDispatched(a, X, P, now)
        \/ \E a \in Attempts : MarkUncertain(a, now) \/ ReleaseUndispatched(a, now)
        \/ \E c \in Receipts : \E P \in Optional(Prerequisites) : Reconcile(c, P, now)
        \/ Cancel(now)
        \/ Reopen(now)

Spec == Init /\ [][Next]_vars
----------------------------------------------------------------------------
\* Properties

TypeOK ==
    /\ seen \in Times
    /\ cancelled \in BOOLEAN
    /\ state \in [Attempts -> States]
    /\ request \in [Attempts -> AttemptRequest]
    /\ limits \in [Attempts -> Limits]
    /\ line \in [Attempts -> SUBSET Attempts]
    /\ used \in [Attempts -> Usage]
    /\ outcome \in [Attempts -> Outcomes \cup {"none"}]
    /\ requested \subseteq Attempts
    /\ receipts \subseteq Receipts
    /\ prereqs \subseteq [prerequisite: Prerequisites, source: Attempts]
    /\ consumer \in [PrerequisiteIds -> SUBSET Attempts]
    /\ spent \in [Approvals -> SUBSET Attempts]

\* Attempts and concurrency never exceed the policy, nor the limits of any
\* subtree, over every order of admissions, receipts, releases, cancellation
\* and restarts (the aggregate and subtree checks of reserve).
CountsHold ==
    /\ CountsWithin(Attempts, Policy)
    /\ \A a \in Rows : CountsWithin(Subtree(a), limits[a])

\* Retained output keeps within the same limits although receipts replace
\* reservations ("retained output exceeds reservation" in reconcile).
OutputHolds ==
    /\ ChargedOutput(Attempts) <= Policy.output
    /\ \A a \in Rows : ChargedOutput(Subtree(a)) <= limits[a].output

\* The attempts form a forest in which limits only narrow downwards, and depth
\* and fanout keep within the limits of every ancestor, not only the parent.
TreeSound ==
    \A a \in Rows :
        /\ a \notin line[a]
        /\ IsWithin(limits[a], Policy)
        /\ Depth(a) <= Policy.depth
        /\ Cardinality({b \in Rows : request[b].parent = {a}}) <= limits[a].children
        /\ \A b \in line[a] :
            /\ b \in Rows
            /\ line[b] \subseteq line[a]
            /\ IsWithin(limits[a], limits[b])
            /\ Depth(a) - Depth(b) <= limits[b].depth

\* No reservation outlives its line or the engagement: nothing reserved sits
\* below a released attempt, and after cancel nothing is reserved and every
\* attempt still active carries the request.
NothingStranded ==
    /\ \A a \in Rows : state[a] = "reserved" => \A b \in line[a] : state[b] # "released"
    /\ cancelled => \A a \in Active : state[a] # "reserved" /\ a \in requested

Begun(a) == state[a] \in {"dispatched", "uncertain", "usage_unknown", "settled"}

\* A prerequisite comes from one completed attempt and goes to at most one
\* other attempt; an approval is spent on at most one attempt and an attempt
\* on at most one approval; all of them were dispatched and none was released
\* (validation_prerequisites, dispatch_approval_receipts).
EvidenceSound ==
    /\ \A q \in prereqs :
        /\ Begun(q.source) /\ outcome[q.source] = "completed"
        /\ \A r \in prereqs :
            (r.prerequisite.id = q.prerequisite.id \/ r.source = q.source) => r = q
    /\ \A i \in PrerequisiteIds : \A a \in consumer[i] :
        /\ Begun(a)
        /\ consumer[i] = {a}
        /\ \E q \in prereqs : q.prerequisite.id = i /\ q.source # a
    /\ \A x, y \in Approvals : \A a \in spent[x] :
        /\ Begun(a)
        /\ spent[x] = {a}
        /\ a \in spent[y] => x = y

\* The rows agree with the receipts table: an attempt has an outcome exactly
\* when a receipt for it is stored, one of its receipts says what the row says,
\* and no two receipts share an identifier.
ReceiptsMatchRows ==
    /\ \A c, d \in receipts : c.id = d.id => c = d
    /\ \A a \in Attempts :
        LET own == {c \in receipts : c.attempt = a}
        IN  /\ outcome[a] # "none" <=> own # {}
            /\ state[a] \in {"usage_unknown", "settled"} <=> own # {}
            /\ own # {} => \E c \in own : c.usage = used[a] /\ c.outcome = outcome[a]
            /\ \A c \in own : c.outcome = outcome[a]

Forward(s, t) ==
    \/ s = t
    \/ s = "absent" /\ t = "reserved"
    \/ s = "reserved" /\ t \in {"dispatched", "released"}
    \/ s = "dispatched" /\ t \in {"uncertain", "usage_unknown", "settled"}
    \/ s = "uncertain" /\ t \in {"usage_unknown", "settled"}
    \/ s = "usage_unknown" /\ t = "settled"

\* A charge that may be in flight is never given back: states only move
\* forward, no restart, cancellation or late call returns a dispatched attempt
\* to reserved or released, reported values are never revised, a settled row
\* never changes and the clock's high-water mark never falls.
ForwardStep ==
    /\ seen' >= seen
    /\ cancelled => cancelled'
    /\ receipts \subseteq receipts'
    /\ requested \subseteq requested'
    /\ \A a \in Attempts :
        /\ Forward(state[a], state'[a])
        /\ state[a] # "absent" =>
            request'[a] = request[a] /\ limits'[a] = limits[a] /\ line'[a] = line[a]
        /\ outcome[a] # "none" => outcome'[a] = outcome[a]
        /\ used[a].tokens # Unknown => used'[a].tokens = used[a].tokens
        /\ used[a].output # Unknown => used'[a].output = used[a].output

ChargesMoveForward == [][ForwardStep]_vars

\* cancellation_report.
CancellationReport(a) ==
    [requested |-> a \in requested,
     confirmed |-> a \in requested
                     /\ (state[a] = "released" \/ outcome[a] \in {"runner_stopped", "cancelled"}),
     pending   |-> a \in requested /\ state[a] \notin {"released", "settled"},
     final     |-> state[a] \in {"released", "settled"}]

ReportStep ==
    \A a \in Attempts :
        /\ CancellationReport(a).confirmed => CancellationReport(a)'.confirmed
        /\ CancellationReport(a).final => CancellationReport(a)'.final
        /\ CancellationReport(a).pending /\ ~CancellationReport(a)'.pending =>
              \E c \in receipts' \ receipts : c.attempt = a /\ Known(c)

\* What cancellation_report has once confirmed stays confirmed, and a pending
\* attempt stops being pending only by its complete receipt.
ReportsStable == [][ReportStep]_vars

\* snapshot's over_budget, which only the tokens of a receipt can cause.
OverBudget == ~Within(Attempts, Policy)

OverageStep ==
    /\ OverBudget => Rows' = Rows
    /\ ~OverBudget /\ OverBudget' => receipts' # receipts

\* "Reported usage above estimate ... blocks new admission": no row is added
\* while the totals are over, and only a receipt takes them over.
OverageBlocksAdmission == [][OverageStep]_vars
====
