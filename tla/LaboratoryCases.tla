---- MODULE LaboratoryCases ----
(***************************************************************************)
(* The laboratory harness and its case journal.  One controller process    *)
(* verifies and resets disposable environments, sends each authorized case *)
(* to the pinned worker, waits for an operator's signed observation of it, *)
(* classifies it and publishes the evidence a reviewer reads.              *)
(*                                                                         *)
(* The journal (a SQLite table, one transaction per operation) and the     *)
(* evidence files survive the controller; the pending cases, the ages of   *)
(* their challenges and the reset challenges do not.  Journal and evidence *)
(* writes fail without effect, and an exception no handler catches, such   *)
(* as KeyboardInterrupt, can end a call between any two of its steps.      *)
(*                                                                         *)
(* An authorization stands for its attempt, its journal row and its worker *)
(* result: each has one.  The dictionary of pending cases is a set, so the *)
(* loops over it take any order.  "active" environments pass every gate    *)
(* "verified" ones do, and no code in the package makes one.               *)
(***************************************************************************)
EXTENDS Naturals, FiniteSets

CONSTANTS
    Auths,          \* execution authorizations
    Environments,   \* laboratory environments
    Nobody          \* neither an authorization nor an environment

ASSUME NobodyAssumption == Nobody \notin Auths \cup Environments

VARIABLES
    row,            \* the state column of an authorization's journal row
    home,           \* the environment column
    staged,         \* rows whose result holds a review bundle
    published,      \* rows whose bundle is in the evidence store
    pending,        \* _pending_cases of the running controller
    late,           \* pending cases older than two minutes
    status,         \* the environments' lifecycle status
    observed,       \* verification_status = "verified", provenance = "observed"
    challenges,     \* _pending_resets
    call,           \* the call in progress: its step and its authorization
    sent,           \* how often the worker was sent the authorized plan
    outdated        \* cases whose environment was verified or reset after they ran

journalVars == <<row, home, staged>>
caseVars == <<pending, late>>
labVars == <<status, observed, challenges>>
vars == <<row, home, staged, published, pending, late, status, observed, challenges,
          call, sent, outdated>>

Terminal == {"unknown", "failed", "classified"}

RowStates == {"none", "dispatching", "pending"} \cup Terminal

Statuses == {"registered", "verified", "resetting", "failed"}

Steps == {"idle", "begun", "returned", "uncertain", "bound", "finished"}

Idle == [step |-> "idle", auth |-> Nobody]

At(step, a) == call.step = step /\ call.auth = a

GoTo(step, a) == call' = [step |-> step, auth |-> a]

TypeOK ==
    /\ row \in [Auths -> RowStates]
    /\ home \in [Auths -> Environments \cup {Nobody}]
    /\ staged \subseteq Auths
    /\ published \subseteq Auths
    /\ pending \subseteq Auths
    /\ late \subseteq pending
    /\ status \in [Environments -> Statuses]
    /\ observed \in [Environments -> BOOLEAN]
    /\ challenges \subseteq Environments
    /\ call \in [step : Steps, auth : Auths \cup {Nobody}]
    /\ sent \in [Auths -> Nat]
    /\ outdated \subseteq Auths

Init ==
    /\ row = [a \in Auths |-> "none"]
    /\ home = [a \in Auths |-> Nobody]
    /\ staged = {} /\ published = {}
    /\ pending = {} /\ late = {}
    /\ status = [e \in Environments |-> "registered"]
    /\ observed = [e \in Environments |-> FALSE]
    /\ challenges = {}
    /\ call = Idle
    /\ sent = [a \in Auths |-> 0]
    /\ outdated = {}

----
(* The loops that fail pending cases.                                      *)

HeldIn(e) == {a \in pending : home[a] = e}

\* Mutant: a failure is recorded whatever the row's state.
FailRowsUnguarded(S) == row' = [a \in Auths |-> IF a \in S THEN "failed" ELSE row[a]]

\* LaboratoryCaseJournal.fail on each of S: only a pending row can fail.
FailRows(S) ==
    /\ \A a \in S : row[a] = "pending"
    /\ row' = [a \in Auths |-> IF a \in S THEN "failed" ELSE row[a]]

Forget(S) ==
    /\ pending' = pending \ S
    /\ late' = late \ S

\* The loop ends: every case of T failed in the journal and was forgotten.
Sweep(T) == FailRows(T) /\ Forget(T)

\* The loop raises: some of T were failed and forgotten, and an interrupt may
\* have come between the commit of one and its removal.
SweepRaises(T) ==
    \E S \in SUBSET T : \E torn \in SUBSET S :
        /\ Cardinality(torn) <= 1
        /\ S \ torn # T
        /\ FailRows(S)
        /\ Forget(S \ torn)

Outdate(e) == outdated' = outdated \cup {a \in Auths : home[a] = e}

Unverified(e) == observed' = [observed EXCEPT ![e] = FALSE]

----
(* Environments.                                                           *)

\* What every operation on an environment does first: the earlier verification is
\* void, the environment's pending cases fail and its receipts are forgotten.
Invalidate(e) ==
    /\ Sweep(HeldIn(e))
    /\ Outdate(e)

InvalidateRaises(e) ==
    /\ SweepRaises(HeldIn(e))
    /\ Unverified(e)
    /\ UNCHANGED <<status, challenges, outdated>>

\* _fail_verification.
FailVerification(e) ==
    /\ Invalidate(e)
    /\ Unverified(e)
    /\ status' = [status EXCEPT ![e] = "failed"]

\* verify_environment.  A failed environment keeps its status: the transition raises
\* after the observation was recorded.
Verify(e) ==
    /\ call = Idle
    /\ \/ InvalidateRaises(e)
       \/ /\ FailVerification(e)
          /\ UNCHANGED challenges
       \/ /\ Invalidate(e)
          /\ observed' = [observed EXCEPT ![e] = TRUE]
          /\ status' = [status EXCEPT ![e] = IF @ = "failed" THEN @ ELSE "verified"]
          /\ UNCHANGED challenges
    /\ UNCHANGED <<home, staged, published, call, sent>>

\* simulate_reset, and verify_environment with mock checks or interrupted while it
\* observes: the environment is left unverified.
SimulateReset(e) ==
    /\ call = Idle
    /\ \/ InvalidateRaises(e)
       \/ /\ Invalidate(e)
          /\ Unverified(e)
          /\ UNCHANGED <<status, challenges>>
    /\ UNCHANGED <<home, staged, published, call, sent>>

\* Mutant: the environment's pending cases survive the reset.
BeginResetKeepsCases(e) ==
    /\ call = Idle
    /\ status[e] \in {"verified", "failed"}
    /\ Outdate(e)
    /\ Unverified(e)
    /\ status' = [status EXCEPT ![e] = "resetting"]
    /\ challenges' = challenges \cup {e}
    /\ UNCHANGED <<row, pending, late, home, staged, published, call, sent>>

BeginReset(e) ==
    /\ call = Idle
    /\ status[e] \in {"verified", "failed"}
    /\ \/ InvalidateRaises(e)
       \/ /\ Invalidate(e)
          /\ Unverified(e)
          /\ status' = [status EXCEPT ![e] = "resetting"]
          /\ challenges' = challenges \cup {e}
    /\ UNCHANGED <<home, staged, published, call, sent>>

\* reproducible_reset: the challenge is spent before the receipt is looked at.  An
\* interrupt while the environment is observed leaves it resetting.
ReproducibleReset(e) ==
    /\ call = Idle
    /\ e \in challenges /\ status[e] = "resetting"
    /\ challenges' = challenges \ {e}
    /\ \/ /\ Outdate(e)
          /\ observed' = [observed EXCEPT ![e] = TRUE]
          /\ status' = [status EXCEPT ![e] = "verified"]
          /\ UNCHANGED <<row, pending, late>>
       \/ FailVerification(e)
       \/ UNCHANGED <<row, pending, late, status, observed, outdated>>
    /\ UNCHANGED <<home, staged, published, call, sent>>

----
(* execute_case.                                                           *)

\* The observation before the dispatch fails.
ExecuteUnobserved(e) ==
    /\ call = Idle
    /\ status[e] = "verified" /\ observed[e]
    /\ \/ InvalidateRaises(e)
       \/ FailVerification(e) /\ UNCHANGED challenges
    /\ UNCHANGED <<home, staged, published, call, sent>>

\* Mutant: an attempt whose outcome is unknown may be repeated.
UnattemptedOrUnknown(a) == row[a] \in {"none", "unknown"}

\* authorization_attempted, and the check in the transaction that inserts the row.
Unattempted(a) == row[a] = "none"

\* The gates, and the dispatch intent.
Begin(a, e) ==
    /\ call = Idle
    /\ status[e] = "verified" /\ observed[e]
    /\ Unattempted(a)
    /\ row' = [row EXCEPT ![a] = "dispatching"]
    /\ home' = [home EXCEPT ![a] = e]
    /\ GoTo("begun", a)
    /\ UNCHANGED <<staged, published, sent, outdated>>
    /\ UNCHANGED caseVars /\ UNCHANGED labVars

\* The SSH exchange: the plan reaches the worker or not, and a valid answer comes
\* back or not.
Dispatch(a) ==
    /\ At("begun", a)
    /\ \/ /\ sent' = [sent EXCEPT ![a] = @ + 1]
          /\ GoTo("returned", a) \/ GoTo("uncertain", a)
       \/ GoTo("uncertain", a) /\ UNCHANGED sent
    /\ UNCHANGED <<published, outdated>>
    /\ UNCHANGED journalVars /\ UNCHANGED caseVars /\ UNCHANGED labVars

\* The result and the cleanup receipt are written, and the row is bound to them.
Bind(a) ==
    /\ At("returned", a)
    /\ \/ /\ row' = [row EXCEPT ![a] = "pending"]
          /\ GoTo("bound", a)
       \/ GoTo("uncertain", a) /\ UNCHANGED row
    /\ UNCHANGED <<home, staged, published, sent, outdated>>
    /\ UNCHANGED caseVars /\ UNCHANGED labVars

\* mark_unknown_best_effort: a failure to record is swallowed.
MarkUnknown(a) ==
    /\ At("uncertain", a)
    /\ row' = [row EXCEPT ![a] = "unknown"] \/ UNCHANGED row
    /\ call' = Idle
    /\ UNCHANGED <<home, staged, published, sent, outdated>>
    /\ UNCHANGED caseVars /\ UNCHANGED labVars

Remember(a) ==
    /\ At("bound", a)
    /\ pending' = pending \cup {a}
    /\ call' = Idle
    /\ UNCHANGED <<late, published, sent, outdated>>
    /\ UNCHANGED journalVars /\ UNCHANGED labVars

----
(* Observation and classification.                                         *)

\* Two minutes pass for a pending case.
Age(a) ==
    /\ a \in pending \ late
    /\ late' = late \cup {a}
    /\ UNCHANGED <<pending, published, call, sent, outdated>>
    /\ UNCHANGED journalVars /\ UNCHANGED labVars

\* expire_pending_cases, alone or in recorded_cases, in case_observation_challenge
\* and in a classification that refuses what it was given.
Expire ==
    /\ call = Idle
    /\ Sweep(late) \/ SweepRaises(late)
    /\ UNCHANGED <<home, staged, published, call, sent, outdated>>
    /\ UNCHANGED labVars

\* classify_case up to the commit of the outcome: the late cases fail, and this one
\* becomes classified, with a bundle when it is reviewable, or failed.
Classify(a) ==
    /\ call = Idle
    /\ a \in pending \ late
    /\ Forget(late)
    /\ \A b \in late \cup {a} : row[b] = "pending"
    /\ \E outcome \in {"classified", "failed"}, reviewable \in BOOLEAN :
        /\ row' = [b \in Auths |-> IF b \in late THEN "failed"
                                   ELSE IF b = a THEN outcome ELSE row[b]]
        /\ staged' = IF reviewable /\ outcome = "classified" THEN staged \cup {a} ELSE staged
    /\ GoTo("finished", a)
    /\ UNCHANGED <<home, published, sent, outdated>>
    /\ UNCHANGED labVars

\* The bundles recover_retest_evidence_publication writes: all, or some when it raises.
Publish(S) == published' = published \cup S

\* The rest of classify_case: the bundles are published if this case has one, and
\* only then is the case forgotten.  The journal is read before and may refuse.
Finish(a) ==
    /\ At("finished", a)
    /\ call' = Idle
    /\ \/ /\ Publish(IF a \in staged THEN staged ELSE {})
          /\ Forget({a})
       \/ /\ a \in staged
          /\ \E S \in SUBSET staged : Publish(S)
          /\ UNCHANGED caseVars
       \/ UNCHANGED <<published, pending, late>>
    /\ UNCHANGED <<sent, outdated>>
    /\ UNCHANGED journalVars /\ UNCHANGED labVars

\* recover_retest_evidence_publication called by the operator.
Recover ==
    /\ call = Idle
    /\ \E S \in SUBSET staged : Publish(S)
    /\ UNCHANGED <<call, sent, outdated>>
    /\ UNCHANGED journalVars /\ UNCHANGED caseVars /\ UNCHANGED labVars

----
(* Interrupts and restarts.                                                *)

\* An exception that is not an Exception leaves the call where it is.
Interrupt ==
    /\ call # Idle
    /\ call' = Idle
    /\ UNCHANGED <<published, sent, outdated>>
    /\ UNCHANGED journalVars /\ UNCHANGED caseVars /\ UNCHANGED labVars

\* The controller dies and a new one opens the journal.  The operator loads each
\* environment as it last was, or registers it again.
Restart ==
    /\ row' = [a \in Auths |-> CASE row[a] = "pending" -> "failed"
                                 [] row[a] = "dispatching" -> "unknown"
                                 [] OTHER -> row[a]]
    /\ pending' = {} /\ late' = {} /\ challenges' = {}
    /\ call' = Idle
    /\ \E E \in SUBSET Environments :
        /\ status' = [e \in Environments |-> IF e \in E THEN "registered" ELSE status[e]]
        /\ observed' = [e \in Environments |-> e \notin E /\ observed[e]]
    /\ UNCHANGED <<home, staged, published, sent, outdated>>

Next ==
    \/ \E e \in Environments :
        \/ Verify(e)
        \/ SimulateReset(e)
        \/ BeginReset(e)
        \/ ReproducibleReset(e)
        \/ ExecuteUnobserved(e)
        \/ \E a \in Auths : Begin(a, e)
    \/ \E a \in Auths :
        \/ Dispatch(a)
        \/ Bind(a)
        \/ MarkUnknown(a)
        \/ Remember(a)
        \/ Age(a)
        \/ Classify(a)
        \/ Finish(a)
    \/ Expire
    \/ Recover
    \/ Interrupt
    \/ Restart

Spec == Init /\ [][Next]_vars

----
(* Properties.                                                             *)

\* execute_case: an authorization reaches the worker at most once, whatever fails,
\* is interrupted or restarts in between, and the journal has its row ever after.
SentOnce ==
    \A a \in Auths : sent[a] <= 1 /\ (sent[a] = 1 => row[a] # "none")

\* LaboratoryCaseJournal: an outcome never changes once it is recorded, nor does the
\* bundle staged with it, even though a case whose publication failed stays pending
\* in memory and is expired, discarded or classified again later.
OutcomesFinal ==
    [][\A a \in Auths :
        row[a] \in Terminal => row'[a] = row[a] /\ (a \in staged' <=> a \in staged)]_vars

\* classify_case: a case is classified only on the baseline it ran on; its environment
\* was not reset, verified again or found changed between the dispatch and the
\* classification that cites the environment's receipts.
OneBaseline ==
    [][\A a \in Auths :
        row[a] = "pending" /\ row'[a] = "classified" => a \notin outdated]_vars
====
