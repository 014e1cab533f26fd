---- MODULE LiveDispatch ----
(***************************************************************************)
(* Live provider dispatch: execute_live_case (cops/provider_live.py) over  *)
(* the budget ledger and the gateway.                                      *)
(*                                                                         *)
(* A case is one call.  It waits for its gateway thread only until its     *)
(* deadline; the thread goes on and may consume the grant and reach the    *)
(* handler after the call has returned.  A ledger operation may be denied, *)
(* or fail before or after its commit.  stage[c] is the statement case c   *)
(* is about to run.                                                        *)
(***************************************************************************)
EXTENDS AssessmentBudget, GatewayDispatch

CONSTANTS
    Cases,       \* calls of execute_live_case
    CaseRequest, \* case -> its AttemptRequest, named after the grant's dispatch_id
    CaseLimits,  \* case -> {} or the child_limits of its controller
    Estimate     \* the approved request time

ASSUME CaseAssumption ==
    /\ Cases \subseteq Senders
    /\ CaseRequest \in [Cases -> Requests]
    /\ CaseLimits \in [Cases -> Optional(LimitChoices)]
    /\ Estimate \in Nat
    /\ \A c \in Cases :
        /\ GrantOf[c].authorization \in Approvals
        /\ Window[GrantOf[c].authorization] =
               [issued |-> GrantOf[c].issued, expires |-> GrantOf[c].expires]
        /\ \A d \in Cases : GrantOf[c].dispatch = GrantOf[d].dispatch <=>
                                CaseRequest[c].id = CaseRequest[d].id

VARIABLES
    stage,     \* case -> the statement it is about to run
    verdict,   \* case -> what it returns: the outcome, "denied" or "raised"
    reported,  \* case -> the ledger_state of its evidence
    cleanups   \* case -> calls of its cleanup

caseVars == <<stage, verdict, reported, cleanups>>
liveVars == <<vars, gatewayVars, caseVars>>

LiveInit ==
    /\ Init
    /\ GatewayInit
    /\ stage = [c \in Cases |-> "idle"]
    /\ verdict = [c \in Cases |-> "none"]
    /\ reported = [c \in Cases |-> "unknown"]
    /\ cleanups = [c \in Cases |-> 0]

CaseAttempt(c) == CaseRequest[c].id

Authorization(c) == GrantOf[c].authorization

Go(c, s, v) ==
    /\ stage' = [stage EXCEPT ![c] = s]
    /\ verdict' = [verdict EXCEPT ![c] = v]

Quiet == UNCHANGED <<gatewayVars, reported, cleanups>>

----------------------------------------------------------------------------
\* Up to the dispatch intent

\* Plan, case and grant are checked, and the gateway's preflight passes.
Validate(c, now) ==
    /\ stage[c] = "idle"
    /\ \/ InForce(GrantOf[c], now) /\ Go(c, "lookup", "none")
       \/ Go(c, "done", "denied")
    /\ Quiet
    /\ UNCHANGED vars

\* get_attempt must not find the attempt.
Lookup(c, now) ==
    /\ stage[c] = "lookup"
    /\ Observe(now)
    /\ \/ state[CaseAttempt(c)] = "absent" /\ Go(c, "reserve", "none")
       \/ Go(c, "done", "denied")
    /\ Quiet

\* reserve: a row that another call inserted meanwhile for an equal request is
\* returned, in whatever state it is.
ReserveCase(c, now) ==
    LET r == CaseRequest[c]
        l == IF CaseLimits[c] = {} THEN Inherited(r) ELSE CHOOSE m \in CaseLimits[c] : TRUE
    IN  /\ stage[c] = "reserve"
        /\ \/ Reserve(r, l, now) /\ (Go(c, "mark", "none") \/ Go(c, "done", "denied"))
           \/ /\ Observe(now)
              /\ \/ /\ state[r.id] # "absent" /\ request[r.id] = r /\ limits[r.id] = l
                    /\ Go(c, "mark", "none")
                 \/ Go(c, "done", "denied")
        /\ Quiet

\* Mutant: the dispatch goes ahead although the intent could not be stored.
MarkCaseOptimistic(c, now) ==
    /\ stage[c] = "mark"
    /\ \/ MarkDispatched(CaseAttempt(c), {Authorization(c)}, {}, now)
       \/ Observe(now)
    /\ Go(c, "dispatch", "none")
    /\ Quiet

\* mark_dispatched returns, or raises with its transaction committed or not.
MarkCase(c, now) ==
    /\ stage[c] = "mark"
    /\ \/ /\ MarkDispatched(CaseAttempt(c), {Authorization(c)}, {}, now)
          /\ Go(c, "dispatch", "none") \/ Go(c, "check", "none")
       \/ Observe(now) /\ Go(c, "check", "none")
    /\ Quiet

\* After a failure only a row that is still reserved proves that nothing was
\* dispatched; evidence for anything else is "uncertain".  The intent compared
\* is bound to the grant, and so to the attempt.
CheckCase(c, now) ==
    /\ stage[c] = "check"
    /\ Observe(now)
    /\ \/ state[CaseAttempt(c)] = "reserved" /\ Go(c, "undo", "denied")
       \/ state[CaseAttempt(c)] \in {"dispatched", "uncertain"} /\ Go(c, "note", "intent")
       \/ Go(c, "done", "uncertain")
    /\ Quiet

\* release_undispatched: its failure is only logged.
UndoCase(c, now) ==
    /\ stage[c] = "undo"
    /\ ReleaseUndispatched(CaseAttempt(c), now) \/ Observe(now)
    /\ Go(c, "done", "denied")
    /\ Quiet

----------------------------------------------------------------------------
\* The dispatch

\* remaining_elapsed_ms over the attempt and its ancestors.
Remaining(a, now) ==
    LET left == {Policy.elapsed} \cup {limits[b].elapsed : b \in line[a] \cup {a}}
    IN  IF \E t \in left : t <= now THEN 0 ELSE Min(left) - now

\* Mutant: a timeout of zero is waited out.
DispatchCaseAtZero(c, now) ==
    /\ stage[c] = "dispatch"
    /\ Observe(now)
    /\ thread' = [thread EXCEPT ![c] = "preflight"]
    /\ Go(c, "wait", "none")
    /\ UNCHANGED <<consumed, handled, reported, cleanups>>

\* _dispatch_with_deadline starts the thread unless no time is left or the
\* ledger cannot be read.
DispatchCase(c, now) ==
    /\ stage[c] = "dispatch"
    /\ Observe(now)
    /\ \/ /\ Estimate > 0 /\ Remaining(CaseAttempt(c), now) > 0
          /\ Send(c)
          /\ Go(c, "wait", "none")
       \/ \E v \in {"uncertain", "raised"} : Go(c, "note", v) /\ UNCHANGED gatewayVars
    /\ UNCHANGED <<reported, cleanups>>

\* The wait ends with the thread's result, with the deadline or with an
\* interrupt.
Await(c) ==
    /\ stage[c] = "wait"
    /\ \/ thread[c] = "answered" /\ Go(c, "accept", "none")
       \/ \E v \in {"uncertain", "raised"} : Go(c, "note", v)
    /\ Quiet
    /\ UNCHANGED vars

\* The response is checked, then cleanup must return True.
Accept(c) ==
    /\ stage[c] = "accept"
    /\ \/ \E v \in {"uncertain", "raised"} : Go(c, "note", v) /\ UNCHANGED cleanups
       \/ /\ cleanups' = [cleanups EXCEPT ![c] = @ + 1]
          /\ \E v \in {"completed", "uncertain", "raised"} : Go(c, "note", v)
    /\ UNCHANGED <<vars, gatewayVars, reported>>

----------------------------------------------------------------------------
\* _mark_uncertain_or_observe: mark, look, mark again, look again

Report(c, s) == reported' = [reported EXCEPT ![c] = s]

Seen(a) == IF state[a] \in {"dispatched", "uncertain", "usage_unknown"} THEN state[a] ELSE "unknown"

\* Mutant: a mark that raised is reported as made.
NoteTrusting(c, now) ==
    /\ stage[c] \in {"note", "note_again"}
    /\ MarkUncertain(CaseAttempt(c), now) \/ Observe(now)
    /\ Report(c, "uncertain")
    /\ Go(c, "tidy", verdict[c])
    /\ UNCHANGED <<gatewayVars, cleanups>>

Note(c, now) ==
    /\ stage[c] \in {"note", "note_again"}
    /\ LET look == IF stage[c] = "note" THEN "look" ELSE "look_again"
       IN  \/ /\ MarkUncertain(CaseAttempt(c), now)
              /\ \/ Report(c, "uncertain") /\ Go(c, "tidy", verdict[c])
                 \/ UNCHANGED reported /\ Go(c, look, verdict[c])
           \/ Observe(now) /\ UNCHANGED reported /\ Go(c, look, verdict[c])
    /\ UNCHANGED <<gatewayVars, cleanups>>

Look(c, now) ==
    LET a == CaseAttempt(c)
    IN  /\ stage[c] \in {"look", "look_again"}
        /\ Observe(now)
        /\ \/ /\ stage[c] = "look" /\ state[a] = "dispatched"
              /\ UNCHANGED reported /\ Go(c, "note_again", verdict[c])
           \/ /\ stage[c] = "look" => state[a] # "dispatched"
              /\ Report(c, Seen(a)) /\ Go(c, "tidy", verdict[c])
           \/ Report(c, "unknown") /\ Go(c, "tidy", verdict[c])
        /\ UNCHANGED <<gatewayVars, cleanups>>

\* Mutant: cleanup is called again although it ran and failed.
TidyAgain(c) ==
    /\ stage[c] = "tidy"
    /\ cleanups' = [cleanups EXCEPT ![c] = IF verdict[c] \in {"uncertain", "raised"} THEN @ + 1 ELSE @]
    /\ Go(c, "done", IF verdict[c] = "intent" THEN "uncertain" ELSE verdict[c])
    /\ UNCHANGED <<vars, gatewayVars, reported>>

\* A failed dispatch calls cleanup unless it was already attempted; a case
\* whose intent is in doubt sent nothing and has nothing to clean.
Tidy(c) ==
    /\ stage[c] = "tidy"
    /\ cleanups' = [cleanups EXCEPT ![c] =
          IF verdict[c] \in {"uncertain", "raised"} /\ @ = 0 THEN 1 ELSE @]
    /\ Go(c, "done", IF verdict[c] = "intent" THEN "uncertain" ELSE verdict[c])
    /\ UNCHANGED <<vars, gatewayVars, reported>>

----------------------------------------------------------------------------
\* Composition

\* The process dies with its gateway thread; an interrupt that nothing catches,
\* before the dispatch, leaves the same state.
CrashCase(c) ==
    /\ stage[c] \notin {"idle", "crashed"}
    /\ Go(c, "crashed", verdict[c])
    /\ thread' = [thread EXCEPT ![c] = IF @ \in {"none", "answered"} THEN @ ELSE "failed"]
    /\ UNCHANGED <<vars, consumed, handled, reported, cleanups>>

\* The gateway serves the threads of cases and envelopes of other workers.
Gateway(s, now) ==
    /\ GatewayStep(s, now) \/ (s \notin Cases /\ Send(s))
    /\ UNCHANGED <<vars, caseVars>>

\* Another process settles an attempt, cancels, or opens the ledger.
Elsewhere(now) ==
    /\ \/ \E r \in Receipts : Reconcile(r, {}, now)
       \/ Cancel(now)
       \/ Reopen(now)
    /\ UNCHANGED <<gatewayVars, caseVars>>

LiveNext ==
    \E now \in {t \in Times : t >= seen} :
        \/ \E c \in Cases :
              \/ Validate(c, now) \/ Lookup(c, now) \/ ReserveCase(c, now) \/ MarkCase(c, now)
              \/ CheckCase(c, now) \/ UndoCase(c, now) \/ DispatchCase(c, now) \/ Await(c)
              \/ Accept(c) \/ Note(c, now) \/ Look(c, now) \/ Tidy(c) \/ CrashCase(c)
        \/ \E s \in Senders : Gateway(s, now)
        \/ Elsewhere(now)

LiveSpec == LiveInit /\ [][LiveNext]_liveVars

----------------------------------------------------------------------------
\* Properties

\* "A reservation may be released only when the gateway proves that no send
\* occurred": once a case has started its gateway thread, its attempt stays
\* charged and its authorization spent on it, while the thread runs on behind
\* a timeout, an interrupt, a cancellation or a restart.
SendStaysCharged ==
    \A c \in Cases : thread[c] # "none" =>
        Begun(CaseAttempt(c)) /\ spent[Authorization(c)] = {CaseAttempt(c)}

\* What a case returns is true of the gateway and the ledger: a denial sent
\* nothing, an outcome other than "uncertain" was answered by the handler, and
\* a ledger state in the evidence was reached and never taken back.
EvidenceHonest ==
    \A c \in Cases : stage[c] = "done" =>
        /\ verdict[c] = "denied" => thread[c] = "none"
        /\ verdict[c] = "completed" => c \in handled
        /\ reported[c] \in {"dispatched", "uncertain", "usage_unknown"} => Begun(CaseAttempt(c))
        /\ reported[c] = "uncertain" => state[CaseAttempt(c)] # "dispatched"

\* Cleanup runs exactly once for a case whose thread was started and that
\* returned or raised, whichever of response, deadline, failed cleanup and
\* interrupt came first.
CleanupExactlyOnce ==
    \A c \in Cases :
        /\ cleanups[c] <= 1
        /\ stage[c] = "done" /\ thread[c] # "none" => cleanups[c] = 1

\* Nothing is sent at or after a deadline, although mark_dispatched accepts an
\* attempt at that instant: remaining_elapsed_ms is then zero.
SendsBeforeDeadline ==
    [][\A c \in Cases : thread[c] = "none" /\ thread'[c] # "none" =>
          \A b \in line[CaseAttempt(c)] \cup {CaseAttempt(c)} :
              seen' < Policy.elapsed /\ seen' < limits[b].elapsed]_liveVars
====
