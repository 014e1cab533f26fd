---- MODULE LiveDispatchProofs ----
(***************************************************************************)
(* Proofs about LiveDispatch and the gateway it uses.  The gateway's       *)
(* at-most-once guarantee needs nothing of the ledger; that a send stays   *)
(* charged needs only that a case sends after its own mark_dispatched      *)
(* returned, and what the ledger never takes back (LedgerKeeps).           *)
(***************************************************************************)
EXTENDS LiveDispatch, AssessmentBudgetProofs

\* The leaves go to Zenon; the ones that need arithmetic, or records and
\* functions taken apart, cite SMT.
USE Zenon

CaseStages == {"idle", "lookup", "reserve", "mark", "check", "undo", "dispatch", "wait",
               "accept", "note", "look", "note_again", "look_again", "tidy", "done", "crashed"}

CaseVerdicts == {"none", "denied", "intent", "uncertain", "raised", "completed"}

LiveTypeOK ==
    /\ stage \in [Cases -> CaseStages]
    /\ verdict \in [Cases -> CaseVerdicts]
    /\ reported \in [Cases -> {"unknown", "dispatched", "uncertain", "usage_unknown"}]
    /\ cleanups \in [Cases -> Nat]
    /\ thread \in [Senders -> Threads]
    /\ handled \subseteq Senders

LEMMA CaseFacts ==
    ASSUME NEW c \in Cases
    PROVE  /\ c \in Senders
           /\ CaseRequest[c] \in Requests
           /\ CaseAttempt(c) \in Attempts
           /\ Authorization(c) \in Approvals
           /\ {Authorization(c)} \in Optional(Approvals)
  <1>1. c \in Senders /\ CaseRequest[c] \in Requests /\ Authorization(c) \in Approvals
    BY CaseAssumption DEF Authorization
  <1>2. CaseAttempt(c) \in Attempts  BY <1>1, BudgetAssumption DEF CaseAttempt, AttemptRequest
  <1> QED BY <1>1, <1>2 DEF Optional

\* The form of every step.
LEMMA LiveCases ==
    ASSUME LiveNext
    PROVE  \E now \in Times :
             \/ \E c \in Cases :
                   \/ Validate(c, now) \/ Lookup(c, now) \/ ReserveCase(c, now) \/ MarkCase(c, now)
                   \/ CheckCase(c, now) \/ UndoCase(c, now) \/ DispatchCase(c, now) \/ Await(c)
                   \/ Accept(c) \/ Note(c, now) \/ Look(c, now) \/ Tidy(c) \/ CrashCase(c)
             \/ \E s \in Senders : Gateway(s, now)
             \/ Elsewhere(now)
  BY DEF LiveNext

\* No case does anything to the ledger that its operations do not.
LEMMA LiveLedgerStep == [LiveNext]_liveVars => [Next]_vars
  <1> SUFFICES ASSUME [LiveNext]_liveVars PROVE [Next]_vars  OBVIOUS
  <1>1. CASE UNCHANGED liveVars  BY <1>1 DEF liveVars
  <1>2. ASSUME NEW c \in Cases, NEW now \in Times,
               Validate(c, now) \/ Await(c) \/ Accept(c) \/ Tidy(c) \/ CrashCase(c)
        PROVE  UNCHANGED vars
    BY <1>2 DEF Validate, Await, Accept, Tidy, CrashCase
  <1>3. ASSUME NEW c \in Cases, NEW now \in Times,
               Lookup(c, now) \/ CheckCase(c, now) \/ DispatchCase(c, now) \/ Look(c, now)
        PROVE  Next
    BY <1>3 DEF Lookup, CheckCase, DispatchCase, Look, Next
  <1>4. ASSUME NEW c \in Cases, NEW now \in Times, ReserveCase(c, now) PROVE Next
    <2> DEFINE r == CaseRequest[c]
               l == IF CaseLimits[c] = {} THEN Inherited(r) ELSE CHOOSE m \in CaseLimits[c] : TRUE
    <2>1. l \in LimitChoices \cup {Inherited(r)}
      <3>1. CASE CaseLimits[c] = {}  BY <3>1
      <3>2. CASE CaseLimits[c] # {}
        <4>1. CaseLimits[c] \subseteq LimitChoices  BY CaseAssumption, OptionalFacts
        <4>2. (CHOOSE m \in CaseLimits[c] : TRUE) \in CaseLimits[c]  BY <3>2
        <4> QED BY <3>2, <4>1, <4>2
      <3> QED BY <3>1, <3>2
    <2>2. Reserve(r, l, now) \/ Observe(now)  BY <1>4 DEF ReserveCase
    <2> HIDE DEF l
    <2> QED BY <2>1, <2>2, CaseFacts DEF Next
  <1>5. ASSUME NEW c \in Cases, NEW now \in Times, MarkCase(c, now) PROVE Next
    <2>1. {} \in Optional(Prerequisites)  BY DEF Optional
    <2> QED BY <1>5, <2>1, CaseFacts DEF MarkCase, Next
  <1>6. ASSUME NEW c \in Cases, NEW now \in Times, UndoCase(c, now) PROVE Next
    BY <1>6, CaseFacts DEF UndoCase, Next
  <1>7. ASSUME NEW c \in Cases, NEW now \in Times, Note(c, now) PROVE Next
    BY <1>7, CaseFacts DEF Note, Next
  <1>8. ASSUME NEW s \in Senders, NEW now \in Times, Gateway(s, now) PROVE UNCHANGED vars
    BY <1>8 DEF Gateway
  <1>9. ASSUME NEW now \in Times, Elsewhere(now) PROVE Next
    <2>1. {} \in Optional(Prerequisites)  BY DEF Optional
    <2> QED BY <1>9, <2>1 DEF Elsewhere, Next
  <1> QED BY <1>1, <1>2, <1>3, <1>4, <1>5, <1>6, <1>7, <1>8, <1>9, LiveCases

\* Live cases implement the budget ledger, so its theorems hold of them too.
THEOREM CasesImplementLedger == LiveSpec => Spec
  <1>1. LiveInit => Init  BY DEF LiveInit
  <1> QED BY <1>1, LiveLedgerStep, PTL DEF LiveSpec, Spec

----------------------------------------------------------------------------
\* Types

LEMMA LiveTypeInductive == LiveTypeOK /\ [LiveNext]_liveVars => LiveTypeOK'
  <1> SUFFICES ASSUME LiveTypeOK, [LiveNext]_liveVars PROVE LiveTypeOK'  OBVIOUS
  <1> USE DEF Go, Quiet, gatewayVars
  <1>a. /\ {"none", "denied", "intent", "uncertain", "raised", "completed"} = CaseVerdicts
        /\ \A c \in Cases : verdict[c] \in CaseVerdicts
    BY DEF CaseVerdicts, LiveTypeOK
  <1>b. {"lookup", "reserve", "mark", "check", "undo", "dispatch", "wait", "accept", "note",
         "look", "note_again", "look_again", "tidy", "done", "crashed"} \subseteq CaseStages
    BY DEF CaseStages
  <1>c. {"preflight", "consume", "handler", "answered", "failed"} \subseteq Threads
    BY DEF Threads
  <1>1. CASE UNCHANGED liveVars  BY <1>1 DEF liveVars, caseVars, LiveTypeOK
  <1>2. ASSUME NEW c \in Cases, NEW now \in Times, Validate(c, now) PROVE LiveTypeOK'
    BY <1>2, <1>a, <1>b DEF Validate, LiveTypeOK
  <1>3. ASSUME NEW c \in Cases, NEW now \in Times, Lookup(c, now) PROVE LiveTypeOK'
    BY <1>3, <1>a, <1>b DEF Lookup, LiveTypeOK
  <1>4. ASSUME NEW c \in Cases, NEW now \in Times, ReserveCase(c, now) PROVE LiveTypeOK'
    BY <1>4, <1>a, <1>b, SMT DEF ReserveCase, LiveTypeOK
  <1>5. ASSUME NEW c \in Cases, NEW now \in Times, MarkCase(c, now) PROVE LiveTypeOK'
    BY <1>5, <1>a, <1>b DEF MarkCase, LiveTypeOK
  <1>6. ASSUME NEW c \in Cases, NEW now \in Times, CheckCase(c, now) PROVE LiveTypeOK'
    BY <1>6, <1>a, <1>b, SMT DEF CheckCase, LiveTypeOK
  <1>7. ASSUME NEW c \in Cases, NEW now \in Times, UndoCase(c, now) PROVE LiveTypeOK'
    BY <1>7, <1>a, <1>b DEF UndoCase, LiveTypeOK
  <1>8. ASSUME NEW c \in Cases, NEW now \in Times, DispatchCase(c, now) PROVE LiveTypeOK'
    BY <1>8, <1>a, <1>b, <1>c, CaseFacts, SMT DEF DispatchCase, Send, LiveTypeOK
  <1>9. ASSUME NEW c \in Cases, Await(c) PROVE LiveTypeOK'
    BY <1>9, <1>a, <1>b, SMT DEF Await, LiveTypeOK
  <1>10. ASSUME NEW c \in Cases, Accept(c) PROVE LiveTypeOK'
    <2>1. cleanups' \in [Cases -> Nat]  BY <1>10, SMT DEF Accept, LiveTypeOK
    <2> QED BY <1>10, <2>1, <1>a, <1>b, SMT DEF Accept, LiveTypeOK
  <1>11. ASSUME NEW c \in Cases, NEW now \in Times, Note(c, now) PROVE LiveTypeOK'
    BY <1>11, <1>a, <1>b, SMT DEF Note, Report, LiveTypeOK
  <1>12. ASSUME NEW c \in Cases, NEW now \in Times, Look(c, now) PROVE LiveTypeOK'
    <2>1. Seen(CaseAttempt(c)) \in {"unknown", "dispatched", "uncertain", "usage_unknown"}
      BY DEF Seen
    <2>2. reported' \in [Cases -> {"unknown", "dispatched", "uncertain", "usage_unknown"}]
      BY <1>12, <2>1 DEF Look, Report, LiveTypeOK
    <2> QED BY <1>12, <2>2, <1>a, <1>b, SMT DEF Look, LiveTypeOK
  <1>13. ASSUME NEW c \in Cases, Tidy(c) PROVE LiveTypeOK'
    BY <1>13, <1>a, <1>b DEF Tidy, LiveTypeOK
  <1>14. ASSUME NEW c \in Cases, CrashCase(c) PROVE LiveTypeOK'
    BY <1>14, <1>a, <1>b, <1>c, CaseFacts DEF CrashCase, LiveTypeOK
  <1>15. ASSUME NEW s \in Senders, NEW now \in Times, Gateway(s, now) PROVE LiveTypeOK'
    BY <1>15, <1>c DEF Gateway, GatewayStep, Send, VerifyGrant, ConsumeGrant, Handle, caseVars,
                       LiveTypeOK
  <1>16. ASSUME NEW now \in Times, Elsewhere(now) PROVE LiveTypeOK'
    BY <1>16 DEF Elsewhere, caseVars, LiveTypeOK
  <1> QED BY <1>1, <1>2, <1>3, <1>4, <1>5, <1>6, <1>7, <1>8, <1>9, <1>10, <1>11, <1>12, <1>13,
             <1>14, <1>15, <1>16, LiveCases

LEMMA LiveTypeCorrect == LiveSpec => []LiveTypeOK
  <1>1. LiveInit => LiveTypeOK
    BY SMT DEF LiveInit, GatewayInit, LiveTypeOK, CaseStages, CaseVerdicts, Threads
  <1> QED BY <1>1, LiveTypeInductive, PTL DEF LiveSpec

----------------------------------------------------------------------------
\* The gateway

\* A sender past the commit of its own consumption.
Holder(s) == thread[s] = "handler" \/ s \in handled

GatewayInv ==
    /\ \A s \in Senders : Holder(s) => GrantOf[s] \in consumed
    /\ \A s, t \in Senders : Holder(s) /\ Holder(t) /\ Conflicts(GrantOf[s], GrantOf[t]) => s = t

\* What a step can do to the gateway.
LEMMA GatewayCases ==
    ASSUME [LiveNext]_liveVars
    PROVE  \/ UNCHANGED gatewayVars
           \/ \E s \in Senders :
                 \/ Send(s) \/ (\E now \in Times : VerifyGrant(s, now)) \/ ConsumeGrant(s) \/ Handle(s)
                 \/ /\ thread' = [thread EXCEPT ![s] = IF @ \in {"none", "answered"} THEN @ ELSE "failed"]
                    /\ UNCHANGED <<consumed, handled>>
  <1>1. CASE UNCHANGED liveVars  BY <1>1 DEF liveVars
  <1>2. ASSUME NEW c \in Cases, NEW now \in Times,
               \/ Validate(c, now) \/ Lookup(c, now) \/ ReserveCase(c, now) \/ MarkCase(c, now)
               \/ CheckCase(c, now) \/ UndoCase(c, now) \/ Await(c) \/ Accept(c) \/ Note(c, now)
               \/ Look(c, now) \/ Tidy(c)
        PROVE  UNCHANGED gatewayVars
    BY <1>2 DEF Validate, Lookup, ReserveCase, MarkCase, CheckCase, UndoCase, Await, Accept, Note,
                Look, Tidy, Quiet
  <1>3. ASSUME NEW c \in Cases, NEW now \in Times, DispatchCase(c, now)
        PROVE  Send(c) \/ UNCHANGED gatewayVars
    BY <1>3 DEF DispatchCase
  <1>4. ASSUME NEW c \in Cases, CrashCase(c)
        PROVE  /\ thread' = [thread EXCEPT ![c] = IF @ \in {"none", "answered"} THEN @ ELSE "failed"]
               /\ UNCHANGED <<consumed, handled>>
    BY <1>4 DEF CrashCase
  <1>5. ASSUME NEW s \in Senders, NEW now \in Times, Gateway(s, now)
        PROVE  Send(s) \/ VerifyGrant(s, now) \/ ConsumeGrant(s) \/ Handle(s)
    BY <1>5 DEF Gateway, GatewayStep
  <1>6. ASSUME NEW now \in Times, Elsewhere(now) PROVE UNCHANGED gatewayVars
    BY <1>6 DEF Elsewhere
  <1> QED BY <1>1, <1>2, <1>3, <1>4, <1>5, <1>6, LiveCases, CaseFacts

LEMMA GatewayInductive == LiveTypeOK /\ GatewayInv /\ [LiveNext]_liveVars => GatewayInv'
  <1> SUFFICES ASSUME LiveTypeOK, GatewayInv, [LiveNext]_liveVars PROVE GatewayInv'  OBVIOUS
  <1>1. CASE UNCHANGED gatewayVars  BY <1>1 DEF gatewayVars, GatewayInv, Holder
  <1>2. ASSUME consumed \subseteq consumed', \A s \in Senders : Holder(s)' => Holder(s)
        PROVE  GatewayInv'
    BY <1>2 DEF GatewayInv
  <1>3. ASSUME NEW s \in Senders, Send(s) \/ \E now \in Times : VerifyGrant(s, now)
        PROVE  GatewayInv'
    <2>1. \A t \in Senders : Holder(t)' => Holder(t)
      BY <1>3 DEF Send, VerifyGrant, Holder, LiveTypeOK
    <2> QED BY <1>2, <1>3, <2>1 DEF Send, VerifyGrant
  <1>4. ASSUME NEW s \in Senders, ConsumeGrant(s) PROVE GatewayInv'
    <2>1. \A t \in Senders \ {s} : Holder(t)' => Holder(t)
      BY <1>4 DEF ConsumeGrant, Holder, LiveTypeOK
    <2>2. consumed \subseteq consumed'  BY <1>4 DEF ConsumeGrant
    <2>3. CASE Holder(s)' => Holder(s)  BY <1>2, <2>1, <2>2, <2>3
    <2>4. CASE Holder(s)' /\ ~Holder(s)
      <3>1. (\A h \in consumed : ~Conflicts(GrantOf[s], h)) /\ GrantOf[s] \in consumed'
        BY <1>4, <2>4 DEF ConsumeGrant, Holder, LiveTypeOK
      <3>2. ASSUME NEW t \in Senders \ {s}, Holder(t)' PROVE ~Conflicts(GrantOf[s], GrantOf[t])
        BY <2>1, <3>1, <3>2 DEF GatewayInv
      <3>3. \A t, u \in Senders :
                Holder(t)' /\ Holder(u)' /\ Conflicts(GrantOf[t], GrantOf[u]) => t = u
        <4> SUFFICES ASSUME NEW t \in Senders, NEW u \in Senders, Holder(t)', Holder(u)',
                            Conflicts(GrantOf[t], GrantOf[u])
                     PROVE  t = u
          OBVIOUS
        <4>1. CASE t # s /\ u # s  BY <2>1, <4>1 DEF GatewayInv
        <4>2. CASE t = s \/ u = s  BY <3>2, <4>2, SMT DEF Conflicts
        <4> QED BY <4>1, <4>2
      <3>4. \A t \in Senders : Holder(t)' => GrantOf[t] \in consumed'
        BY <2>1, <2>2, <3>1 DEF GatewayInv
      <3> QED BY <3>3, <3>4 DEF GatewayInv, Conflicts
    <2> QED BY <2>3, <2>4
  <1>5. ASSUME NEW s \in Senders, Handle(s) PROVE GatewayInv'
    <2>1. \A t \in Senders : Holder(t)' => Holder(t)
      BY <1>5 DEF Handle, Holder, LiveTypeOK
    <2> QED BY <1>2, <1>5, <2>1 DEF Handle
  <1>6. ASSUME NEW s \in Senders,
               thread' = [thread EXCEPT ![s] = IF @ \in {"none", "answered"} THEN @ ELSE "failed"],
               UNCHANGED <<consumed, handled>>
        PROVE  GatewayInv'
    <2>1. \A t \in Senders : Holder(t)' => Holder(t)  BY <1>6 DEF Holder, LiveTypeOK
    <2> QED BY <1>2, <1>6, <2>1
  <1> QED BY <1>1, <1>3, <1>4, <1>5, <1>6, GatewayCases

\* Whatever the senders and their failures, no dispatch and no authorization
\* identifier reaches a handler twice.
THEOREM HandlerRunsOnce == LiveSpec => []HandlerOnce
  <1>1. LiveInit => GatewayInv  BY DEF LiveInit, GatewayInit, GatewayInv, Holder
  <1>2. LiveTypeOK /\ GatewayInv => HandlerOnce
    BY DEF LiveTypeOK, GatewayInv, HandlerOnce, Holder
  <1> QED BY <1>1, <1>2, GatewayInductive, LiveTypeCorrect, PTL DEF LiveSpec

----------------------------------------------------------------------------
\* The cases

Unsent == {"idle", "lookup", "reserve", "mark", "check", "undo", "dispatch"}

Noting == {"note", "look", "note_again", "look_again", "tidy"}

\* What the place a case has reached says of its thread and its cleanup.
CasePlaced(c) ==
    /\ stage[c] \in Unsent => thread[c] = "none"
    /\ stage[c] \in Unsent \cup {"wait", "accept"} => cleanups[c] = 0
    /\ stage[c] = "accept" \/ thread[c] = "answered" => c \in handled
    /\ stage[c] = "undo" => verdict[c] = "denied"
    /\ stage[c] \in Noting => verdict[c] \in {"intent", "uncertain", "raised", "completed"}
    /\ stage[c] \in Noting \cup {"done"} =>
        /\ verdict[c] \in {"intent", "denied"} => thread[c] = "none"
        /\ verdict[c] = "completed" => c \in handled /\ cleanups[c] = 1
    /\ cleanups[c] <= 1
    /\ stage[c] = "done" /\ thread[c] # "none" => cleanups[c] = 1

\* The charge a thread stands on, from its intent onwards.
PaidFor(c) == Begun(CaseAttempt(c)) /\ spent[Authorization(c)] = {CaseAttempt(c)}

Charging(c) == stage[c] = "dispatch" \/ thread[c] # "none" => PaidFor(c)

\* The ledger state in the evidence.
ReportHolds(c) ==
    /\ reported[c] \in {"dispatched", "uncertain", "usage_unknown"} => Begun(CaseAttempt(c))
    /\ reported[c] = "uncertain" => state[CaseAttempt(c)] # "dispatched"

CaseInv == \A c \in Cases : CasePlaced(c) /\ Charging(c) /\ ReportHolds(c)

\* What the ledger keeps of a case.
LEMMA LedgerStays ==
    ASSUME NEW c \in Cases, Keeps
    PROVE  /\ Forward(state[CaseAttempt(c)], state'[CaseAttempt(c)])
           /\ Begun(CaseAttempt(c)) => Begun(CaseAttempt(c))'
           /\ PaidFor(c) => PaidFor(c)'
           /\ ReportHolds(c) /\ reported'[c] = reported[c] => ReportHolds(c)'
  <1>1. Forward(state[CaseAttempt(c)], state'[CaseAttempt(c)])  BY CaseFacts DEF Keeps
  <1>2. Begun(CaseAttempt(c)) => Begun(CaseAttempt(c))'
    BY <1>1 DEF Begun, Forward, CaseAttempt
  <1>3. PaidFor(c) => PaidFor(c)'
    BY <1>2, CaseFacts DEF PaidFor, Keeps, CaseAttempt, Authorization
  <1>4. ASSUME ReportHolds(c), reported'[c] = reported[c] PROVE ReportHolds(c)'
    <2>1. CASE reported[c] \in {"dispatched", "uncertain", "usage_unknown"}
      BY <1>1, <1>2, <1>4, <2>1 DEF ReportHolds, Forward, Begun, CaseAttempt
    <2>2. CASE reported[c] \notin {"dispatched", "uncertain", "usage_unknown"}
      BY <1>4, <2>2 DEF ReportHolds
    <2> QED BY <2>1, <2>2
  <1> QED BY <1>1, <1>2, <1>3, <1>4

\* A case whose own variables do not change; its thread may go on.
CaseStill(c) ==
    /\ stage'[c] = stage[c]
    /\ verdict'[c] = verdict[c]
    /\ reported'[c] = reported[c]
    /\ cleanups'[c] = cleanups[c]
    /\ thread[c] = "none" <=> thread'[c] = "none"
    /\ thread'[c] = "answered" => thread[c] = "answered" \/ c \in handled'
    /\ handled \subseteq handled'

LEMMA CaseStillStays ==
    ASSUME NEW c \in Cases, Keeps, CaseStill(c), CasePlaced(c), Charging(c), ReportHolds(c)
    PROVE  CasePlaced(c)' /\ Charging(c)' /\ ReportHolds(c)'
  <1>1. CasePlaced(c)'  BY DEF CaseStill, CasePlaced
  <1>2. Charging(c)'
    <2>1. CASE stage[c] = "dispatch" \/ thread[c] # "none"
      <3>1. PaidFor(c)'  BY <2>1, LedgerStays DEF Charging
      <3> QED BY <3>1 DEF Charging
    <2>2. CASE ~(stage[c] = "dispatch" \/ thread[c] # "none")
      BY <2>2 DEF Charging, CaseStill
    <2> QED BY <2>1, <2>2
  <1>3. ReportHolds(c)'  BY LedgerStays DEF CaseStill
  <1> QED BY <1>1, <1>2, <1>3

\* It is enough to look at the case that moves.
LEMMA OneCaseMoves ==
    ASSUME NEW c \in Cases, Keeps, CaseInv, \A d \in Cases \ {c} : CaseStill(d),
           CasePlaced(c)', Charging(c)', ReportHolds(c)'
    PROVE  CaseInv'
  BY CaseStillStays DEF CaseInv

LEMMA CaseInvInductive ==
    TypeOK /\ Records /\ LiveTypeOK /\ CaseInv /\ [LiveNext]_liveVars => CaseInv'
  <1> SUFFICES ASSUME TypeOK, Records, LiveTypeOK, CaseInv, [LiveNext]_liveVars PROVE CaseInv'
    OBVIOUS
  <1> USE DEF Go, Quiet, gatewayVars
  <1>a. Keeps  BY LiveLedgerStep, LedgerKeeps
  <1>b. \A c \in Cases : CasePlaced(c) /\ Charging(c) /\ ReportHolds(c)  BY DEF CaseInv
  <1>c. ASSUME \A c \in Cases : CaseStill(c) PROVE CaseInv'
    BY <1>a, <1>c, CaseStillStays DEF CaseInv
  <1>1. CASE UNCHANGED liveVars
    <2>1. \A c \in Cases : CaseStill(c)  BY <1>1 DEF liveVars, caseVars, CaseStill
    <2> QED BY <1>c, <2>1
  <1>2. ASSUME NEW c \in Cases, NEW now \in Times, Validate(c, now) PROVE CaseInv'
    <2> USE DEF Validate
    <2>1. \A d \in Cases \ {c} : CaseStill(d)  BY <1>2, CaseFacts DEF CaseStill, LiveTypeOK
    <2>2. CasePlaced(c)'  BY <1>2, <1>b, CaseFacts, SMT DEF CasePlaced, Unsent, Noting, LiveTypeOK
    <2>3. Charging(c)'
      <3>1. stage'[c] # "dispatch" /\ (thread'[c] # "none" => thread[c] # "none")
        BY <1>2, CaseFacts DEF LiveTypeOK
      <3> QED BY <1>a, <1>b, <3>1, LedgerStays DEF Charging
    <2>4. ReportHolds(c)'  BY <1>2, <1>a, <1>b, LedgerStays
    <2> QED BY <1>a, <2>1, <2>2, <2>3, <2>4, OneCaseMoves
  <1>3. ASSUME NEW c \in Cases, NEW now \in Times, Lookup(c, now) PROVE CaseInv'
    <2> USE DEF Lookup
    <2>1. \A d \in Cases \ {c} : CaseStill(d)  BY <1>3, CaseFacts DEF CaseStill, LiveTypeOK
    <2>2. CasePlaced(c)'  BY <1>3, <1>b, CaseFacts DEF CasePlaced, Unsent, Noting, LiveTypeOK
    <2>3. Charging(c)'
      <3>1. stage'[c] # "dispatch" /\ (thread'[c] # "none" => thread[c] # "none")
        BY <1>3, CaseFacts DEF LiveTypeOK
      <3> QED BY <1>a, <1>b, <3>1, LedgerStays DEF Charging
    <2>4. ReportHolds(c)'  BY <1>3, <1>a, <1>b, LedgerStays
    <2> QED BY <1>a, <2>1, <2>2, <2>3, <2>4, OneCaseMoves
  <1>4. ASSUME NEW c \in Cases, NEW now \in Times, ReserveCase(c, now) PROVE CaseInv'
    <2> USE DEF ReserveCase
    <2>1. \A d \in Cases \ {c} : CaseStill(d)  BY <1>4, CaseFacts DEF CaseStill, LiveTypeOK
    <2>2. CasePlaced(c)'  BY <1>4, <1>b, CaseFacts, SMT DEF CasePlaced, Unsent, Noting, LiveTypeOK
    <2>3. Charging(c)'
      <3>1. stage'[c] # "dispatch" /\ (thread'[c] # "none" => thread[c] # "none")
        BY <1>4, CaseFacts DEF LiveTypeOK
      <3> QED BY <1>a, <1>b, <3>1, LedgerStays DEF Charging
    <2>4. ReportHolds(c)'  BY <1>4, <1>a, <1>b, LedgerStays
    <2> QED BY <1>a, <2>1, <2>2, <2>3, <2>4, OneCaseMoves
  <1>5. ASSUME NEW c \in Cases, NEW now \in Times, MarkCase(c, now) PROVE CaseInv'
    <2> USE DEF MarkCase
    <2>1. \A d \in Cases \ {c} : CaseStill(d)  BY <1>5, CaseFacts DEF CaseStill, LiveTypeOK
    <2>2. CasePlaced(c)'  BY <1>5, <1>b, CaseFacts DEF CasePlaced, Unsent, Noting, LiveTypeOK
    <2>3. Charging(c)'
      <3>1. thread'[c] = "none"  BY <1>5, <1>b DEF CasePlaced, Unsent
      <3>2. CASE MarkDispatched(CaseAttempt(c), {Authorization(c)}, {}, now)
        <4>1. Begun(CaseAttempt(c))'
          BY <3>2, CaseFacts DEF MarkDispatched, Begun, TypeOK, CaseAttempt
        <4>2. spent'[Authorization(c)] = {CaseAttempt(c)}
          BY <3>2, CaseFacts DEF MarkDispatched
        <4> QED BY <4>1, <4>2 DEF Charging, PaidFor, CaseAttempt, Authorization
      <3>3. CASE ~MarkDispatched(CaseAttempt(c), {Authorization(c)}, {}, now)
        <4>1. stage'[c] = "check"  BY <1>5, <3>3 DEF LiveTypeOK
        <4> QED BY <3>1, <4>1 DEF Charging
      <3> QED BY <3>2, <3>3
    <2>4. ReportHolds(c)'  BY <1>5, <1>a, <1>b, LedgerStays
    <2> QED BY <1>a, <2>1, <2>2, <2>3, <2>4, OneCaseMoves
  <1>6. ASSUME NEW c \in Cases, NEW now \in Times, CheckCase(c, now) PROVE CaseInv'
    <2> USE DEF CheckCase
    <2>1. \A d \in Cases \ {c} : CaseStill(d)  BY <1>6, CaseFacts DEF CaseStill, LiveTypeOK
    <2>2. CasePlaced(c)'  BY <1>6, <1>b, CaseFacts, SMT DEF CasePlaced, Unsent, Noting, LiveTypeOK
    <2>3. Charging(c)'
      <3>1. stage'[c] # "dispatch" /\ (thread'[c] # "none" => thread[c] # "none")
        BY <1>6, CaseFacts DEF LiveTypeOK
      <3> QED BY <1>a, <1>b, <3>1, LedgerStays DEF Charging
    <2>4. ReportHolds(c)'  BY <1>6, <1>a, <1>b, LedgerStays
    <2> QED BY <1>a, <2>1, <2>2, <2>3, <2>4, OneCaseMoves
  <1>7. ASSUME NEW c \in Cases, NEW now \in Times, UndoCase(c, now) PROVE CaseInv'
    <2> USE DEF UndoCase
    <2>1. \A d \in Cases \ {c} : CaseStill(d)  BY <1>7, CaseFacts DEF CaseStill, LiveTypeOK
    <2>2. CasePlaced(c)'  BY <1>7, <1>b, CaseFacts DEF CasePlaced, Unsent, Noting, LiveTypeOK
    <2>3. Charging(c)'
      <3>1. stage'[c] # "dispatch" /\ (thread'[c] # "none" => thread[c] # "none")
        BY <1>7, CaseFacts DEF LiveTypeOK
      <3> QED BY <1>a, <1>b, <3>1, LedgerStays DEF Charging
    <2>4. ReportHolds(c)'  BY <1>7, <1>a, <1>b, LedgerStays
    <2> QED BY <1>a, <2>1, <2>2, <2>3, <2>4, OneCaseMoves
  <1>8. ASSUME NEW c \in Cases, NEW now \in Times, DispatchCase(c, now) PROVE CaseInv'
    <2> USE DEF DispatchCase, Send
    <2>1. \A d \in Cases \ {c} : CaseStill(d)  BY <1>8, CaseFacts DEF CaseStill, LiveTypeOK
    <2>2. CasePlaced(c)'  BY <1>8, <1>b, CaseFacts, SMT DEF CasePlaced, Unsent, Noting, LiveTypeOK
    <2>3. Charging(c)'
      <3>1. PaidFor(c)'  BY <1>8, <1>a, <1>b, LedgerStays DEF Charging
      <3> QED BY <3>1 DEF Charging
    <2>4. ReportHolds(c)'  BY <1>8, <1>a, <1>b, LedgerStays
    <2> QED BY <1>a, <2>1, <2>2, <2>3, <2>4, OneCaseMoves
  <1>9. ASSUME NEW c \in Cases, Await(c) PROVE CaseInv'
    <2> USE DEF Await
    <2>1. \A d \in Cases \ {c} : CaseStill(d)  BY <1>9, CaseFacts DEF CaseStill, LiveTypeOK
    <2>2. CasePlaced(c)'  BY <1>9, <1>b, CaseFacts, SMT DEF CasePlaced, Unsent, Noting, LiveTypeOK
    <2>3. Charging(c)'
      <3>1. stage'[c] # "dispatch" /\ (thread'[c] # "none" => thread[c] # "none")
        BY <1>9, CaseFacts DEF LiveTypeOK
      <3> QED BY <1>a, <1>b, <3>1, LedgerStays DEF Charging
    <2>4. ReportHolds(c)'  BY <1>9, <1>a, <1>b, LedgerStays
    <2> QED BY <1>a, <2>1, <2>2, <2>3, <2>4, OneCaseMoves
  <1>10. ASSUME NEW c \in Cases, Accept(c) PROVE CaseInv'
    <2> USE DEF Accept
    <2>1. \A d \in Cases \ {c} : CaseStill(d)  BY <1>10, CaseFacts DEF CaseStill, LiveTypeOK
    <2>2. CasePlaced(c)'
      <3>1. stage'[c] = "note" /\ verdict'[c] \in {"completed", "uncertain", "raised"}
        BY <1>10, CaseFacts DEF LiveTypeOK
      <3>2. cleanups'[c] \in {0, 1} /\ (verdict'[c] = "completed" => cleanups'[c] = 1)
        BY <1>10, <1>b, CaseFacts, SMT DEF CasePlaced, LiveTypeOK
      <3>3. thread' = thread /\ handled' = handled /\ c \in handled
        BY <1>10, <1>b DEF CasePlaced, gatewayVars
      <3> QED BY <3>1, <3>2, <3>3, SMT DEF CasePlaced, Unsent, Noting
    <2>3. Charging(c)'
      <3>1. stage'[c] # "dispatch" /\ (thread'[c] # "none" => thread[c] # "none")
        BY <1>10, CaseFacts DEF LiveTypeOK
      <3> QED BY <1>a, <1>b, <3>1, LedgerStays DEF Charging
    <2>4. ReportHolds(c)'  BY <1>10, <1>a, <1>b, LedgerStays
    <2> QED BY <1>a, <2>1, <2>2, <2>3, <2>4, OneCaseMoves
  <1>11. ASSUME NEW c \in Cases, NEW now \in Times, Note(c, now) PROVE CaseInv'
    <2> USE DEF Note, Report
    <2>1. \A d \in Cases \ {c} : CaseStill(d)  BY <1>11, CaseFacts DEF CaseStill, LiveTypeOK
    <2>2. CasePlaced(c)'  BY <1>11, <1>b, CaseFacts, SMT DEF CasePlaced, Unsent, Noting, LiveTypeOK
    <2>3. Charging(c)'
      <3>1. stage'[c] # "dispatch" /\ (thread'[c] # "none" => thread[c] # "none")
        BY <1>11, CaseFacts DEF LiveTypeOK
      <3> QED BY <1>a, <1>b, <3>1, LedgerStays DEF Charging
    <2>4. ReportHolds(c)'
      <3>1. CASE reported' = reported  BY <1>a, <1>b, <3>1, LedgerStays
      <3>2. CASE MarkUncertain(CaseAttempt(c), now)
        <4>1. state'[CaseAttempt(c)] = "uncertain"
          BY <3>2, CaseFacts DEF MarkUncertain, TypeOK
        <4> QED BY <4>1 DEF ReportHolds, Begun, CaseAttempt
      <3> QED BY <1>11, <3>1, <3>2
    <2> QED BY <1>a, <2>1, <2>2, <2>3, <2>4, OneCaseMoves
  <1>12. ASSUME NEW c \in Cases, NEW now \in Times, Look(c, now) PROVE CaseInv'
    <2> USE DEF Look, Report
    <2>1. \A d \in Cases \ {c} : CaseStill(d)  BY <1>12, CaseFacts DEF CaseStill, LiveTypeOK
    <2>2. CasePlaced(c)'  BY <1>12, <1>b, CaseFacts, SMT DEF CasePlaced, Unsent, Noting, LiveTypeOK
    <2>3. Charging(c)'
      <3>1. stage'[c] # "dispatch" /\ (thread'[c] # "none" => thread[c] # "none")
        BY <1>12, CaseFacts DEF LiveTypeOK
      <3> QED BY <1>a, <1>b, <3>1, LedgerStays DEF Charging
    <2>4. ReportHolds(c)'
      <3>1. CASE reported' = reported  BY <1>a, <1>b, <3>1, LedgerStays
      <3>2. CASE reported'[c] = "unknown"  BY <3>2 DEF ReportHolds
      <3>3. CASE reported'[c] = Seen(CaseAttempt(c))
        <4>1. reported'[c] # "unknown" => reported'[c] = state[CaseAttempt(c)]
          BY <3>3 DEF Seen
        <4>2. Forward(state[CaseAttempt(c)], state'[CaseAttempt(c)])  BY <1>a, LedgerStays
        <4> QED BY <4>1, <4>2 DEF ReportHolds, Begun, Forward, CaseAttempt
      <3>4. reported' = reported \/ reported'[c] \in {"unknown", Seen(CaseAttempt(c))}
        BY <1>12 DEF LiveTypeOK
      <3> QED BY <3>1, <3>2, <3>3, <3>4
    <2> QED BY <1>a, <2>1, <2>2, <2>3, <2>4, OneCaseMoves
  <1>13. ASSUME NEW c \in Cases, Tidy(c) PROVE CaseInv'
    <2> USE DEF Tidy
    <2>1. \A d \in Cases \ {c} : CaseStill(d)  BY <1>13, CaseFacts DEF CaseStill, LiveTypeOK
    <2>2. CasePlaced(c)'  BY <1>13, <1>b, CaseFacts, SMT DEF CasePlaced, Unsent, Noting, LiveTypeOK
    <2>3. Charging(c)'
      <3>1. stage'[c] # "dispatch" /\ (thread'[c] # "none" => thread[c] # "none")
        BY <1>13, CaseFacts DEF LiveTypeOK
      <3> QED BY <1>a, <1>b, <3>1, LedgerStays DEF Charging
    <2>4. ReportHolds(c)'  BY <1>13, <1>a, <1>b, LedgerStays
    <2> QED BY <1>a, <2>1, <2>2, <2>3, <2>4, OneCaseMoves
  <1>14. ASSUME NEW c \in Cases, CrashCase(c) PROVE CaseInv'
    <2> USE DEF CrashCase
    <2>1. \A d \in Cases \ {c} : CaseStill(d)  BY <1>14, CaseFacts DEF CaseStill, LiveTypeOK
    <2>2. CasePlaced(c)'  BY <1>14, <1>b, CaseFacts DEF CasePlaced, Unsent, Noting, LiveTypeOK
    <2>3. Charging(c)'
      <3>1. stage'[c] # "dispatch" /\ (thread'[c] # "none" => thread[c] # "none")
        BY <1>14, CaseFacts DEF LiveTypeOK
      <3> QED BY <1>a, <1>b, <3>1, LedgerStays DEF Charging
    <2>4. ReportHolds(c)'  BY <1>14, <1>a, <1>b, LedgerStays
    <2> QED BY <1>a, <2>1, <2>2, <2>3, <2>4, OneCaseMoves
  <1>15. ASSUME NEW s \in Senders, NEW now \in Times, Gateway(s, now) PROVE CaseInv'
    <2>1. \A c \in Cases : CaseStill(c)
      BY <1>15, CaseFacts
         DEF Gateway, GatewayStep, Send, VerifyGrant, ConsumeGrant, Handle, caseVars, CaseStill,
             LiveTypeOK
    <2> QED BY <1>c, <2>1
  <1>16. ASSUME NEW now \in Times, Elsewhere(now) PROVE CaseInv'
    <2>1. \A c \in Cases : CaseStill(c)  BY <1>16 DEF Elsewhere, caseVars, CaseStill
    <2> QED BY <1>c, <2>1
  <1> QED BY <1>1, <1>2, <1>3, <1>4, <1>5, <1>6, <1>7, <1>8, <1>9, <1>10, <1>11, <1>12, <1>13,
             <1>14, <1>15, <1>16, LiveCases

LEMMA CaseInvHolds == LiveSpec => []CaseInv
  <1>1. ASSUME LiveInit PROVE CaseInv
    <2> SUFFICES ASSUME NEW c \in Cases PROVE CasePlaced(c) /\ Charging(c) /\ ReportHolds(c)
      BY DEF CaseInv
    <2>1. /\ stage[c] = "idle" /\ verdict[c] = "none" /\ reported[c] = "unknown" /\ cleanups[c] = 0
          /\ thread[c] = "none"
      BY <1>1, CaseFacts DEF LiveInit, GatewayInit
    <2> QED BY <2>1, SMT DEF CasePlaced, Charging, ReportHolds, Unsent, Noting
  <1>2. Spec => [](TypeOK /\ Records)  BY TypeCorrect, RecordsInvariant, PTL
  <1> QED BY <1>1, <1>2, CasesImplementLedger, LiveTypeCorrect, CaseInvInductive, PTL DEF LiveSpec

\* A thread that was started, and may still run, is always paid for.
THEOREM SendsStayCharged == LiveSpec => []SendStaysCharged
  <1>1. CaseInv => SendStaysCharged  BY DEF CaseInv, Charging, PaidFor, SendStaysCharged
  <1> QED BY <1>1, CaseInvHolds, PTL

\* What a case returns is true of the gateway and of the ledger.
THEOREM EvidenceIsHonest == LiveSpec => []EvidenceHonest
  <1>1. CaseInv => EvidenceHonest
    BY DEF CaseInv, CasePlaced, ReportHolds, EvidenceHonest, Noting
  <1> QED BY <1>1, CaseInvHolds, PTL

\* A case that sent cleans up once, whatever ended its wait.
THEOREM CleanupRunsOnce == LiveSpec => []CleanupExactlyOnce
  <1>1. CaseInv => CleanupExactlyOnce  BY DEF CaseInv, CasePlaced, CleanupExactlyOnce
  <1> QED BY <1>1, CaseInvHolds, PTL

\* What SendsBeforeDeadline says of one step.
InTime ==
    \A c \in Cases : thread[c] = "none" /\ thread'[c] # "none" =>
        \A b \in line[CaseAttempt(c)] \cup {CaseAttempt(c)} :
            seen' < Policy.elapsed /\ seen' < limits[b].elapsed

LEMMA StepsInTime == TypeOK /\ LiveTypeOK /\ [LiveNext]_liveVars => [InTime]_liveVars
  <1> SUFFICES ASSUME TypeOK, LiveTypeOK, LiveNext, NEW c \in Cases,
                      thread[c] = "none", thread'[c] # "none"
               PROVE  \A b \in line[CaseAttempt(c)] \cup {CaseAttempt(c)} :
                          seen' < Policy.elapsed /\ seen' < limits[b].elapsed
    BY DEF InTime
  <1> USE DEF Quiet, gatewayVars
  <1>1. ASSUME NEW d \in Cases, NEW now \in Times,
               \/ Validate(d, now) \/ Lookup(d, now) \/ ReserveCase(d, now) \/ MarkCase(d, now)
               \/ CheckCase(d, now) \/ UndoCase(d, now) \/ Await(d) \/ Accept(d) \/ Note(d, now)
               \/ Look(d, now) \/ Tidy(d)
        PROVE  thread' = thread
    BY <1>1 DEF Validate, Lookup, ReserveCase, MarkCase, CheckCase, UndoCase, Await, Accept, Note,
                Look, Tidy
  <1>2. ASSUME NEW d \in Cases, CrashCase(d) PROVE thread'[c] = "none"
    BY <1>2, CaseFacts DEF CrashCase, LiveTypeOK
  <1>3. ASSUME NEW s \in Senders, NEW now \in Times, Gateway(s, now) PROVE thread'[c] = "none"
    BY <1>3, CaseFacts DEF Gateway, GatewayStep, Send, VerifyGrant, ConsumeGrant, Handle, LiveTypeOK
  <1>4. ASSUME NEW now \in Times, Elsewhere(now) PROVE thread' = thread
    BY <1>4 DEF Elsewhere
  <1>5. PICK d \in Cases, now \in Times : DispatchCase(d, now)
    BY <1>1, <1>2, <1>3, <1>4, LiveCases
  <1>6. d = c /\ Remaining(CaseAttempt(c), now) > 0 /\ Observe(now)
    BY <1>5, CaseFacts DEF DispatchCase, Send, LiveTypeOK
  <1>7. seen' = now  BY <1>6 DEF Observe, Observed
  <1> DEFINE left == {Policy.elapsed} \cup
                     {limits[b].elapsed : b \in line[CaseAttempt(c)] \cup {CaseAttempt(c)}}
  <1>8. \A t \in left : ~(t <= now)
    <2> SUFFICES ASSUME \E t \in left : t <= now PROVE FALSE  OBVIOUS
    <2>1. Remaining(CaseAttempt(c), now) = 0  BY DEF Remaining
    <2> QED BY <1>6, <2>1, SMT
  <1>9. left \subseteq Nat /\ now \in Nat
    <2>1. Policy \in Limits  BY BudgetAssumption
    <2>2. \A b \in line[CaseAttempt(c)] \cup {CaseAttempt(c)} : limits[b] \in Limits
      BY CaseFacts DEF TypeOK
    <2>3. \A t \in left : t \in Nat  BY <2>1, <2>2 DEF Limits
    <2>4. now \in Nat  BY BudgetAssumption, SMT DEF Times
    <2> QED BY <2>3, <2>4
  <1>10. ASSUME NEW b \in line[CaseAttempt(c)] \cup {CaseAttempt(c)}
         PROVE  seen' < Policy.elapsed /\ seen' < limits[b].elapsed
    <2>1. Policy.elapsed \in left /\ limits[b].elapsed \in left  OBVIOUS
    <2>2. \A t \in left : t \in Nat /\ ~(t <= now)  BY <1>8, <1>9
    <2>3. \A m, n \in Nat : ~(m <= n) => n < m  BY SMT
    <2>4. now < Policy.elapsed /\ now < limits[b].elapsed
      <3> HIDE DEF left
      <3> QED BY <1>9, <2>1, <2>2, <2>3
    <2> QED BY <1>7, <2>4
  <1> QED BY <1>10

\* No thread starts at or after a deadline that covers its attempt.
THEOREM SendsAreInTime == LiveSpec => SendsBeforeDeadline
  <1>1. Spec => []TypeOK  BY TypeCorrect
  <1>2. LiveSpec => [][InTime]_liveVars
    BY <1>1, CasesImplementLedger, LiveTypeCorrect, StepsInTime, PTL DEF LiveSpec
  <1> QED BY <1>2, PTL DEF SendsBeforeDeadline, InTime
====
