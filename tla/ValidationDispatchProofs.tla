---- MODULE ValidationDispatchProofs ----
(***************************************************************************)
(* Proofs about ValidationDispatch.  Every step of a call is a step of the *)
(* ledger or leaves it alone, so what AssessmentBudgetProofs shows of the  *)
(* ledger holds under concurrent, failing and crashing calls.  CallInv     *)
(* ties the place a call has reached to what the ledger durably says about *)
(* its attempt.                                                            *)
(***************************************************************************)
EXTENDS ValidationDispatch, AssessmentBudgetProofs

\* The leaves go to Zenon; the ones that need arithmetic, or records and
\* functions taken apart, cite SMT.
USE Zenon

Forms == [receipt: Receipts, establishes: Optional(Prerequisites)]

CallTypeOK ==
    /\ stage \in [Calls -> Stages]
    /\ verdict \in [Calls -> Verdicts]
    /\ approval \in [Calls -> Optional(Approvals)]
    /\ filing \in [Calls -> Optional(Forms)]
    /\ asked \subseteq Calls
    /\ probed \subseteq Calls

\* What the constants say of a call.
LEMMA CallFacts ==
    ASSUME NEW c \in Calls
    PROVE  /\ RequestOf[c] \in Requests
           /\ AttemptOf(c) \in Attempts
           /\ Consumed(c) \in Optional(Prerequisites)
  <1>1. RequestOf[c] \in Requests  BY CallAssumption
  <1>2. AttemptOf(c) \in Attempts  BY <1>1, BudgetAssumption DEF AttemptOf, AttemptRequest
  <1>3. Consumed(c) \in Optional(Prerequisites)  BY CallAssumption DEF Consumed, Optional
  <1> QED BY <1>1, <1>2, <1>3

LEMMA FilingFacts ==
    ASSUME NEW c \in Calls, NEW v, NEW f \in Filings(c, v)
    PROVE  /\ f \in Forms
           /\ f.receipt.attempt = AttemptOf(c)
           /\ Known(f.receipt)
  BY SMT DEF Filings, Forms, Optional

\* The form of every step: one call moves, over a ledger step.
LEMMA StepCases ==
    ASSUME DispatchNext
    PROVE  \/ \E c \in Calls : Preflight(c) \/ Provider(c) \/ Verify(c) \/ Recover(c) \/ Crash(c)
           \/ \E c \in Calls : \E now \in Times :
                 \/ ReserveAttempt(c, now) \/ Gate(c, now) \/ ReleaseReservation(c, now)
                 \/ MarkAttempt(c, now) \/ CheckAttempt(c, now) \/ Undo(c, now)
                 \/ Doubt(c, now) \/ Settle(c, now)
           \/ \E now \in Times : Elsewhere(now)
  BY DEF DispatchNext, Step

\* No call does anything to the ledger that its operations do not.
LEMMA LedgerStep == CallTypeOK /\ [DispatchNext]_allVars => [Next]_vars
  <1> SUFFICES ASSUME CallTypeOK, [DispatchNext]_allVars PROVE [Next]_vars  OBVIOUS
  <1>1. CASE UNCHANGED allVars  BY <1>1 DEF allVars
  <1>2. ASSUME NEW c \in Calls,
               Preflight(c) \/ Provider(c) \/ Verify(c) \/ Recover(c) \/ Crash(c)
        PROVE  UNCHANGED vars
    BY <1>2 DEF Preflight, Provider, Verify, Recover, Crash
  <1>3. ASSUME NEW c \in Calls, NEW now \in Times, ReserveAttempt(c, now) PROVE Next
    BY <1>3, CallFacts DEF ReserveAttempt, Next
  <1>4. ASSUME NEW c \in Calls, NEW now \in Times, Gate(c, now) PROVE UNCHANGED vars
    BY <1>4 DEF Gate
  <1>5. ASSUME NEW c \in Calls, NEW now \in Times, ReleaseReservation(c, now) PROVE Next
    BY <1>5, CallFacts DEF ReleaseReservation, Next
  <1>6. ASSUME NEW c \in Calls, NEW now \in Times, MarkAttempt(c, now) PROVE Next
    <2>1. approval[c] \in Optional(Approvals)  BY DEF CallTypeOK
    <2> QED BY <1>6, <2>1, CallFacts DEF MarkAttempt, Next
  <1>7. ASSUME NEW c \in Calls, NEW now \in Times, CheckAttempt(c, now) PROVE Next
    BY <1>7 DEF CheckAttempt, Next
  <1>8. ASSUME NEW c \in Calls, NEW now \in Times, Undo(c, now) PROVE Next
    BY <1>8, CallFacts DEF Undo, Next
  <1>9. ASSUME NEW c \in Calls, NEW now \in Times, Doubt(c, now) PROVE Next
    BY <1>9, CallFacts DEF Doubt, Next
  <1>10. ASSUME NEW c \in Calls, NEW now \in Times, Settle(c, now) PROVE Next
    <2>1. PICK f \in filing[c] : \/ Reconcile(f.receipt, f.establishes, now) \/ Observe(now)
      BY <1>10 DEF Settle
    <2>2. f \in Forms  BY SMT DEF CallTypeOK, Optional
    <2> QED BY <2>1, <2>2 DEF Forms, Next
  <1>11. ASSUME NEW now \in Times, Elsewhere(now) PROVE Next
    BY <1>11 DEF Elsewhere, Next
  <1> QED BY <1>1, <1>2, <1>3, <1>4, <1>5, <1>6, <1>7, <1>8, <1>9, <1>10, <1>11, StepCases

LEMMA CallTypeInductive == CallTypeOK /\ [DispatchNext]_allVars => CallTypeOK'
  <1> SUFFICES ASSUME CallTypeOK, [DispatchNext]_allVars PROVE CallTypeOK'  OBVIOUS
  <1> USE DEF Go, Return
  <1>a. /\ {"raised", "blocked_selection", "provider_unavailable", "blocked_prerequisite",
            "none", "budget_denied", "authorization_error", "authorization_denied",
            "dispatch_error", "dispatch_uncertain"} \subseteq Verdicts
        /\ Conclusive \subseteq Verdicts
    BY DEF Verdicts, Undispatched, Conclusive
  <1>b. \A c \in Calls : verdict[c] \in Verdicts  BY DEF CallTypeOK
  <1>c. {"reserve", "gate", "release", "mark", "check", "undo", "provider", "verify", "settle",
         "durable", "doubt", "done", "crashed"} \subseteq Stages
    BY DEF Stages
  <1>1. CASE UNCHANGED allVars  BY <1>1 DEF allVars, callVars, CallTypeOK
  <1>2. ASSUME NEW c \in Calls, Preflight(c) PROVE CallTypeOK'
    BY <1>2, <1>a, <1>c, SMT DEF Preflight, CallTypeOK
  <1>3. ASSUME NEW c \in Calls, Provider(c) PROVE CallTypeOK'
    BY <1>3, <1>a, <1>c, SMT DEF Provider, CallTypeOK
  <1>4. ASSUME NEW c \in Calls, Verify(c) PROVE CallTypeOK'
    <2>1. ASSUME NEW v \in Conclusive, NEW f \in Filings(c, v),
                 filing' = [filing EXCEPT ![c] = {f}], Go(c, "settle", v)
          PROVE  CallTypeOK'
      <3>1. {f} \in Optional(Forms)  BY FilingFacts DEF Optional
      <3> QED BY <1>4, <2>1, <3>1, <1>a, <1>c DEF Verify, CallTypeOK
    <2>2. ASSUME NEW v \in {"dispatch_uncertain", "raised"}, Go(c, "doubt", v), UNCHANGED filing
          PROVE  CallTypeOK'
      BY <1>4, <2>2, <1>a, <1>c DEF Verify, CallTypeOK
    <2> QED BY <1>4, <2>1, <2>2 DEF Verify
  <1>5. ASSUME NEW c \in Calls, Recover(c) PROVE CallTypeOK'
    BY <1>5, <1>a, <1>b, <1>c, SMT DEF Recover, CallTypeOK
  <1>6. ASSUME NEW c \in Calls, Crash(c) PROVE CallTypeOK'
    BY <1>6, <1>b, <1>c DEF Crash, CallTypeOK
  <1>7. ASSUME NEW c \in Calls, NEW now \in Times, ReserveAttempt(c, now) PROVE CallTypeOK'
    BY <1>7, <1>a, <1>c, SMT DEF ReserveAttempt, CallTypeOK
  <1>8. ASSUME NEW c \in Calls, NEW now \in Times, Gate(c, now) PROVE CallTypeOK'
    BY <1>8, <1>a, <1>c, SMT DEF Gate, CallTypeOK, Optional
  <1>9. ASSUME NEW c \in Calls, NEW now \in Times, ReleaseReservation(c, now) PROVE CallTypeOK'
    BY <1>9, <1>a, <1>b, <1>c, SMT DEF ReleaseReservation, CallTypeOK
  <1>10. ASSUME NEW c \in Calls, NEW now \in Times, MarkAttempt(c, now) PROVE CallTypeOK'
    BY <1>10, <1>a, <1>c, SMT DEF MarkAttempt, CallTypeOK
  <1>11. ASSUME NEW c \in Calls, NEW now \in Times, CheckAttempt(c, now) PROVE CallTypeOK'
    BY <1>11, <1>a, <1>c, SMT DEF CheckAttempt, CallTypeOK
  <1>12. ASSUME NEW c \in Calls, NEW now \in Times, Undo(c, now) PROVE CallTypeOK'
    BY <1>12, <1>a, <1>b, <1>c, SMT DEF Undo, CallTypeOK
  <1>13. ASSUME NEW c \in Calls, NEW now \in Times, Doubt(c, now) PROVE CallTypeOK'
    BY <1>13, <1>a, <1>b, <1>c, SMT DEF Doubt, CallTypeOK
  <1>14. ASSUME NEW c \in Calls, NEW now \in Times, Settle(c, now) PROVE CallTypeOK'
    BY <1>14, <1>a, <1>b, <1>c, SMT DEF Settle, CallTypeOK
  <1>15. ASSUME NEW now \in Times, Elsewhere(now) PROVE CallTypeOK'
    BY <1>15 DEF Elsewhere, callVars, CallTypeOK
  <1> QED BY <1>1, <1>2, <1>3, <1>4, <1>5, <1>6, <1>7, <1>8, <1>9, <1>10, <1>11, <1>12, <1>13,
             <1>14, <1>15, StepCases

LEMMA CallTypeCorrect == DispatchSpec => []CallTypeOK
  <1>1. DispatchInit => CallTypeOK
    BY DEF DispatchInit, CallTypeOK, Stages, Verdicts, Optional
  <1> QED BY <1>1, CallTypeInductive, PTL DEF DispatchSpec

\* The calls implement the budget ledger: whatever they do, whenever they fail,
\* the ledger only ever takes steps of AssessmentBudget, so all of its theorems
\* hold of the composed system.
THEOREM CallsImplementLedger == DispatchSpec => Spec
  <1>1. DispatchInit => Init  BY DEF DispatchInit
  <1> QED BY <1>1, LedgerStep, CallTypeCorrect, PTL DEF DispatchSpec, Spec

----------------------------------------------------------------------------
\* A call that won its attempt's dispatch, or has been through it.
Winner(c) == stage[c] \in {"provider", "verify", "settle", "durable"} \/ c \in probed

\* Its attempt is charged, its approval and its prerequisite are spent on it.
Accounted(c) ==
    /\ Begun(AttemptOf(c))
    /\ approval[c] # {}
    /\ \A x \in approval[c] : spent[x] = {AttemptOf(c)}
    /\ \A p \in Consumed(c) : consumer[p.id] = {AttemptOf(c)}

\* The receipt of a filing is in the ledger.
Stored(c) ==
    \E f \in filing[c] :
        /\ f.receipt \in receipts
        /\ state[AttemptOf(c)] = "settled"
        /\ \A p \in f.establishes : [prerequisite |-> p, source |-> AttemptOf(c)] \in prereqs

\* What the place a call has reached says about it.
Placed(c) ==
    /\ stage[c] \in {"idle", "reserve", "gate", "release", "mark", "check", "undo", "provider"} =>
           c \notin probed
    /\ stage[c] \in {"verify", "settle", "durable"} => c \in probed
    /\ stage[c] = "mark" => approval[c] # {}
    /\ stage[c] \in {"release", "undo"} => verdict[c] \in Undispatched \cup {"raised"}
    /\ stage[c] = "doubt" => verdict[c] \in {"dispatch_uncertain", "raised"}
    /\ stage[c] = "settle" => verdict[c] \in Conclusive
    /\ stage[c] = "durable" => verdict[c] \in Conclusive \cup {"raised"}
    /\ \A f \in filing[c] : f \in Forms /\ f.receipt.attempt = AttemptOf(c) /\ Known(f.receipt)
    /\ stage[c] = "done" =>
        /\ verdict[c] \in Undispatched => c \notin probed
        /\ verdict[c] \in Conclusive => c \in probed /\ Stored(c)
        /\ verdict[c] = "dispatch_uncertain" /\ c \in probed => state[AttemptOf(c)] # "dispatched"

CallInv ==
    /\ \A c \in Calls : Placed(c)
    /\ \A c \in Calls : Winner(c) => Accounted(c)
    /\ \A c, d \in Calls : Winner(c) /\ Winner(d) /\ AttemptOf(c) = AttemptOf(d) => c = d

\* A call whose own variables do not change.
Still(c) ==
    /\ stage'[c] = stage[c]
    /\ verdict'[c] = verdict[c]
    /\ approval'[c] = approval[c]
    /\ filing'[c] = filing[c]
    /\ c \in probed' <=> c \in probed

LEMMA StoredStays ==
    ASSUME NEW c \in Calls, Stored(c), Keeps, filing'[c] = filing[c]
    PROVE  Stored(c)'
  <1>1. Forward(state[AttemptOf(c)], state'[AttemptOf(c)])  BY CallFacts DEF Keeps
  <1>2. state'[AttemptOf(c)] = "settled"  BY <1>1 DEF Stored, Forward
  <1> QED BY <1>2 DEF Stored, Keeps, AttemptOf

LEMMA AccountedStays ==
    ASSUME NEW c \in Calls, CallTypeOK, Accounted(c), Keeps, approval'[c] = approval[c]
    PROVE  Accounted(c)'
  <1>1. Forward(state[AttemptOf(c)], state'[AttemptOf(c)])  BY CallFacts DEF Keeps
  <1>2. Begun(AttemptOf(c))'  BY <1>1 DEF Accounted, Begun, Forward, AttemptOf
  <1>3. ASSUME NEW x \in approval[c] PROVE spent'[x] = {AttemptOf(c)}
    <2>1. x \in Approvals  BY OptionalFacts DEF CallTypeOK
    <2> QED BY <2>1 DEF Accounted, Keeps
  <1>4. ASSUME NEW p \in Consumed(c) PROVE consumer'[p.id] = {AttemptOf(c)}
    <2>1. p.id \in PrerequisiteIds  BY OptionalFacts, CallFacts DEF PrerequisiteIds
    <2> QED BY <2>1 DEF Accounted, Keeps
  <1> QED BY <1>2, <1>3, <1>4 DEF Accounted, AttemptOf, Consumed

LEMMA StillStays ==
    ASSUME NEW c \in Calls, CallTypeOK, Keeps, Still(c), Placed(c), Winner(c) => Accounted(c)
    PROVE  Placed(c)' /\ (Winner(c) => Accounted(c))' /\ (Winner(c)' <=> Winner(c))
  <1>1. Winner(c)' <=> Winner(c)  BY DEF Still, Winner
  <1>2. (Winner(c) => Accounted(c))'  BY <1>1, AccountedStays DEF Still
  <1>3. stage[c] = "done" /\ verdict[c] = "dispatch_uncertain" /\ c \in probed =>
            state'[AttemptOf(c)] # "dispatched"
    <2>1. Forward(state[AttemptOf(c)], state'[AttemptOf(c)])  BY CallFacts DEF Keeps
    <2> SUFFICES ASSUME stage[c] = "done", verdict[c] = "dispatch_uncertain", c \in probed
                 PROVE  state'[AttemptOf(c)] # "dispatched"
      OBVIOUS
    <2>2. Begun(AttemptOf(c)) /\ state[AttemptOf(c)] # "dispatched"
      BY DEF Placed, Winner, Accounted
    <2> QED BY <2>1, <2>2 DEF Forward, Begun
  <1>4. stage[c] = "done" /\ verdict[c] \in Conclusive => Stored(c)'
    BY StoredStays DEF Placed, Still
  <1>5. Placed(c)'  BY <1>3, <1>4 DEF Placed, Still, AttemptOf, Known
  <1> QED BY <1>1, <1>2, <1>5

\* Only call c moves.
Alone(c) == \A d \in Calls \ {c} : Still(d)

\* It is enough to look at the call that moves: no other call can win an
\* attempt, and the attempt of a new winner was still reserved.
LEMMA OneCallMoves ==
    ASSUME NEW c \in Calls, CallTypeOK, CallInv, Keeps, Alone(c), Placed(c)',
           (Winner(c) => Accounted(c))',
           Winner(c)' => Winner(c) \/ state[AttemptOf(c)] = "reserved"
    PROVE  CallInv'
  <1>1. ASSUME NEW d \in Calls \ {c}
        PROVE  Placed(d)' /\ (Winner(d) => Accounted(d))' /\ (Winner(d)' <=> Winner(d))
    <2>1. Still(d) /\ Placed(d) /\ (Winner(d) => Accounted(d))  BY DEF Alone, CallInv
    <2> QED BY <2>1, StillStays
  <1>2. ASSUME NEW d \in Calls \ {c}, Winner(c)', Winner(d)', AttemptOf(c) = AttemptOf(d)
        PROVE  FALSE
    <2>1. Winner(d)  BY <1>1, <1>2
    <2>2. Begun(AttemptOf(d))  BY <2>1 DEF CallInv, Accounted
    <2>3. CASE Winner(c)  BY <1>2, <2>1, <2>3 DEF CallInv
    <2>4. CASE state[AttemptOf(c)] = "reserved"  BY <1>2, <2>2, <2>4 DEF Begun
    <2> QED BY <1>2, <2>3, <2>4
  <1>3. ASSUME NEW a \in Calls, NEW b \in Calls, Winner(a)', Winner(b)', AttemptOf(a) = AttemptOf(b)
        PROVE  a = b
    <2>1. CASE a # c /\ b # c
      <3>1. Winner(a) /\ Winner(b)  BY <1>1, <1>3, <2>1
      <3> QED BY <1>3, <3>1 DEF CallInv
    <2>2. CASE a = c \/ b = c  BY <1>2, <1>3, <2>2
    <2> QED BY <2>1, <2>2
  <1>4. \A a, b \in Calls : (Winner(a) /\ Winner(b) /\ AttemptOf(a) = AttemptOf(b) => a = b)'
    BY <1>3 DEF AttemptOf
  <1> QED BY <1>1, <1>4 DEF CallInv

LEMMA NobodyMoves ==
    ASSUME CallTypeOK, CallInv, Keeps, UNCHANGED callVars
    PROVE  CallInv'
  <1>1. ASSUME NEW c \in Calls
        PROVE  Placed(c)' /\ (Winner(c) => Accounted(c))' /\ (Winner(c)' <=> Winner(c))
    <2>1. Still(c)  BY DEF callVars, Still
    <2> QED BY <2>1, StillStays DEF CallInv
  <1>2. \A a, b \in Calls : (Winner(a) /\ Winner(b) /\ AttemptOf(a) = AttemptOf(b) => a = b)'
    BY <1>1 DEF CallInv, AttemptOf
  <1> QED BY <1>1, <1>2 DEF CallInv

LEMMA CallInvInductive ==
    TypeOK /\ Records /\ CallTypeOK /\ CallInv /\ [DispatchNext]_allVars => CallInv'
  <1> SUFFICES ASSUME TypeOK, Records, CallTypeOK, CallInv, [DispatchNext]_allVars
               PROVE  CallInv'
    OBVIOUS
  <1>a. Keeps  BY LedgerStep, LedgerKeeps
  <1>t. CallTypeOK'  BY CallTypeInductive
  <1>b. ASSUME NEW c \in Calls
        PROVE  /\ Placed(c)
               /\ Winner(c) => Accounted(c)
               /\ Forward(state[AttemptOf(c)], state'[AttemptOf(c)])
    BY <1>a, CallFacts DEF CallInv, Keeps
  <1>1. CASE UNCHANGED allVars  BY <1>1, <1>a, NobodyMoves DEF allVars, callVars
  <1>2. ASSUME NEW c \in Calls, Preflight(c) PROVE CallInv'
    <2> USE DEF Preflight, Go, Return
    <2>1. Alone(c)  BY <1>2 DEF Alone, Still, CallTypeOK
    <2>2. ~Winner(c)'  BY <1>2, <1>b DEF Placed, Winner, CallTypeOK
    <2>3. Placed(c)'
      BY <1>2, <1>b, SMT DEF Placed, CallTypeOK, AttemptOf, Known, Undispatched, Conclusive
    <2> QED BY <1>a, <2>1, <2>2, <2>3, OneCallMoves
  <1>3. ASSUME NEW c \in Calls, Provider(c) PROVE CallInv'
    <2> USE DEF Provider, Go, Return
    <2>1. Alone(c)  BY <1>3 DEF Alone, Still, CallTypeOK
    <2>2. Winner(c)  BY <1>3 DEF Winner
    <2>3. Accounted(c)'  BY <1>3, <1>a, <1>b, <2>2, AccountedStays
    <2>4. Placed(c)'
      BY <1>3, <1>b, SMT DEF Placed, CallTypeOK, AttemptOf, Known, Undispatched, Conclusive
    <2> QED BY <1>a, <2>1, <2>2, <2>3, <2>4, OneCallMoves
  <1>4. ASSUME NEW c \in Calls, Verify(c) PROVE CallInv'
    <2> USE DEF Verify, Go, Return
    <2>1. Alone(c)  BY <1>4 DEF Alone, Still, CallTypeOK
    <2>2. Winner(c)  BY <1>4 DEF Winner
    <2>3. Accounted(c)'  BY <1>4, <1>a, <1>b, <2>2, AccountedStays
    <2>4. c \in probed /\ probed' = probed  BY <1>4, <1>b DEF Placed
    <2>5. ASSUME NEW v \in {"dispatch_uncertain", "raised"}, Go(c, "doubt", v), UNCHANGED filing
          PROVE  Placed(c)'
      BY <1>4, <1>b, <2>4, <2>5 DEF Placed, CallTypeOK, AttemptOf, Known
    <2>6. ASSUME NEW v \in Conclusive, NEW f \in Filings(c, v),
                 filing' = [filing EXCEPT ![c] = {f}], Go(c, "settle", v)
          PROVE  Placed(c)'
      <3>1. f \in Forms /\ f.receipt.attempt = AttemptOf(c) /\ Known(f.receipt)
        BY FilingFacts
      <3>2. filing'[c] = {f} /\ stage'[c] = "settle" /\ verdict'[c] = v  BY <2>6 DEF CallTypeOK
      <3> QED BY <2>4, <3>1, <3>2 DEF Placed, AttemptOf, Known
    <2>7. Placed(c)'  BY <1>4, <2>5, <2>6
    <2> QED BY <1>a, <2>1, <2>2, <2>3, <2>7, OneCallMoves
  <1>5. ASSUME NEW c \in Calls, Recover(c) PROVE CallInv'
    <2> USE DEF Recover, Go, Return
    <2>1. Alone(c)  BY <1>5 DEF Alone, Still, CallTypeOK
    <2>2. Winner(c)  BY <1>5 DEF Winner
    <2>3. Accounted(c)'  BY <1>5, <1>a, <1>b, <2>2, AccountedStays
    <2>4. PICK f \in filing[c] :
            \/ Durable(f) /\ Return(c, verdict[c])
            \/ Go(c, "doubt", IF verdict[c] = "raised" THEN "raised" ELSE "dispatch_uncertain")
      BY <1>5
    <2>5. /\ c \in probed /\ verdict[c] \in Conclusive \cup {"raised"}
          /\ f.receipt.attempt = AttemptOf(c) /\ Known(f.receipt)
      BY <1>5, <1>b DEF Placed
    <2>6. ASSUME Durable(f) /\ Return(c, verdict[c]) PROVE Placed(c)'
      <3>1. Stored(c)
        <4>1. f.receipt \in receipts /\ state[AttemptOf(c)] = "settled"
          BY <2>5, <2>6 DEF Durable
        <4>2. \A p \in f.establishes : [prerequisite |-> p, source |-> AttemptOf(c)] \in prereqs
          BY <2>5, <2>6 DEF Durable
        <4> QED BY <4>1, <4>2 DEF Stored
      <3>2. Stored(c)'  BY <1>5, <1>a, <3>1, StoredStays
      <3>3. stage'[c] = "done" /\ verdict'[c] = verdict[c] /\ UNCHANGED <<probed, filing>>
        BY <1>5, <2>6 DEF CallTypeOK
      <3> QED BY <1>b, <2>5, <3>2, <3>3 DEF Placed, AttemptOf, Known, Undispatched, Conclusive
    <2>7. ASSUME Go(c, "doubt", IF verdict[c] = "raised" THEN "raised" ELSE "dispatch_uncertain")
          PROVE  Placed(c)'
      <3>1. /\ stage'[c] = "doubt" /\ verdict'[c] \in {"raised", "dispatch_uncertain"}
            /\ UNCHANGED <<probed, filing>>
        BY <1>5, <2>7 DEF CallTypeOK
      <3> QED BY <1>b, <2>5, <3>1 DEF Placed, AttemptOf, Known
    <2>8. Placed(c)'  BY <2>4, <2>6, <2>7
    <2> QED BY <1>a, <2>1, <2>2, <2>3, <2>8, OneCallMoves
  <1>6. ASSUME NEW c \in Calls, Crash(c) PROVE CallInv'
    <2> USE DEF Crash, Go
    <2>1. Alone(c)  BY <1>6 DEF Alone, Still, CallTypeOK
    <2>2. Winner(c)' => Winner(c)  BY <1>6 DEF Winner, CallTypeOK
    <2>3. (Winner(c) => Accounted(c))'  BY <1>6, <1>a, <1>b, <2>2, AccountedStays
    <2>4. Placed(c)'  BY <1>6, <1>b DEF Placed, CallTypeOK, AttemptOf, Known
    <2> QED BY <1>a, <2>1, <2>2, <2>3, <2>4, OneCallMoves
  <1>7. ASSUME NEW c \in Calls, NEW now \in Times, ReserveAttempt(c, now) PROVE CallInv'
    <2> USE DEF ReserveAttempt, Go, Return
    <2>1. Alone(c)  BY <1>7 DEF Alone, Still, CallTypeOK
    <2>2. /\ stage'[c] \in {"gate", "done"} /\ c \notin probed /\ UNCHANGED <<probed, filing>>
          /\ stage'[c] = "done" => verdict'[c] \in {"raised", "budget_denied"}
      BY <1>7, <1>b DEF Placed, CallTypeOK
    <2>3. ~Winner(c)'  BY <2>2 DEF Winner
    <2>4. Placed(c)'  BY <1>b, <2>2 DEF Placed, AttemptOf, Known, Undispatched, Conclusive
    <2> QED BY <1>a, <2>1, <2>3, <2>4, OneCallMoves
  <1>8. ASSUME NEW c \in Calls, NEW now \in Times, Gate(c, now) PROVE CallInv'
    <2> USE DEF Gate, Go, Return
    <2>1. Alone(c)  BY <1>8 DEF Alone, Still, CallTypeOK
    <2>2. /\ stage'[c] \in {"release", "mark"} /\ c \notin probed /\ UNCHANGED <<probed, filing>>
          /\ stage'[c] = "release" => verdict'[c] \in Undispatched \cup {"raised"}
          /\ stage'[c] = "mark" => approval'[c] # {}
      <3>1. c \notin probed /\ UNCHANGED <<probed, filing>>  BY <1>8, <1>b DEF Placed
      <3>2. ASSUME NEW v \in {"authorization_error", "raised", "authorization_denied"},
                   Go(c, "release", v)
            PROVE  stage'[c] = "release" /\ verdict'[c] \in Undispatched \cup {"raised"}
        BY <3>2 DEF CallTypeOK, Undispatched
      <3>3. ASSUME NEW x \in Approvals, approval' = [approval EXCEPT ![c] = {x}],
                   Go(c, "mark", "none")
            PROVE  stage'[c] = "mark" /\ approval'[c] # {}
        BY <3>3 DEF CallTypeOK
      <3> QED BY <1>8, <3>1, <3>2, <3>3
    <2>3. ~Winner(c)'  BY <2>2 DEF Winner
    <2>4. Placed(c)'  BY <1>b, <2>2 DEF Placed, AttemptOf, Known
    <2> QED BY <1>a, <2>1, <2>3, <2>4, OneCallMoves
  <1>9. ASSUME NEW c \in Calls, NEW now \in Times, ReleaseReservation(c, now) PROVE CallInv'
    <2> USE DEF ReleaseReservation, Go, Return
    <2>1. Alone(c)  BY <1>9 DEF Alone, Still, CallTypeOK
    <2>2. /\ stage'[c] = "done" /\ c \notin probed /\ UNCHANGED <<probed, filing>>
          /\ verdict'[c] \in Undispatched \cup {"raised"}
      BY <1>9, <1>b DEF Placed, CallTypeOK
    <2>3. ~Winner(c)'  BY <2>2 DEF Winner
    <2>4. Placed(c)'  BY <1>b, <2>2 DEF Placed, AttemptOf, Known, Undispatched, Conclusive
    <2> QED BY <1>a, <2>1, <2>3, <2>4, OneCallMoves
  <1>10. ASSUME NEW c \in Calls, NEW now \in Times, MarkAttempt(c, now) PROVE CallInv'
    <2> USE DEF MarkAttempt, Go, Return
    <2>1. Alone(c)  BY <1>10 DEF Alone, Still, CallTypeOK
    <2>2. /\ stage'[c] \in {"provider", "check"} /\ c \notin probed /\ UNCHANGED <<probed, filing>>
          /\ approval[c] # {} /\ approval' = approval
      BY <1>10, <1>b DEF Placed, CallTypeOK
    <2>3. Placed(c)'  BY <1>b, <2>2 DEF Placed, AttemptOf, Known
    <2>4. CASE MarkDispatched(AttemptOf(c), approval[c], Consumed(c), now)
      <3>1. state[AttemptOf(c)] = "reserved"  BY <2>4 DEF MarkDispatched, Dispatchable
      <3>2. Begun(AttemptOf(c))'
        BY <2>4, CallFacts DEF MarkDispatched, Begun, TypeOK, AttemptOf
      <3>3. ASSUME NEW x \in approval[c] PROVE spent'[x] = {AttemptOf(c)}
        <4>1. x \in Approvals  BY OptionalFacts DEF CallTypeOK
        <4> QED BY <2>4, <4>1 DEF MarkDispatched
      <3>4. ASSUME NEW p \in Consumed(c) PROVE consumer'[p.id] = {AttemptOf(c)}
        <4>1. p.id \in PrerequisiteIds  BY OptionalFacts, CallFacts DEF PrerequisiteIds
        <4> QED BY <2>4, <4>1 DEF MarkDispatched
      <3>5. Accounted(c)'  BY <2>2, <3>2, <3>3, <3>4 DEF Accounted, AttemptOf, Consumed
      <3> QED BY <1>a, <2>1, <2>3, <3>1, <3>5, OneCallMoves
    <2>5. CASE ~MarkDispatched(AttemptOf(c), approval[c], Consumed(c), now)
      <3>1. ~Winner(c)'  BY <1>10, <2>2, <2>5 DEF Winner, CallTypeOK
      <3> QED BY <1>a, <2>1, <2>3, <3>1, OneCallMoves
    <2> QED BY <2>4, <2>5
  <1>11. ASSUME NEW c \in Calls, NEW now \in Times, CheckAttempt(c, now) PROVE CallInv'
    <2> USE DEF CheckAttempt, Go, Return
    <2>1. Alone(c)  BY <1>11 DEF Alone, Still, CallTypeOK
    <2>2. /\ stage'[c] \in {"undo", "doubt"} /\ c \notin probed /\ UNCHANGED <<probed, filing>>
          /\ stage'[c] = "undo" => verdict'[c] \in Undispatched \cup {"raised"}
          /\ stage'[c] = "doubt" => verdict'[c] \in {"dispatch_uncertain", "raised"}
      BY <1>11, <1>b DEF Placed, CallTypeOK, Undispatched
    <2>3. ~Winner(c)'  BY <2>2 DEF Winner
    <2>4. Placed(c)'  BY <1>b, <2>2 DEF Placed, AttemptOf, Known
    <2> QED BY <1>a, <2>1, <2>3, <2>4, OneCallMoves
  <1>12. ASSUME NEW c \in Calls, NEW now \in Times, Undo(c, now) PROVE CallInv'
    <2> USE DEF Undo, Go, Return
    <2>1. Alone(c)  BY <1>12 DEF Alone, Still, CallTypeOK
    <2>2. /\ stage'[c] = "done" /\ c \notin probed /\ UNCHANGED <<probed, filing>>
          /\ verdict'[c] \in Undispatched \cup {"raised"}
      BY <1>12, <1>b DEF Placed, CallTypeOK
    <2>3. ~Winner(c)'  BY <2>2 DEF Winner
    <2>4. Placed(c)'  BY <1>b, <2>2 DEF Placed, AttemptOf, Known, Undispatched, Conclusive
    <2> QED BY <1>a, <2>1, <2>3, <2>4, OneCallMoves
  <1>13. ASSUME NEW c \in Calls, NEW now \in Times, Doubt(c, now) PROVE CallInv'
    <2> USE DEF Doubt, Go, Return
    <2>1. Alone(c)  BY <1>13 DEF Alone, Still, CallTypeOK
    <2>2. /\ stage'[c] = "done" /\ UNCHANGED <<probed, filing, approval>>
          /\ verdict'[c] \in {"dispatch_uncertain", "raised"}
      BY <1>13, <1>b DEF Placed, CallTypeOK
    <2>3. Winner(c)' => Winner(c)  BY <2>2 DEF Winner
    <2>4. (Winner(c) => Accounted(c))'  BY <1>a, <1>b, <2>2, <2>3, AccountedStays
    <2>5. verdict'[c] = "dispatch_uncertain" /\ c \in probed => state'[AttemptOf(c)] # "dispatched"
      <3> SUFFICES ASSUME verdict'[c] = "dispatch_uncertain" PROVE state'[AttemptOf(c)] # "dispatched"
        OBVIOUS
      <3>1. CASE MarkUncertain(AttemptOf(c), now)
        BY <3>1, CallFacts DEF MarkUncertain, TypeOK
      <3>2. CASE ~MarkUncertain(AttemptOf(c), now)
        <4>1. Observe(now) /\ state[AttemptOf(c)] \notin {"dispatched", "uncertain"}
          BY <1>13, <3>2 DEF CallTypeOK
        <4> QED BY <4>1 DEF Observe
      <3> QED BY <3>1, <3>2
    <2>6. Placed(c)'  BY <1>b, <2>2, <2>5 DEF Placed, AttemptOf, Known, Undispatched, Conclusive
    <2> QED BY <1>a, <2>1, <2>3, <2>4, <2>6, OneCallMoves
  <1>14. ASSUME NEW c \in Calls, NEW now \in Times, Settle(c, now) PROVE CallInv'
    <2> USE DEF Settle, Go, Return
    <2>1. Alone(c)  BY <1>14 DEF Alone, Still, CallTypeOK
    <2>2. Winner(c)  BY <1>14 DEF Winner
    <2>3. Accounted(c)'  BY <1>14, <1>a, <1>b, <2>2, AccountedStays
    <2>4. PICK f \in filing[c] :
            \/ /\ Reconcile(f.receipt, f.establishes, now)
               /\ \/ Return(c, verdict[c])
                  \/ \E v \in {verdict[c], "raised"} : Go(c, "durable", v)
            \/ \E v \in {verdict[c], "raised"} : Go(c, "durable", v)
      BY <1>14
    <2>5. /\ c \in probed /\ verdict[c] \in Conclusive /\ UNCHANGED <<probed, filing>>
          /\ f.receipt.attempt = AttemptOf(c) /\ Known(f.receipt)
      BY <1>14, <1>b DEF Placed
    <2>6. ASSUME Reconcile(f.receipt, f.establishes, now) /\ Return(c, verdict[c])
          PROVE  Placed(c)'
      <3>1. f.receipt \in receipts'  BY <2>6 DEF Reconcile
      <3>2. state'[AttemptOf(c)] = "settled"  BY <2>5, <2>6, CallFacts DEF Reconcile, TypeOK
      <3>3. \A p \in f.establishes : [prerequisite |-> p, source |-> AttemptOf(c)] \in prereqs'
        BY <2>5, <2>6 DEF Reconcile
      <3>4. Stored(c)'  BY <2>5, <3>1, <3>2, <3>3 DEF Stored, AttemptOf
      <3>5. stage'[c] = "done" /\ verdict'[c] = verdict[c]  BY <2>6 DEF CallTypeOK
      <3> QED BY <1>b, <2>5, <3>4, <3>5 DEF Placed, AttemptOf, Known, Undispatched, Conclusive
    <2>7. ASSUME \E v \in {verdict[c], "raised"} : Go(c, "durable", v) PROVE Placed(c)'
      <3>1. stage'[c] = "durable" /\ verdict'[c] \in {verdict[c], "raised"}
        BY <2>7 DEF CallTypeOK
      <3> QED BY <1>b, <2>5, <3>1 DEF Placed, AttemptOf, Known
    <2>8. Placed(c)'  BY <2>4, <2>6, <2>7
    <2> QED BY <1>a, <2>1, <2>2, <2>3, <2>8, OneCallMoves
  <1>15. ASSUME NEW now \in Times, Elsewhere(now) PROVE CallInv'
    BY <1>15, <1>a, NobodyMoves DEF Elsewhere
  <1> QED BY <1>1, <1>2, <1>3, <1>4, <1>5, <1>6, <1>7, <1>8, <1>9, <1>10, <1>11, <1>12, <1>13,
             <1>14, <1>15, StepCases

LEMMA CallInvariant == DispatchSpec => []CallInv
  <1>1. DispatchInit => CallInv
    BY DEF DispatchInit, CallInv, Placed, Winner
  <1>2. DispatchSpec => [](TypeOK /\ Records)
    BY CallsImplementLedger, TypeCorrect, RecordsInvariant, PTL
  <1> QED BY <1>1, <1>2, CallInvInductive, CallTypeCorrect, PTL DEF DispatchSpec

\* An attempt whose provider may have run stays charged with its approval and
\* its prerequisite spent on it.
THEOREM ProbesStayAccounted == DispatchSpec => []ProbeAccounted
  <1>1. CallInv => ProbeAccounted  BY DEF CallInv, ProbeAccounted, Winner, Accounted
  <1> QED BY <1>1, CallInvariant, PTL

\* No attempt, approval or prerequisite ever reaches a provider twice.
THEOREM ProviderRunsOnce == DispatchSpec => []ProviderOnce
  <1>1. CallTypeOK /\ CallInv => ProviderOnce
    <2> SUFFICES ASSUME CallTypeOK, CallInv, NEW c \in probed, NEW d \in probed, c # d
                 PROVE  /\ AttemptOf(c) # AttemptOf(d)
                        /\ approval[c] \cap approval[d] = {}
                        /\ {p.id : p \in Consumed(c)} \cap {p.id : p \in Consumed(d)} = {}
      BY DEF ProviderOnce
    <2>1. c \in Calls /\ d \in Calls  BY DEF CallTypeOK
    <2>2. Winner(c) /\ Winner(d)  BY DEF Winner
    <2>3. AttemptOf(c) # AttemptOf(d)  BY <2>1, <2>2 DEF CallInv
    <2>4. Accounted(c) /\ Accounted(d)  BY <2>1, <2>2 DEF CallInv
    <2> QED BY <2>3, <2>4, SMT DEF Accounted
  <1> QED BY <1>1, CallInvariant, CallTypeCorrect, PTL

\* What a call returns agrees with what its provider and the ledger saw.
THEOREM VerdictsAreHonest == DispatchSpec => []HonestVerdict
  <1>1. CallInv => HonestVerdict  BY DEF CallInv, HonestVerdict, Placed, Stored
  <1> QED BY <1>1, CallInvariant, PTL
====
