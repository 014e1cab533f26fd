---- MODULE LaboratoryCasesProofs ----
(***************************************************************************)
(* Proofs about LaboratoryCases for any authorizations and environments.   *)
(* The inductive invariant says what the journal holds at each step of a   *)
(* call and that a pending case belongs to an environment that has not     *)
(* been touched since the case was dispatched.                             *)
(***************************************************************************)
EXTENDS LaboratoryCases, TLAPS

\* Before its row exists an authorization has been nowhere, and afterwards it has
\* been sent at most once.
Reserved ==
    \A a \in Auths :
        /\ sent[a] \in {0, 1}
        /\ row[a] = "none" => sent[a] = 0 /\ home[a] = Nobody /\ a \notin outdated

\* What the row holds while execute_case is under way.
InDispatch ==
    \A a \in Auths :
        /\ At("begun", a) => row[a] = "dispatching" /\ sent[a] = 0
        /\ At("returned", a) => row[a] = "dispatching"
        /\ At("uncertain", a) => row[a] = "dispatching"

\* A case on its way to the pending ones, or among them.
Tracked(a) ==
    \/ a \in pending
    \/ At("begun", a)
    \/ At("returned", a)
    \/ At("bound", a)

\* Its environment is not being reset and has not been touched since the dispatch.
Fresh ==
    \A a \in Auths :
        Tracked(a) => /\ home[a] \in Environments
                      /\ status[home[a]] # "resetting"
                      /\ a \notin outdated

LabInv == TypeOK /\ Reserved /\ InDispatch /\ Fresh

----
(* The loops over the pending cases and what an environment loses.         *)

\* A loop over pending cases turns pending rows into failed ones and forgets cases.
RowsMayFail ==
    /\ row' \in [Auths -> RowStates]
    /\ \A a \in Auths : row'[a] = row[a] \/ (row[a] = "pending" /\ row'[a] = "failed")
    /\ pending' \subseteq pending
    /\ late' \subseteq late
    /\ late' \subseteq pending'

\* fail, called for some cases of T: pending rows fail and nothing else changes.
LEMMA FailRowsFacts ==
    ASSUME TypeOK, NEW S \in SUBSET Auths, FailRows(S)
    PROVE  /\ row' \in [Auths -> RowStates]
           /\ \A a \in Auths : row'[a] = row[a] \/ (row[a] = "pending" /\ row'[a] = "failed")
BY DEF TypeOK, FailRows, RowStates, Terminal

\* A loop that ends.
LEMMA SweepFacts ==
    ASSUME TypeOK, NEW T \in SUBSET pending, Sweep(T)
    PROVE  RowsMayFail /\ pending' = pending \ T
<1>1. T \in SUBSET Auths
  BY DEF TypeOK
<1>2. QED
  BY <1>1, FailRowsFacts DEF TypeOK, Sweep, Forget, RowsMayFail

\* A loop that raises.
LEMMA SweepRaisesFacts ==
    ASSUME TypeOK, NEW T \in SUBSET pending, SweepRaises(T)
    PROVE  RowsMayFail
<1>1. PICK S \in SUBSET T : \E torn \in SUBSET S :
        Cardinality(torn) <= 1 /\ S \ torn # T /\ FailRows(S) /\ Forget(S \ torn)
  BY DEF SweepRaises
<1>2. PICK torn \in SUBSET S : FailRows(S) /\ Forget(S \ torn)
  BY <1>1
<1>3. S \in SUBSET Auths
  BY DEF TypeOK
<1>4. QED
  BY <1>2, <1>3, FailRowsFacts DEF TypeOK, Forget, RowsMayFail

\* What the operations on an environment share: rows may fail, cases may be
\* forgotten, and if the environment's status or its cases' standing changes then
\* none of its cases is pending any more.
Touched(e) ==
    /\ RowsMayFail
    /\ call = Idle /\ call' = Idle
    /\ UNCHANGED <<home, sent>>
    /\ status' \in [Environments -> Statuses]
    /\ \A f \in Environments \ {e} : status'[f] = status[f]
    /\ observed' \in [Environments -> BOOLEAN]
    /\ challenges' \subseteq Environments
    /\ staged' = staged /\ published' = published
    /\ outdated' \subseteq outdated \cup {a \in Auths : home[a] = e}
    /\ \/ status' = status /\ outdated' = outdated
       \/ \A a \in pending' : home[a] # e

\* invalidated environments keep no pending case.
LEMMA InvalidateFacts ==
    ASSUME TypeOK, NEW e \in Environments, Invalidate(e)
    PROVE  /\ RowsMayFail
           /\ outdated' = outdated \cup {a \in Auths : home[a] = e}
           /\ \A a \in pending' : home[a] # e
<1>1. HeldIn(e) \in SUBSET pending
  BY DEF HeldIn
<1>2. RowsMayFail /\ pending' = pending \ HeldIn(e)
  BY <1>1, SweepFacts DEF Invalidate
<1>3. QED
  BY <1>2 DEF Invalidate, Outdate, HeldIn

\* An invalidation that raises leaves the environment's status alone.
LEMMA InvalidateRaisesFacts ==
    ASSUME TypeOK, NEW e \in Environments, InvalidateRaises(e)
    PROVE  /\ RowsMayFail
           /\ observed' \in [Environments -> BOOLEAN]
           /\ status' = status /\ challenges' = challenges /\ outdated' = outdated
<1>1. HeldIn(e) \in SUBSET pending
  BY DEF HeldIn
<1>2. RowsMayFail
  BY <1>1, SweepRaisesFacts DEF InvalidateRaises
<1>3. QED
  BY <1>2 DEF InvalidateRaises, Unverified, TypeOK

\* Every operation on an environment touches it in this sense.
LEMMA EnvironmentStep ==
    ASSUME LabInv, NEW e \in Environments,
           Verify(e) \/ SimulateReset(e) \/ BeginReset(e) \/ ReproducibleReset(e)
             \/ ExecuteUnobserved(e)
    PROVE  Touched(e)
<1>t. TypeOK
  BY DEF LabInv
<1>0. call = Idle /\ call' = Idle /\ UNCHANGED <<home, sent, staged, published>>
  BY DEF Verify, SimulateReset, BeginReset, ReproducibleReset, ExecuteUnobserved
<1>r. ASSUME InvalidateRaises(e) PROVE Touched(e)
  BY <1>t, <1>0, <1>r, InvalidateRaisesFacts DEF Touched, TypeOK
<1>i. ASSUME Invalidate(e), observed' \in [Environments -> BOOLEAN],
             challenges' \subseteq Environments,
             NEW s \in Statuses, status' = [status EXCEPT ![e] = s]
      PROVE  Touched(e)
  <2>1. /\ status' \in [Environments -> Statuses]
        /\ \A f \in Environments \ {e} : status'[f] = status[f]
    BY <1>t, <1>i DEF TypeOK
  <2>2. QED
    BY <1>t, <1>0, <1>i, <2>1, InvalidateFacts DEF Touched
<1>f. ASSUME FailVerification(e), challenges' \subseteq Environments PROVE Touched(e)
  BY <1>t, <1>i, <1>f DEF FailVerification, Unverified, TypeOK, Statuses
<1>1. CASE Verify(e)
  BY <1>t, <1>1, <1>r, <1>i, <1>f DEF Verify, TypeOK, Statuses
<1>2. CASE SimulateReset(e)
  <2>1. status[e] \in Statuses /\ status = [status EXCEPT ![e] = status[e]]
    BY <1>t DEF TypeOK
  <2>2. QED
    BY <1>t, <1>2, <2>1, <1>r, <1>i DEF SimulateReset, Unverified, TypeOK
<1>3. CASE BeginReset(e)
  BY <1>t, <1>3, <1>r, <1>i DEF BeginReset, Unverified, TypeOK, Statuses
<1>4. CASE ReproducibleReset(e)
  <2>0. challenges' \subseteq Environments /\ status[e] = "resetting"
    BY <1>t, <1>4 DEF ReproducibleReset, TypeOK
  <2>1. \A a \in pending : home[a] # e
    BY <1>t, <2>0 DEF LabInv, Fresh, Tracked, TypeOK
  <2>2. ASSUME UNCHANGED <<row, pending, late>>
        PROVE  RowsMayFail
    BY <1>t, <2>2 DEF RowsMayFail, TypeOK
  <2>3. CASE /\ Outdate(e)
             /\ observed' = [observed EXCEPT ![e] = TRUE]
             /\ status' = [status EXCEPT ![e] = "verified"]
             /\ UNCHANGED <<row, pending, late>>
    BY <1>t, <1>0, <2>0, <2>1, <2>2, <2>3 DEF Touched, TypeOK, Outdate, Statuses
  <2>4. CASE FailVerification(e)
    BY <2>0, <2>4, <1>f
  <2>5. CASE UNCHANGED <<row, pending, late, status, observed, outdated>>
    BY <1>t, <1>0, <2>0, <2>2, <2>5 DEF Touched, TypeOK
  <2>6. QED
    BY <1>4, <2>3, <2>4, <2>5 DEF ReproducibleReset
<1>5. CASE ExecuteUnobserved(e)
  BY <1>t, <1>5, <1>r, <1>f DEF ExecuteUnobserved, TypeOK
<1>6. QED
  BY <1>1, <1>2, <1>3, <1>4, <1>5

----
(* The inductive invariant.                                                *)

\* An operation on an environment keeps the invariant.
LEMMA TouchedStep ==
    ASSUME LabInv, NEW e \in Environments, Touched(e)
    PROVE  LabInv'
<1>1. TypeOK'
  BY DEF LabInv, TypeOK, Touched, RowsMayFail, Idle, Steps
<1>2. Reserved'
  BY NobodyAssumption DEF LabInv, TypeOK, Reserved, Touched, RowsMayFail
<1>3. \A a \in Auths : ~At("begun", a)' /\ ~At("returned", a)' /\ ~At("uncertain", a)'
                         /\ ~At("bound", a)'
  BY DEF Touched, At, Idle
<1>4. InDispatch'
  BY <1>3 DEF InDispatch
<1>5. ASSUME NEW a \in Auths, Tracked(a)'
      PROVE  home'[a] \in Environments /\ status'[home'[a]] # "resetting" /\ a \notin outdated'
  <2>1. a \in pending' /\ a \in pending /\ home' = home
    BY <1>3, <1>5 DEF Tracked, Touched, RowsMayFail
  <2>2. home[a] \in Environments /\ status[home[a]] # "resetting" /\ a \notin outdated
    BY <2>1 DEF LabInv, Fresh, Tracked
  <2>3. CASE status' = status /\ outdated' = outdated
    BY <2>1, <2>2, <2>3
  <2>4. CASE \A b \in pending' : home[b] # e
    BY <2>1, <2>2, <2>4 DEF Touched
  <2>5. QED
    BY <2>3, <2>4 DEF Touched
<1>6. Fresh'
  BY <1>5 DEF Fresh
<1>7. QED
  BY <1>1, <1>2, <1>4, <1>6 DEF LabInv

\* execute_case keeps the invariant.
LEMMA ExecuteStep ==
    ASSUME LabInv, NEW a \in Auths,
           \/ \E e \in Environments : Begin(a, e)
           \/ Dispatch(a) \/ Bind(a) \/ MarkUnknown(a) \/ Remember(a)
    PROVE  LabInv'
<1> USE DEF LabInv, At, GoTo, Idle, journalVars, caseVars, labVars
<1>1. CASE \E e \in Environments : Begin(a, e)
  <2>1. PICK e \in Environments : Begin(a, e)
    BY <1>1
  <2>2. TypeOK'
    BY <2>1 DEF TypeOK, Begin, RowStates, Steps
  <2>3. Reserved' /\ InDispatch'
    BY <2>1 DEF TypeOK, Begin, Unattempted, Reserved, InDispatch
  <2>4. a \notin pending /\ a \notin outdated
    BY <2>1, NobodyAssumption DEF Begin, Unattempted, Reserved, Fresh, Tracked
  <2>5. Fresh'
    BY <2>1, <2>4 DEF TypeOK, Begin, Fresh, Tracked
  <2>6. QED
    BY <2>2, <2>3, <2>5
<1>2. CASE Dispatch(a)
  <2>1. TypeOK'
    BY <1>2 DEF TypeOK, Dispatch, Steps
  <2>2. Reserved' /\ InDispatch'
    BY <1>2 DEF TypeOK, Dispatch, Reserved, InDispatch
  <2>3. Fresh'
    BY <1>2 DEF TypeOK, Dispatch, Fresh, Tracked
  <2>4. QED
    BY <2>1, <2>2, <2>3
<1>3. CASE Bind(a)
  <2>1. TypeOK'
    BY <1>3 DEF TypeOK, Bind, Steps, RowStates
  <2>2. Reserved' /\ InDispatch'
    BY <1>3 DEF TypeOK, Bind, Reserved, InDispatch
  <2>3. Fresh'
    BY <1>3 DEF TypeOK, Bind, Fresh, Tracked
  <2>4. QED
    BY <2>1, <2>2, <2>3
<1>4. CASE MarkUnknown(a)
  <2>1. TypeOK'
    BY <1>4 DEF TypeOK, MarkUnknown, Steps, RowStates, Terminal
  <2>2. Reserved' /\ InDispatch'
    BY <1>4 DEF TypeOK, MarkUnknown, Reserved, InDispatch
  <2>3. Fresh'
    BY <1>4 DEF TypeOK, MarkUnknown, Fresh, Tracked
  <2>4. QED
    BY <2>1, <2>2, <2>3
<1>5. CASE Remember(a)
  <2>1. TypeOK'
    BY <1>5 DEF TypeOK, Remember, Steps
  <2>2. Reserved' /\ InDispatch'
    BY <1>5 DEF TypeOK, Remember, Reserved, InDispatch
  <2>3. Fresh'
    BY <1>5 DEF TypeOK, Remember, Fresh, Tracked
  <2>4. QED
    BY <2>1, <2>2, <2>3
<1>6. QED
  BY <1>1, <1>2, <1>3, <1>4, <1>5

\* Ageing, classification, expiry, recovery and interrupts keep the invariant.
LEMMA SettleStep ==
    ASSUME LabInv,
           \/ \E a \in Auths : Age(a) \/ Classify(a) \/ Finish(a)
           \/ Expire \/ Recover \/ Interrupt
    PROVE  LabInv'
<1> USE DEF LabInv, At, GoTo, Idle, journalVars, caseVars, labVars
<1>1. ASSUME NEW a \in Auths, Age(a) PROVE LabInv'
  BY <1>1 DEF Age, TypeOK, Reserved, InDispatch, Fresh, Tracked
<1>2. ASSUME NEW a \in Auths, Classify(a) PROVE LabInv'
  <2>1. TypeOK'
    BY <1>2 DEF Classify, Forget, TypeOK, RowStates, Terminal, Steps
  <2>2. Reserved' /\ InDispatch'
    BY <1>2 DEF Classify, TypeOK, Reserved, InDispatch
  <2>3. Fresh'
    BY <1>2 DEF Classify, Forget, TypeOK, Fresh, Tracked
  <2>4. QED
    BY <2>1, <2>2, <2>3
<1>3. ASSUME NEW a \in Auths, Finish(a) PROVE LabInv'
  <2>1. TypeOK'
    BY <1>3 DEF Finish, Publish, Forget, TypeOK, Steps
  <2>2. Reserved' /\ InDispatch'
    BY <1>3 DEF Finish, Reserved, InDispatch
  <2>3. Fresh'
    BY <1>3 DEF Finish, Forget, Fresh, Tracked
  <2>4. QED
    BY <2>1, <2>2, <2>3
<1>4. CASE Expire
  <2>1. RowsMayFail
    BY <1>4, SweepFacts, SweepRaisesFacts DEF Expire, TypeOK
  <2>2. TypeOK'
    BY <1>4, <2>1 DEF Expire, RowsMayFail, TypeOK
  <2>3. Reserved' /\ InDispatch'
    BY <1>4, <2>1 DEF Expire, RowsMayFail, Reserved, InDispatch
  <2>4. Fresh'
    BY <1>4, <2>1 DEF Expire, RowsMayFail, Fresh, Tracked
  <2>5. QED
    BY <2>2, <2>3, <2>4
<1>5. CASE Recover
  BY <1>5 DEF Recover, Publish, TypeOK, Reserved, InDispatch, Fresh, Tracked
<1>6. CASE Interrupt
  BY <1>6 DEF Interrupt, TypeOK, Steps, Reserved, InDispatch, Fresh, Tracked
<1>7. QED
  BY <1>1, <1>2, <1>3, <1>4, <1>5, <1>6

\* A restart keeps the invariant: nothing is pending and no call is under way.
LEMMA RestartStep ==
    ASSUME LabInv, Restart
    PROVE  LabInv'
<1>1. TypeOK'
  <2>1. row' \in [Auths -> RowStates]
    BY DEF LabInv, TypeOK, Restart, RowStates, Terminal
  <2>2. status' \in [Environments -> Statuses] /\ observed' \in [Environments -> BOOLEAN]
    BY DEF LabInv, TypeOK, Restart, Statuses
  <2>3. QED
    BY <2>1, <2>2 DEF LabInv, TypeOK, Restart, Idle, Steps
<1>2. Reserved'
  BY DEF LabInv, TypeOK, Restart, Reserved
<1>3. InDispatch' /\ Fresh'
  BY DEF Restart, InDispatch, Fresh, Tracked, At, Idle
<1>4. QED
  BY <1>1, <1>2, <1>3 DEF LabInv

\* The invariant holds initially.
LEMMA LabInvInit == Init => LabInv
<1> SUFFICES ASSUME Init PROVE LabInv
  OBVIOUS
<1>1. TypeOK
  BY DEF Init, TypeOK, RowStates, Statuses, Steps, Idle
<1>2. Reserved /\ InDispatch /\ Fresh
  BY DEF Init, Reserved, InDispatch, Fresh, Tracked, At, Idle
<1>3. QED
  BY <1>1, <1>2 DEF LabInv

\* The invariant is preserved by every step.
LEMMA LabInvStep == LabInv /\ [Next]_vars => LabInv'
<1> SUFFICES ASSUME LabInv, [Next]_vars PROVE LabInv'
  OBVIOUS
<1>1. ASSUME NEW e \in Environments,
             Verify(e) \/ SimulateReset(e) \/ BeginReset(e) \/ ReproducibleReset(e)
               \/ ExecuteUnobserved(e)
      PROVE  LabInv'
  BY <1>1, EnvironmentStep, TouchedStep
<1>2. CASE UNCHANGED vars
  BY <1>2 DEF vars, LabInv, TypeOK, Reserved, InDispatch, Fresh, Tracked, At
<1>3. QED
  BY <1>1, <1>2, ExecuteStep, SettleStep, RestartStep DEF Next

----
(* The theorems.                                                           *)

\* The invariant holds in every reachable state.
THEOREM LabInvariant == Spec => []LabInv
BY LabInvInit, LabInvStep, PTL DEF Spec

\* execute_case sends an authorization at most once, and the journal knows each one
\* that was sent, across failures, interrupts and restarts.
THEOREM AuthorizationsSentOnce == Spec => []SentOnce
<1>1. LabInv => SentOnce
  BY DEF LabInv, TypeOK, Reserved, SentOnce
<1>2. QED
  BY <1>1, LabInvariant, PTL

\* The journal's outcomes are final: fail, finish, bind, mark_unknown and the opening
\* of the journal leave a terminal row as it is.
THEOREM OutcomesAreFinal == Spec => OutcomesFinal
<1>1. LabInv /\ [Next]_vars =>
        [\A a \in Auths :
            row[a] \in Terminal => row'[a] = row[a] /\ (a \in staged' <=> a \in staged)]_vars
  <2> SUFFICES ASSUME LabInv, Next, NEW a \in Auths, row[a] \in Terminal
               PROVE  row'[a] = row[a] /\ (a \in staged' <=> a \in staged)
    OBVIOUS
  <2>0. TypeOK /\ row[a] \notin {"none", "dispatching", "pending"}
    BY DEF LabInv, Terminal
  <2>1. ASSUME NEW e \in Environments,
               Verify(e) \/ SimulateReset(e) \/ BeginReset(e) \/ ReproducibleReset(e)
                 \/ ExecuteUnobserved(e)
        PROVE  row'[a] = row[a] /\ staged' = staged
    BY <2>0, <2>1, EnvironmentStep DEF Touched, RowsMayFail
  <2>2. ASSUME NEW b \in Auths, NEW e \in Environments, Begin(b, e)
        PROVE  row'[a] = row[a] /\ staged' = staged
    BY <2>0, <2>2 DEF Begin, Unattempted, TypeOK
  <2>3. ASSUME NEW b \in Auths, Dispatch(b) \/ Bind(b) \/ MarkUnknown(b) \/ Remember(b)
        PROVE  row'[a] = row[a] /\ staged' = staged
    BY <2>0, <2>3
    DEF LabInv, InDispatch, Dispatch, Bind, MarkUnknown, Remember, TypeOK, journalVars
  <2>4. ASSUME NEW b \in Auths, Classify(b)
        PROVE  row'[a] = row[a] /\ (a \in staged' <=> a \in staged)
    BY <2>0, <2>4 DEF Classify, TypeOK
  <2>5. ASSUME NEW b \in Auths, Age(b) \/ Finish(b)
        PROVE  row'[a] = row[a] /\ staged' = staged
    BY <2>5 DEF Age, Finish, journalVars
  <2>6. CASE Expire
    <3>1. RowsMayFail
      BY <2>0, <2>6, SweepFacts, SweepRaisesFacts DEF Expire, TypeOK
    <3>2. QED
      BY <2>0, <2>6, <3>1 DEF RowsMayFail, Expire
  <2>7. CASE Recover \/ Interrupt
    BY <2>7 DEF Recover, Interrupt, journalVars
  <2>8. CASE Restart
    BY <2>0, <2>8 DEF Restart
  <2>9. QED
    BY <2>1, <2>2, <2>3, <2>4, <2>5, <2>6, <2>7, <2>8 DEF Next
<1>2. QED
  BY <1>1, LabInvariant, PTL DEF Spec, OutcomesFinal

\* classify_case classifies a case only while its environment is as the case found
\* it: no reset, verification or failed verification came in between.
THEOREM ClassifiedOnOneBaseline == Spec => OneBaseline
<1>1. LabInv /\ [Next]_vars =>
        [\A a \in Auths :
            row[a] = "pending" /\ row'[a] = "classified" => a \notin outdated]_vars
  <2> SUFFICES ASSUME LabInv, Next, NEW a \in Auths,
                      row[a] = "pending", row'[a] = "classified"
               PROVE  a \notin outdated
    OBVIOUS
  <2>0. TypeOK
    BY DEF LabInv
  <2>1. ASSUME NEW e \in Environments,
               Verify(e) \/ SimulateReset(e) \/ BeginReset(e) \/ ReproducibleReset(e)
                 \/ ExecuteUnobserved(e)
        PROVE  FALSE
    BY <2>1, EnvironmentStep DEF Touched, RowsMayFail
  <2>2. ASSUME NEW b \in Auths, NEW e \in Environments, Begin(b, e)
        PROVE  FALSE
    BY <2>0, <2>2 DEF Begin, TypeOK
  <2>3. ASSUME NEW b \in Auths, Dispatch(b) \/ Bind(b) \/ MarkUnknown(b) \/ Remember(b)
        PROVE  FALSE
    BY <2>0, <2>3 DEF Dispatch, Bind, MarkUnknown, Remember, TypeOK, journalVars
  <2>4. ASSUME NEW b \in Auths, Classify(b)
        PROVE  a \in pending
    BY <2>0, <2>4 DEF Classify, TypeOK
  <2>5. ASSUME NEW b \in Auths, Age(b) \/ Finish(b)
        PROVE  FALSE
    BY <2>5 DEF Age, Finish, journalVars
  <2>6. ASSUME Expire PROVE FALSE
    BY <2>0, <2>6, SweepFacts, SweepRaisesFacts DEF Expire, TypeOK, RowsMayFail
  <2>7. ASSUME Recover \/ Interrupt PROVE FALSE
    BY <2>7 DEF Recover, Interrupt, journalVars
  <2>8. ASSUME Restart PROVE FALSE
    BY <2>8 DEF Restart
  <2>9. a \in pending
    BY <2>1, <2>2, <2>3, <2>4, <2>5, <2>6, <2>7, <2>8 DEF Next
  <2>10. QED
    BY <2>9 DEF LabInv, Fresh, Tracked
<1>2. QED
  BY <1>1, LabInvariant, PTL DEF Spec, OneBaseline
====
