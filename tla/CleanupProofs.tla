---- MODULE CleanupProofs ----
(***************************************************************************)
(* Proofs about Cleanup, for any set of effects and any nesting of their   *)
(* targets.                                                                *)
(***************************************************************************)
EXTENDS Cleanup, FiniteSetTheorems, TLAPS

\* The leaves go to Zenon; the ones that need arithmetic, or records and
\* functions taken apart, cite SMT.
USE Zenon

\* The journal and the ledger in memory: an effect has a status exactly when it
\* is recorded, and memory differs from the journal only by a refused write,
\* which leaves "unknown".
LedgerFacts ==
    \A e \in Effects :
        /\ e \in Recorded <=> jstat[e] # "absent"
        /\ mstat[e] = jstat[e] \/ (mstat[e] = "unknown" /\ jstat[e] # "absent")

\* The effect in hand: what the steps already taken have established.
StepFacts ==
    \A e \in cur :
        /\ e \notin Declared
        /\ step \in {"create", "identify", "mark"} => jstat[e] = "pending" /\ mstat[e] = "pending"
        /\ step \in {"move", "delete", "settle"} => jstat[e] = "cleaning" /\ mstat[e] = "cleaning"
        /\ step \in {"create", "delete", "settle"} => place[e] # "own"
        /\ step \in {"move", "settle"} => quar[e] = "none"
        /\ step \in {"create", "identify"} => phase = "running"
        /\ step \in {"mark", "move"} /\ Kind[e] = "directory" =>
              \A x \in Effects : e \in Ancestors[x] => place[x] # "own"
        /\ step # "idle"

\* A receipt ends the run, only a durable receipt is returned as complete, and
\* a complete one leaves nothing to do.
ReceiptFacts ==
    /\ jreceipt # "none" => phase \in {"rollback", "done", "down"}
    /\ receipt \in {"completed", "not_required"} => jreceipt = receipt
    /\ jreceipt \in {"completed", "not_required"} => \A e \in Recorded : jstat[e] = "cleaned"

\* The inductive invariant.
IInv ==
    /\ TypeOK
    /\ LedgerFacts
    /\ StepFacts
    /\ TrackedUntilGone
    /\ DeletesOnlyOwn
    /\ ReceiptFacts

\* Appending to the ledger records exactly one more effect.
LEMMA AppendRecords ==
    ASSUME ledger \in Seq(Effects), NEW e \in Effects, ledger' = Append(ledger, e)
    PROVE  Recorded' = Recorded \cup {e}
  <1>1. /\ Len(ledger') = Len(ledger) + 1
        /\ Len(ledger) \in Nat
        /\ \A i \in 1..Len(ledger) : ledger'[i] = ledger[i]
        /\ ledger'[Len(ledger) + 1] = e
    BY SMT
  <1> QED BY <1>1, SMT DEF Recorded

\* A status transition, durable or only in memory, keeps both maps typed.
LEMMA SettleType ==
    ASSUME TypeOK, NEW e \in Effects, NEW s \in Statuses, Settle(e, s)
    PROVE  /\ jstat' \in [Effects -> Statuses]
           /\ mstat' \in [Effects -> Statuses]
           /\ \A x \in Effects \ {e} : jstat'[x] = jstat[x] /\ mstat'[x] = mstat[x]
           /\ \/ jstat'[e] = s /\ mstat'[e] = s
              \/ jstat'[e] = jstat[e] /\ mstat'[e] = "unknown"
  BY DEF TypeOK, Settle, Transition, Statuses

\* The initial states satisfy the invariant.
LEMMA InitIInv == Init => IInv
  <1> SUFFICES ASSUME Init PROVE IInv
    OBVIOUS
  <1>1. Recorded = {}
    BY SMT DEF Init, Recorded
  <1>2. TypeOK
    BY SMT DEF Init, TypeOK, Statuses, Receipts, Objects
  <1> QED
    BY <1>1, <1>2 DEF Init, IInv, LedgerFacts, StepFacts, TrackedUntilGone, DeletesOnlyOwn,
       ReceiptFacts

\* Every step keeps the types.
LEMMA TypeInductive == TypeOK /\ [Next]_vars => TypeOK'
  <1> SUFFICES ASSUME TypeOK, [Next]_vars PROVE TypeOK'
    OBVIOUS
  <1> USE DEF Statuses, Receipts, Objects
  <1>1. CASE Env
    BY <1>1, SMT DEF Env, EnvRemove, EnvPut, EnvStray, TypeOK, journal
  <1>2. CASE \E e \in Effects : RecordEffect(e)
    <2> PICK e \in Effects : RecordEffect(e)
      BY <1>2
    <2>1. ledger' \in Seq(Effects)
      BY SMT DEF RecordEffect, TypeOK
    <2>2. jstat' \in [Effects -> Statuses] /\ mstat' \in [Effects -> Statuses]
      BY DEF RecordEffect, Transition, TypeOK
    <2>3. cur' = cur \/ cur' = {e}
      BY DEF RecordEffect
    <2> QED BY <2>1, <2>2, <2>3 DEF RecordEffect, TypeOK, disk
  <1>3. CASE \E e \in Effects : Create(e)
    BY <1>3, SMT DEF Create, Transition, Idle, TypeOK, journal, At
  <1>4. CASE \E e \in Effects : Identify(e)
    BY <1>4 DEF Identify, Idle, TypeOK, disk
  <1>5. CASE BeginRollback
    BY <1>5 DEF BeginRollback, TypeOK, journal, disk
  <1>6. CASE \E e \in Effects : CleanupEffect(e)
    BY <1>6, SettleType, SMT DEF CleanupEffect, Begin, TypeOK, journal, disk
  <1>7. CASE \E e \in Effects : MarkCleaning(e)
    <2> PICK e \in Effects : MarkCleaning(e)
      BY <1>7
    <2>1. jstat' \in [Effects -> Statuses] /\ mstat' \in [Effects -> Statuses]
      BY SettleType DEF MarkCleaning, Transition, TypeOK
    <2> QED BY <2>1 DEF MarkCleaning, Idle, TypeOK, journal, disk
  <1>8. CASE \E e \in Effects : Quarantine(e)
    <2> PICK e \in Effects : Quarantine(e)
      BY <1>8
    <2>1. jstat' \in [Effects -> Statuses] /\ mstat' \in [Effects -> Statuses]
      BY SettleType DEF Quarantine, TypeOK
    <2>2. /\ place' \in [Effects -> Objects]
          /\ quar' \in [Effects -> Objects]
          /\ stray' \subseteq Effects
      BY SMT DEF Quarantine, TypeOK
    <2> QED BY <2>1, <2>2 DEF Quarantine, Idle, TypeOK, journal, At
  <1>9. CASE \E e \in Effects : Delete(e)
    <2> PICK e \in Effects : Delete(e)
      BY <1>9
    <2>1. quar' \in [Effects -> Objects] /\ destroyed' \subseteq Effects \X Objects
      BY SMT DEF Delete, TypeOK
    <2>2. jstat' \in [Effects -> Statuses] /\ mstat' \in [Effects -> Statuses]
      BY SettleType DEF Delete, TypeOK
    <2> QED BY <2>1, <2>2 DEF Delete, Idle, TypeOK, journal, At
  <1>10. CASE \E e \in Effects : Cleaned(e)
    BY <1>10, SettleType DEF Cleaned, Transition, Idle, TypeOK, journal, disk
  <1>11. CASE \E e \in Effects : Rollback(e)
    BY <1>11, SettleType, SMT DEF Rollback, Begin, TypeOK, journal, disk
  <1>12. CASE WriteReceipt
    BY <1>12 DEF WriteReceipt, ReceiptStatus, TypeOK, disk
  <1>13. CASE Crash
    BY <1>13 DEF Crash, Idle, TypeOK, journal, disk
  <1>14. CASE Recover
    BY <1>14 DEF Recover, TypeOK, journal, disk
  <1>15. CASE UNCHANGED vars
    BY <1>15, SMT DEF vars, TypeOK
  <1> QED
    BY <1>1, <1>2, <1>3, <1>4, <1>5, <1>6, <1>7, <1>8, <1>9, <1>10, <1>11, <1>12, <1>13,
       <1>14, <1>15 DEF Next, Run, Clean

\* Steps of other processes: they add foreign entries and remove others.
LEMMA EnvInductive == IInv /\ Env => LedgerFacts' /\ StepFacts' /\ TrackedUntilGone' /\ DeletesOnlyOwn' /\ ReceiptFacts'
  <1> SUFFICES ASSUME IInv, NEW e \in Effects, EnvRemove(e) \/ EnvPut(e) \/ EnvStray(e)
      PROVE LedgerFacts' /\ StepFacts' /\ TrackedUntilGone' /\ DeletesOnlyOwn' /\ ReceiptFacts'
    BY DEF Env
  <1>1. /\ UNCHANGED <<phase, ledger, ident, jreceipt, jstat, mstat, receipt, cur, step, quar, destroyed>>
        /\ \A x \in Effects : place'[x] = place[x] \/ place'[x] # "own"
    BY DEF EnvRemove, EnvPut, EnvStray, journal, IInv, TypeOK
  <1>2. Recorded' = Recorded
    BY <1>1 DEF Recorded
  <1>3. cur \subseteq Effects
    BY DEF IInv, TypeOK
  <1> QED
    BY <1>1, <1>2, <1>3, SMT DEF IInv, LedgerFacts, StepFacts, TrackedUntilGone, DeletesOnlyOwn, ReceiptFacts

\* A settled outcome: the effect is given up, in the journal or only in memory.
\* It had not been written off, and a failure comes before anything is moved.
LEMMA SettleInductive ==
    ASSUME IInv, NEW e \in Effects, NEW s \in {"failed", "unknown"}, Settle(e, s),
           mstat[e] \in {"pending", "cleaning"},
           s = "failed" => jstat[e] = "pending",
           UNCHANGED <<phase, ledger, ident, jreceipt, receipt>>,
           cur' = {},
           \A x \in Effects : place'[x] = place[x] \/ place'[x] # "own",
           UNCHANGED <<quar, destroyed>>
    PROVE  LedgerFacts' /\ StepFacts' /\ TrackedUntilGone' /\ DeletesOnlyOwn' /\ ReceiptFacts'
  <1>1. Recorded' = Recorded
    BY DEF Recorded
  <1>2. jstat[e] = mstat[e] /\ e \in Recorded
    BY DEF IInv, LedgerFacts
  <1>3. /\ \A x \in Effects \ {e} : jstat'[x] = jstat[x] /\ mstat'[x] = mstat[x]
        /\ \/ jstat'[e] = s /\ mstat'[e] = s
           \/ jstat'[e] = jstat[e] /\ mstat'[e] = "unknown"
    BY SettleType DEF IInv, Statuses
  <1>4. LedgerFacts'
    BY <1>1, <1>2, <1>3 DEF IInv, LedgerFacts
  <1>5. StepFacts'
    BY DEF StepFacts
  <1>6. TrackedUntilGone'
    BY <1>1, <1>2, <1>3 DEF IInv, TrackedUntilGone
  <1>7. ReceiptFacts'
    BY <1>1, <1>2, <1>3 DEF IInv, ReceiptFacts
  <1> QED BY <1>4, <1>5, <1>6, <1>7 DEF IInv, DeletesOnlyOwn

\* Recording the intent: nothing of the run exists under a new effect.
LEMMA RecordInductive ==
    ASSUME IInv, NEW e \in Effects, RecordEffect(e)
    PROVE  LedgerFacts' /\ StepFacts' /\ TrackedUntilGone' /\ DeletesOnlyOwn' /\ ReceiptFacts'
  <1>1. CASE ledger' = Append(ledger, e) /\ Transition(e, "pending") /\ UNCHANGED phase
             /\ (IF e \in Declared THEN UNCHANGED <<cur, step>> ELSE cur' = {e} /\ step' = "create")
    <2>1. Recorded' = Recorded \cup {e}
      BY <1>1, AppendRecords DEF IInv, TypeOK
    <2>2. e \notin Recorded /\ phase = "running" /\ cur = {} /\ UNCHANGED <<jreceipt, receipt, place, quar, destroyed>>
      BY DEF RecordEffect, disk
    <2>3. place[e] # "own" /\ quar[e] = "none"
      BY <2>2 DEF IInv, LedgerFacts, TrackedUntilGone
    <2>4. /\ jstat'[e] = "pending" /\ mstat'[e] = "pending"
          /\ \A x \in Effects \ {e} : jstat'[x] = jstat[x] /\ mstat'[x] = mstat[x]
      BY <1>1 DEF Transition, IInv, TypeOK
    <2>5. LedgerFacts'
      BY <2>1, <2>4 DEF IInv, LedgerFacts
    <2>6. StepFacts'
      BY <1>1, <2>2, <2>3, <2>4 DEF StepFacts
    <2>7. TrackedUntilGone'
      BY <2>1, <2>2, <2>3, <2>4 DEF IInv, TrackedUntilGone
    <2>8. ReceiptFacts' /\ DeletesOnlyOwn'
      BY <1>1, <2>2 DEF IInv, ReceiptFacts, DeletesOnlyOwn
    <2> QED BY <2>5, <2>6, <2>7, <2>8
  <1>2. CASE phase' = "failing" /\ UNCHANGED <<ledger, jstat, mstat, cur, step>>
    <2>1. Recorded' = Recorded
      BY <1>2 DEF Recorded
    <2> QED
      BY <1>2, <2>1 DEF RecordEffect, disk, IInv, LedgerFacts, StepFacts, TrackedUntilGone, DeletesOnlyOwn, ReceiptFacts
  <1> QED BY <1>1, <1>2 DEF RecordEffect

\* Exclusive creation.
LEMMA CreateInductive ==
    ASSUME IInv, NEW e \in Effects, Create(e)
    PROVE  LedgerFacts' /\ StepFacts' /\ TrackedUntilGone' /\ DeletesOnlyOwn' /\ ReceiptFacts'
  <1>1. /\ e \in cur /\ cur = {e} /\ step = "create"
        /\ UNCHANGED <<ledger, ident, jreceipt, receipt, quar, destroyed>>
        /\ Recorded' = Recorded
    BY DEF Create, At, journal, Recorded
  <1>2. jstat[e] = "pending" /\ place[e] # "own" /\ e \notin Declared /\ e \in Recorded /\ quar[e] = "none"
    BY <1>1 DEF IInv, StepFacts, LedgerFacts, TrackedUntilGone
  <1>3. phase' = phase \/ phase' = "failing"
    BY DEF Create
  <1>4. jreceipt \notin {"completed", "not_required"}
    BY <1>2 DEF IInv, ReceiptFacts
  <1>5. CASE place' = [place EXCEPT ![e] = "own"] /\ step' = "identify" /\ UNCHANGED <<phase, cur, jstat, mstat>>
    <2>1. TrackedUntilGone'
      BY <1>1, <1>2, <1>5 DEF IInv, TypeOK, TrackedUntilGone
    <2>2. StepFacts'
      BY <1>1, <1>2, <1>5 DEF IInv, StepFacts
    <2> QED
      BY <1>1, <1>4, <1>5, <2>1, <2>2 DEF IInv, LedgerFacts, DeletesOnlyOwn, ReceiptFacts
  <1>6. CASE Transition(e, "cleaned") /\ Idle /\ UNCHANGED <<phase, place>>
    <2>1. /\ jstat'[e] = "cleaned" /\ mstat'[e] = "cleaned"
          /\ \A x \in Effects \ {e} : jstat'[x] = jstat[x] /\ mstat'[x] = mstat[x]
      BY <1>6 DEF Transition, IInv, TypeOK
    <2>2. TrackedUntilGone'
      BY <1>1, <1>2, <1>6, <2>1 DEF IInv, TrackedUntilGone
    <2>3. LedgerFacts'
      BY <1>1, <1>2, <2>1 DEF IInv, LedgerFacts
    <2> QED
      BY <1>1, <1>4, <1>6, <2>2, <2>3 DEF Idle, IInv, StepFacts, DeletesOnlyOwn, ReceiptFacts
  <1>7. CASE phase' = "failing" /\ Idle /\ UNCHANGED <<place, jstat, mstat>>
    <2>1. jreceipt = "none" \/ phase \in {"rollback", "done", "down"}
      BY DEF IInv, ReceiptFacts
    <2>2. phase = "running"
      BY <1>1 DEF IInv, StepFacts
    <2> QED
      BY <1>1, <1>7, <2>1, <2>2 DEF Idle, IInv, LedgerFacts, StepFacts, TrackedUntilGone, DeletesOnlyOwn, ReceiptFacts
  <1> QED BY <1>5, <1>6, <1>7 DEF Create

\* Recording the identity.
LEMMA IdentifyInductive ==
    ASSUME IInv, NEW e \in Effects, Identify(e)
    PROVE  LedgerFacts' /\ StepFacts' /\ TrackedUntilGone' /\ DeletesOnlyOwn' /\ ReceiptFacts'
  <1>1. /\ e \in cur /\ step = "identify" /\ cur' = {}
        /\ UNCHANGED <<ledger, jreceipt, jstat, mstat, receipt, place, quar, destroyed>>
        /\ phase' = phase \/ phase' = "failing"
        /\ Recorded' = Recorded
    BY DEF Identify, At, Idle, disk, Recorded
  <1>2. phase = "running"
    BY <1>1 DEF IInv, StepFacts
  <1> QED
    BY <1>1, <1>2 DEF IInv, LedgerFacts, StepFacts, TrackedUntilGone, DeletesOnlyOwn, ReceiptFacts

\* Taking up an effect, in the run or in a rollback.
LEMMA BeginInductive ==
    ASSUME IInv, NEW e \in Effects, NEW allowed \in BOOLEAN, Begin(e, allowed), cur = {},
           mstat[e] \in {"pending", "cleaning"},
           allowed => e \notin Declared /\ mstat[e] = "pending",
           allowed /\ Kind[e] = "directory" =>
              \A x \in Effects : e \in Ancestors[x] => mstat[x] \in {"absent", "cleaned"},
           UNCHANGED <<phase, journal, receipt, disk>>
    PROVE  LedgerFacts' /\ StepFacts' /\ TrackedUntilGone' /\ DeletesOnlyOwn' /\ ReceiptFacts'
  <1>1. Recorded' = Recorded
    BY DEF Recorded, journal
  <1>2. CASE allowed /\ cur' = {e} /\ step' = "mark" /\ UNCHANGED <<jstat, mstat>>
    <2>1. jstat[e] = "pending"
      BY <1>2 DEF IInv, LedgerFacts
    <2>2. Kind[e] = "directory" => \A x \in Effects : e \in Ancestors[x] => place[x] # "own"
      BY <1>2 DEF IInv, LedgerFacts, TrackedUntilGone
    <2>3. StepFacts'
      BY <1>2, <2>1, <2>2, SMT DEF StepFacts, disk
    <2> QED
      BY <1>1, <1>2, <2>3 DEF journal, disk, IInv, LedgerFacts, TrackedUntilGone, DeletesOnlyOwn, ReceiptFacts
  <1>3. CASE Settle(e, "unknown") /\ UNCHANGED <<cur, step>>
    BY <1>3, SettleInductive DEF journal, disk
  <1> QED BY <1>2, <1>3 DEF Begin

\* The durable "cleaning" mark, or giving up before anything is touched.
LEMMA MarkInductive ==
    ASSUME IInv, NEW e \in Effects, MarkCleaning(e)
    PROVE  LedgerFacts' /\ StepFacts' /\ TrackedUntilGone' /\ DeletesOnlyOwn' /\ ReceiptFacts'
  <1>1. /\ e \in cur /\ cur = {e} /\ step = "mark" /\ Recorded' = Recorded
        /\ UNCHANGED <<phase, ledger, ident, jreceipt, receipt, place, quar, destroyed>>
    BY DEF MarkCleaning, At, journal, disk, Recorded
  <1>2. jstat[e] = "pending" /\ e \notin Declared /\ e \in Recorded /\ quar[e] = "none"
    BY <1>1 DEF IInv, StepFacts, LedgerFacts, TrackedUntilGone
  <1>3. jreceipt \notin {"completed", "not_required"}
    BY <1>2 DEF IInv, ReceiptFacts
  <1>4. CASE Transition(e, "cleaning") /\ step' = "move" /\ UNCHANGED cur
    <2>1. /\ jstat'[e] = "cleaning" /\ mstat'[e] = "cleaning"
          /\ \A x \in Effects \ {e} : jstat'[x] = jstat[x] /\ mstat'[x] = mstat[x]
      BY <1>4 DEF Transition, IInv, TypeOK
    <2>2. StepFacts'
      BY <1>1, <1>2, <1>4, <2>1 DEF IInv, StepFacts
    <2>3. TrackedUntilGone'
      BY <1>1, <1>2, <2>1 DEF IInv, TrackedUntilGone
    <2>4. LedgerFacts'
      BY <1>1, <1>2, <2>1 DEF IInv, LedgerFacts
    <2> QED
      BY <1>1, <1>3, <2>2, <2>3, <2>4 DEF IInv, DeletesOnlyOwn, ReceiptFacts
  <1>5. CASE Settle(e, "failed") /\ Idle
    <2>1. mstat[e] = "pending"
      BY <1>1 DEF IInv, StepFacts
    <2> QED BY <1>1, <1>2, <1>5, <2>1, SettleInductive DEF Idle
  <1> QED BY <1>4, <1>5 DEF MarkCleaning

\* The rename: whatever was at the path is now in quarantine, under a status
\* that says so.
LEMMA QuarantineInductive ==
    ASSUME IInv, NEW e \in Effects, Quarantine(e)
    PROVE  LedgerFacts' /\ StepFacts' /\ TrackedUntilGone' /\ DeletesOnlyOwn' /\ ReceiptFacts'
  <1>1. /\ e \in cur /\ cur = {e} /\ step = "move" /\ Recorded' = Recorded
        /\ UNCHANGED <<phase, ledger, ident, jreceipt, receipt, destroyed>>
    BY DEF Quarantine, At, journal, Recorded
  <1>2. jstat[e] = "cleaning" /\ mstat[e] = "cleaning" /\ e \notin Declared /\ e \in Recorded
    BY <1>1 DEF IInv, StepFacts, LedgerFacts
  <1>3. CASE /\ quar' = [quar EXCEPT ![e] = place[e]]
             /\ place' = [x \in Effects |-> IF x = e \/ e \in Ancestors[x] THEN "none" ELSE place[x]]
             /\ step' = "delete" /\ UNCHANGED <<cur, jstat, mstat>>
    <2>1. /\ place'[e] = "none" /\ \A x \in Effects : place'[x] = place[x] \/ place'[x] = "none"
          /\ \A x \in Effects \ {e} : quar'[x] = quar[x]
      BY <1>3 DEF IInv, TypeOK
    <2>2. StepFacts'
      BY <1>1, <1>2, <1>3, <2>1 DEF StepFacts
    <2>3. TrackedUntilGone'
      BY <1>1, <1>2, <1>3, <2>1, SMT DEF IInv, TrackedUntilGone
    <2> QED
      BY <1>1, <1>3, <2>2, <2>3 DEF IInv, LedgerFacts, DeletesOnlyOwn, ReceiptFacts
  <1>4. CASE Settle(e, "unknown") /\ Idle /\ UNCHANGED <<place, quar, stray>>
    BY <1>1, <1>2, <1>4, SettleInductive DEF Idle
  <1> QED BY <1>3, <1>4 DEF Quarantine

\* The delete: only a matching object goes.
LEMMA DeleteInductive ==
    ASSUME IInv, NEW e \in Effects, Delete(e)
    PROVE  LedgerFacts' /\ StepFacts' /\ TrackedUntilGone' /\ DeletesOnlyOwn' /\ ReceiptFacts'
  <1>1. /\ e \in cur /\ cur = {e} /\ step = "delete" /\ Recorded' = Recorded
        /\ UNCHANGED <<phase, ledger, ident, jreceipt, receipt, place>>
    BY DEF Delete, At, journal, Recorded
  <1>2. jstat[e] = "cleaning" /\ mstat[e] = "cleaning" /\ e \notin Declared /\ place[e] # "own"
    BY <1>1 DEF IInv, StepFacts
  <1>3. CASE /\ quar[e] = "own" /\ quar' = [quar EXCEPT ![e] = "none"]
             /\ destroyed' = destroyed \cup {<<e, quar[e]>>}
             /\ step' = "settle" /\ UNCHANGED <<cur, jstat, mstat>>
    <2>1. quar'[e] = "none" /\ \A x \in Effects \ {e} : quar'[x] = quar[x]
      BY <1>3 DEF IInv, TypeOK
    <2>2. StepFacts'
      BY <1>1, <1>2, <1>3, <2>1 DEF StepFacts
    <2>3. TrackedUntilGone'
      BY <1>1, <1>2, <1>3, <2>1 DEF IInv, TrackedUntilGone
    <2>4. DeletesOnlyOwn'
      BY <1>2, <1>3, SMT DEF IInv, DeletesOnlyOwn
    <2> QED
      BY <1>1, <1>3, <2>2, <2>3, <2>4 DEF IInv, LedgerFacts, ReceiptFacts
  <1>4. CASE Settle(e, "unknown") /\ Idle /\ UNCHANGED <<quar, destroyed>>
    BY <1>1, <1>2, <1>4, SettleInductive DEF Idle
  <1> QED BY <1>3, <1>4 DEF Delete

\* Reporting the effect cleaned once its object is gone.
LEMMA CleanedInductive ==
    ASSUME IInv, NEW e \in Effects, Cleaned(e)
    PROVE  LedgerFacts' /\ StepFacts' /\ TrackedUntilGone' /\ DeletesOnlyOwn' /\ ReceiptFacts'
  <1>1. /\ e \in cur /\ cur' = {} /\ step = "settle" /\ Recorded' = Recorded
        /\ UNCHANGED <<phase, ledger, ident, jreceipt, receipt, place, quar, destroyed>>
    BY DEF Cleaned, At, Idle, journal, disk, Recorded
  <1>2. /\ jstat[e] = "cleaning" /\ mstat[e] = "cleaning" /\ e \in Recorded
        /\ place[e] # "own" /\ quar[e] = "none"
    BY <1>1 DEF IInv, StepFacts, LedgerFacts
  <1>3. CASE Transition(e, "cleaned")
    <2>1. /\ jstat'[e] = "cleaned" /\ mstat'[e] = "cleaned"
          /\ \A x \in Effects \ {e} : jstat'[x] = jstat[x] /\ mstat'[x] = mstat[x]
      BY <1>3 DEF Transition, IInv, TypeOK
    <2>2. TrackedUntilGone'
      BY <1>1, <1>2, <2>1 DEF IInv, TrackedUntilGone
    <2>3. LedgerFacts'
      BY <1>1, <1>2, <2>1 DEF IInv, LedgerFacts
    <2> QED
      BY <1>1, <1>2, <2>1, <2>2, <2>3 DEF IInv, StepFacts, DeletesOnlyOwn, ReceiptFacts
  <1>4. CASE Settle(e, "unknown")
    BY <1>1, <1>2, <1>4, SettleInductive
  <1> QED BY <1>3, <1>4 DEF Cleaned

\* The receipt speaks for the ledger in memory, and memory is never more
\* optimistic than the journal.
LEMMA ReceiptInductive ==
    ASSUME IInv, WriteReceipt
    PROVE  LedgerFacts' /\ StepFacts' /\ TrackedUntilGone' /\ DeletesOnlyOwn' /\ ReceiptFacts'
  <1>1. /\ UNCHANGED <<ledger, jstat, mstat, cur, step, place, quar, destroyed>>
        /\ cur = {} /\ phase' = "done" /\ Recorded' = Recorded
    BY DEF WriteReceipt, disk, Recorded
  <1>2. ReceiptStatus(TRUE) \notin {"completed", "not_required"}
    BY DEF ReceiptStatus
  <1>3. ASSUME Unresolved = {} PROVE \A e \in Recorded : jstat[e] = "cleaned"
    <2> SUFFICES ASSUME NEW e \in Recorded PROVE jstat[e] = "cleaned"
      OBVIOUS
    <2>1. e \in Effects /\ mstat[e] \in Statuses
      BY DEF Recorded, IInv, TypeOK
    <2>2. mstat[e] \notin {"pending", "cleaning", "failed", "unknown"}
      BY <1>3, <2>1 DEF WriteReceipt, Actionable, Unresolved
    <2> QED BY <2>1, <2>2 DEF IInv, LedgerFacts, Statuses
  <1>4. ReceiptFacts'
    <2>1. CASE jreceipt' = ReceiptStatus(Unresolved # {}) /\ receipt' = jreceipt'
      <3>1. CASE Unresolved = {}
        BY <1>1, <1>3, <2>1, <3>1 DEF ReceiptFacts
      <3>2. CASE Unresolved # {}
        <4>1. jreceipt' = ReceiptStatus(TRUE)
          BY <2>1, <3>2
        <4> QED BY <1>1, <1>2, <2>1, <4>1 DEF ReceiptFacts
      <3> QED BY <3>1, <3>2
    <2>2. CASE receipt' = ReceiptStatus(TRUE) /\ UNCHANGED jreceipt
      BY <1>1, <1>2, <2>2 DEF IInv, ReceiptFacts
    <2> QED BY <2>1, <2>2 DEF WriteReceipt
  <1> QED
    BY <1>1, <1>4 DEF IInv, LedgerFacts, StepFacts, TrackedUntilGone, DeletesOnlyOwn

\* The end of the run, a crash, and a recovery touch neither journal nor disk.
LEMMA RestartInductive ==
    ASSUME IInv, BeginRollback \/ Crash \/ Recover
    PROVE  LedgerFacts' /\ StepFacts' /\ TrackedUntilGone' /\ DeletesOnlyOwn' /\ ReceiptFacts'
  <1>1. /\ UNCHANGED <<ledger, jreceipt, jstat, place, quar, destroyed>>
        /\ mstat' = mstat \/ mstat' = jstat
        /\ phase' \in {"rollback", "done", "down"}
        /\ receipt' = receipt \/ receipt' = "none"
        /\ Recorded' = Recorded
    BY DEF BeginRollback, Crash, Recover, Idle, journal, disk, Recorded
  <1>2. cur' = {} \/ Recover
    BY DEF BeginRollback, Crash, Idle
  <1>3. StepFacts'
    <2>1. CASE cur' = {}
      BY <2>1 DEF StepFacts
    <2>2. CASE Recover
      BY <1>1, <2>2, SMT DEF Recover, IInv, StepFacts
    <2> QED BY <1>2, <2>1, <2>2
  <1> QED
    BY <1>1, <1>3 DEF IInv, LedgerFacts, TrackedUntilGone, DeletesOnlyOwn, ReceiptFacts

\* Every step preserves the invariant.
LEMMA IInvInductive == IInv /\ [Next]_vars => IInv'
  <1> SUFFICES ASSUME IInv, [Next]_vars
      PROVE LedgerFacts' /\ StepFacts' /\ TrackedUntilGone' /\ DeletesOnlyOwn' /\ ReceiptFacts'
    BY TypeInductive DEF IInv
  <1>1. CASE Env
    BY <1>1, EnvInductive
  <1>2. CASE \E e \in Effects : RecordEffect(e)
    BY <1>2, RecordInductive
  <1>3. CASE \E e \in Effects : Create(e)
    BY <1>3, CreateInductive
  <1>4. CASE \E e \in Effects : Identify(e)
    BY <1>4, IdentifyInductive
  <1>5. CASE BeginRollback \/ Crash \/ Recover
    BY <1>5, RestartInductive
  <1>6. CASE \E e \in Effects : CleanupEffect(e)
    <2> PICK e \in Effects : CleanupEffect(e)
      BY <1>6
    <2> DEFINE allowed == Kind[e] = "directory" => \A x \in Recorded : e \in Ancestors[x] => mstat[x] = "cleaned"
    <2>1. ASSUME allowed, Kind[e] = "directory", NEW x \in Effects, e \in Ancestors[x]
          PROVE  mstat[x] \in {"absent", "cleaned"}
      BY <2>1 DEF IInv, LedgerFacts
    <2> QED
      BY <2>1, BeginInductive DEF CleanupEffect
  <1>7. CASE \E e \in Effects : MarkCleaning(e)
    BY <1>7, MarkInductive
  <1>8. CASE \E e \in Effects : Quarantine(e)
    BY <1>8, QuarantineInductive
  <1>9. CASE \E e \in Effects : Delete(e)
    BY <1>9, DeleteInductive
  <1>10. CASE \E e \in Effects : Cleaned(e)
    BY <1>10, CleanedInductive
  <1>11. CASE \E e \in Effects : Rollback(e)
    <2> PICK e \in Effects : Rollback(e)
      BY <1>11
    <2> DEFINE allowed == /\ mstat[e] = "pending"
                          /\ e \notin Declared
                          /\ Kind[e] = "directory" => \A x \in Unresolved : e \notin Ancestors[x]
    <2>1. e \in Actionable /\ (Kind[e] = "directory" => \A x \in Actionable : e \notin Ancestors[x])
      BY DEF Rollback, NextEffect, Ready
    <2>2. ASSUME allowed, Kind[e] = "directory", NEW x \in Effects, e \in Ancestors[x]
          PROVE  mstat[x] \in {"absent", "cleaned"}
      <3>1. x \notin Unresolved /\ x \notin Actionable /\ mstat[x] \in Statuses
        BY <2>1, <2>2 DEF IInv, TypeOK
      <3> QED BY <3>1 DEF Unresolved, Actionable, Statuses
    <2> QED
      BY <2>1, <2>2, BeginInductive DEF Rollback, Actionable
  <1>12. CASE WriteReceipt
    BY <1>12, ReceiptInductive
  <1>13. CASE UNCHANGED vars
    BY <1>13, SMT DEF vars, IInv, LedgerFacts, StepFacts, TrackedUntilGone, DeletesOnlyOwn, ReceiptFacts, Recorded
  <1> QED
    BY <1>1, <1>2, <1>3, <1>4, <1>5, <1>6, <1>7, <1>8, <1>9, <1>10, <1>11, <1>12, <1>13
       DEF Next, Run, Clean

\* The invariant holds in every reachable state.
LEMMA Invariance == Spec => []IInv
  BY InitIInv, IInvInductive, PTL DEF Spec

\* Every reachable state of the ledger, journal, manager and disk is well typed.
THEOREM TypeCorrect == Spec => []TypeOK
  <1>1. IInv => TypeOK
    BY DEF IInv
  <1> QED BY <1>1, Invariance, PTL

\* CleanupManager deletes only objects the run created.
THEOREM OnlyOwnDeleted == Spec => []DeletesOnlyOwn
  <1>1. IInv => DeletesOnlyOwn
    BY DEF IInv
  <1> QED BY <1>1, Invariance, PTL

\* What the run created stays under a recoverable journal status until it is gone.
THEOREM ObjectsStayTracked == Spec => []TrackedUntilGone
  <1>1. IInv => TrackedUntilGone
    BY DEF IInv
  <1> QED BY <1>1, Invariance, PTL

\* A complete receipt is true.
THEOREM ReceiptsAreHonest == Spec => []HonestReceipt
  <1>1. IInv => HonestReceipt
    BY DEF IInv, ReceiptFacts, TrackedUntilGone, HonestReceipt
  <1> QED BY <1>1, Invariance, PTL

\* A directory is moved only when nothing the run created is left below it.
THEOREM AncestorsArePreserved == Spec => AncestorPreserved
  <1>1. ASSUME IInv, [Next]_vars, NEW d \in Effects,
               Kind[d] = "directory", quar[d] = "none", quar'[d] = "own",
               NEW x \in Effects, d \in Ancestors[x]
        PROVE  place[x] # "own"
    <2>1. ASSUME quar' # quar PROVE \E e \in Effects : Quarantine(e) \/ Delete(e)
      BY <1>1, <2>1 DEF Next, Env, EnvRemove, EnvPut, EnvStray, Run, RecordEffect, Create, Identify,
         BeginRollback, CleanupEffect, Clean, MarkCleaning, Cleaned, Rollback, WriteReceipt, Crash,
         Recover, vars, disk
    <2>2. PICK e \in Effects : Quarantine(e) \/ Delete(e)
      BY <1>1, <2>1
    <2>3. CASE Quarantine(e)
      <3>1. d = e /\ e \in cur /\ step = "move"
        BY <1>1, <2>3 DEF Quarantine, At, IInv, TypeOK
      <3> QED BY <1>1, <3>1 DEF IInv, StepFacts
    <2>4. CASE Delete(e)
      BY <1>1, <2>4 DEF Delete, IInv, TypeOK
    <2> QED BY <2>2, <2>3, <2>4
  <1>2. IInv /\ [Next]_vars =>
          [\A d \in Effects :
             Kind[d] = "directory" /\ quar[d] = "none" /\ quar'[d] = "own" =>
               \A x \in Effects : d \in Ancestors[x] => place[x] # "own"]_vars
    BY <1>1
  <1> QED BY <1>2, Invariance, PTL DEF Spec, AncestorPreserved

\* Giving an effect up moves its durable status forward.
LEMMA SettleForward ==
    ASSUME IInv, NEW e \in Effects, NEW s \in {"failed", "unknown"}, Settle(e, s),
           mstat[e] \in {"pending", "cleaning"},
           s = "failed" => mstat[e] = "pending",
           NEW x \in Effects
    PROVE  ForwardStep(x)
  <1>1. jstat[e] = mstat[e]
    BY DEF IInv, LedgerFacts
  <1>2. /\ x # e => jstat'[x] = jstat[x]
        /\ jstat'[e] = s \/ jstat'[e] = jstat[e]
    BY SettleType DEF IInv, Statuses
  <1> QED BY <1>1, <1>2, SMT DEF ForwardStep

\* No terminal status is rewritten and no interrupted cleanup is retried.
THEOREM StatusesMoveForward == Spec => StatusForward
  <1>1. ASSUME IInv, [Next]_vars, NEW x \in Effects PROVE ForwardStep(x)
    <2> USE <1>1
    <2>1. CASE \E e \in Effects : RecordEffect(e)
      <3> PICK e \in Effects : RecordEffect(e)
        BY <2>1
      <3>1. jstat[e] = "absent"
        BY DEF RecordEffect, IInv, LedgerFacts
      <3> QED BY <3>1 DEF RecordEffect, Transition, ForwardStep, IInv, TypeOK
    <2>2. CASE \E e \in Effects : Create(e)
      <3> PICK e \in Effects : Create(e)
        BY <2>2
      <3>1. jstat[e] = "pending"
        BY DEF Create, At, IInv, StepFacts
      <3> QED BY <3>1 DEF Create, Transition, ForwardStep, IInv, TypeOK
    <2>3. CASE \E e \in Effects : CleanupEffect(e) \/ Rollback(e)
      <3> PICK e \in Effects : CleanupEffect(e) \/ Rollback(e)
        BY <2>3
      <3>1. mstat[e] \in {"pending", "cleaning"}
        BY DEF CleanupEffect, Rollback, NextEffect, Ready, Actionable
      <3>2. UNCHANGED jstat \/ Settle(e, "unknown")
        BY DEF CleanupEffect, Rollback, Begin
      <3> QED BY <3>1, <3>2, SettleForward DEF ForwardStep
    <2>4. CASE \E e \in Effects : MarkCleaning(e)
      <3> PICK e \in Effects : MarkCleaning(e)
        BY <2>4
      <3>1. jstat[e] = "pending" /\ mstat[e] = "pending"
        BY DEF MarkCleaning, At, IInv, StepFacts
      <3>2. Transition(e, "cleaning") \/ Settle(e, "failed")
        BY DEF MarkCleaning
      <3>3. CASE Transition(e, "cleaning")
        BY <3>1, <3>3 DEF Transition, ForwardStep, IInv, TypeOK
      <3> QED BY <3>1, <3>2, <3>3, SettleForward
    <2>5. CASE \E e \in Effects : Quarantine(e) \/ Delete(e) \/ Cleaned(e)
      <3> PICK e \in Effects : Quarantine(e) \/ Delete(e) \/ Cleaned(e)
        BY <2>5
      <3>1. jstat[e] = "cleaning" /\ mstat[e] = "cleaning"
        BY DEF Quarantine, Delete, Cleaned, At, IInv, StepFacts
      <3>2. UNCHANGED jstat \/ Transition(e, "cleaned") \/ Settle(e, "unknown")
        BY DEF Quarantine, Delete, Cleaned
      <3>3. CASE Transition(e, "cleaned")
        BY <3>1, <3>3 DEF Transition, ForwardStep, IInv, TypeOK
      <3>4. CASE Settle(e, "unknown")
        BY <3>1, <3>4, SettleForward
      <3> QED BY <3>2, <3>3, <3>4 DEF ForwardStep
    <2>6. CASE UNCHANGED jstat
      BY <2>6 DEF ForwardStep
    <2>7. Env \/ (\E e \in Effects : Identify(e)) \/ BeginRollback \/ WriteReceipt \/ Crash \/ Recover
            \/ UNCHANGED vars => UNCHANGED jstat
      BY DEF Env, EnvRemove, EnvPut, EnvStray, Identify, BeginRollback, WriteReceipt, Crash, Recover, vars
    <2> QED
      BY <1>1, <2>1, <2>2, <2>3, <2>4, <2>5, <2>6, <2>7 DEF Next, Run, Clean
  <1>2. IInv /\ [Next]_vars => [\A e \in Effects : ForwardStep(e)]_vars
    BY <1>1
  <1> QED BY <1>2, Invariance, PTL DEF Spec, StatusForward

----------------------------------------------------------------------------
\* Why a rollback ends: what RollbackTerminates needs besides fair scheduling.

\* The manager always has a next step: an effect in hand, an entry of the
\* ledger that _rollback_order puts next, or the receipt.
RollbackGoesOn ==
    phase = "rollback" =>
        \/ \E e \in Effects : cur = {e} /\ step \in {"mark", "move", "delete", "settle"}
        \/ cur = {} /\ \E e \in Effects : NextEffect(e)
        \/ cur = {} /\ Actionable = {}

\* How far the effect in hand is.
Progress ==
    IF cur = {} THEN 0
    ELSE CASE step = "mark" -> 1 [] step = "move" -> 2 [] step = "delete" -> 3 [] OTHER -> 4

\* The steps a rollback may still take before its receipt.
Remaining == 5 * Cardinality(Actionable) - Progress

\* Within a rollback, other processes leave the manager alone and every step of
\* the manager leaves fewer to take.
RollbackAdvances ==
    phase = "rollback" /\ phase' = "rollback" =>
        \/ UNCHANGED <<mstat, cur, step>>
        \/ Remaining \in Nat /\ Remaining' \in Nat /\ Remaining' < Remaining

\* A finite set with a strict order on it, given by what lies above each
\* member, has a member with nothing above it.
LEMMA LastExists ==
    ASSUME NEW S, IsFiniteSet(S), S # {}, NEW above \in [S -> SUBSET S],
           \A x \in S : x \notin above[x] /\ \A y \in above[x] : above[y] \subseteq above[x]
    PROVE  \E x \in S : above[x] = {}
  <1> DEFINE B == {above[x] : x \in S}
  <1>1. B \subseteq FiniteSubsetsOf(S) /\ B # {}
    <2>1. \A x \in S : above[x] \in SUBSET S /\ IsFiniteSet(above[x])  BY FS_Subset
    <2> QED BY <2>1, SMT DEF FiniteSubsetsOf
  <1>2. IsWellFoundedOn(StrictSubsetOrdering(S), FiniteSubsetsOf(S))
    BY FS_StrictSubsetOrderingWellFounded
  <1> HIDE DEF B
  <1>3. PICK U \in B : \A V \in B : ~(<<V, U>> \in StrictSubsetOrdering(S))
    BY <1>1, <1>2, WFMin
  <1>4. PICK x \in S : U = above[x]  BY <1>3 DEF B
  <1>5. ASSUME NEW y \in above[x] PROVE FALSE
    <2>1. y \in S /\ above[y] \in B /\ above[y] \subseteq U /\ above[y] # U
      BY <1>4, <1>5 DEF B
    <2>2. above[y] \in SUBSET S /\ U \in SUBSET S  BY <1>4, <2>1
    <2> QED BY <1>3, <2>1, <2>2 DEF StrictSubsetOrdering
  <1>6. above[x] = {}  BY <1>5, SMT
  <1> QED BY <1>6

\* What is left to clean is in the ledger, and finite for that reason.
LEMMA ActionableFacts ==
    ASSUME IInv
    PROVE  /\ Actionable \subseteq Recorded
           /\ IsFiniteSet(Actionable)
           /\ Cardinality(Actionable) \in Nat
  <1>1. Actionable \subseteq Recorded  BY DEF Actionable, IInv, LedgerFacts
  <1>2. Len(ledger) \in Nat /\ ledger \in [1..Len(ledger) -> Effects]
    BY SMT DEF IInv, TypeOK
  <1>3. ledger \in Surjection(1..Len(ledger), Recorded)
    <2>1. \A i \in 1..Len(ledger) : ledger[i] \in Recorded  BY <1>2 DEF Recorded
    <2>2. ledger \in [1..Len(ledger) -> Recorded]  BY <1>2, <2>1, SMT
    <2> QED BY <2>2 DEF Surjection, Recorded
  <1>4. IsFiniteSet(1..Len(ledger))  BY <1>2, FS_Interval, SMT
  <1>5. IsFiniteSet(Recorded)  BY <1>3, <1>4, FS_Surjection
  <1>6. IsFiniteSet(Actionable)  BY <1>1, <1>5, FS_Subset
  <1> QED BY <1>1, <1>6, FS_CardinalityType

\* While something is left, _rollback_order has an entry to put next: targets
\* are not below each other in a circle, so some entry has nothing left below it.
LEMMA SomethingIsNext ==
    ASSUME IInv, Actionable # {}
    PROVE  \E e \in Effects : NextEffect(e)
  <1>1. PICK d \in Actionable : \A x \in Actionable : d \notin Ancestors[x]
    <2> DEFINE below == [d \in Actionable |-> {x \in Actionable : d \in Ancestors[x]}]
    <2>1. ASSUME NEW d \in Actionable
          PROVE  d \notin below[d] /\ \A x \in below[d] : below[x] \subseteq below[d]
      BY CleanupAssumption DEF Actionable
    <2>2. below \in [Actionable -> SUBSET Actionable]  OBVIOUS
    <2> HIDE DEF below
    <2>3. PICK d \in Actionable : below[d] = {}  BY <2>1, <2>2, ActionableFacts, LastExists
    <2> QED BY <2>3 DEF below
  <1>2. d \in Effects /\ Ready(d)  BY <1>1 DEF Ready, Actionable
  <1> DEFINE I == {i \in 1..Len(ledger) : Ready(ledger[i])}
  <1>3. Len(ledger) \in Nat  BY SMT DEF IInv, TypeOK
  <1>4. I # {}
    <2>1. d \in Recorded  BY <1>1, ActionableFacts
    <2> QED BY <1>2, <2>1 DEF Recorded
  <1>5. PICK i \in I : \A j \in I : ~(j > i)
    <2> DEFINE later == [i \in I |-> {j \in I : j > i}]
    <2>1. \A i, j, k \in I : ~(i > i) /\ (j > i /\ k > j => k > i)  BY <1>3, SMT
    <2>2. ASSUME NEW i \in I
          PROVE  i \notin later[i] /\ \A j \in later[i] : later[j] \subseteq later[i]
      BY <2>1
    <2>3. later \in [I -> SUBSET I]  OBVIOUS
    <2>4. IsFiniteSet(I)
      <3>1. IsFiniteSet(1..Len(ledger))  BY <1>3, FS_Interval, SMT
      <3> QED BY <3>1, FS_Subset
    <2> HIDE DEF later, I
    <2>5. PICK i \in I : later[i] = {}  BY <1>4, <2>2, <2>3, <2>4, LastExists
    <2> QED BY <2>5 DEF later
  <1>6. ledger[i] \in Effects /\ Ready(ledger[i])  BY <1>5 DEF Ready, Actionable
  <1>7. NextEffect(ledger[i])  BY <1>5, <1>6 DEF NextEffect
  <1> QED BY <1>6, <1>7

\* A rollback is never stuck, for any ledger, any statuses a crash left in the
\* journal and any nesting of the targets.
THEOREM RollbackNeverStuck == Spec => []RollbackGoesOn
  <1>1. ASSUME IInv, phase = "rollback", cur # {}
        PROVE  \E e \in Effects : cur = {e} /\ step \in {"mark", "move", "delete", "settle"}
    <2>1. PICK e \in Effects : cur = {e}  BY <1>1 DEF IInv, TypeOK
    <2>2. step \notin {"create", "identify", "idle"}  BY <1>1, <2>1 DEF IInv, StepFacts
    <2> QED BY <1>1, <2>1, <2>2 DEF IInv, TypeOK
  <1>2. IInv => RollbackGoesOn  BY <1>1, SomethingIsNext DEF RollbackGoesOn
  <1> QED BY <1>2, Invariance, PTL

\* Giving up or finishing an effect leaves one effect fewer to clean.
LEMMA OneFewer ==
    ASSUME IInv, IInv', NEW e \in Actionable, mstat'[e] \notin {"pending", "cleaning"},
           \A x \in Effects \ {e} : mstat'[x] = mstat[x],
           cur' = {}
    PROVE  Remaining \in Nat /\ Remaining' \in Nat /\ Remaining' < Remaining
  <1>1. Actionable' = Actionable \ {e}  BY DEF Actionable
  <1>2. Cardinality(Actionable') = Cardinality(Actionable) - 1
    BY <1>1, ActionableFacts, FS_RemoveElement
  <1>3. Cardinality(Actionable) \in Nat  BY ActionableFacts
  <1>4. Cardinality(Actionable') \in Nat  BY <1>1, ActionableFacts, FS_RemoveElement, FS_CardinalityType
  <1>5. Progress' = 0 /\ Progress \in 0..4  BY SMT DEF Progress
  <1> QED BY <1>2, <1>3, <1>4, <1>5, SMT DEF Remaining

\* Going on with the effect in hand leaves the same effects to clean.
LEMMA OneFurther ==
    ASSUME IInv, NEW e \in Actionable, Actionable' = Actionable, Progress' = Progress + 1
    PROVE  Remaining \in Nat /\ Remaining' \in Nat /\ Remaining' < Remaining
  <1>1. Cardinality(Actionable) \in Nat /\ Cardinality(Actionable) # 0
    BY ActionableFacts, FS_EmptySet
  <1>2. Progress \in 0..4  BY SMT DEF Progress
  <1>3. Progress' \in 0..4  BY SMT DEF Progress
  <1> QED BY <1>1, <1>2, <1>3, SMT DEF Remaining

\* Every step of the manager in a rollback finishes with an effect or gets on
\* with it.
LEMMA RollbackSteps == IInv /\ IInv' /\ [Next]_vars => [RollbackAdvances]_vars
  <1> SUFFICES ASSUME IInv, IInv', Next, phase = "rollback", phase' = "rollback",
                      ~UNCHANGED <<mstat, cur, step>>
               PROVE  Remaining \in Nat /\ Remaining' \in Nat /\ Remaining' < Remaining
    BY DEF RollbackAdvances
  <1>1. \E e \in Effects : Rollback(e) \/ MarkCleaning(e) \/ Quarantine(e) \/ Delete(e) \/ Cleaned(e)
    <2>1. ASSUME NEW e \in Effects PROVE ~Create(e) /\ ~Identify(e)
      BY DEF Create, Identify, At, IInv, StepFacts
    <2>2. ~Env  BY DEF Env, EnvRemove, EnvPut, EnvStray
    <2>3. \A e \in Effects : ~RecordEffect(e) /\ ~CleanupEffect(e)  BY DEF RecordEffect, CleanupEffect
    <2>4. ~BeginRollback /\ ~WriteReceipt /\ ~Crash /\ ~Recover
      BY DEF BeginRollback, WriteReceipt, Crash, Recover
    <2> QED BY <2>1, <2>2, <2>3, <2>4 DEF Next, Run, Clean
  <1>2. PICK e \in Effects : Rollback(e) \/ MarkCleaning(e) \/ Quarantine(e) \/ Delete(e) \/ Cleaned(e)
    BY <1>1
  <1>3. e \in Actionable
    <2>1. CASE Rollback(e)  BY <2>1 DEF Rollback, NextEffect, Ready
    <2>2. ASSUME e \in cur, step \in {"mark", "move", "delete", "settle"} PROVE e \in Actionable
      BY <2>2 DEF IInv, StepFacts, Actionable
    <2> QED BY <1>2, <2>1, <2>2 DEF MarkCleaning, Quarantine, Delete, Cleaned, At
  <1>4. ASSUME NEW s \in {"failed", "unknown"}, Settle(e, s), cur' = {}
        PROVE  Remaining \in Nat /\ Remaining' \in Nat /\ Remaining' < Remaining
    <2>1. /\ mstat'[e] = s \/ mstat'[e] = "unknown"
          /\ \A x \in Effects \ {e} : mstat'[x] = mstat[x]
      BY <1>4, SettleType DEF IInv, Statuses
    <2> QED BY <1>3, <1>4, <2>1, OneFewer
  <1>5. CASE Rollback(e)
    <2>1. /\ cur = {}
          /\ \/ Settle(e, "unknown") /\ cur' = cur
             \/ cur' = {e} /\ step' = "mark" /\ mstat' = mstat
      BY <1>5 DEF Rollback, Begin
    <2>2. CASE cur' = {e} /\ step' = "mark" /\ mstat' = mstat
      <3>1. Actionable' = Actionable  BY <2>2 DEF Actionable
      <3>2. Progress' = Progress + 1  BY <2>1, <2>2, SMT DEF Progress
      <3> QED BY <1>3, <3>1, <3>2, OneFurther
    <2> QED BY <1>4, <2>1, <2>2
  <1>6. CASE MarkCleaning(e)
    <2>1. CASE Transition(e, "cleaning") /\ step' = "move" /\ UNCHANGED cur
      <3>1. mstat' = [mstat EXCEPT ![e] = "cleaning"]  BY <2>1 DEF Transition
      <3>2. Actionable' = Actionable  BY <1>3, <3>1 DEF Actionable, IInv, TypeOK
      <3>3. cur = {e} /\ step = "mark"  BY <1>6 DEF MarkCleaning, At
      <3>4. Progress' = Progress + 1  BY <2>1, <3>3, SMT DEF Progress
      <3> QED BY <1>3, <3>2, <3>4, OneFurther
    <2> QED BY <1>4, <1>6, <2>1 DEF MarkCleaning, Idle
  <1>7. CASE Quarantine(e) \/ Delete(e)
    <2>1. CASE UNCHANGED <<cur, jstat, mstat>>
      <3>1. Actionable' = Actionable  BY <2>1 DEF Actionable
      <3>2. /\ cur = {e}
            /\ (step = "move" /\ step' = "delete") \/ (step = "delete" /\ step' = "settle")
        BY <1>7, <2>1 DEF Quarantine, Delete, At, Idle
      <3>3. Progress' = Progress + 1  BY <2>1, <3>2, SMT DEF Progress
      <3> QED BY <1>3, <3>1, <3>3, OneFurther
    <2> QED BY <1>4, <1>7, <2>1 DEF Quarantine, Delete, Idle
  <1>8. CASE Cleaned(e)
    <2>1. CASE Transition(e, "cleaned")
      <3>1. mstat'[e] = "cleaned" /\ \A x \in Effects \ {e} : mstat'[x] = mstat[x]
        BY <2>1 DEF Transition, IInv, TypeOK
      <3> QED BY <1>3, <1>8, <3>1, OneFewer DEF Cleaned, Idle
    <2> QED BY <1>4, <1>8, <2>1 DEF Cleaned, Idle
  <1> QED BY <1>2, <1>5, <1>6, <1>7, <1>8

\* A rollback takes at most five steps for each effect left to clean, whatever
\* fails and whatever other processes do meanwhile.
THEOREM RollbackMakesProgress == Spec => [][RollbackAdvances]_vars
  <1> QED BY RollbackSteps, Invariance, PTL DEF Spec
====
