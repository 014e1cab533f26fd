---- MODULE ApprovalControlProofs ----
(***************************************************************************)
(* Proofs about ApprovalControl for every number of authorizations, calls, *)
(* authority processes and local consumers.                                *)
(***************************************************************************)
EXTENDS ApprovalControl, TLAPS

\* The leaves go to Zenon; the ones that need arithmetic, or records and
\* functions taken apart, cite SMT.
USE Zenon

USE DEF store, serving, calls, locals

LEMMA ConnFacts ==
    ASSUME NEW c \in Conns, TypeOK
    PROVE  /\ c[1] \in Calls
           /\ Doc(c) \in Documents
           /\ Doc(c).auth \in Auths
           /\ Doc(c).plan \in Plans
           /\ Doc(c).worker \in Workers
           /\ Doc(c).rid \in Requests
  <1>1. c[1] \in Calls  BY DEF Conns
  <1>2. Doc(c) \in Documents  BY <1>1 DEF Doc, TypeOK
  <1> QED BY <1>1, <1>2 DEF Documents

LEMMA NewRowType ==
    ASSUME NEW d \in Documents, NEW t \in Nat
    PROVE  NewRow(d, t) \in Rows
  <1>1. Envelope[d.auth] \in Envelopes  BY ConstantsAssumption DEF Documents
  <1> QED BY <1>1 DEF NewRow, Rows, Envelopes, Documents

LEMMA TypeInductive == TypeOK /\ [Next]_vars => TypeOK'
  <1> SUFFICES ASSUME TypeOK, [Next]_vars PROVE TypeOK'  OBVIOUS
  <1> USE DEF TypeOK, StatusValues, StageValues
  <1>1. CASE Tick  BY <1>1, ConstantsAssumption, SMT DEF Tick
  <1>2. ASSUME NEW a \in Auths, StoreAuthorization(a) PROVE TypeOK'
    BY <1>2 DEF StoreAuthorization
  <1>3. ASSUME NEW h \in Authorities, NEW c \in Conns, Accept(h, c) PROVE TypeOK'
    BY <1>3, SMT DEF Accept, Respond, Goto, RowsFor
  <1>4. ASSUME NEW h \in Authorities, NEW c \in Conns, Verify(h, c) PROVE TypeOK'
    BY <1>4 DEF Verify, Goto
  <1>5. ASSUME NEW h \in Authorities, NEW c \in Conns, Recheck(h, c) PROVE TypeOK'
    BY <1>5 DEF Recheck, Respond, Goto, RowsFor
  <1>6. ASSUME NEW h \in Authorities, NEW c \in Conns, Sample(h, c) PROVE TypeOK'
    BY <1>6, SMT DEF Sample, Goto
  <1>7. ASSUME NEW h \in Authorities, NEW c \in Conns, LockTimeout(h, c) PROVE TypeOK'
    BY <1>7 DEF LockTimeout, Respond, Goto
  <1>8. ASSUME NEW h \in Authorities, NEW c \in Conns, CommitPrior(h, c) PROVE TypeOK'
    BY <1>8 DEF CommitPrior, Respond, Goto, RowsFor
  <1>9. ASSUME NEW h \in Authorities, NEW c \in Conns, CommitRefuse(h, c) PROVE TypeOK'
    BY <1>9 DEF CommitRefuse, Respond, Goto
  <1>10. ASSUME NEW h \in Authorities, NEW c \in Conns, CommitExpire(h, c) PROVE TypeOK'
    BY <1>10, ConnFacts DEF CommitExpire, Respond, Goto
  <1>11. ASSUME NEW h \in Authorities, NEW c \in Conns, CommitConsume(h, c) PROVE TypeOK'
    <2>1. Doc(c) \in Documents /\ Doc(c).auth \in Auths  BY ConnFacts
    <2>2. NewRow(Doc(c), seen[c]) \in Rows  BY <2>1, NewRowType
    <2>3. rows' \subseteq Rows /\ status' \in [Auths -> StatusValues]
      BY <1>11, <2>1, <2>2 DEF CommitConsume
    <2>4. \E response \in SUBSET Rows : Respond(c, response)
      <3>1. Respond(c, {NewRow(Doc(c), seen[c])}) \/ Respond(c, {})
        BY <1>11 DEF CommitConsume
      <3> QED BY <3>1, <2>2
    <2>5. /\ stage' \in [Conns -> StageValues]
          /\ seen' \in [Conns -> Nat]
          /\ answer' \in [Conns -> SUBSET Rows]
      BY <2>4, SMT DEF Respond, Goto
    <2>6. UNCHANGED <<clock, busy, calls, locals>>  BY <1>11 DEF CommitConsume
    <2> QED BY <2>3, <2>5, <2>6
  <1>12. ASSUME NEW h \in Authorities, NEW c \in Conns, Reply(h, c) PROVE TypeOK'
    BY <1>12, SMT DEF Reply, Goto, Close
  <1>13. ASSUME NEW h \in Authorities, Crash(h) PROVE TypeOK'
    BY <1>13 DEF Crash, Close
  <1>14. ASSUME NEW c \in Conns, Unreachable(c) PROVE TypeOK'
    BY <1>14 DEF Unreachable, Close
  <1>15. ASSUME NEW k \in Calls, Start(k) PROVE TypeOK'
    BY <1>15 DEF Start, Goto, Conns
  <1>16. ASSUME NEW k \in Calls, NotReady(k) PROVE TypeOK'
    BY <1>16 DEF NotReady
  <1>17. ASSUME NEW k \in Calls, TransportError(k) PROVE TypeOK'
    <2>1. <<k, 1>> \in Conns /\ <<k, 2>> \in Conns  BY SMT DEF Conns
    <2>2. stage' \in [Conns -> StageValues]
      <3>1. CASE attempt[k] = 1
        <4>1. stage' = [stage EXCEPT ![<<k, 1>>] = IF @ = "answered" THEN "closed" ELSE @,
                                     ![<<k, 2>>] = "queued"]
          BY <1>17, <3>1, SMT DEF TransportError
        <4> QED BY <2>1, <4>1
      <3>2. CASE attempt[k] # 1
        <4>1. stage' = [stage EXCEPT ![<<k, 2>>] = IF @ = "answered" THEN "closed" ELSE @]
          BY <1>17, <3>2 DEF TransportError
        <4> QED BY <2>1, <4>1
      <3> QED BY <3>1, <3>2
    <2>3. answer' \in [Conns -> SUBSET Rows]  BY <1>17, <2>1, SMT DEF TransportError
    <2>4. /\ cstate' \in [Calls -> {"idle", "waiting", "granted", "rejected", "failed"}]
          /\ attempt' \in [Calls -> 1..2]
      BY <1>17, SMT DEF TransportError
    <2> QED BY <1>17, <2>2, <2>3, <2>4 DEF TransportError
  <1>18. ASSUME NEW k \in Calls, Receive(k) PROVE TypeOK'
    BY <1>18 DEF Receive, Close, Conns
  <1>19. ASSUME NEW l \in Locals, LocalVerify(l) PROVE TypeOK'
    BY <1>19 DEF LocalVerify
  <1>20. ASSUME NEW l \in Locals, LocalConsume(l) PROVE TypeOK'
    BY <1>20 DEF LocalConsume, LocalClaims
  <1>21. CASE UNCHANGED vars  BY <1>21 DEF vars
  <1> QED
    BY <1>1, <1>2, <1>3, <1>4, <1>5, <1>6, <1>7, <1>8, <1>9, <1>10, <1>11, <1>12,
       <1>13, <1>14, <1>15, <1>16, <1>17, <1>18, <1>19, <1>20, <1>21
    DEF Next, Authority, Client, Local

\* Type correctness: every variable keeps its declared shape under every action
\* of the store, the authorities, the clients and the local consumers.
THEOREM TypeCorrect == Spec => []TypeOK
  <1>1. Init => TypeOK
    BY ConstantsAssumption, SMT DEF Init, TypeOK, StatusValues, StageValues
  <1> QED BY <1>1, TypeInductive, PTL DEF Spec

----------------------------------------------------------------------------
\* The inductive invariant.  SingleUse alone is not inductive: CommitConsume
\* needs to know that an approved authorization has no claim
\* (StatusMatchesClaims), that the request it commits for verified, and that
\* what the clients already hold is on record (InFlightSound).

IInv ==
    /\ TypeOK
    /\ SingleUse
    /\ StatusMatchesClaims
    /\ RowsBindEnvelope
    /\ InFlightSound

\* A step that touches neither table nor a local consumer keeps the claims.
LEMMA ClaimsUntouched ==
    ASSUME IInv, TypeOK', UNCHANGED <<status, rows, lstate, lclaim>>, clock <= clock'
    PROVE  SingleUse' /\ StatusMatchesClaims' /\ RowsBindEnvelope'
  <1>1. SingleUse' /\ StatusMatchesClaims'
    BY DEF IInv, SingleUse, StatusMatchesClaims, LocallyConsumed
  <1>2. ASSUME NEW r \in rows' PROVE r.at <= clock'
    <2>1. r \in Rows /\ r.at <= clock  BY <1>2 DEF IInv, TypeOK, RowsBindEnvelope
    <2> QED BY <2>1, SMT DEF IInv, TypeOK, Rows
  <1>3. RowsBindEnvelope'
    BY <1>2 DEF IInv, RowsBindEnvelope, InWindow
  <1> QED BY <1>1, <1>3

LEMMA ClaimsSame ==
    ASSUME IInv, TypeOK', UNCHANGED <<clock, status, rows, lstate, lclaim>>
    PROVE  SingleUse' /\ StatusMatchesClaims' /\ RowsBindEnvelope'
  <1>1. clock <= clock'  BY SMT DEF IInv, TypeOK
  <1> QED BY <1>1, ClaimsUntouched

\* A request that moves between stages without an answer, and past
\* verification only if it verified.
LEMMA StageMoves ==
    ASSUME IInv, TypeOK', NEW c \in Conns, NEW s,
           stage' = [stage EXCEPT ![c] = s],
           s \in {"sample", "commit"} =>
              /\ Doc(c).auth \in Trusted
              /\ Envelope[Doc(c).auth].snap = SnapshotOf[Doc(c).plan]
              /\ Envelope[Doc(c).auth].worker = Doc(c).worker,
           seen' = seen \/ seen' = [seen EXCEPT ![c] = clock],
           UNCHANGED <<clock, rows, answer, cdoc, receipt>>,
           \A k \in Calls : cstate'[k] = "granted" => cstate[k] = "granted"
    PROVE  InFlightSound'
  <1>1. ASSUME NEW e \in Conns PROVE seen'[e] <= clock'
    <2>1. seen'[e] \in {seen[e], clock}  BY DEF IInv, TypeOK
    <2> QED BY <2>1, SMT DEF IInv, InFlightSound, TypeOK
  <1>2. ASSUME NEW e \in Conns, stage'[e] \in {"sample", "commit"}
        PROVE  /\ Doc(e)'.auth \in Trusted
               /\ Envelope[Doc(e)'.auth].snap = SnapshotOf[Doc(e)'.plan]
               /\ Envelope[Doc(e)'.auth].worker = Doc(e)'.worker
    <2>1. Doc(e)' = Doc(e)  BY DEF Doc
    <2>2. e = c \/ stage[e] \in {"sample", "commit"}  BY <1>2 DEF IInv, TypeOK
    <2> QED BY <1>2, <2>1, <2>2, SMT DEF IInv, InFlightSound, TypeOK
  <1>3. ASSUME NEW e \in Conns, NEW r \in answer'[e] PROVE r \in rows' /\ r.doc = Doc(e)'
    BY <1>3 DEF IInv, InFlightSound, Doc
  <1> QED BY <1>1, <1>2, <1>3 DEF IInv, InFlightSound

\* A handler that leaves with a response drawn from the rows of its document.
LEMMA ResponseSound ==
    ASSUME IInv, TypeOK', NEW c \in Conns, NEW response, Respond(c, response),
           \A r \in response : r \in rows' /\ r.doc = Doc(c),
           rows \subseteq rows',
           UNCHANGED <<clock, cstate, cdoc, receipt>>
    PROVE  InFlightSound'
  <1>1. ASSUME NEW e \in Conns PROVE seen'[e] <= clock'
    <2>1. seen'[e] \in {seen[e], 0}  BY DEF IInv, TypeOK, Respond
    <2> QED BY <2>1, SMT DEF IInv, InFlightSound, TypeOK
  <1>2. ASSUME NEW e \in Conns, stage'[e] \in {"sample", "commit"}
        PROVE  /\ Doc(e)'.auth \in Trusted
               /\ Envelope[Doc(e)'.auth].snap = SnapshotOf[Doc(e)'.plan]
               /\ Envelope[Doc(e)'.auth].worker = Doc(e)'.worker
    <2>1. Doc(e)' = Doc(e)  BY DEF Doc
    <2>2. stage[e] \in {"sample", "commit"}  BY <1>2 DEF IInv, TypeOK, Respond, Goto
    <2> QED BY <2>1, <2>2 DEF IInv, InFlightSound
  <1>3. ASSUME NEW e \in Conns, NEW r \in answer'[e] PROVE r \in rows' /\ r.doc = Doc(e)'
    <2>1. Doc(e)' = Doc(e)  BY DEF Doc
    <2>2. e = c \/ answer'[e] = answer[e]  BY DEF IInv, TypeOK, Respond
    <2>3. e = c => r \in response  BY <1>3 DEF IInv, TypeOK, Respond
    <2> QED BY <1>3, <2>1, <2>2, <2>3 DEF IInv, InFlightSound
  <1>4. ASSUME NEW k \in Calls
        PROVE  /\ \A r \in receipt'[k] : r \in rows' /\ r.doc = cdoc'[k]
               /\ cstate'[k] = "granted" => receipt'[k] # {}
    BY DEF IInv, InFlightSound
  <1> QED BY <1>1, <1>2, <1>3, <1>4 DEF InFlightSound

\* Connections that end, or that a client opens, carry nothing new.
LEMMA ConnectionsEnd ==
    ASSUME IInv, TypeOK',
           \A c \in Conns :
              /\ stage'[c] \in {stage[c], "closed", "queued"}
              /\ answer'[c] \in {answer[c], {}}
              /\ seen'[c] \in {seen[c], 0},
           UNCHANGED <<clock, rows, cdoc>>,
           \A k \in Calls :
              /\ \A r \in receipt'[k] : r \in rows /\ r.doc = cdoc[k]
              /\ cstate'[k] = "granted" => receipt'[k] # {}
    PROVE  InFlightSound'
  <1>1. ASSUME NEW e \in Conns PROVE seen'[e] <= clock'
    <2>1. seen'[e] \in {seen[e], 0}  OBVIOUS
    <2> QED BY <2>1, SMT DEF IInv, InFlightSound, TypeOK
  <1>2. ASSUME NEW e \in Conns, stage'[e] \in {"sample", "commit"}
        PROVE  /\ Doc(e)'.auth \in Trusted
               /\ Envelope[Doc(e)'.auth].snap = SnapshotOf[Doc(e)'.plan]
               /\ Envelope[Doc(e)'.auth].worker = Doc(e)'.worker
    <2>1. Doc(e)' = Doc(e)  BY DEF Doc
    <2>2. stage[e] \in {"sample", "commit"}  BY <1>2
    <2> QED BY <2>1, <2>2, SMT DEF IInv, InFlightSound
  <1>3. ASSUME NEW e \in Conns, NEW r \in answer'[e] PROVE r \in rows' /\ r.doc = Doc(e)'
    <2>1. Doc(e)' = Doc(e)  BY DEF Doc
    <2>2. r \in answer[e]  BY <1>3
    <2> QED BY <2>1, <2>2 DEF IInv, InFlightSound
  <1> QED BY <1>1, <1>2, <1>3 DEF InFlightSound

\* The claims after a commit of atomically_consume_request.
LEMMA ConsumeClaims ==
    ASSUME IInv, TypeOK', NEW c \in Conns,
           stage[c] = "commit",
           RowsFor(Doc(c).rid) = {},
           Consumable(Doc(c), seen[c]),
           seen[c] < Envelope[Doc(c).auth].expiry,
           status' = [status EXCEPT ![Doc(c).auth] = "consumed"],
           rows' = rows \cup {NewRow(Doc(c), seen[c])},
           UNCHANGED <<clock, lstate, lclaim>>
    PROVE  SingleUse' /\ StatusMatchesClaims' /\ RowsBindEnvelope'
  <1> DEFINE d == Doc(c)
             new == NewRow(Doc(c), seen[c])
  <1>1. d \in Documents /\ d.auth \in Auths  BY ConnFacts DEF IInv
  <1>2. new.doc = d /\ new.auth = d.auth /\ new.at = seen[c]
        /\ new.snap = Envelope[d.auth].snap /\ new.worker = d.worker
    BY DEF NewRow
  <1>3. (\A r \in rows : r.auth # d.auth) /\ ~LocallyConsumed(d.auth)
    BY <1>1 DEF IInv, StatusMatchesClaims, Consumable
  <1>4. \A r \in rows : r.doc.rid # d.rid  BY DEF RowsFor
  <1>5. \A a \in Auths : LocallyConsumed(a)' <=> LocallyConsumed(a)  BY DEF LocallyConsumed
  <1> HIDE DEF d, new
  <1>6. rows' = rows \cup {new}  BY DEF new
  <1>7. \A r \in rows : r.auth \in Auths  BY DEF IInv, TypeOK, Rows
  <1>8. SingleUse'
    <2>1. \A r1, r2 \in rows' : (r1.auth = r2.auth \/ r1.doc.rid = r2.doc.rid) => r1 = r2
      BY <1>2, <1>3, <1>4, <1>6 DEF IInv, SingleUse
    <2>2. \A r \in rows' : ~LocallyConsumed(r.auth)'
      BY <1>1, <1>2, <1>3, <1>5, <1>6, <1>7 DEF IInv, SingleUse
    <2>3. \A l1, l2 \in Locals :
            (lstate'[l1] = "consumed" /\ lstate'[l2] = "consumed"
               /\ lclaim'[l1].auth = lclaim'[l2].auth) => l1 = l2
      BY DEF IInv, SingleUse
    <2> QED BY <2>1, <2>2, <2>3 DEF SingleUse
  <1>9. StatusMatchesClaims'
    <2> SUFFICES ASSUME NEW a \in Auths
                 PROVE  status'[a] = "consumed"
                          <=> ((\E r \in rows' : r.auth = a) \/ LocallyConsumed(a)')
      BY DEF StatusMatchesClaims
    <2>1. CASE a = d.auth
      <3>1. status'[a] = "consumed"  BY <2>1 DEF IInv, TypeOK, d
      <3> QED BY <2>1, <3>1, <1>2, <1>6
    <2>2. CASE a # d.auth
      <3>1. status'[a] = status[a]  BY <2>2 DEF IInv, TypeOK, d
      <3> QED BY <2>2, <3>1, <1>2, <1>5, <1>6 DEF IInv, StatusMatchesClaims
    <2> QED BY <2>1, <2>2
  <1>10. RowsBindEnvelope'
    <2>1. /\ d.auth \in Trusted
          /\ Envelope[d.auth].snap = SnapshotOf[d.plan]
          /\ Envelope[d.auth].worker = d.worker
          /\ seen[c] <= clock
      BY DEF IInv, InFlightSound, d
    <2>2. InWindow(d.auth, seen[c])  BY DEF Consumable, InWindow, d
    <2> QED BY <1>2, <1>6, <2>1, <2>2 DEF IInv, RowsBindEnvelope, InWindow
  <1> QED BY <1>8, <1>9, <1>10

\* A status change that neither makes nor unmakes a consumed authorization.
LEMMA StatusMoves ==
    ASSUME IInv, TypeOK', NEW a \in Auths, NEW s,
           status' = [status EXCEPT ![a] = s],
           status[a] # "consumed", s # "consumed",
           UNCHANGED <<clock, rows, lclaim>>,
           \A l \in Locals : lstate'[l] = "consumed" <=> lstate[l] = "consumed"
    PROVE  SingleUse' /\ StatusMatchesClaims' /\ RowsBindEnvelope'
  <1>1. \A b \in Auths : LocallyConsumed(b)' <=> LocallyConsumed(b)  BY DEF LocallyConsumed
  <1>2. \A b \in Auths : status'[b] = "consumed" <=> status[b] = "consumed"
    BY DEF IInv, TypeOK
  <1>3. StatusMatchesClaims'  BY <1>1, <1>2 DEF IInv, StatusMatchesClaims
  <1>4. \A r \in rows : r.auth \in Auths  BY DEF IInv, TypeOK, Rows
  <1>5. SingleUse'  BY <1>1, <1>4 DEF IInv, SingleUse
  <1>6. RowsBindEnvelope'  BY DEF IInv, RowsBindEnvelope, InWindow
  <1> QED BY <1>3, <1>5, <1>6

\* The claims after a commit of atomically_consume.
LEMMA LocalClaimsStep ==
    ASSUME IInv, TypeOK', NEW l \in Locals,
           lstate[l] = "verified",
           status[lclaim[l].auth] = "approved",
           status' = [status EXCEPT ![lclaim[l].auth] = "consumed"],
           lstate' = [lstate EXCEPT ![l] = "consumed"],
           UNCHANGED <<clock, rows, lclaim>>
    PROVE  SingleUse' /\ StatusMatchesClaims' /\ RowsBindEnvelope'
  <1> DEFINE a == lclaim[l].auth
  <1>1. a \in Auths  BY DEF IInv, TypeOK, LocalClaims
  <1>2. (\A r \in rows : r.auth # a) /\ ~LocallyConsumed(a)
    BY <1>1 DEF IInv, StatusMatchesClaims
  <1>3. \A m \in Locals : lstate'[m] = "consumed" <=> m = l \/ lstate[m] = "consumed"
    BY DEF IInv, TypeOK
  <1>4. \A b \in Auths : LocallyConsumed(b)' <=> b = a \/ LocallyConsumed(b)
    BY <1>3 DEF LocallyConsumed
  <1>5. \A m \in Locals : lstate[m] = "consumed" => lclaim[m].auth # a
    BY <1>2 DEF LocallyConsumed
  <1> HIDE DEF a
  <1>6. \A r \in rows : r.auth \in Auths  BY DEF IInv, TypeOK, Rows
  <1>7. SingleUse'
    <2>1. \A l1, l2 \in Locals :
            (lstate'[l1] = "consumed" /\ lstate'[l2] = "consumed"
               /\ lclaim'[l1].auth = lclaim'[l2].auth) => l1 = l2
      BY <1>3, <1>5, SMT DEF IInv, SingleUse, a
    <2>2. \A r \in rows' : ~LocallyConsumed(r.auth)'
      BY <1>2, <1>4, <1>6 DEF IInv, SingleUse
    <2> QED BY <2>1, <2>2 DEF IInv, SingleUse
  <1>8. StatusMatchesClaims'
    <2>1. \A b \in Auths : status'[b] = "consumed" <=> b = a \/ status[b] = "consumed"
      BY <1>1 DEF IInv, TypeOK, a
    <2> QED BY <1>4, <2>1 DEF IInv, StatusMatchesClaims
  <1>9. RowsBindEnvelope'  BY DEF IInv, RowsBindEnvelope, InWindow
  <1> QED BY <1>7, <1>8, <1>9

LEMMA MatchesDocument ==
    ASSUME NEW r, NEW d, Matches(r, d)
    PROVE  r.doc = d
  BY DEF Matches, Bindings

LEMMA InitIInv == Init => IInv
  <1> SUFFICES ASSUME Init PROVE IInv  OBVIOUS
  <1>1. TypeOK  BY ConstantsAssumption, SMT DEF Init, TypeOK, StatusValues, StageValues
  <1>2. SingleUse  BY DEF Init, SingleUse
  <1>3. StatusMatchesClaims  BY DEF Init, StatusMatchesClaims, LocallyConsumed
  <1>4. RowsBindEnvelope  BY DEF Init, RowsBindEnvelope
  <1>5. InFlightSound  BY SMT DEF Init, InFlightSound
  <1> QED BY <1>1, <1>2, <1>3, <1>4, <1>5 DEF IInv

LEMMA IInvInductive == IInv /\ [Next]_vars => IInv'
  <1> SUFFICES ASSUME IInv, [Next]_vars PROVE IInv'  OBVIOUS
  <1>0. TypeOK'  BY TypeInductive DEF IInv
  <1>a. SUFFICES SingleUse' /\ StatusMatchesClaims' /\ RowsBindEnvelope' /\ InFlightSound'
    BY <1>0 DEF IInv
  <1> DEFINE Goal == SingleUse' /\ StatusMatchesClaims' /\ RowsBindEnvelope' /\ InFlightSound'
  <1>b. clock \in Nat  BY SMT DEF IInv, TypeOK
  <1>1. CASE Tick
    <2>1. clock <= clock'  BY <1>1, <1>b, SMT DEF Tick
    <2>2. SingleUse' /\ StatusMatchesClaims' /\ RowsBindEnvelope'
      BY <1>0, <1>1, <2>1, ClaimsUntouched DEF Tick
    <2>3. ASSUME NEW c \in Conns PROVE seen'[c] <= clock'
      <3>1. seen'[c] = seen[c] /\ seen[c] \in Nat /\ seen[c] <= clock
        BY <1>1 DEF Tick, IInv, InFlightSound, TypeOK
      <3> QED BY <1>1, <1>b, <3>1, SMT DEF Tick
    <2>4. InFlightSound'
      BY <1>1, <2>3 DEF Tick, IInv, InFlightSound, Doc
    <2> QED BY <2>2, <2>4
  <1>2. ASSUME NEW a \in Auths, StoreAuthorization(a) PROVE Goal
    <2>1. SingleUse' /\ StatusMatchesClaims' /\ RowsBindEnvelope'
      BY <1>0, <1>2, StatusMoves DEF StoreAuthorization
    <2>2. InFlightSound'
      BY <1>2 DEF StoreAuthorization, IInv, InFlightSound, Doc
    <2> QED BY <2>1, <2>2
  <1>3. ASSUME NEW h \in Authorities, NEW c \in Conns, Accept(h, c) PROVE Goal
    <2>1. SingleUse' /\ StatusMatchesClaims' /\ RowsBindEnvelope'
      <3>1. UNCHANGED <<clock, status, rows, lstate, lclaim>>  BY <1>3 DEF Accept
      <3> QED BY <1>0, <3>1, ClaimsSame
    <2>2. \/ Goto(c, "verify") /\ UNCHANGED <<answer, seen>>
          \/ \E response \in SUBSET rows :
                Respond(c, response) /\ \A r \in response : r.doc = Doc(c)
      BY <1>3, MatchesDocument, SMT DEF Accept, RowsFor
    <2>3. CASE Goto(c, "verify") /\ UNCHANGED <<answer, seen>>
      <3>1. stage' = [stage EXCEPT ![c] = "verify"]  BY <2>3 DEF Goto
      <3>2. UNCHANGED <<clock, rows, answer, seen, cdoc, cstate, receipt>>
        BY <1>3, <2>3 DEF Accept
      <3>3. InFlightSound'  BY <1>0, <3>1, <3>2, StageMoves
      <3> QED BY <2>1, <3>3
    <2>4. ASSUME NEW response \in SUBSET rows, Respond(c, response),
                 \A r \in response : r.doc = Doc(c)
          PROVE  InFlightSound'
      BY <1>0, <1>3, <2>4, ResponseSound DEF Accept
    <2> QED BY <2>1, <2>2, <2>3, <2>4
  <1>4. ASSUME NEW h \in Authorities, NEW c \in Conns, Verify(h, c) PROVE Goal
    <2>1. SingleUse' /\ StatusMatchesClaims' /\ RowsBindEnvelope'
      <3>1. UNCHANGED <<clock, status, rows, lstate, lclaim>>  BY <1>4 DEF Verify
      <3> QED BY <1>0, <3>1, ClaimsSame
    <2>2. CASE Verifies(Doc(c).auth, Doc(c).plan, Doc(c).worker)
      <3>1. stage' = [stage EXCEPT ![c] = "sample"]  BY <1>4, <2>2 DEF Verify, Goto
      <3>2. InFlightSound'
        BY <1>0, <1>4, <2>2, <3>1, StageMoves DEF Verify, Verifies
      <3> QED BY <2>1, <3>2
    <2>3. CASE ~Verifies(Doc(c).auth, Doc(c).plan, Doc(c).worker)
      <3>1. stage' = [stage EXCEPT ![c] = "recheck"]  BY <1>4, <2>3 DEF Verify, Goto
      <3>2. InFlightSound'
        BY <1>0, <1>4, <3>1, StageMoves DEF Verify
      <3> QED BY <2>1, <3>2
    <2> QED BY <2>2, <2>3
  <1>5. ASSUME NEW h \in Authorities, NEW c \in Conns, Recheck(h, c) PROVE Goal
    <2>1. SingleUse' /\ StatusMatchesClaims' /\ RowsBindEnvelope'
      <3>1. UNCHANGED <<clock, status, rows, lstate, lclaim>>  BY <1>5 DEF Recheck
      <3> QED BY <1>0, <3>1, ClaimsSame
    <2>2. InFlightSound'
      BY <1>0, <1>5, ResponseSound, MatchesDocument, SMT DEF Recheck, RowsFor
    <2> QED BY <2>1, <2>2
  <1>6. ASSUME NEW h \in Authorities, NEW c \in Conns, Sample(h, c) PROVE Goal
    <2>1. SingleUse' /\ StatusMatchesClaims' /\ RowsBindEnvelope'
      <3>1. UNCHANGED <<clock, status, rows, lstate, lclaim>>  BY <1>6 DEF Sample
      <3> QED BY <1>0, <3>1, ClaimsSame
    <2>2. InFlightSound'
      BY <1>0, <1>6, StageMoves DEF Sample, Goto, At, IInv, InFlightSound
    <2> QED BY <2>1, <2>2
  <1>7. ASSUME NEW h \in Authorities, NEW c \in Conns, LockTimeout(h, c) PROVE Goal
    <2>1. SingleUse' /\ StatusMatchesClaims' /\ RowsBindEnvelope'
      <3>1. UNCHANGED <<clock, status, rows, lstate, lclaim>>  BY <1>7 DEF LockTimeout
      <3> QED BY <1>0, <3>1, ClaimsSame
    <2>2. InFlightSound'  BY <1>0, <1>7, ResponseSound, SMT DEF LockTimeout
    <2> QED BY <2>1, <2>2
  <1>8. ASSUME NEW h \in Authorities, NEW c \in Conns, CommitPrior(h, c) PROVE Goal
    <2>1. SingleUse' /\ StatusMatchesClaims' /\ RowsBindEnvelope'
      <3>1. UNCHANGED <<clock, status, rows, lstate, lclaim>>  BY <1>8 DEF CommitPrior
      <3> QED BY <1>0, <3>1, ClaimsSame
    <2>2. InFlightSound'
      BY <1>0, <1>8, ResponseSound, MatchesDocument, SMT DEF CommitPrior, RowsFor
    <2> QED BY <2>1, <2>2
  <1>9. ASSUME NEW h \in Authorities, NEW c \in Conns, CommitRefuse(h, c) PROVE Goal
    <2>1. SingleUse' /\ StatusMatchesClaims' /\ RowsBindEnvelope'
      <3>1. UNCHANGED <<clock, status, rows, lstate, lclaim>>  BY <1>9 DEF CommitRefuse
      <3> QED BY <1>0, <3>1, ClaimsSame
    <2>2. InFlightSound'  BY <1>0, <1>9, ResponseSound DEF CommitRefuse
    <2> QED BY <2>1, <2>2
  <1>10. ASSUME NEW h \in Authorities, NEW c \in Conns, CommitExpire(h, c) PROVE Goal
    <2>1. Doc(c).auth \in Auths /\ status[Doc(c).auth] = "approved"
      BY <1>10, ConnFacts DEF IInv, CommitExpire, Consumable
    <2>2. InFlightSound'  BY <1>0, <1>10, ResponseSound DEF CommitExpire
    <2>3. CASE status' = status
      <3>1. UNCHANGED <<clock, status, rows, lstate, lclaim>>  BY <1>10, <2>3 DEF CommitExpire
      <3> QED BY <1>0, <2>2, <3>1, ClaimsSame
    <2>4. CASE status' = [status EXCEPT ![Doc(c).auth] = "expired"]
      <3>1. UNCHANGED <<clock, rows, lstate, lclaim>>  BY <1>10 DEF CommitExpire
      <3>2. SingleUse' /\ StatusMatchesClaims' /\ RowsBindEnvelope'
        BY <1>0, <2>1, <2>4, <3>1, StatusMoves
      <3> QED BY <2>2, <3>2
    <2>5. status' = status \/ status' = [status EXCEPT ![Doc(c).auth] = "expired"]
      BY <1>10 DEF CommitExpire
    <2> QED BY <2>3, <2>4, <2>5
  <1>11. ASSUME NEW h \in Authorities, NEW c \in Conns, CommitConsume(h, c) PROVE Goal
    <2> DEFINE new == NewRow(Doc(c), seen[c])
    <2>1. \/ /\ status' = [status EXCEPT ![Doc(c).auth] = "consumed"]
             /\ rows' = rows \cup {new}
             /\ Respond(c, {new})
          \/ UNCHANGED store /\ Respond(c, {})
      BY <1>11 DEF CommitConsume
    <2>2. CASE UNCHANGED store /\ Respond(c, {})
      <3>1. SingleUse' /\ StatusMatchesClaims' /\ RowsBindEnvelope'
        <4>1. UNCHANGED <<clock, status, rows, lstate, lclaim>>  BY <1>11, <2>2 DEF CommitConsume
        <4> QED BY <1>0, <4>1, ClaimsSame
      <3>2. InFlightSound'
        BY <1>0, <1>11, <2>2, ResponseSound DEF CommitConsume
      <3> QED BY <3>1, <3>2
    <2>3. CASE /\ status' = [status EXCEPT ![Doc(c).auth] = "consumed"]
               /\ rows' = rows \cup {new}
               /\ Respond(c, {new})
      <3>1. SingleUse' /\ StatusMatchesClaims' /\ RowsBindEnvelope'
        BY <1>0, <1>11, <2>3, ConsumeClaims DEF CommitConsume, At
      <3>2. new.doc = Doc(c)  BY DEF NewRow
      <3>3. InFlightSound'
        BY <1>0, <1>11, <2>3, <3>2, ResponseSound DEF CommitConsume
      <3> QED BY <3>1, <3>3
    <2> QED BY <2>1, <2>2, <2>3
  <1>12. ASSUME NEW h \in Authorities, NEW c \in Conns, Reply(h, c) PROVE Goal
    <2>1. SingleUse' /\ StatusMatchesClaims' /\ RowsBindEnvelope'
      <3>1. UNCHANGED <<clock, status, rows, lstate, lclaim>>  BY <1>12 DEF Reply
      <3> QED BY <1>0, <3>1, ClaimsSame
    <2>2. CASE Goto(c, "answered") /\ UNCHANGED answer
      <3>1. InFlightSound'  BY <1>0, <1>12, <2>2, StageMoves DEF Reply, Goto
      <3> QED BY <2>1, <3>1
    <2>3. CASE Close({c})
      <3>1. InFlightSound'
        BY <1>0, <1>12, <2>3, ConnectionsEnd DEF Reply, Close, IInv, InFlightSound
      <3> QED BY <2>1, <3>1
    <2> QED BY <1>12, <2>2, <2>3 DEF Reply
  <1>13. ASSUME NEW h \in Authorities, Crash(h) PROVE Goal
    <2>1. SingleUse' /\ StatusMatchesClaims' /\ RowsBindEnvelope'
      <3>1. UNCHANGED <<clock, status, rows, lstate, lclaim>>  BY <1>13 DEF Crash
      <3> QED BY <1>0, <3>1, ClaimsSame
    <2>2. InFlightSound'
      BY <1>0, <1>13, ConnectionsEnd DEF Crash, Close, IInv, InFlightSound
    <2> QED BY <2>1, <2>2
  <1>14. ASSUME NEW c \in Conns, Unreachable(c) PROVE Goal
    <2>1. SingleUse' /\ StatusMatchesClaims' /\ RowsBindEnvelope'
      <3>1. UNCHANGED <<clock, status, rows, lstate, lclaim>>  BY <1>14 DEF Unreachable
      <3> QED BY <1>0, <3>1, ClaimsSame
    <2>2. InFlightSound'
      BY <1>0, <1>14, ConnectionsEnd DEF Unreachable, Close, IInv, InFlightSound
    <2> QED BY <2>1, <2>2
  <1>15. ASSUME NEW k \in Calls, Start(k) PROVE Goal
    <2>1. SingleUse' /\ StatusMatchesClaims' /\ RowsBindEnvelope'
      <3>1. UNCHANGED <<clock, status, rows, lstate, lclaim>>  BY <1>15 DEF Start
      <3> QED BY <1>0, <3>1, ClaimsSame
    <2>2. <<k, 1>> \in Conns  BY SMT DEF Conns
    <2>3. \A j \in Calls : cstate'[j] = "granted" => cstate[j] = "granted"
      BY <1>15 DEF Start, IInv, TypeOK
    <2>4. InFlightSound'
      BY <1>0, <1>15, <2>2, <2>3, StageMoves DEF Start, Goto
    <2> QED BY <2>1, <2>4
  <1>16. ASSUME NEW k \in Calls, NotReady(k) PROVE Goal
    <2>1. SingleUse' /\ StatusMatchesClaims' /\ RowsBindEnvelope'
      <3>1. UNCHANGED <<clock, status, rows, lstate, lclaim>>  BY <1>16 DEF NotReady
      <3> QED BY <1>0, <3>1, ClaimsSame
    <2>2. \A j \in Calls : cstate'[j] = "granted" => cstate[j] = "granted"
      BY <1>16 DEF NotReady, IInv, TypeOK
    <2>3. InFlightSound'
      BY <1>0, <1>16, <2>2, ConnectionsEnd DEF NotReady, IInv, InFlightSound
    <2> QED BY <2>1, <2>3
  <1>17. ASSUME NEW k \in Calls, TransportError(k) PROVE Goal
    <2>1. SingleUse' /\ StatusMatchesClaims' /\ RowsBindEnvelope'
      <3>1. UNCHANGED <<clock, status, rows, lstate, lclaim>>  BY <1>17 DEF TransportError
      <3> QED BY <1>0, <3>1, ClaimsSame
    <2>2. <<k, 1>> \in Conns /\ <<k, 2>> \in Conns  BY SMT DEF Conns
    <2>t. DOMAIN stage = Conns /\ DOMAIN answer = Conns  BY DEF IInv, TypeOK
    <2>3. ASSUME NEW c \in Conns
          PROVE  stage'[c] \in {stage[c], "closed", "queued"} /\ answer'[c] \in {answer[c], {}}
      <3>1. CASE attempt[k] = 1
        <4>1. stage'[c] \in {stage[c], "closed", "queued"}
          BY <1>17, <2>2, <2>t, <3>1 DEF TransportError
        <4>2. answer'[c] \in {answer[c], {}}  BY <1>17, <2>2, <2>t, <3>1 DEF TransportError
        <4> QED BY <4>1, <4>2
      <3>2. CASE attempt[k] = 2
        <4>1. stage'[c] \in {stage[c], "closed", "queued"}
          BY <1>17, <2>2, <2>t, <3>2 DEF TransportError
        <4>2. answer'[c] \in {answer[c], {}}  BY <1>17, <2>2, <2>t, <3>2 DEF TransportError
        <4> QED BY <4>1, <4>2
      <3> QED BY <1>17, <3>1, <3>2 DEF TransportError
    <2>5. \A j \in Calls : cstate'[j] = "granted" => cstate[j] = "granted"
      BY <1>17 DEF TransportError, IInv, TypeOK
    <2>6. InFlightSound'
      BY <1>0, <1>17, <2>3, <2>5, ConnectionsEnd DEF TransportError, IInv, InFlightSound
    <2> QED BY <2>1, <2>6
  <1>18. ASSUME NEW k \in Calls, Receive(k) PROVE Goal
    <2> DEFINE c == <<k, attempt[k]>>
               good == {r \in answer[c] : ResponseAccepted(k, r)}
    <2>1. SingleUse' /\ StatusMatchesClaims' /\ RowsBindEnvelope'
      <3>1. UNCHANGED <<clock, status, rows, lstate, lclaim>>  BY <1>18 DEF Receive
      <3> QED BY <1>0, <3>1, ClaimsSame
    <2>2. c \in Conns /\ Doc(c) = cdoc[k]  BY DEF Conns, Doc, IInv, TypeOK
    <2>3. \A r \in good : r \in rows /\ r.doc = cdoc[k]
      BY <2>2 DEF IInv, InFlightSound
    <2>4. /\ receipt' = [receipt EXCEPT ![k] = good]
          /\ cstate' = [cstate EXCEPT ![k] = IF good = {} THEN "rejected" ELSE "granted"]
          /\ Close({c})
          /\ UNCHANGED <<clock, rows, seen, cdoc>>
      BY <1>18 DEF Receive
    <2> HIDE DEF c, good
    <2>5. ASSUME NEW j \in Calls
          PROVE  /\ \A r \in receipt'[j] : r \in rows /\ r.doc = cdoc[j]
                 /\ cstate'[j] = "granted" => receipt'[j] # {}
      <3>1. CASE j = k
        <4>1. receipt'[j] = good /\ cstate'[j] = IF good = {} THEN "rejected" ELSE "granted"
          BY <2>4, <3>1 DEF IInv, TypeOK
        <4> QED BY <2>3, <3>1, <4>1
      <3>2. CASE j # k
        BY <2>4, <3>2 DEF IInv, TypeOK, InFlightSound
      <3> QED BY <3>1, <3>2
    <2>6. InFlightSound'
      BY <1>0, <2>4, <2>5, ConnectionsEnd DEF Close
    <2> QED BY <2>1, <2>6
  <1>19. ASSUME NEW l \in Locals, LocalVerify(l) PROVE Goal
    <2>1. \A m \in Locals : lstate'[m] = "consumed" <=> lstate[m] = "consumed"
      BY <1>19 DEF LocalVerify, IInv, TypeOK
    <2>2. lclaim[l].auth \in Auths  BY DEF IInv, TypeOK, LocalClaims
    <2>3. \A b \in Auths : LocallyConsumed(b)' <=> LocallyConsumed(b)
      BY <1>19, <2>1 DEF LocalVerify, LocallyConsumed
    <2>4. \A r \in rows : r.auth \in Auths  BY DEF IInv, TypeOK, Rows
    <2>5. SingleUse'
      BY <1>19, <2>1, <2>3, <2>4 DEF LocalVerify, IInv, SingleUse
    <2>6. StatusMatchesClaims'
      BY <1>19, <2>3 DEF LocalVerify, IInv, StatusMatchesClaims
    <2>7. RowsBindEnvelope'
      BY <1>19 DEF LocalVerify, IInv, RowsBindEnvelope, InWindow
    <2>8. InFlightSound'
      BY <1>19 DEF LocalVerify, IInv, InFlightSound, Doc
    <2> QED BY <2>5, <2>6, <2>7, <2>8
  <1>20. ASSUME NEW l \in Locals, LocalConsume(l) PROVE Goal
    <2> DEFINE a == lclaim[l].auth
    <2>1. a \in Auths  BY DEF IInv, TypeOK, LocalClaims
    <2>2. InFlightSound'
      BY <1>20 DEF LocalConsume, IInv, InFlightSound, Doc
    <2>3. CASE /\ status[a] = "approved"
               /\ status' = [status EXCEPT ![a] = "expired"]
               /\ lstate' = [lstate EXCEPT ![l] = "refused"]
      <3>1. \A m \in Locals : lstate'[m] = "consumed" <=> lstate[m] = "consumed"
        BY <1>20, <2>3 DEF LocalConsume, IInv, TypeOK
      <3>2. UNCHANGED <<clock, rows, lclaim>>  BY <1>20 DEF LocalConsume
      <3> QED BY <1>0, <2>1, <2>2, <2>3, <3>1, <3>2, StatusMoves
    <2>4. CASE /\ status[a] = "approved"
               /\ status' = [status EXCEPT ![a] = "consumed"]
               /\ lstate' = [lstate EXCEPT ![l] = "consumed"]
      BY <1>0, <1>20, <2>2, <2>4, LocalClaimsStep DEF LocalConsume
    <2>5. CASE UNCHANGED status /\ lstate' = [lstate EXCEPT ![l] = "refused"]
      <3>1. \A m \in Locals : lstate'[m] = "consumed" <=> lstate[m] = "consumed"
        BY <1>20, <2>5 DEF LocalConsume, IInv, TypeOK
      <3>2. UNCHANGED <<clock, rows, lclaim>>  BY <1>20 DEF LocalConsume
      <3>3. \A b \in Auths : LocallyConsumed(b)' <=> LocallyConsumed(b)
        BY <3>1, <3>2 DEF LocallyConsumed
      <3>4. \A r \in rows : r.auth \in Auths  BY DEF IInv, TypeOK, Rows
      <3>5. SingleUse'  BY <3>1, <3>2, <3>3, <3>4 DEF IInv, SingleUse
      <3>6. StatusMatchesClaims'  BY <2>5, <3>2, <3>3 DEF IInv, StatusMatchesClaims
      <3>7. RowsBindEnvelope'  BY <3>2 DEF IInv, RowsBindEnvelope, InWindow
      <3> QED BY <2>2, <3>5, <3>6, <3>7
    <2>6. QED BY <1>20, <2>3, <2>4, <2>5 DEF LocalConsume
  <1>21. CASE UNCHANGED vars
    <2>1. SingleUse' /\ StatusMatchesClaims' /\ RowsBindEnvelope'
      <3>1. UNCHANGED <<clock, status, rows, lstate, lclaim>>  BY <1>21 DEF vars
      <3> QED BY <1>0, <3>1, ClaimsSame
    <2>2. InFlightSound'  BY <1>21 DEF vars, IInv, InFlightSound, Doc
    <2> QED BY <2>1, <2>2
  <1> QED
    BY <1>1, <1>2, <1>3, <1>4, <1>5, <1>6, <1>7, <1>8, <1>9, <1>10, <1>11, <1>12,
       <1>13, <1>14, <1>15, <1>16, <1>17, <1>18, <1>19, <1>20, <1>21
    DEF Next, Authority, Client, Local

\* An authorization is consumed at most once, over the authorities' request
\* path and the local path together, and the status column says so: for every
\* set of authorizations, requests, authorities, calls and local consumers.
THEOREM ConsumedAtMostOnce == Spec => [](SingleUse /\ StatusMatchesClaims)
  <1>1. IInv => SingleUse /\ StatusMatchesClaims  BY DEF IInv
  <1> QED BY InitIInv, IInvInductive, <1>1, PTL DEF Spec

\* Every durable receipt binds the plan snapshot, the worker and the window the
\* operator signed under a trusted key.
THEOREM ReceiptsBindEnvelope == Spec => []RowsBindEnvelope
  <1>1. IInv => RowsBindEnvelope  BY DEF IInv
  <1> QED BY InitIInv, IInvInductive, <1>1, PTL DEF Spec

\* A granted call holds the durable row of its own document: no loss, retry,
\* crash or late answer gives a client anything else.
THEOREM GrantsAreDurable == Spec => []GrantedIsDurable
  <1>1. IInv => GrantedIsDurable
    <2> SUFFICES ASSUME IInv, NEW k \in Calls, cstate[k] = "granted"
                 PROVE  \E r \in rows : receipt[k] = {r} /\ r.doc = cdoc[k]
      BY DEF GrantedIsDurable
    <2>1. PICK r \in receipt[k] : TRUE  BY DEF IInv, InFlightSound
    <2>2. r \in rows /\ r.doc = cdoc[k]  BY DEF IInv, InFlightSound
    <2>3. \A q \in receipt[k] : q = r  BY <2>2, SMT DEF IInv, InFlightSound, SingleUse
    <2>4. receipt[k] = {r}  BY <2>1, <2>3
    <2> QED BY <2>2, <2>4
  <1> QED BY InitIInv, IInvInductive, <1>1, PTL DEF Spec

\* Two calls granted one authorization sent the same document, and none is
\* granted what a local consumer took.
THEOREM HoldersAlwaysAgree == Spec => []HoldersAgree
  <1>1. IInv => HoldersAgree
    <2> SUFFICES ASSUME IInv PROVE HoldersAgree  OBVIOUS
    <2>1. \A k \in Calls : cstate[k] = "granted" =>
            \E r \in rows : r.doc = cdoc[k] /\ r.auth = cdoc[k].auth
      BY SMT DEF IInv, InFlightSound, RowsBindEnvelope
    <2> QED BY <2>1, SMT DEF IInv, SingleUse, HoldersAgree
  <1> QED BY InitIInv, IInvInductive, <1>1, PTL DEF Spec

\* No step revives a consumed, expired or legacy authorization and no step
\* changes or removes a receipt row.
THEOREM ClaimsStayFinal == Spec => ClaimsAreFinal
  <1>1. TypeOK /\ [Next]_vars => [FinalStep]_vars
    <2> SUFFICES ASSUME TypeOK, Next PROVE FinalStep  BY DEF FinalStep
    <2>1. CASE UNCHANGED store  BY <2>1 DEF FinalStep
    <2>2. ASSUME NEW a \in Auths, StoreAuthorization(a) PROVE FinalStep
      BY <2>2 DEF StoreAuthorization, FinalStep, TypeOK
    <2>3. ASSUME NEW h \in Authorities, NEW c \in Conns, CommitExpire(h, c) PROVE FinalStep
      <3>1. Doc(c).auth \in Auths  BY ConnFacts
      <3> QED BY <2>3, <3>1 DEF CommitExpire, Consumable, FinalStep, TypeOK
    <2>4. ASSUME NEW h \in Authorities, NEW c \in Conns, CommitConsume(h, c) PROVE FinalStep
      <3>1. Doc(c).auth \in Auths  BY ConnFacts
      <3>2. status[Doc(c).auth] = "approved"  BY <2>4 DEF CommitConsume, Consumable
      <3>3. rows \subseteq rows'  BY <2>4 DEF CommitConsume
      <3>4. status' = status \/ status' = [status EXCEPT ![Doc(c).auth] = "consumed"]
        BY <2>4 DEF CommitConsume
      <3> QED BY <3>1, <3>2, <3>3, <3>4 DEF FinalStep, TypeOK
    <2>5. ASSUME NEW l \in Locals, LocalConsume(l) PROVE FinalStep
      <3>1. lclaim[l].auth \in Auths  BY DEF TypeOK, LocalClaims
      <3> QED BY <2>5, <3>1 DEF LocalConsume, FinalStep, TypeOK
    <2>6. ASSUME NEW h \in Authorities, NEW c \in Conns,
                 \/ Accept(h, c) \/ Verify(h, c) \/ Recheck(h, c) \/ Sample(h, c)
                 \/ LockTimeout(h, c) \/ CommitPrior(h, c) \/ CommitRefuse(h, c) \/ Reply(h, c)
          PROVE  UNCHANGED store
      BY <2>6 DEF Accept, Verify, Recheck, Sample, LockTimeout, CommitPrior, CommitRefuse, Reply
    <2>7. ASSUME NEW k \in Calls, Client(k) PROVE UNCHANGED store
      BY <2>7 DEF Client, Start, NotReady, TransportError, Receive
    <2>8. ASSUME NEW h \in Authorities, Crash(h) PROVE UNCHANGED store
      BY <2>8 DEF Crash
    <2>9. ASSUME NEW c \in Conns, Unreachable(c) PROVE UNCHANGED store
      BY <2>9 DEF Unreachable
    <2>10. ASSUME NEW l \in Locals, LocalVerify(l) PROVE UNCHANGED store
      BY <2>10 DEF LocalVerify
    <2>11. Tick => UNCHANGED store  BY DEF Tick
    <2> QED
      BY <2>1, <2>2, <2>3, <2>4, <2>5, <2>6, <2>7, <2>8, <2>9, <2>10, <2>11
      DEF Next, Authority, Local
  <1> QED BY <1>1, TypeCorrect, PTL DEF Spec, ClaimsAreFinal

----------------------------------------------------------------------------
\* The exact retry

\* A connection that leaves with a response in this step left with this one.
LEMMA LeavesWith ==
    ASSUME TypeOK, NEW c \in Conns, NEW e \in Conns, NEW response, Respond(e, response),
           stage[c] # "reply", stage'[c] = "reply"
    PROVE  e = c /\ answer'[c] = response
  BY DEF Respond, Goto, TypeOK

\* The row of a document answers a lookup with that document, because a row
\* binds what its document says (RowsBindEnvelope).
LEMMA RowAnswers ==
    ASSUME IInv, NEW c \in Conns, NEW r \in rows, r.doc = Doc(c)
    PROVE  r \in {q \in RowsFor(Doc(c).rid) : Matches(q, Doc(c))}
  BY DEF IInv, RowsBindEnvelope, RowsFor, Matches, Bindings

LEMMA RetrySteps == ~StoreFaults /\ IInv /\ [Next]_vars => [RetryStep]_vars
  <1> SUFFICES ASSUME ~StoreFaults, IInv, Next, NEW c \in Conns, NEW r \in rows,
                      r.doc = Doc(c), stage[c] # "reply", stage'[c] = "reply"
               PROVE  \/ answer'[c] # {}
                      \/ \E h \in Authorities :
                            c \in busy'[h] /\ AuthorityWorker[h] # Doc(c).worker
    BY DEF RetryStep
  <1> DEFINE found == {q \in RowsFor(Doc(c).rid) : Matches(q, Doc(c))}
             Goal == \/ answer'[c] # {}
                     \/ \E h \in Authorities :
                            c \in busy'[h] /\ AuthorityWorker[h] # Doc(c).worker
  <1>0. TypeOK /\ found # {} /\ RowsFor(Doc(c).rid) # {} /\ OwnerChecks = {TRUE}
    BY RowAnswers DEF IInv, OwnerChecks
  <1>1. ASSUME NEW h \in Authorities, NEW e \in Conns, Accept(h, e) PROVE Goal
    <2>1. CASE Goto(e, "verify")  BY <1>0, <2>1 DEF Goto, TypeOK
    <2>2. CASE Doc(e).worker # AuthorityWorker[h] /\ Respond(e, {})
      <3>1. e = c  BY <1>0, <2>2, LeavesWith
      <3>2. e \in busy'[h]  BY <1>0, <1>1 DEF Accept, TypeOK
      <3> QED BY <2>2, <3>1, <3>2
    <2>3. CASE Respond(e, {q \in RowsFor(Doc(e).rid) : Matches(q, Doc(e))})
      BY <1>0, <2>3, LeavesWith
    <2> QED BY <1>0, <1>1, <2>1, <2>2, <2>3 DEF Accept
  <1>2. ASSUME NEW h \in Authorities, NEW e \in Conns, Recheck(h, e) \/ CommitPrior(h, e)
        PROVE  Goal
    <2>1. Respond(e, {q \in RowsFor(Doc(e).rid) : Matches(q, Doc(e))})
      BY <1>2 DEF Recheck, CommitPrior
    <2> QED BY <1>0, <2>1, LeavesWith
  <1>3. ASSUME NEW h \in Authorities, NEW e \in Conns,
               CommitRefuse(h, e) \/ CommitExpire(h, e) \/ CommitConsume(h, e)
        PROVE  Goal
    <2>1. RowsFor(Doc(e).rid) = {}
      BY <1>3 DEF CommitRefuse, CommitExpire, CommitConsume
    <2>2. e # c  BY <1>0, <2>1
    <2>3. PICK response : Respond(e, response)
      BY <1>3 DEF CommitRefuse, CommitExpire, CommitConsume
    <2> QED BY <1>0, <2>2, <2>3, LeavesWith
  <1>4. ASSUME NEW h \in Authorities, NEW e \in Conns, Verify(h, e) \/ Sample(h, e)
        PROVE  Goal
    BY <1>0, <1>4 DEF Verify, Sample, Goto, TypeOK
  <1>5. ASSUME NEW h \in Authorities, NEW e \in Conns, Reply(h, e) PROVE Goal
    BY <1>0, <1>5 DEF Reply, Close, Goto, TypeOK
  <1>6. ASSUME NEW h \in Authorities, Crash(h) PROVE Goal  BY <1>6 DEF Crash, Close
  <1>7. ASSUME NEW e \in Conns, Unreachable(e) PROVE Goal  BY <1>7 DEF Unreachable, Close
  <1>8. ASSUME NEW k \in Calls, Client(k) PROVE Goal
    <2>1. CASE Start(k)  BY <1>0, <2>1 DEF Start, Goto, TypeOK
    <2>2. CASE NotReady(k)  BY <2>2 DEF NotReady
    <2>3. CASE TransportError(k)
      <3>1. CASE stage' = [stage EXCEPT ![<<k, 1>>] = IF @ = "answered" THEN "closed" ELSE @,
                                        ![<<k, 2>>] = "queued"]
        BY <1>0, <3>1 DEF TypeOK
      <3>2. CASE stage' = [stage EXCEPT ![<<k, 2>>] = IF @ = "answered" THEN "closed" ELSE @]
        BY <1>0, <3>2 DEF TypeOK
      <3> QED BY <2>3, <3>1, <3>2 DEF TransportError
    <2>4. CASE Receive(k)  BY <2>4 DEF Receive, Close
    <2> QED BY <1>8, <2>1, <2>2, <2>3, <2>4 DEF Client
  <1>9. ASSUME UNCHANGED stage PROVE Goal  BY <1>9
  <1> QED
    BY <1>1, <1>2, <1>3, <1>4, <1>5, <1>6, <1>7, <1>8, <1>9
    DEF Next, Authority, LockTimeout, Tick, StoreAuthorization, Local, LocalVerify, LocalConsume

\* With a store that does not fail, no authority of its worker turns away the
\* exact retry of a recorded document, whatever its two lookups interleave with:
\* for any number of authorities and calls, reused request_ids included.
THEOREM ExactRetryAlwaysAnswered == ~StoreFaults => (Spec => ExactRetryAnswered)
  <1> SUFFICES ASSUME ~StoreFaults PROVE Spec => ExactRetryAnswered  OBVIOUS
  <1>1. IInv /\ [Next]_vars => [RetryStep]_vars  BY RetrySteps
  <1> QED BY InitIInv, IInvInductive, <1>1, PTL DEF Spec, ExactRetryAnswered

----------------------------------------------------------------------------
\* The refinement of OneTimeGrant

LEMMA GrantStarts == Init => Grant!GrantInit
  <1> SUFFICES ASSUME Init PROVE Grant!GrantInit  OBVIOUS
  <1>1. GrantPhase \in [Auths -> {"none", "untrusted"}]  BY DEF Init, GrantPhase, PhaseOf
  <1>2. GrantWinner = [a \in Auths |-> {}]
    <2>1. \A a \in Auths :
            /\ {q \in rows : q.auth = a} = {}
            /\ {m \in Locals : lstate[m] = "consumed" /\ lclaim[m].auth = a} = {}
      BY DEF Init
    <2> QED BY <2>1 DEF GrantWinner
  <1>3. GrantDelivered = {}
    <2>1. /\ {j \in Calls : cstate[j] = "granted"} = {}
          /\ {m \in Locals : lstate[m] = "consumed"} = {}
      BY DEF Init
    <2> QED BY <2>1 DEF GrantDelivered
  <1> QED BY <1>1, <1>2, <1>3 DEF Grant!GrantInit

\* What the mapping keeps: the claimants while no row and no local claim is
\* added, the deliveries while no call and no local consumer gets a receipt.
LEMMA WinnersKept ==
    ASSUME UNCHANGED <<rows, lclaim>>,
           \A l \in Locals : lstate'[l] = "consumed" <=> lstate[l] = "consumed"
    PROVE  GrantWinner' = GrantWinner
  <1>1. ASSUME NEW a \in Auths
        PROVE  {m \in Locals : lstate'[m] = "consumed" /\ lclaim'[m].auth = a}
                 = {m \in Locals : lstate[m] = "consumed" /\ lclaim[m].auth = a}
    OBVIOUS
  <1> QED BY <1>1 DEF GrantWinner

LEMMA DeliveriesKept ==
    ASSUME UNCHANGED <<cdoc, lclaim>>,
           \A k \in Calls : cstate'[k] = "granted" <=> cstate[k] = "granted",
           \A l \in Locals : lstate'[l] = "consumed" <=> lstate[l] = "consumed"
    PROVE  GrantDelivered' = GrantDelivered
  <1>1. /\ {j \in Calls : cstate'[j] = "granted"} = {j \in Calls : cstate[j] = "granted"}
        /\ {m \in Locals : lstate'[m] = "consumed"} = {m \in Locals : lstate[m] = "consumed"}
    OBVIOUS
  <1> QED BY <1>1 DEF GrantDelivered

\* The steps below the abstraction: nothing stored, granted or consumed.
Quiet ==
    /\ UNCHANGED <<status, rows, cdoc, lclaim>>
    /\ \A k \in Calls : cstate'[k] = "granted" <=> cstate[k] = "granted"
    /\ \A l \in Locals : lstate'[l] = "consumed" <=> lstate[l] = "consumed"

LEMMA QuietStutters == ASSUME Quiet PROVE UNCHANGED Grant!grantVars
  <1>1. GrantPhase' = GrantPhase  BY DEF Quiet, GrantPhase
  <1>2. GrantWinner' = GrantWinner /\ GrantDelivered' = GrantDelivered
    BY WinnersKept, DeliveriesKept DEF Quiet
  <1> QED BY <1>1, <1>2 DEF Grant!grantVars

LEMMA PhaseStep ==
    ASSUME TypeOK, NEW a \in Auths, NEW s, status' = [status EXCEPT ![a] = s]
    PROVE  /\ GrantPhase' = [GrantPhase EXCEPT ![a] = PhaseOf(s)]
           /\ GrantPhase[a] = PhaseOf(status[a])
  BY DEF GrantPhase, TypeOK

\* An issue and an expiry change the phase and nothing else.
LEMMA IssueSteps == ASSUME TypeOK, NEW a \in Auths, StoreAuthorization(a) PROVE Grant!Issue(a)
  <1>1. GrantWinner' = GrantWinner /\ GrantDelivered' = GrantDelivered
    BY WinnersKept, DeliveriesKept DEF StoreAuthorization
  <1>2. GrantPhase[a] = "none" /\ GrantPhase' = [GrantPhase EXCEPT ![a] = "issued"]
    BY PhaseStep DEF StoreAuthorization, PhaseOf
  <1> QED BY <1>1, <1>2 DEF Grant!Issue

LEMMA ExpirySteps ==
    ASSUME TypeOK, NEW a \in Auths, status[a] = "approved",
           status' = [status EXCEPT ![a] = "expired"],
           UNCHANGED <<rows, cdoc, cstate, lclaim>>,
           \A l \in Locals : lstate'[l] = "consumed" <=> lstate[l] = "consumed"
    PROVE  Grant!Expire(a)
  <1>1. GrantWinner' = GrantWinner /\ GrantDelivered' = GrantDelivered
    BY WinnersKept, DeliveriesKept
  <1>2. GrantPhase[a] = "issued" /\ GrantPhase' = [GrantPhase EXCEPT ![a] = "expired"]
    BY PhaseStep DEF PhaseOf
  <1> QED BY <1>1, <1>2 DEF Grant!Expire

\* The request path claims for the document and delivers nothing yet.  That
\* nobody claimed before is StatusMatchesClaims.
LEMMA RequestClaims ==
    ASSUME IInv, NEW d \in Documents, NEW t, status[d.auth] = "approved",
           status' = [status EXCEPT ![d.auth] = "consumed"],
           rows' = rows \cup {NewRow(d, t)},
           UNCHANGED <<cdoc, cstate, lstate, lclaim>>
    PROVE  Grant!Claim(d.auth, <<"request", d>>)
  <1> DEFINE new == NewRow(d, t)
  <1>1. new.doc = d /\ new.auth = d.auth  BY DEF NewRow
  <1>2. d.auth \in Auths  BY DEF Documents
  <1>3. (\A r \in rows : r.auth # d.auth) /\ ~LocallyConsumed(d.auth)
    BY <1>2 DEF IInv, StatusMatchesClaims
  <1>4. GrantDelivered' = GrantDelivered  BY DeliveriesKept
  <1>5. /\ GrantPhase[d.auth] = "issued"
        /\ GrantPhase' = [GrantPhase EXCEPT ![d.auth] = "claimed"]
    BY <1>2, PhaseStep DEF PhaseOf, IInv
  <1> HIDE DEF new
  <1>6. rows' = rows \cup {new}  BY DEF new
  <1>7. GrantWinner' = [GrantWinner EXCEPT ![d.auth] = {<<"request", d>>}]
    <2>1. ASSUME NEW a \in Auths, a # d.auth PROVE GrantWinner'[a] = GrantWinner[a]
      <3>1. {q \in rows' : q.auth = a} = {q \in rows : q.auth = a}  BY <1>1, <1>6, <2>1
      <3> QED BY <3>1 DEF GrantWinner
    <2>2. GrantWinner'[d.auth] = {<<"request", d>>}
      <3>1. {q \in rows' : q.auth = d.auth} = {new}  BY <1>1, <1>3, <1>6
      <3>2. {m \in Locals : lstate'[m] = "consumed" /\ lclaim'[m].auth = d.auth} = {}
        BY <1>3 DEF LocallyConsumed
      <3>3. GrantWinner'[d.auth] = {<<"request", r.doc>> : r \in {new}} \cup {<<"local", l>> : l \in {}}
        BY <1>2, <3>1, <3>2 DEF GrantWinner
      <3> QED BY <1>1, <3>3
    <2> QED BY <1>2, <2>1, <2>2 DEF GrantWinner
  <1> QED BY <1>4, <1>5, <1>7 DEF Grant!Claim

\* The local path claims and delivers in one transaction.
LEMMA LocalClaimDelivers ==
    ASSUME IInv, NEW l \in Locals, status[lclaim[l].auth] = "approved",
           status' = [status EXCEPT ![lclaim[l].auth] = "consumed"],
           lstate' = [lstate EXCEPT ![l] = "consumed"],
           UNCHANGED <<rows, cdoc, cstate, lclaim>>
    PROVE  Grant!Claim(lclaim[l].auth, <<"local", l>>)
  <1> DEFINE b == lclaim[l].auth
  <1>1. b \in Auths  BY DEF IInv, TypeOK, LocalClaims
  <1>2. (\A r \in rows : r.auth # b) /\ ~LocallyConsumed(b)
    BY <1>1 DEF IInv, StatusMatchesClaims
  <1>3. \A m \in Locals : lstate'[m] = "consumed" <=> m = l \/ lstate[m] = "consumed"
    BY DEF IInv, TypeOK
  <1>4. GrantPhase[b] = "issued" /\ GrantPhase' = [GrantPhase EXCEPT ![b] = "claimed"]
    BY <1>1, PhaseStep DEF PhaseOf, IInv
  <1>5. GrantDelivered' = GrantDelivered \cup {<<b, <<"local", l>>>>}
    <2>1. {m \in Locals : lstate'[m] = "consumed"} = {m \in Locals : lstate[m] = "consumed"} \cup {l}
      BY <1>3
    <2> QED BY <2>1, SMT DEF GrantDelivered
  <1>6. GrantWinner' = [GrantWinner EXCEPT ![b] = {<<"local", l>>}]
    <2>1. ASSUME NEW a \in Auths, a # b PROVE GrantWinner'[a] = GrantWinner[a]
      <3>1. {m \in Locals : lstate'[m] = "consumed" /\ lclaim'[m].auth = a}
              = {m \in Locals : lstate[m] = "consumed" /\ lclaim[m].auth = a}
        BY <1>3, <2>1
      <3> QED BY <3>1 DEF GrantWinner
    <2>2. GrantWinner'[b] = {<<"local", l>>}
      <3>1. {q \in rows' : q.auth = b} = {}  BY <1>2
      <3>2. {m \in Locals : lstate'[m] = "consumed" /\ lclaim'[m].auth = b} = {l}
        BY <1>2, <1>3 DEF LocallyConsumed
      <3>3. GrantWinner'[b] = {<<"request", r.doc>> : r \in {}} \cup {<<"local", m>> : m \in {l}}
        BY <1>1, <3>1, <3>2 DEF GrantWinner
      <3> QED BY <3>3
    <2> HIDE DEF b
    <2> QED BY <1>1, <2>1, <2>2 DEF GrantWinner
  <1> QED BY <1>4, <1>5, <1>6 DEF Grant!Claim

\* An accepted response is the row of the caller's document, so what is
\* delivered is the claim on record (InFlightSound, RowsBindEnvelope).
LEMMA ReceiveSteps ==
    ASSUME IInv, NEW k \in Calls, Receive(k)
    PROVE  Quiet \/ Grant!Deliver(cdoc[k].auth, <<"request", cdoc[k]>>)
  <1> DEFINE c == <<k, attempt[k]>>
             good == {r \in answer[c] : ResponseAccepted(k, r)}
  <1>0. UNCHANGED <<status, rows, cdoc, lclaim, lstate>> /\ cstate[k] = "waiting"
    BY DEF Receive
  <1>1. c \in Conns /\ Doc(c) = cdoc[k]  BY DEF IInv, TypeOK, Conns, Doc
  <1>2. cstate' = [cstate EXCEPT ![k] = IF good = {} THEN "rejected" ELSE "granted"]
    BY DEF Receive
  <1>3. CASE good = {}
    <2>1. \A j \in Calls : cstate'[j] = "granted" <=> cstate[j] = "granted"
      BY <1>0, <1>2, <1>3 DEF IInv, TypeOK
    <2> QED BY <1>0, <2>1 DEF Quiet
  <1>4. CASE good # {}
    <2>1. PICK r \in answer[c] : TRUE  BY <1>4
    <2>2. r \in rows /\ r.doc = cdoc[k] /\ r.auth = cdoc[k].auth
      BY <1>1, SMT DEF IInv, InFlightSound, RowsBindEnvelope
    <2>3. cdoc[k].auth \in Auths  BY DEF IInv, TypeOK, Documents
    <2>4. <<"request", cdoc[k]>> \in GrantWinner[cdoc[k].auth]  BY <2>2, <2>3 DEF GrantWinner
    <2>5. {j \in Calls : cstate'[j] = "granted"} = {j \in Calls : cstate[j] = "granted"} \cup {k}
      BY <1>2, <1>4 DEF IInv, TypeOK
    <2>6. GrantDelivered' = GrantDelivered \cup {<<cdoc[k].auth, <<"request", cdoc[k]>>>>}
      BY <1>0, <2>5 DEF GrantDelivered
    <2>7. GrantPhase' = GrantPhase /\ GrantWinner' = GrantWinner
      BY <1>0, WinnersKept DEF GrantPhase
    <2> QED BY <2>4, <2>6, <2>7 DEF Grant!Deliver
  <1> QED BY <1>3, <1>4

LEMMA GrantSteps == IInv /\ [Next]_vars => [Grant!GrantNext]_Grant!grantVars
  <1> SUFFICES ASSUME IInv, [Next]_vars PROVE Grant!GrantNext \/ UNCHANGED Grant!grantVars
    OBVIOUS
  <1>0. TypeOK  BY DEF IInv
  <1>1. CASE Quiet  BY <1>1, QuietStutters
  <1>2. ASSUME NEW a \in Auths, StoreAuthorization(a) PROVE Grant!GrantNext
    BY <1>0, <1>2, IssueSteps DEF Grant!GrantNext
  <1>3. ASSUME NEW h \in Authorities, NEW c \in Conns, CommitExpire(h, c)
        PROVE  Grant!GrantNext \/ Quiet
    <2>1. Doc(c).auth \in Auths /\ status[Doc(c).auth] = "approved"
      BY <1>0, <1>3, ConnFacts DEF CommitExpire, Consumable
    <2>2. UNCHANGED <<rows, cdoc, cstate, lstate, lclaim>>  BY <1>3 DEF CommitExpire
    <2>3. CASE status' = [status EXCEPT ![Doc(c).auth] = "expired"]
      <3>1. Grant!Expire(Doc(c).auth)  BY <1>0, <2>1, <2>2, <2>3, ExpirySteps
      <3> QED BY <2>1, <3>1 DEF Grant!GrantNext
    <2>4. CASE status' = status  BY <2>2, <2>4 DEF Quiet
    <2> QED BY <1>3, <2>3, <2>4 DEF CommitExpire
  <1>4. ASSUME NEW h \in Authorities, NEW c \in Conns, CommitConsume(h, c)
        PROVE  Grant!GrantNext \/ Quiet
    <2> DEFINE d == Doc(c)
    <2>1. d \in Documents /\ d.auth \in Auths /\ status[d.auth] = "approved"
      BY <1>0, <1>4, ConnFacts DEF CommitConsume, Consumable
    <2>2. UNCHANGED <<cdoc, cstate, lstate, lclaim>>  BY <1>4 DEF CommitConsume
    <2>3. CASE /\ status' = [status EXCEPT ![d.auth] = "consumed"]
               /\ rows' = rows \cup {NewRow(d, seen[c])}
      <3>1. Grant!Claim(d.auth, <<"request", d>>)  BY <2>1, <2>2, <2>3, RequestClaims
      <3> QED BY <2>1, <3>1 DEF Grant!GrantNext
    <2>4. CASE UNCHANGED store  BY <2>2, <2>4 DEF Quiet
    <2> QED BY <1>4, <2>3, <2>4 DEF CommitConsume
  <1>5. ASSUME NEW l \in Locals, LocalConsume(l) PROVE Grant!GrantNext \/ Quiet
    <2> DEFINE b == lclaim[l].auth
    <2>1. b \in Auths  BY <1>0 DEF TypeOK, LocalClaims
    <2>2. UNCHANGED <<rows, cdoc, cstate, lclaim>> /\ lstate[l] = "verified"
      BY <1>5 DEF LocalConsume
    <2>3. ASSUME lstate' = [lstate EXCEPT ![l] = "refused"]
          PROVE  \A m \in Locals : lstate'[m] = "consumed" <=> lstate[m] = "consumed"
      BY <1>0, <2>2, <2>3 DEF TypeOK
    <2>4. CASE /\ status[b] = "approved" /\ status' = [status EXCEPT ![b] = "expired"]
               /\ lstate' = [lstate EXCEPT ![l] = "refused"]
      <3>1. Grant!Expire(b)  BY <1>0, <2>1, <2>2, <2>3, <2>4, ExpirySteps
      <3> QED BY <2>1, <3>1 DEF Grant!GrantNext
    <2>5. CASE /\ status[b] = "approved" /\ status' = [status EXCEPT ![b] = "consumed"]
               /\ lstate' = [lstate EXCEPT ![l] = "consumed"]
      <3>1. Grant!Claim(b, <<"local", l>>)  BY <2>2, <2>5, LocalClaimDelivers
      <3> QED BY <2>1, <3>1 DEF Grant!GrantNext
    <2>6. CASE UNCHANGED status /\ lstate' = [lstate EXCEPT ![l] = "refused"]
      BY <2>2, <2>3, <2>6 DEF Quiet
    <2> QED BY <1>5, <2>4, <2>5, <2>6 DEF LocalConsume
  <1>6. ASSUME NEW k \in Calls, Receive(k) PROVE Grant!GrantNext \/ Quiet
    <2>1. cdoc[k] \in Documents /\ cdoc[k].auth \in Auths  BY <1>0 DEF TypeOK, Documents
    <2> QED BY <1>6, <2>1, ReceiveSteps DEF Grant!GrantNext
  <1>7. ASSUME NEW h \in Authorities, NEW c \in Conns,
               \/ Accept(h, c) \/ Verify(h, c) \/ Recheck(h, c) \/ Sample(h, c)
               \/ LockTimeout(h, c) \/ CommitPrior(h, c) \/ CommitRefuse(h, c) \/ Reply(h, c)
        PROVE  Quiet
    BY <1>7 DEF Accept, Verify, Recheck, Sample, LockTimeout, CommitPrior, CommitRefuse,
                Reply, Quiet
  <1>8. ASSUME NEW k \in Calls, Start(k) \/ NotReady(k) \/ TransportError(k) PROVE Quiet
    <2>1. UNCHANGED <<status, rows, cdoc, lstate, lclaim>>
      BY <1>8 DEF Start, NotReady, TransportError
    <2>2. \A j \in Calls : cstate'[j] = "granted" <=> cstate[j] = "granted"
      BY <1>0, <1>8 DEF Start, NotReady, TransportError, TypeOK
    <2> QED BY <2>1, <2>2 DEF Quiet
  <1>9. ASSUME NEW l \in Locals, LocalVerify(l) PROVE Quiet
    <2>1. UNCHANGED <<status, rows, cdoc, cstate, lclaim>>  BY <1>9 DEF LocalVerify
    <2>2. \A m \in Locals : lstate'[m] = "consumed" <=> lstate[m] = "consumed"
      BY <1>0, <1>9 DEF LocalVerify, TypeOK
    <2> QED BY <2>1, <2>2 DEF Quiet
  <1>10. ASSUME (\E h \in Authorities : Crash(h)) \/ (\E c \in Conns : Unreachable(c)) \/ Tick
         PROVE  Quiet
    BY <1>10 DEF Crash, Unreachable, Tick, Quiet
  <1>11. CASE UNCHANGED vars  BY <1>1, <1>11 DEF vars, Quiet
  <1> QED
    BY <1>1, <1>2, <1>3, <1>4, <1>5, <1>6, <1>7, <1>8, <1>9, <1>10, <1>11
    DEF Next, Authority, Client, Local

\* The store, the authorities, the clients with their retries and the local
\* consumers together implement the one-time grant, for every instance: each
\* authorization is claimed once, and a receipt goes to the claimant on record.
THEOREM RefinesOneTimeGrant == Spec => ImplementsOneTimeGrant
  BY GrantStarts, GrantSteps, InitIInv, IInvInductive, PTL
  DEF Spec, ImplementsOneTimeGrant, Grant!GrantSpec

----------------------------------------------------------------------------
\* Why an authority gets back to accept: what AuthorityReturns needs besides a
\* deadline on every step of a request in service.

\* The stages in which a handler has a next step, and their order.
InService == {"verify", "recheck", "sample", "commit", "reply"}

ServiceRank(s) ==
    CASE s = "verify" -> 1
      [] s \in {"recheck", "sample"} -> 2
      [] s = "commit" -> 3
      [] OTHER -> 4

\* serve_forever holds one connection at a time, which no client, crash or other
\* authority has taken out of its hands, and no request is in service anywhere
\* else.
ServingSound ==
    /\ \A h \in Authorities :
        busy[h] = {} \/ \E c \in Conns : busy[h] = {c} /\ stage[c] \in InService
    /\ \A g, h \in Authorities : g # h => busy[g] \cap busy[h] = {}
    /\ \A c \in Conns : stage[c] \in InService => \E h \in Authorities : c \in busy[h]

\* An authority keeps its connection until it has answered or closed it, and
\* every step on the way takes the request further.
ServiceStep ==
    \A h \in Authorities, c \in Conns : busy[h] = {c} =>
        \/ busy'[h] = {} /\ stage'[c] \in {"answered", "closed"}
        \/ /\ busy'[h] = {c}
           /\ stage'[c] = stage[c] \/ ServiceRank(stage[c]) < ServiceRank(stage'[c])

\* A call opens each of its connections once.
Unopened ==
    \A k \in Calls :
        /\ cstate[k] = "idle" => stage[<<k, 1>>] = "none" /\ attempt[k] = 1
        /\ attempt[k] = 1 => stage[<<k, 2>>] = "none"

\* What a step does to the connections in service: nothing, or one is taken
\* from the backlog, goes on, or ends.
Aside ==
    /\ busy' = busy
    /\ \A c \in Conns : stage'[c] = stage[c] \/ {stage[c], stage'[c]} \cap InService = {}

Takes(h, c) ==
    /\ busy[h] = {} /\ busy' = [busy EXCEPT ![h] = {c}]
    /\ stage[c] = "queued" /\ stage'[c] \in InService
    /\ \A d \in Conns \ {c} : stage'[d] = stage[d]

Continues(h, c) ==
    /\ c \in busy[h] /\ busy' = busy
    /\ stage'[c] \in InService /\ ServiceRank(stage[c]) < ServiceRank(stage'[c])
    /\ \A d \in Conns \ {c} : stage'[d] = stage[d]

Ends(h) ==
    /\ busy' = [busy EXCEPT ![h] = {}]
    /\ \A c \in busy[h] : stage'[c] \in {"answered", "closed"}
    /\ \A d \in Conns \ busy[h] : stage'[d] = stage[d]

\* The connections of a call, and what the client does to them.
LEMMA ClientSteps ==
    ASSUME TypeOK, Unopened, NEW k \in Calls, Client(k)
    PROVE  Aside /\ Unopened'
  <1>t. /\ DOMAIN stage = Conns /\ DOMAIN cstate = Calls /\ DOMAIN attempt = Calls
        /\ attempt[k] \in 1..2
    BY DEF TypeOK
  <1>c. \A j \in Calls : <<j, 1>> \in Conns /\ <<j, 2>> \in Conns  BY SMT DEF Conns
  <1>d. \A i, j \in Calls : <<i, 1>> # <<j, 2>> /\ (i # j => <<i, 1>> # <<j, 1>> /\ <<i, 2>> # <<j, 2>>)
    BY SMT
  <1>1. CASE Start(k)
    <2>1. /\ cstate[k] = "idle" /\ cstate' = [cstate EXCEPT ![k] = "waiting"]
          /\ stage' = [stage EXCEPT ![<<k, 1>>] = "queued"] /\ attempt' = attempt /\ busy' = busy
      BY <1>1 DEF Start, Goto
    <2>2. stage[<<k, 1>>] = "none"  BY <2>1 DEF Unopened
    <2>3. Aside  BY <1>c, <1>t, <2>1, <2>2 DEF Aside, InService
    <2>4. Unopened'  BY <1>c, <1>d, <1>t, <2>1 DEF Unopened
    <2> QED BY <2>3, <2>4
  <1>2. CASE NotReady(k)
    BY <1>2, <1>t DEF NotReady, Aside, Unopened
  <1>3. CASE TransportError(k) /\ attempt[k] = 1
    <2>1. /\ cstate[k] = "waiting" /\ cstate' = cstate /\ busy' = busy
          /\ attempt' = [attempt EXCEPT ![k] = 2]
          /\ stage' = [stage EXCEPT ![<<k, 1>>] = IF @ = "answered" THEN "closed" ELSE @,
                                    ![<<k, 2>>] = "queued"]
      BY <1>3, SMT DEF TransportError
    <2>2. stage[<<k, 2>>] = "none"  BY <1>3 DEF Unopened
    <2>3. /\ \A c \in Conns : c # <<k, 1>> /\ c # <<k, 2>> => stage'[c] = stage[c]
          /\ stage'[<<k, 1>>] = stage[<<k, 1>>] \/ (stage[<<k, 1>>] = "answered" /\ stage'[<<k, 1>>] = "closed")
          /\ stage'[<<k, 2>>] = "queued"
      BY <1>c, <1>d, <1>t, <2>1, SMT
    <2>4. Aside  BY <2>1, <2>2, <2>3 DEF Aside, InService
    <2>5. Unopened'
      <3>1. attempt'[k] # 1 /\ cstate'[k] # "idle"  BY <1>t, <2>1, SMT
      <3>2. \A j \in Calls \ {k} : attempt'[j] = attempt[j]  BY <1>t, <2>1
      <3>3. \A j \in Calls \ {k} : stage'[<<j, 1>>] = stage[<<j, 1>>] /\ stage'[<<j, 2>>] = stage[<<j, 2>>]
        BY <1>c, <1>d, <2>3
      <3>4. cstate' = cstate  BY <2>1
      <3> QED BY <3>1, <3>2, <3>3, <3>4 DEF Unopened
    <2> QED BY <2>4, <2>5
  <1>4. CASE TransportError(k) /\ attempt[k] = 2
    <2>1. /\ cstate[k] = "waiting" /\ attempt' = attempt /\ busy' = busy
          /\ cstate' = [cstate EXCEPT ![k] = "failed"]
          /\ stage' = [stage EXCEPT ![<<k, 2>>] = IF @ = "answered" THEN "closed" ELSE @]
      BY <1>4, SMT DEF TransportError
    <2>2. /\ \A c \in Conns : c # <<k, 2>> => stage'[c] = stage[c]
          /\ stage'[<<k, 2>>] = stage[<<k, 2>>] \/ (stage[<<k, 2>>] = "answered" /\ stage'[<<k, 2>>] = "closed")
      BY <1>c, <1>t, <2>1, SMT
    <2>3. Aside  BY <2>1, <2>2 DEF Aside, InService
    <2>4. Unopened'
      <3>1. attempt[k] # 1 /\ cstate'[k] # "idle"  BY <1>4, <1>t, <2>1, SMT
      <3>2. \A j \in Calls \ {k} : cstate'[j] = cstate[j]  BY <1>t, <2>1
      <3>3. \A j \in Calls \ {k} : stage'[<<j, 1>>] = stage[<<j, 1>>] /\ stage'[<<j, 2>>] = stage[<<j, 2>>]
        BY <1>c, <1>d, <2>2
      <3>4. attempt' = attempt  BY <2>1
      <3> QED BY <3>1, <3>2, <3>3, <3>4 DEF Unopened
    <2> QED BY <2>3, <2>4
  <1>5. CASE Receive(k)
    <2> DEFINE c == <<k, attempt[k]>>
    <2>1. /\ cstate[k] = "waiting" /\ attempt' = attempt /\ busy' = busy
          /\ cstate'[k] \in {"rejected", "granted"} /\ \A j \in Calls \ {k} : cstate'[j] = cstate[j]
          /\ stage[c] = "answered"
          /\ \A d \in Conns : stage'[d] = IF d = c THEN "closed" ELSE stage[d]
      BY <1>5, <1>t DEF Receive, Close
    <2>2. Aside  BY <2>1 DEF Aside, InService
    <2>3. Unopened'
      <3>1. ASSUME NEW j \in Calls, j # k
            PROVE  <<j, 1>> # c /\ <<j, 2>> # c
        BY <3>1, SMT
      <3>2. attempt[k] = 1 => <<k, 2>> # c  BY SMT
      <3> HIDE DEF c
      <3> QED BY <1>c, <2>1, <3>1, <3>2 DEF Unopened
    <2> QED BY <2>2, <2>3
  <1> QED BY <1>1, <1>2, <1>3, <1>4, <1>5, <1>t, SMT DEF Client, TransportError

\* The handler's steps.
LEMMA HandlerSteps ==
    ASSUME TypeOK, ServingSound, NEW h \in Authorities, NEW c \in Conns
    PROVE  /\ Accept(h, c) => Takes(h, c)
           /\ \/ Verify(h, c) \/ Recheck(h, c) \/ Sample(h, c) \/ LockTimeout(h, c)
              \/ CommitPrior(h, c) \/ CommitRefuse(h, c) \/ CommitExpire(h, c) \/ CommitConsume(h, c)
              => Continues(h, c)
           /\ Reply(h, c) \/ Crash(h) => Ends(h)
  <1>t. DOMAIN stage = Conns  BY DEF TypeOK
  <1>1. ASSUME Accept(h, c) PROVE Takes(h, c)
    <2>1. /\ stage[c] = "queued" /\ busy[h] = {} /\ busy' = [busy EXCEPT ![h] = {c}]
          /\ Goto(c, "reply") \/ Goto(c, "verify")
      BY <1>1 DEF Accept, Respond
    <2> QED BY <1>t, <2>1 DEF Takes, Goto, InService
  <1>2. ASSUME NEW s \in InService, c \in busy[h], busy' = busy, Goto(c, s),
               ServiceRank(stage[c]) < ServiceRank(s)
        PROVE  Continues(h, c)
    BY <1>2, <1>t DEF Continues, Goto
  <1>3. ASSUME Verify(h, c) PROVE Continues(h, c)
    <2>1. /\ c \in busy[h] /\ stage[c] = "verify" /\ busy' = busy
          /\ Goto(c, "sample") \/ Goto(c, "recheck")
      BY <1>3 DEF Verify, At
    <2>2. /\ ServiceRank("verify") < ServiceRank("sample")
          /\ ServiceRank("verify") < ServiceRank("recheck")
      BY SMT DEF ServiceRank
    <2> QED BY <1>2, <2>1, <2>2 DEF InService
  <1>4. ASSUME Sample(h, c) PROVE Continues(h, c)
    <2>1. c \in busy[h] /\ stage[c] = "sample" /\ busy' = busy /\ Goto(c, "commit")
      BY <1>4 DEF Sample, At
    <2>2. ServiceRank("sample") < ServiceRank("commit")  BY SMT DEF ServiceRank
    <2> QED BY <1>2, <2>1, <2>2 DEF InService
  <1>5. ASSUME \/ Recheck(h, c) \/ LockTimeout(h, c) \/ CommitPrior(h, c) \/ CommitRefuse(h, c)
               \/ CommitExpire(h, c) \/ CommitConsume(h, c)
        PROVE  Continues(h, c)
    <2>1. /\ c \in busy[h] /\ stage[c] \in {"recheck", "commit"} /\ busy' = busy
          /\ Goto(c, "reply")
      BY <1>5 DEF Recheck, LockTimeout, CommitPrior, CommitRefuse, CommitExpire, CommitConsume,
                  At, Respond
    <2>2. /\ ServiceRank("recheck") < ServiceRank("reply")
          /\ ServiceRank("commit") < ServiceRank("reply")
      BY SMT DEF ServiceRank
    <2> QED BY <1>2, <2>1, <2>2 DEF InService
  <1>6. ASSUME Reply(h, c) PROVE Ends(h)
    <2>1. /\ c \in busy[h] /\ busy' = [busy EXCEPT ![h] = {}]
          /\ stage'[c] \in {"answered", "closed"} /\ \A d \in Conns \ {c} : stage'[d] = stage[d]
      BY <1>6, <1>t DEF Reply, At, Goto, Close
    <2>2. busy[h] = {c}
      <3>1. PICK d \in Conns : busy[h] = {d}  BY <2>1 DEF ServingSound
      <3> QED BY <2>1, <3>1
    <2> QED BY <2>1, <2>2 DEF Ends
  <1>7. ASSUME Crash(h) PROVE Ends(h)
    <2>1. busy[h] \subseteq Conns  BY DEF TypeOK
    <2> QED BY <1>7, <2>1 DEF Crash, Close, Ends
  <1> QED BY <1>1, <1>3, <1>4, <1>5, <1>6, <1>7

\* Every step is one of the four.
LEMMA ServiceKinds ==
    ASSUME TypeOK, ServingSound, Unopened, [Next]_vars
    PROVE  \/ Aside
           \/ \E h \in Authorities : (\E c \in Conns : Takes(h, c) \/ Continues(h, c)) \/ Ends(h)
  <1>1. CASE Tick \/ (\E a \in Auths : StoreAuthorization(a)) \/ (\E l \in Locals : Local(l)) \/ UNCHANGED vars
    <2>1. UNCHANGED <<stage, busy>>
      BY <1>1 DEF Tick, StoreAuthorization, Local, LocalVerify, LocalConsume, vars
    <2> QED BY <2>1 DEF Aside
  <1>2. ASSUME NEW c \in Conns, Unreachable(c) PROVE Aside
    <2>1. /\ stage[c] = "queued" /\ busy' = busy
          /\ \A d \in Conns : stage'[d] = IF d = c THEN "closed" ELSE stage[d]
      BY <1>2 DEF Unreachable, Close
    <2> QED BY <2>1 DEF Aside, InService
  <1>3. ASSUME NEW k \in Calls, Client(k) PROVE Aside  BY <1>3, ClientSteps
  <1>4. ASSUME NEW h \in Authorities, Authority(h)
        PROVE  (\E c \in Conns : Takes(h, c) \/ Continues(h, c)) \/ Ends(h)
    <2>1. CASE Crash(h)
      <3>1. \E c \in Conns : TRUE  BY <2>1 DEF Crash, ServingSound
      <3> QED BY <2>1, <3>1, HandlerSteps
    <2>2. ASSUME NEW c \in Conns,
                 \/ Accept(h, c) \/ Verify(h, c) \/ Recheck(h, c)
                 \/ Sample(h, c) \/ LockTimeout(h, c) \/ CommitPrior(h, c)
                 \/ CommitRefuse(h, c) \/ CommitExpire(h, c) \/ CommitConsume(h, c)
                 \/ Reply(h, c)
          PROVE  Takes(h, c) \/ Continues(h, c) \/ Ends(h)
      BY <2>2, HandlerSteps
    <2> QED BY <1>4, <2>1, <2>2 DEF Authority
  <1> QED BY <1>1, <1>2, <1>3, <1>4 DEF Next

\* What an authority holds is the one request it serves.
LEMMA Held ==
    ASSUME ServingSound, NEW h \in Authorities, NEW c \in busy[h]
    PROVE  c \in Conns /\ busy[h] = {c} /\ stage[c] \in InService
  <1>1. PICK d \in Conns : busy[h] = {d} /\ stage[d] \in InService  BY DEF ServingSound
  <1>2. d = c  BY <1>1
  <1> QED BY <1>1, <1>2

\* Taking, continuing and ending keep every connection in one pair of hands.
LEMMA ServingInductive ==
    ASSUME TypeOK, ServingSound, Unopened, [Next]_vars
    PROVE  ServingSound' /\ ServiceStep
  <1>t. DOMAIN busy = Authorities  BY DEF TypeOK
  <1>h. \A g \in Authorities : busy[g] = {} \/ \E c \in Conns : busy[g] = {c} /\ stage[c] \in InService
    BY DEF ServingSound
  <1>d. \A f, g \in Authorities : f # g => busy[f] \cap busy[g] = {}  BY DEF ServingSound
  <1>i. \A c \in Conns : stage[c] \in InService => \E g \in Authorities : c \in busy[g]
    BY DEF ServingSound
  <1>1. CASE Aside
    <2>1. \A c \in Conns : stage[c] \in InService \/ stage'[c] \in InService => stage'[c] = stage[c]
      BY <1>1 DEF Aside
    <2>2. busy' = busy  BY <1>1 DEF Aside
    <2>3. ServingSound'  BY <1>h, <1>d, <1>i, <2>1, <2>2 DEF ServingSound
    <2>4. ASSUME NEW h \in Authorities, NEW c \in Conns, busy[h] = {c} PROVE stage'[c] = stage[c]
      BY <1>h, <2>1, <2>4
    <2>5. ServiceStep  BY <2>2, <2>4 DEF ServiceStep
    <2> QED BY <2>3, <2>5
  <1>2. ASSUME NEW h \in Authorities, NEW c \in Conns, Takes(h, c)
        PROVE  ServingSound' /\ ServiceStep
    <2>1. /\ busy[h] = {} /\ busy'[h] = {c} /\ \A g \in Authorities \ {h} : busy'[g] = busy[g]
          /\ stage[c] \notin InService /\ stage'[c] \in InService
          /\ \A d \in Conns \ {c} : stage'[d] = stage[d]
      BY <1>2, <1>t DEF Takes, InService
    <2>2. \A g \in Authorities : c \notin busy[g]  BY <2>1, Held
    <2>3. ASSUME NEW g \in Authorities
          PROVE  busy'[g] = {} \/ \E d \in Conns : busy'[g] = {d} /\ stage'[d] \in InService
      <3>1. CASE g = h  BY <2>1, <3>1
      <3>2. ASSUME g # h, NEW d \in busy[g] PROVE busy'[g] = {d} /\ d \in Conns /\ stage'[d] \in InService
        <4>1. d \in Conns /\ busy[g] = {d} /\ stage[d] \in InService  BY <3>2, Held
        <4> QED BY <2>1, <2>2, <3>2, <4>1
      <3> QED BY <2>1, <3>1, <3>2
    <2>4. ASSUME NEW f \in Authorities, NEW g \in Authorities, f # g PROVE busy'[f] \cap busy'[g] = {}
      <3>1. CASE f = h  BY <2>1, <2>2, <2>4, <3>1
      <3>2. CASE g = h  BY <2>1, <2>2, <2>4, <3>2
      <3>3. CASE f # h /\ g # h  BY <1>d, <2>1, <2>4, <3>3
      <3> QED BY <3>1, <3>2, <3>3
    <2>5. ASSUME NEW d \in Conns, stage'[d] \in InService PROVE \E g \in Authorities : d \in busy'[g]
      BY <1>i, <2>1, <2>5
    <2>6. ServingSound'  BY <2>3, <2>4, <2>5 DEF ServingSound
    <2>7. ASSUME NEW g \in Authorities, NEW d \in Conns, busy[g] = {d}
          PROVE  busy'[g] = {d} /\ stage'[d] = stage[d]
      BY <2>1, <2>2, <2>7
    <2> QED BY <2>6, <2>7 DEF ServiceStep
  <1>3. ASSUME NEW h \in Authorities, NEW c \in Conns, Continues(h, c)
        PROVE  ServingSound' /\ ServiceStep
    <2>1. /\ c \in busy[h] /\ busy' = busy /\ stage'[c] \in InService
          /\ ServiceRank(stage[c]) < ServiceRank(stage'[c])
          /\ \A d \in Conns \ {c} : stage'[d] = stage[d]
      BY <1>3 DEF Continues
    <2>a. stage[c] \in InService  BY <2>1, Held
    <2>b. \A d \in Conns : stage'[d] \in InService <=> stage[d] \in InService  BY <2>1, <2>a
    <2>2. ServingSound'  BY <1>h, <1>d, <1>i, <2>1, <2>b DEF ServingSound
    <2>3. \A d \in Conns : stage'[d] = stage[d] \/ ServiceRank(stage[d]) < ServiceRank(stage'[d])
      BY <2>1
    <2>4. ServiceStep  BY <2>1, <2>3 DEF ServiceStep
    <2> QED BY <2>2, <2>4
  <1>4. ASSUME NEW h \in Authorities, Ends(h) PROVE ServingSound' /\ ServiceStep
    <2>1. /\ busy'[h] = {} /\ \A g \in Authorities \ {h} : busy'[g] = busy[g]
          /\ \A c \in busy[h] : stage'[c] \in {"answered", "closed"}
          /\ \A d \in Conns \ busy[h] : stage'[d] = stage[d]
      BY <1>4, <1>t DEF Ends
    <2>2. ASSUME NEW g \in Authorities \ {h}, NEW d \in busy[g] PROVE d \notin busy[h]
      BY <1>d, <2>2
    <2>3. ASSUME NEW g \in Authorities
          PROVE  busy'[g] = {} \/ \E d \in Conns : busy'[g] = {d} /\ stage'[d] \in InService
      <3>1. CASE g = h  BY <2>1, <3>1
      <3>2. ASSUME g # h, NEW d \in busy[g] PROVE busy'[g] = {d} /\ d \in Conns /\ stage'[d] \in InService
        <4>1. d \in Conns /\ busy[g] = {d} /\ stage[d] \in InService  BY <3>2, Held
        <4> QED BY <2>1, <2>2, <3>2, <4>1
      <3> QED BY <2>1, <3>1, <3>2
    <2>4. \A f, g \in Authorities : f # g => busy'[f] \cap busy'[g] = {}  BY <1>d, <2>1
    <2>5. ASSUME NEW d \in Conns, stage'[d] \in InService PROVE \E g \in Authorities : d \in busy'[g]
      <3>1. d \notin busy[h]  BY <2>1, <2>5 DEF InService
      <3>2. stage[d] \in InService  BY <2>1, <2>5, <3>1
      <3>3. PICK g \in Authorities : d \in busy[g]  BY <1>i, <3>2
      <3> QED BY <2>1, <3>1, <3>3
    <2>6. ServingSound'  BY <2>3, <2>4, <2>5 DEF ServingSound
    <2>7. ASSUME NEW g \in Authorities, g # h, NEW d \in Conns, busy[g] = {d}
          PROVE  busy'[g] = {d} /\ stage'[d] = stage[d]
      BY <2>1, <2>2, <2>7
    <2> QED BY <2>1, <2>6, <2>7 DEF ServiceStep
  <1> QED BY <1>1, <1>2, <1>3, <1>4, ServiceKinds

\* Only a client opens connections.
LEMMA UnopenedInductive ==
    ASSUME TypeOK, ServingSound, Unopened, [Next]_vars
    PROVE  Unopened'
  <1>c. \A j \in Calls : <<j, 1>> \in Conns /\ <<j, 2>> \in Conns  BY SMT DEF Conns
  <1>1. CASE \E k \in Calls : Client(k)  BY <1>1, ClientSteps
  <1>2. ASSUME UNCHANGED <<cstate, attempt>>, \A c \in Conns : stage[c] = "none" => stage'[c] = "none"
        PROVE  Unopened'
    BY <1>2, <1>c DEF Unopened
  <1>3. CASE Tick \/ (\E a \in Auths : StoreAuthorization(a)) \/ (\E l \in Locals : Local(l)) \/ UNCHANGED vars
    <2>1. UNCHANGED <<stage, cstate, attempt>>
      BY <1>3 DEF Tick, StoreAuthorization, Local, LocalVerify, LocalConsume, vars
    <2> QED BY <1>2, <2>1
  <1>4. ASSUME NEW c \in Conns, Unreachable(c) PROVE Unopened'
    BY <1>2, <1>4 DEF Unreachable, Close
  <1>5. ASSUME NEW h \in Authorities, Authority(h) PROVE Unopened'
    <2>1. UNCHANGED <<cstate, attempt>>
      BY <1>5 DEF Authority, Accept, Verify, Recheck, Sample, LockTimeout, CommitPrior, CommitRefuse,
                  CommitExpire, CommitConsume, Reply, Crash
    <2>2. (\E c \in Conns : Takes(h, c) \/ Continues(h, c)) \/ Ends(h)
      <3>1. CASE Crash(h)
        <4>1. \E c \in Conns : TRUE  BY <3>1 DEF Crash, ServingSound
        <4> QED BY <3>1, <4>1, HandlerSteps
      <3> QED BY <1>5, <3>1, HandlerSteps DEF Authority
    <2>3. ASSUME NEW c \in Conns, stage[c] = "none" PROVE stage'[c] = "none"
      <3>1. c \notin busy[h]  BY <2>3, Held DEF InService
      <3> QED BY <2>2, <2>3, <3>1 DEF Takes, Continues, Ends
    <2> QED BY <1>2, <2>1, <2>3
  <1> QED BY <1>1, <1>3, <1>4, <1>5 DEF Next

LEMMA ServingInvariant == Spec => [](ServingSound /\ Unopened)
  <1>1. Init => ServingSound /\ Unopened
    <2> SUFFICES ASSUME Init PROVE ServingSound /\ Unopened  OBVIOUS
    <2>1. \A j \in Calls : <<j, 1>> \in Conns /\ <<j, 2>> \in Conns  BY SMT DEF Conns
    <2>2. (\A c \in Conns : stage[c] = "none") /\ (\A h \in Authorities : busy[h] = {})
      BY DEF Init
    <2>3. ServingSound  BY <2>2 DEF ServingSound, InService
    <2>4. Unopened  BY <2>1, <2>2 DEF Init, Unopened
    <2> QED BY <2>3, <2>4
  <1>2. TypeOK /\ ServingSound /\ Unopened /\ [Next]_vars => (ServingSound /\ Unopened)'
    BY ServingInductive, UnopenedInductive
  <1> QED BY <1>1, <1>2, TypeCorrect, PTL DEF Spec

\* An authority never loses its connection to a client's retry, to another
\* authority or to a crash elsewhere, and is never left with one that has no
\* next step.
THEOREM ServiceAlwaysSound == Spec => []ServingSound
  BY ServingInvariant, PTL

\* A request in service takes at most four steps: none is undone or repeated,
\* and the handler lets go only of a connection it answered or closed.
THEOREM ServiceMovesForward == Spec => [][ServiceStep]_vars
  <1>1. TypeOK /\ ServingSound /\ Unopened /\ [Next]_vars => [ServiceStep]_vars
    BY ServingInductive
  <1> QED BY <1>1, ServingInvariant, TypeCorrect, PTL DEF Spec
====
