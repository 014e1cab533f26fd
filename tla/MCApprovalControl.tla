---- MODULE MCApprovalControl ----
(***************************************************************************)
(* Small instances of ApprovalControl.  Plan p1 and its reissue p1b share  *)
(* the approved snapshot s1, so two documents can differ only in the       *)
(* request digest; p2 has a snapshot no envelope binds.                    *)
(***************************************************************************)
EXTENDS ApprovalControl, TLC

MCSnapshotOf == [p \in Plans |-> IF p = "p2" THEN "s2" ELSE "s1"]

\* Valid from second 0 and 1 for one second.
MCEnvelope ==
    [a \in Auths |->
        [snap |-> "s1", worker |-> "w1",
         issued |-> IF a = "a1" THEN 0 ELSE 1,
         expiry |-> IF a = "a1" THEN 1 ELSE 2]]

MCAuthorityWorker == [h \in Authorities |-> "w1"]

MCSymmetry == Permutations(Calls) \cup Permutations(Authorities)
====
