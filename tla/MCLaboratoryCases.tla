---- MODULE MCLaboratoryCases ----
(***************************************************************************)
(* Small laboratories for LaboratoryCases.                                 *)
(***************************************************************************)
EXTENDS LaboratoryCases, TLC

MCSymmetry == Permutations(Auths) \cup Permutations(Environments)
====
