---- MODULE MCCleanup ----
(***************************************************************************)
(* A workspace directory d with an evidence directory e below it, a file f *)
(* in e when e is there and in d otherwise, and a declared target g in d.  *)
(***************************************************************************)
EXTENDS Cleanup

MCKind == [x \in Effects |-> IF x \in {"d", "e"} THEN "directory" ELSE "file"]

MCAncestors ==
    [x \in Effects |->
        Effects \cap (CASE x = "f" -> {"d", "e"}
                        [] x \in {"e", "g"} -> {"d"}
                        [] OTHER -> {})]
====
