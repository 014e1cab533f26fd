---- MODULE MCLiveDispatch ----
(***************************************************************************)
(* Live cases for LiveDispatch: two calls with one grant under a deadline  *)
(* shorter than the engagement's, and an envelope of another worker with   *)
(* another dispatch identifier under the same authorization.               *)
(***************************************************************************)
EXTENDS LiveDispatch, TLC

Wide == [attempts |-> 2, tokens |-> 2, output |-> 2, elapsed |-> 2,
         concurrency |-> 2, depth |-> 0, children |-> 0]
Narrow == [Wide EXCEPT !.elapsed = 1]

NarrowOnly == {Narrow}

LiveRequest(i) == [id |-> i, parent |-> {}, tokens |-> 1, output |-> 1]

OneRequest == {LiveRequest("a")}

Grant(d) == [dispatch |-> d, authorization |-> "x", issued |-> 0, expires |-> 2]

PresentedGrants == [s \in {"c1", "c2", "e"} |-> IF s = "e" THEN Grant("g") ELSE Grant("f")]

SameRequest == [c \in {"c1", "c2"} |-> LiveRequest("a")]

ChildLimits == [c \in {"c1", "c2"} |-> {Narrow}]

OneWindow == [x \in {"x"} |-> [issued |-> 0, expires |-> 2]]

LateReceipt ==
    {[id |-> "r", attempt |-> "a", outcome |-> "completed", usage |-> [tokens |-> 1, output |-> 1]]}
====
