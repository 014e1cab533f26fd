---- MODULE MCValidationDispatch ----
(***************************************************************************)
(* Small engagements for ValidationDispatch: two calls that carry the same *)
(* attempt identifier and a controlled proof that needs the prerequisite   *)
(* one of them may establish, over an approval that expires in the middle. *)
(***************************************************************************)
EXTENDS ValidationDispatch, TLC

Limit == [attempts |-> 2, tokens |-> 3, output |-> 2, elapsed |-> 1,
          concurrency |-> 2, depth |-> 0, children |-> 0]

First == [id |-> "a", parent |-> {}, tokens |-> 1, output |-> 1]
Second == [id |-> "b", parent |-> {}, tokens |-> 1, output |-> 1]

TwoRequests == {First, Second}

Filed(i, s) == [id |-> i, attempt |-> i, outcome |-> s, usage |-> [tokens |-> 1, output |-> 1]]

AllReceipts == {Filed(i, s) : i \in {"a", "b"}, s \in {"completed", "failed"}}

Candidate == [id |-> "p", payload |-> 1]

OnePrerequisite == {Candidate}

ThreeCalls == [c \in {"c1", "c2", "c3"} |-> IF c = "c3" THEN Second ELSE First]
ThreeHeld == [c \in {"c1", "c2", "c3"} |-> IF c = "c3" THEN {Candidate} ELSE {}]
ThreeGrants == [c \in {"c1", "c2", "c3"} |-> IF c = "c3" THEN {"y"} ELSE {"x"}]

\* The approval of the shared attempt expires at the instant the clock ends.
TwoWindows ==
    [x \in {"x", "y"} |-> [issued |-> 0, expires |-> IF x = "x" THEN 1 ELSE 2]]
====
