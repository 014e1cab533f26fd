---- MODULE MCAssessmentBudget ----
(***************************************************************************)
(* Small engagements for AssessmentBudget: attempts that may stand alone   *)
(* or below one another, estimates that receipts meet, exceed or leave     *)
(* open, and limits that bind at two or three of everything.               *)
(***************************************************************************)
EXTENDS AssessmentBudget, TLC

TreeAttempts == {"a", "b", "c", "d"}

FlatAttempts == {"a", "b", "c"}

Req(i, p, t, o) == [id |-> i, parent |-> p, tokens |-> t, output |-> o]

Lim(n, t, o, e, k, g, f) ==
    [attempts |-> n, tokens |-> t, output |-> o, elapsed |-> e,
     concurrency |-> k, depth |-> g, children |-> f]

Rcpt(i, x, s, t, o) ==
    [id |-> i, attempt |-> x, outcome |-> s, usage |-> [tokens |-> t, output |-> o]]

\* Trees: one choice of limits binds attempts, one output, time, depth and
\* fanout, and one is wider than the policy.
TreePolicy == Lim(3, 4, 3, 2, 2, 2, 2)
TreeLimits == {Lim(2, 4, 3, 2, 2, 2, 2), Lim(3, 4, 2, 1, 2, 1, 1), Lim(3, 5, 3, 2, 2, 2, 2)}
TreeRequests ==
    {Req("a", {}, 1, 1), Req("b", {}, 1, 2), Req("b", {"a"}, 1, 1),
     Req("c", {"a"}, 1, 0), Req("c", {"b"}, 2, 1), Req("d", {"c"}, 0, 0), Req("d", {}, 0, 0)}
TreeReceipts ==
    {Rcpt("r1", "a", "completed", 1, 0), Rcpt("r2", "b", "failed", 3, Unknown),
     Rcpt("r3", "b", "failed", 3, 1), Rcpt("r4", "c", "completed", 1, 2)}

\* Evidence: one level, with approvals, prerequisites and revisions.
FlatPolicy == Lim(3, 5, 3, 2, 2, 0, 1)
FlatRequests == {Req("a", {}, 1, 1), Req("b", {}, 1, 1), Req("c", {}, 2, 1)}
FlatReceipts ==
    {Rcpt("r1", "a", "completed", Unknown, 1), Rcpt("r2", "a", "completed", 4, 1),
     Rcpt("r3", "a", "failed", 1, 0), Rcpt("r1", "b", "completed", 1, 1),
     Rcpt("r4", "b", "runner_stopped", 1, Unknown)}
FlatPrerequisites == {[id |-> "p", payload |-> 1], [id |-> "p", payload |-> 2]}
FlatWindow == [x \in {"x"} |-> [issued |-> 1, expires |-> 2]]

\* No approvals, no prerequisites.
NoWindow == [x \in {} |-> [issued |-> 0, expires |-> 0]]
====
