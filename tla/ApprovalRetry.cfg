\* Two calls that may carry one request_id with two documents, two authority
\* processes, and a store that never fails.
CONSTANTS
    Auths = {"a1"}
    Requests = {"q1", "q2"}
    Plans = {"p1", "p1b"}
    Snapshots = {"s1", "s2"}
    Workers = {"w1"}
    Authorities = {h1, h2}
    Calls = {k1, k2}
    Locals = {}
    SnapshotOf <- MCSnapshotOf
    Envelope <- MCEnvelope
    Trusted = {"a1"}
    AuthorityWorker <- MCAuthorityWorker
    MinRemaining = 1
    StoreFaults = FALSE
    MaxTime = 1
SYMMETRY MCSymmetry
SPECIFICATION Spec
\* The calls are finitely many and the clock is bounded.
CHECK_DEADLOCK FALSE
PROPERTY ExactRetryAnswered
INVARIANT HoldersAgree
