\* Two calls, two authority processes and a local consumer on one authorization.
CONSTANTS
    Auths = {"a1"}
    Requests = {"q1", "q2"}
    Plans = {"p1"}
    Snapshots = {"s1", "s2"}
    Workers = {"w1"}
    Authorities = {h1, h2}
    Calls = {k1, k2}
    Locals = {l1}
    SnapshotOf <- MCSnapshotOf
    Envelope <- MCEnvelope
    Trusted = {"a1"}
    AuthorityWorker <- MCAuthorityWorker
    MinRemaining = 1
    StoreFaults = TRUE
    MaxTime = 1
SYMMETRY MCSymmetry
SPECIFICATION Spec
INVARIANT SingleUse
INVARIANT GrantedIsDurable
PROPERTY ClaimsAreFinal
\* The calls are finitely many and the clock is bounded.
CHECK_DEADLOCK FALSE
