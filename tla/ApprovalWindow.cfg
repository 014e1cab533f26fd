\* One call and one local consumer over an envelope that becomes valid and expires
\* and one no trusted key signed, with matching and mismatched plans and workers.
CONSTANTS
    Auths = {"a2", "a3"}
    Requests = {"q1"}
    Plans = {"p1", "p2"}
    Snapshots = {"s1", "s2"}
    Workers = {"w1", "w2"}
    Authorities = {h1}
    Calls = {k1}
    Locals = {l1}
    SnapshotOf <- MCSnapshotOf
    Envelope <- MCEnvelope
    Trusted = {"a2"}
    AuthorityWorker <- MCAuthorityWorker
    MinRemaining = 1
    StoreFaults = TRUE
    MaxTime = 2
SPECIFICATION LiveSpec
INVARIANT RowsBindEnvelope
PROPERTY ImplementsOneTimeGrant
PROPERTY AuthorityReturns
PROPERTY CallsTerminate
\* The one call finishes and the clock is bounded.
CHECK_DEADLOCK FALSE
