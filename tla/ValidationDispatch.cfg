\* Two calls with one attempt identifier, a dependent controlled proof, lost
\* and ambiguous commits, crashes, cancellation and restarts.
SPECIFICATION DispatchSpec
CONSTANTS
    Attempts = {"a", "b"}
    Requests <- TwoRequests
    LimitChoices = {}
    Policy <- Limit
    Receipts <- AllReceipts
    Prerequisites <- OnePrerequisite
    Approvals = {"x", "y"}
    Window <- TwoWindows
    Unknown = Unknown
    MaxTime = 1
    Calls = {"c1", "c2", "c3"}
    RequestOf <- ThreeCalls
    Proof = {"c3"}
    Held <- ThreeHeld
    Grants <- ThreeGrants
INVARIANT ProviderOnce
INVARIANT ProbeAccounted
INVARIANT HonestVerdict
CHECK_DEADLOCK FALSE
