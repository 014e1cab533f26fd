\* Two calls with one attempt identifier.
SPECIFICATION DispatchSpec
CONSTANTS
    Attempts = {"a", "b"}
    Requests <- TwoRequests
    LimitChoices = {}
    Policy <- Limit
    Receipts <- AllReceipts
    Prerequisites <- OnePrerequisite
    Approvals = {"x", "y"}
    Window <- TwoWindows
    Unknown = Unknown
    MaxTime = 1
    Calls = {"c1", "c2", "c3"}
    RequestOf <- ThreeCalls
    Proof = {"c3"}
    Held <- ThreeHeld
    Grants <- ThreeGrants
INVARIANT ReusedAttemptFailsBeforeApproval
CHECK_DEADLOCK FALSE
