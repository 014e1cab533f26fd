\* Calls that share a grant, an envelope that shares its authorization, late gateway
\* threads, ambiguous commits, crashes, cancellation and restarts.
SPECIFICATION LiveSpec
CONSTANTS
    Attempts = {"a"}
    Requests <- OneRequest
    LimitChoices <- NarrowOnly
    Policy <- Wide
    Receipts <- LateReceipt
    Prerequisites = {}
    Approvals = {"x"}
    Window <- OneWindow
    Unknown = Unknown
    MaxTime = 2
    Senders = {"c1", "c2", "e"}
    GrantOf <- PresentedGrants
    Cases = {"c1", "c2"}
    CaseRequest <- SameRequest
    CaseLimits <- ChildLimits
    Estimate = 1
INVARIANT HandlerOnce
INVARIANT SendStaysCharged
INVARIANT EvidenceHonest
INVARIANT CleanupExactlyOnce
 
CHECK_DEADLOCK FALSE
