\* Flat attempts with approvals, prerequisites, partial, repeated and
\* conflicting receipts.
SPECIFICATION Spec
CONSTANTS
    Attempts <- FlatAttempts
    Requests <- FlatRequests
    LimitChoices = {}
    Policy <- FlatPolicy
    Receipts <- FlatReceipts
    Prerequisites <- FlatPrerequisites
    Approvals = {"x"}
    Window <- FlatWindow
    Unknown = Unknown
    MaxTime = 3
INVARIANT EvidenceSound
INVARIANT ReceiptsMatchRows
PROPERTY ChargesMoveForward
PROPERTY ReportsStable
