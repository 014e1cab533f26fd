\* Nested attempts with narrowed limits under admission, receipts, release,
\* cancellation and restart.
SPECIFICATION Spec
CONSTANTS
    Attempts <- TreeAttempts
    Requests <- TreeRequests
    LimitChoices <- TreeLimits
    Policy <- TreePolicy
    Receipts <- TreeReceipts
    Prerequisites = {}
    Approvals = {}
    Window <- NoWindow
    Unknown = Unknown
    MaxTime = 3
INVARIANT CountsHold
INVARIANT OutputHolds
INVARIANT TreeSound
INVARIANT NothingStranded
PROPERTY OverageBlocksAdmission
