\* An interrupt during the close of a replay's channel.
SPECIFICATION WorkerSafety
CONSTANTS
    Plans <- ReplayOnly
    MaxCalls = 1
INVARIANT InterruptsAreUncertain
CHECK_DEADLOCK FALSE
