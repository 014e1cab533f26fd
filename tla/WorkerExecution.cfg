\* Mediated and adapter operations, failures at every step, interrupts, cancellation,
\* deadlines, a hanging broker, crashes and a second call.
SPECIFICATION WorkerSpec
CONSTANTS
    Plans <- MixedPlans
    MaxCalls = 2
INVARIANT HonestStatus
INVARIANT AttemptsReported
INVARIANT NotDispatchedIsFinal
INVARIANT SuccessIsComplete
PROPERTY CallsEnd
CHECK_DEADLOCK FALSE
