\* Crashes, failing journal writes and file-system calls, and other processes
\* that swap entries, over a workspace, a directory and a file in it and a declared
\* target, under fair scheduling of the manager.
CONSTANTS
    Effects = {"d", "e", "f", "g"}
    Kind <- MCKind
    Ancestors <- MCAncestors
    Declared = {"g"}
    Faults = TRUE
SPECIFICATION LiveSpec
INVARIANT DeletesOnlyOwn
INVARIANT TrackedUntilGone
INVARIANT HonestReceipt
PROPERTY AncestorPreserved
PROPERTY StatusForward
PROPERTY RollbackTerminates
