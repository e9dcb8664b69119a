SPECIFICATION Spec
CONSTANTS
    MaxCommits = 2
    MaxDeploys = 1
    Faults = {"build"}
INVARIANTS
    SuccessIsLive
CHECK_DEADLOCK FALSE
