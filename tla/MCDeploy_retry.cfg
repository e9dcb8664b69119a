SPECIFICATION Spec
CONSTANTS
    MaxCommits = 3
    MaxDeploys = 3
    Faults = {"cut", "stop", "build", "down", "reboot", "older"}
INVARIANTS
    SuccessIsBuilt
CHECK_DEADLOCK FALSE
