SPECIFICATION FairSpec
CONSTANTS
    MaxLen = 5
    Faults <- Known
INVARIANTS
    NeverSkipped
PROPERTIES
    Recovers
