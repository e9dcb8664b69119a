CONSTANTS
    Pipe = 2
    MaxInput = 4
    MaxSaid = 4
    Limit = 3
    Faults = {"hang", "fail", "garbled", "heir"}
SPECIFICATION FairSpec
INVARIANTS
    WholeReply
    ChildCollected
PROPERTIES
    ModelCallEnds
    AggregationEnds
CHECK_DEADLOCK FALSE
