CONSTANTS
    ann = ann
    bob = bob
    Personas = {ann}
    Panel <- Solo
    BadTag = BadTag
    DefaultEngine = "mock"
    MaxQueries = 2
    MaxSubmits = 1
    MaxLog = 8
    Faults = {}
SPECIFICATION Spec
INVARIANTS
    AnsweredSinceStart
