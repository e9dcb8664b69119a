CONSTANTS
    ann = ann
    bob = bob
    Personas = {ann}
    Panel <- Solo
    BadTag = BadTag
    DefaultEngine = "model"
    MaxQueries = 2
    MaxSubmits = 2
    MaxLog = 8
    Faults = {}
SPECIFICATION Spec
INVARIANTS
    EngineHonoured
