CONSTANTS
    ann = ann
    Personas = {ann}
    Panel <- Solo
    BadTag = BadTag
    Backlog <- Foreign
    Notes = {}
    MaxQueries = 2
    MaxSubmits = 0
    MaxLog = 5
    ConsumerFaults = {"crash", "wipe", "commit"}
    ListenerFaults = {"crash", "walk", "commit", "predictLost"}
    Watched = {}
SPECIFICATION Spec
INVARIANTS
    ShownAsAnswered
PROPERTIES
    BoardRefined
    ServiceRefined
