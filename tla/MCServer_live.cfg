CONSTANTS
    ann = ann
    Personas = {ann}
    Panel <- Solo
    BadTag = BadTag
    Backlog <- Foreign
    Notes = {}
    MaxQueries = 1
    MaxSubmits = 1
    MaxLog = 4
    ConsumerFaults = {"crash", "wipe", "commit"}
    ListenerFaults = {"crash", "walk", "commit", "predictLost"}
    Watched = {1}
SPECIFICATION FairSpec
PROPERTIES
    EndToEnd
    PageSettles
