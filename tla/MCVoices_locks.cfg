CONSTANTS
    Members = {ann, bob}
    Outlaws = {bob}
    Notes = {}
    MaxEntries = 4
    Faults = {"crash", "wipe", "sync", "unreadable"}
SPECIFICATION Spec
INVARIANTS
    TypeOK
    ChoiceSticks
    SeededOutlawWithheld
