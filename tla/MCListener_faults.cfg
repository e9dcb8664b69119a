CONSTANTS
    ann = ann
    bob = bob
    Personas = {ann, bob}
    Panel <- Pair
    BadTag = BadTag
    DefaultEngine = "mock"
    MaxQueries = 2
    MaxSubmits = 1
    MaxLog = 4
    Faults = {"create", "walk", "commit", "check", "panel", "batch", "batchLost", "aggregate", "predict", "predictLost", "rival", "drop", "spawn", "files", "refused", "remove", "crash"}
SPECIFICATION Spec
INVARIANTS
    TypeOK
    OnePrediction
    CountedWereQueued
    HistoryNotAnswered
    LabelTrue
