SPECIFICATION Spec
CONSTANTS
    Configs = {c1, c2, c3}
    Default = c1
    NoCfg = NoCfg
    Torn = Torn
    MaxRevisions = 2
    MaxSaves = 5
    MaxErrors = 2
    MaxCrashes = 2
CHECK_DEADLOCK FALSE
INVARIANTS TypeOK Durable HistoryShape RevisionFaithful
