SPECIFICATION Spec
CONSTANTS
    None = None
    Targets <- SomeTargets
    Boot <- SomeBoot
    Foreign <- SomeForeign
    Unit = "unit"
    MaxChanges = 2
    MaxForeign = 1
    MaxFaults = 1
INVARIANT TypeOK
PROPERTIES VerifiedMeans ForeignKept 
