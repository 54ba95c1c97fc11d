\* Five events through a buffer of three, three audit records through a buffer of
\* two, two appends that fail and two crashes.
SPECIFICATION Spec
CONSTANTS
    EventRingSize = 3
    AuditRingSize = 2
    Limits = {0, 1, 2}
    MaxEvents = 5
    MaxAudits = 3
    MaxErrors = 2
    MaxCrashes = 2
INVARIANTS NewestFirst ReloadFaithful 
