SPECIFICATION Spec
CONSTANTS
    Absent = Absent
    Acks <- SomeAcks
    Fallback = 8
    Width = 7
    Timeout = 1
    FirstBackoff = 1
    MaxBackoff = 4
    MaxErrors = 1
    MaxGarbage = 1
CHECK_DEADLOCK FALSE
INVARIANTS TypeOK TransportPaired RenewalSchedule ExpiryBounded
PROPERTIES  Stops Acquires IsManagedClient
