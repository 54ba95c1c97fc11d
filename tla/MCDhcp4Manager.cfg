SPECIFICATION ManagerSpec
CONSTANTS
    Ifaces = {eth0, eth1}
    MaxStarts = 2
CHECK_DEADLOCK FALSE
INVARIANTS OneClient LeaseHasHolder
PROPERTY Cleared
