SPECIFICATION Spec
CONSTANTS
    Configs = {c1, c2}
    Reqs = {r1, r2}
    Recs = {k1}
    Txns = {}
    Windows = {w1, w2}
    NoCfg = NoCfg
    NoTxn = NoTxn
    NoWin = NoWin
    Partial = Partial
    MaxRequests = 2
    MaxFaults = 1
    MaxCrashes = 1
INVARIANT TypeOK
PROPERTIES WindowEnds Converges
