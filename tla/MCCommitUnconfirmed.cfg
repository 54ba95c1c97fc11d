SPECIFICATION Spec
CONSTANTS
    Configs = {c1, c2}
    Reqs = {r1, r2}
    Recs = {k1}
    Txns = {t1}
    Windows = {w1, w2}
    NoCfg = NoCfg
    NoTxn = NoTxn
    NoWin = NoWin
    Partial = Partial
    MaxRequests = 4
    MaxFaults = 0
    MaxCrashes = 0
SYMMETRY Symmetry
INVARIANT UnconfirmedNotCommitted
