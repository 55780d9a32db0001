SPECIFICATION Spec
CONSTANTS
    a1 = a1  a2 = a2
    w1 = w1
    g1 = g1  g2 = g2
    None = None
    Wallets = {w1}
    Guids = {g1, g2}
    Accepts = {a1, a2}
    NewQtys = {1}
    UpdateQtys <- mcUpdates
    AcceptQtys = {1}
    ExpirationDepth = 4
    MaxReorg = 1
    MaxCheck = 2
    MaxTxs = 5
    MaxSent = 1
    MaxHeight = 4
    MaxUpsets = 1
SYMMETRY Symmetries
INVARIANTS TypeOK VersionsExact AcceptsExact NeverOversold PayConnects FeesNewestFirst
CHECK_DEADLOCK FALSE
