SPECIFICATION Spec
CONSTANTS
    coin1 = coin1  coin2 = coin2
    new1 = new1  act1 = act1  upd1 = upd1  alt1 = alt1
    new2 = new2  act2 = act2
    Txs <- mcTxs
    Base <- failBase
    Op <- mcOp
    Name <- mcName
    Input <- mcInput
    Funding <- mcFunding
    Bodies <- failBodies
    Seals = {TRUE, FALSE}
    MinActivateDepth = 2
    ExpirationDepth = 4
    CheckDepth = 2
    CheckLevels = {3}
    LocatorPeriod = 3
    MaxBlocks = 6
INVARIANTS TypeOK BestUnlessObstructed
PROPERTY ConnectProgress
