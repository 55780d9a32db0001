SPECIFICATION Spec
CONSTANTS
    coin1 = coin1  coin2 = coin2
    new1 = new1  act1 = act1  upd1 = upd1  alt1 = alt1
    new2 = new2  act2 = act2
    Txs <- mcTxs
    Base <- reorgBase
    Op <- mcOp
    Name <- mcName
    Input <- mcInput
    Funding <- mcFunding
    Bodies <- reorgBodies
    Seals = {TRUE}
    MinActivateDepth = 1
    ExpirationDepth = 4
    CheckDepth = 2
    CheckLevels = {4}
    LocatorPeriod = 3
    MaxBlocks = 6
INVARIANTS CoinsExact RestartVerifies IndexExact TemplateConnectsUnlessExpiring
