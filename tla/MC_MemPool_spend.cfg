SPECIFICATION Spec
CONSTANTS
    gen = gen  cb = cb  a = a  b = b  c = c  d = d  p = p
    gen1 = gen1  a1 = a1  b1 = b1  cb1 = cb1
    Txs <- mcTxs
    Outpoints = {gen1, a1, b1, cb1}
    Creator <- mcCreator
    Ins <- mcIns
    Coinbase <- mcCoinbase
    AliasTxs = {a}
    WalletTxs = {b}
    vtxPrev <- mcPrev
    LargeTxs = {d}
    Base <- mcBase
    BaseHeight = 1
    Branches <- spendBranches
    Maturity = 2
    MaxOrphans = 1
    MaxHeight = 3
INVARIANTS NextTxExact PoolUnconfirmed InputsAvailable OrphanMapsExact
