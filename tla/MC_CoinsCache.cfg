SPECIFICATION Spec
CONSTANTS
    base = base  one = one  two = two  both = both  next = next
    Absent = Absent
    Txs <- mcTxs
    Ins <- mcIns
    Outs <- mcOuts
    Bodies <- mcBodies
    MaxHeight = 3
    MaxBlocks = 5
INVARIANTS TypeOK LayersExact DisconnectsClean
PROPERTY ImplementsStore
