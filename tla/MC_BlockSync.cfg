SPECIFICATION Spec
CONSTANTS
    a = a  b = b  None = None
    Nodes = {a, b}
    Links <- mcLinks
    Blocks <- mcBlocks
    Have <- mcHave
    nLimit = 2
    SyncWindow = 2
    RelayWindow = 3
    MaxDrops = 1
INVARIANTS TypeOK NoneLeftBehind
PROPERTY InSyncUnlessStalled
CHECK_DEADLOCK FALSE
