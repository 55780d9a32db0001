SPECIFICATION Spec
CONSTANTS
    Holders = {h1, h2}
    Keypool = 1
    MaxKeys = 5
SYMMETRY Sym
INVARIANTS
    NeverTwice
    PoolReadable
    KeysKept
PROPERTY NumbersApart
