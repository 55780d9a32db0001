SPECIFICATION Spec
CONSTANTS
    x = x  y = y  z = z  v = v  s1 = s1  s2 = s2
    IPs = {x, y, z, v}
    Services <- mcServices
    Sources = {s1, s2}
    NewBuckets = {1, 2}
    TriedBuckets = {1}
    GetNewBucket <- mcNewBucket
    GetTriedBucket <- mcTriedBucket
    NewBucketSize = 1
    TriedBucketSize = 2
    BucketsPerAddress = 2
    InspectOnEvict = 2
    GetAddrPct = 50
    Times = {1}
    MaxIds = 4
SYMMETRY Symmetries
INVARIANTS TypeOK Consistent FileExact
PROPERTY TriedKept
