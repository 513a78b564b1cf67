SPECIFICATION HashingSpec
CONSTANTS
    Containers = {"tables", "set"}
    Tables = {t1, t2}
    Nodes = {n1, n2, n3}
    Keys = {0, 1}
    MovedFrom = 3
    Hashers = {"spread", "constant"}
    Hash <- MCHash
    BucketCounts = {2, 23, 29}
    LoadFactors = {1, 8}
    Unit = 8
    Rounded <- MCRounded
    Precision = 16
    MaxNumber = 240
    Requests = {0, 5}
    Null = Null
    SetKeys = {1, 2, 3, 4}
    HalfWidth = 16
    min_bucket_count = 4
    MaxSlots = 16
    SetLoadFactors = {6, 8, 14}
    SetRequests = {0, 3, 5}
    Empty = Empty
    Tombstone = Tombstone
SYMMETRY Symm
INVARIANTS TablesValidate LookupIsExact SetIsSound
PROPERTIES ContainerSpec RehashOnlyWhenDue SetSpec
