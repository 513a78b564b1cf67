SPECIFICATION SequencesSpec
CONSTANTS
    Containers = {"arrays", "rings"}
    Kinds = {"vector", "deque"}
    Resources = {r1, r2}
    MaxSize = 6
    BlockSize = 3
    InitialMapCapacity = 1
    LargestMap = 3
    MaxInserted = 2
    Fuels = {0, 1, 2, 4}
    Unlimited = 1000
    Faults = {}
    Objects = {o1, o2}
    Values = {v1, v2}
    MaxCapacity = 3
    MaxDrops = 1
    NoElement = noElement
    Policies = {"overwrite", "reject"}
    AssignOntoElements = FALSE
SYMMETRY Symmetry
INVARIANTS RingIsSafe SlotsExact PromisesKept IteratorsReach
PROPERTIES DequeSpec
