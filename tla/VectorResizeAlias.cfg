SPECIFICATION SequencesSpec
CONSTANTS
    Containers = {"arrays"}
    Kinds = {"vector"}
    Resources = {r1, r2}
    MaxSize = 6
    BlockSize = 3
    InitialMapCapacity = 1
    LargestMap = 3
    MaxInserted = 2
    Fuels = {}
    Unlimited = 1000
    Faults = {"resize"}
    Objects = {o1, o2}
    Values = {v1, v2}
    MaxCapacity = 3
    MaxDrops = 1
    NoElement = noElement
    Policies = {"overwrite", "reject"}
    AssignOntoElements = FALSE
INVARIANT PromisesKept
CHECK_DEADLOCK FALSE
