SPECIFICATION SortedSpec
CONSTANTS
    Containers = {"trees", "flat"}
    Trees = {a, b}
    Nodes = {1, 2, 3}
    Keys = {1, 2, 3}
    Priorities = {1, 2}
    Worlds <- PairWorlds
    MovedFrom = MovedFrom
    Null = Null
    FlatKeys = {1, 2, 3}
    MaxEntries = 4
    MaxGiven = 3
    MaxOther = 2
    Fuels = {0, 1, 2, 4, 7, 11}
    Unlimited = 1000
INVARIANTS SortedTypeOK SortedValidates PositionsAreExact FlatPromises
PROPERTY ContainerSpec
