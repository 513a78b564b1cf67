SPECIFICATION SortedSpec
CONSTANTS
    Containers = {"trees"}
    Trees = {a}
    Nodes = {1, 2, 3, 4, 5, 6, 7, 8, 9}
    Keys = {1, 2, 3, 4, 5, 6, 7, 8, 9}
    Priorities = {1, 2}
    Worlds <- AloneWorlds
    MovedFrom = MovedFrom
    Null = Null
    FlatKeys = {1}
    MaxEntries = 1
    MaxGiven = 1
    MaxOther = 1
    Fuels = {0}
    Unlimited = 1000
INVARIANTS Validates LookupIsExact
PROPERTY IteratorsSurvive
