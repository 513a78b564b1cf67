SPECIFICATION HeapsSpec
CONSTANTS
    Queues = {1, 2}
    Nodes = {a, b, c, d, e}
    Values = {1, 2, 3}
    Worlds <- NodeWorlds
    Null = Null
    Arities = {0, 2, 3}
    MaxSize = 8
    Budgets = {0, 1, 2, 1000}
SYMMETRY Symmetry
INVARIANTS HeapsTypeOK NodesOwned HeapsVerify
PROPERTIES HandleSpec ArraySpec
