SPECIFICATION HeapsSpec
CONSTANTS
    Queues = {1}
    Nodes = {a, b, c, d}
    Values = {1, 2}
    Worlds <- MeldWorlds
    Null = Null
    Arities = {0}
    MaxSize = 0
    Budgets = {}
SYMMETRY Symmetry
INVARIANTS NodesOwned
