SPECIFICATION Spec
CONSTANTS
    Kinds = {"list", "forward_list"}
    Lists = {a, b}
    Nodes = {n1, n2, n3, n4}
    Null = Null
    Husk = 0
    Resources = {"default", "other"}
    DefaultResource = "default"
    Elements = {1, 2}
    MaxInput = 2
    Fuels = {1}
    Unlimited = 1000
    Faults = {}
SYMMETRY Symmetry
INVARIANTS TypeOK LinksExact NodesOwned PromisesKept
