------------------------------ MODULE MCSorted ------------------------------
(* The sorted containers for TLC: a run has two small trees, of one of the *)
(* worlds, a flat container, or one larger tree for each policy.           *)
EXTENDS BinarySearchTree

CONSTANTS
    Containers,                                   \* of "trees" and "flat"
    FlatKeys, MaxEntries, MaxGiven, MaxOther, Fuels, Unlimited   \* of a flat container

VARIABLES
    on, bag,   \* bag is what the trees contain, worked out once a step
    unique, mapped, keys, values, broken, kept

flatVars == <<unique, mapped, keys, values, broken, kept>>
allVars  == <<on, bag, vars, flatVars>>

Flat == INSTANCE FlatContainer WITH Keys <- FlatKeys

Alone(p, n) == [policy |-> p, unique |-> TRUE, trees |-> {CHOOSE t \in Trees : TRUE},
                nodes |-> 1 .. n, keys |-> 1 .. n, handles |-> FALSE]
Pair(p, u, n, k) == [policy |-> p, unique |-> u, trees |-> Trees,
                     nodes |-> 1 .. n, keys |-> 1 .. k, handles |-> TRUE]

AloneWorlds == {Alone("rb", 9), Alone("avl", 8), Alone("splay", 6), Alone("treap", 5),
                Alone("order_statistic", 5), Alone("size_balanced", 8),
                Alone("weight_balanced", 7)}

PairWorlds == {Pair("rb", TRUE, 3, 3), Pair("rb", FALSE, 3, 2), Pair("splay", TRUE, 3, 2),
               Pair("splay", FALSE, 3, 2), Pair("weight_balanced", TRUE, 3, 2)}

SortedInit ==
    /\ on \in Containers
    /\ Init /\ Flat!Init
    /\ bag = [t \in Trees |-> Contents(heap, t)]
    /\ on = "trees" => unique /\ mapped
    /\ on = "flat" => world = CHOOSE w \in Worlds : TRUE

SortedNext ==
    \/ on = "trees" /\ Next /\ bag' = [t \in Trees |-> Contents(heap', t)] /\ UNCHANGED <<on, flatVars>>
    \/ on = "flat" /\ Flat!Next /\ UNCHANGED <<on, bag, vars>>

SortedSpec == SortedInit /\ [][SortedNext]_allVars

-----------------------------------------------------------------------------
(* Trees and flat containers are what they are declared to be.             *)
SortedTypeOK == TypeOK /\ Flat!TypeOK

(* What validate() checks.  Of a tree: the policy's invariant, links both  *)
(* ways, exactly size() nodes in order, cached ends, one owner of every    *)
(* node.  Of a flat container: ascending keys, each beside its own value,  *)
(* after calls that throw, too.                                            *)
SortedValidates == Validates /\ OneOwner /\ Flat!Validates

(* The trees are bags of keys, sets if the keys are unique: what is found, *)
(* inserted, refused, erased, extracted and merged is what it should be,   *)
(* whatever the policy makes of the shape.                                 *)
Container == INSTANCE KeyedContainer WITH
    Containers <- Trees,
    MaxCount <- Cardinality(Nodes),
    unique <- [t \in Trees |-> world.unique],
    count <- bag,
    handle <- IF handle = Null THEN Null ELSE heap.key[handle]

ContainerSpec == Container!Spec

(* Each call of a flat container does what is promised of it, a bulk       *)
(* insertion what its insertions do one by one, in order; one that throws  *)
(* undoes what it did or empties the container.                            *)
FlatPromises == Flat!PromisesKept

=============================================================================
