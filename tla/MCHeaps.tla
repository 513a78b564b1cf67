------------------------------ MODULE MCHeaps -------------------------------
(* Priority queues for TLC: a run has node-based queues, alone and growing *)
(* or two that are joined, swapped and copied, or an array-based one.      *)
EXTENDS PriorityQueue

CONSTANTS Arities, MaxSize, Budgets

VARIABLES on, arity, at, intact

arrayVars == <<arity, at, intact>>
allVars   == <<on, vars, arrayVars>>

Arrays == INSTANCE ArrayPriorityQueue WITH Values <- {1, 2, 3}, MovedFrom <- 0

ASSUME ArraysAssumption == Arrays!ValuesAssumption

World(p, queues, n, values, budgets) ==
    [policy |-> p, queues |-> queues, most |-> n, values |-> values, budgets |-> budgets]

Never == {Unlimited}

AloneWorlds ==
    {World("pairing", {1}, 5, {1, 2}, {0, 1, 2, Unlimited}),
     World("pairing", {1}, 4, {1, 2, 3}, {1, Unlimited}),
     World("binomial", {1}, 5, {1, 2}, {0, 1, 2, Unlimited}),
     World("fibonacci", {1}, 5, {1, 2}, {1, 3, 4, Unlimited}),
     World("fibonacci", {1}, 4, {1, 2, 3}, {2, Unlimited}),
     World("leftist", {1}, 5, {1, 2, 3}, Never),
     World("skew", {1}, 5, {1, 2, 3}, Never)}

PairWorlds ==
    {World("pairing", {1, 2}, 3, {1, 2}, {0, 1, Unlimited}),
     World("binomial", {1, 2}, 4, {1, 2}, {0, 1, Unlimited}),
     World("fibonacci", {1, 2}, 3, {1, 2}, {0, 2, Unlimited}),
     World("leftist", {1, 2}, 4, {1, 2}, Never),
     World("skew", {1, 2}, 4, {1, 2}, Never)}

NodeWorlds == AloneWorlds \cup PairWorlds

(* The two heaps that meld recursively, under a comparator that throws *)
MeldWorlds == {World(p, {1}, 4, {1, 2}, {1, Unlimited}) : p \in {"leftist", "skew"}}

Symmetry == Permutations(Nodes)

HeapsInit ==
    /\ on \in {"nodes", "array"}
    /\ Init /\ Arrays!Init
    /\ on = "array" => world = CHOOSE w \in Worlds : TRUE
    /\ on = "nodes" => arity = 0

HeapsNext ==
    \/ on = "nodes" /\ Next /\ UNCHANGED <<on, arrayVars>>
    \/ on = "array" /\ Arrays!Next /\ UNCHANGED <<on, vars>>

HeapsSpec == HeapsInit /\ [][HeapsNext]_allVars

-----------------------------------------------------------------------------
(* Every variable of the queues has its type.                              *)
HeapsTypeOK == TypeOK /\ Arrays!TypeOK

(* The policies' verify(), of whichever kind of queue.                     *)
HeapsVerify == Verifies /\ Arrays!ArrayOrdered

(* pop, pop_max and pop_min of the arrays remove an element of that rank.  *)
ArraySpec == Arrays!ValueSpec

=============================================================================
