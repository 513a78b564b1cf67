--------------------------- MODULE PriorityQueue ----------------------------
(***************************************************************************)
(* chaistl::priority_queue over its node-based heap policies               *)
(* (containers/heap/priority_queue.hpp and forest.hpp).  Two queues of     *)
(* one policy share the nodes.  Every operation that compares elements is  *)
(* given a budget of comparisons, after which the user's comparator        *)
(* throws; an allocation or a construction that throws before anything has *)
(* changed is no step.                                                     *)
(***************************************************************************)
EXTENDS HeapNodes, SequencesExt, FiniteSetsExt

CONSTANTS
    Queues, Nodes, Values,
    Worlds     \* a policy, the budgets of its comparators, the queues and
               \* values used, and how many elements there are at most

Policies  == {"pairing", "binomial", "fibonacci", "leftist", "skew"}
Mutable   == {"pairing", "binomial"}
Unlimited == 1000

ASSUME WorldsAssumption ==
    /\ Null \notin Nodes /\ Values \subseteq Nat \ {0}
    /\ \A w \in Worlds : /\ w.policy \in Policies /\ w.queues \subseteq Queues /\ w.most \in Nat
                         /\ w.values \subseteq Values
                         /\ w.budgets \subseteq 0 .. Unlimited

VARIABLES
    world,     \* which of the worlds this is, for good
    link,      \* prev, next, child, rank and value of the nodes
    root,      \* root of each queue's forest
    count,     \* count of each queue's forest
    ordered    \* whether no insertion into the queue's nodes threw midway

vars == <<world, link, root, count, ordered>>

Pairing   == INSTANCE PairingHeap
Binomial  == INSTANCE BinomialHeap
Fibonacci == INSTANCE FibonacciHeap
Leftist   == INSTANCE LeftistHeap WITH KeepsRanks <- TRUE
Skew      == INSTANCE LeftistHeap WITH KeepsRanks <- FALSE

insert(h, n) ==
    CASE world.policy = "pairing"   -> Pairing!insert(h, n)
      [] world.policy = "binomial"  -> Binomial!insert(h, n)
      [] world.policy = "fibonacci" -> Fibonacci!insert(h, n)
      [] world.policy = "leftist"   -> Leftist!insert(h, n)
      [] world.policy = "skew"      -> Skew!insert(h, n)

join(h, other) ==
    CASE world.policy = "pairing"   -> Pairing!join(h, other)
      [] world.policy = "binomial"  -> Binomial!join(h, other)
      [] world.policy = "fibonacci" -> Fibonacci!join(h, other)
      [] world.policy = "leftist"   -> Leftist!join(h, other)
      [] world.policy = "skew"      -> Skew!join(h, other)

extract_top(h) ==
    CASE world.policy = "pairing"   -> Pairing!detach(h, h.root)
      [] world.policy = "binomial"  -> Binomial!extract_top(h)
      [] world.policy = "fibonacci" -> Fibonacci!extract_top(h)
      [] world.policy = "leftist"   -> Leftist!extract_top(h)
      [] world.policy = "skew"      -> Skew!extract_top(h)

detach(h, n) ==
    IF world.policy = "pairing" THEN Pairing!detach(h, n) ELSE Binomial!detach(h, n)

verify(h) ==
    CASE world.policy = "pairing"   -> Pairing!verify(h)
      [] world.policy = "binomial"  -> Binomial!verify(h)
      [] world.policy = "fibonacci" -> Fibonacci!verify(h)
      [] world.policy = "leftist"   -> Leftist!verify(h)
      [] world.policy = "skew"      -> Skew!verify(h)

top(h) == IF world.policy \in {"binomial", "fibonacci"} THEN find_top(h) ELSE h.root

-----------------------------------------------------------------------------
Heap(q, budget) ==
    [prev |-> link.prev, next |-> link.next, child |-> link.child, rank |-> link.rank,
     value |-> link.value, root |-> root[q], budget |-> budget, thrown |-> FALSE]

Links(h) == [prev |-> h.prev, next |-> h.next, child |-> h.child, rank |-> h.rank,
             value |-> h.value]

Elements(q) == ToSet(preorder(link, root[q]))
Free        == {n \in Nodes : link.value[n] = 0}

(* The links and ranks of nodes outside the forests mean nothing. *)
Destroyed(h, S) ==
    [h EXCEPT !.prev  = [n \in Nodes |-> IF n \in S THEN Null ELSE @[n]],
              !.next  = [n \in Nodes |-> IF n \in S THEN Null ELSE @[n]],
              !.child = [n \in Nodes |-> IF n \in S THEN Null ELSE @[n]],
              !.rank  = [n \in Nodes |-> IF n \in S THEN 0 ELSE @[n]],
              !.value = [n \in Nodes |-> IF n \in S THEN 0 ELSE @[n]]]

Become(q, h, many) ==
    /\ link' = Links(h)
    /\ root' = [root EXCEPT ![q] = h.root]
    /\ count' = [count EXCEPT ![q] = many]
    /\ UNCHANGED world

(* Only the pairing heap gives up its order when an insertion throws. *)
InsertedInto(q, h) ==
    ordered' = [ordered EXCEPT ![q] = @ /\ ~(h.thrown /\ world.policy = "pairing")]

Init ==
    /\ world \in Worlds
    /\ link = [prev  |-> [n \in Nodes |-> Null], next  |-> [n \in Nodes |-> Null],
               child |-> [n \in Nodes |-> Null], rank  |-> [n \in Nodes |-> 0],
               value |-> [n \in Nodes |-> 0]]
    /\ root = [q \in Queues |-> Null]
    /\ count = [q \in Queues |-> 0]
    /\ ordered = [q \in Queues |-> TRUE]

-----------------------------------------------------------------------------
(* push, emplace, and each element of push_range: the node is counted, and *)
(* stays, whether or not the comparator throws while it is linked.         *)
Push(q, v, budget) ==
    /\ Cardinality(Nodes \ Free) < world.most
    /\ LET n == CHOOSE m \in Free : TRUE
           h == insert([Heap(q, budget) EXCEPT !.value[n] = v], n)
       IN  Become(q, h, count[q] + 1) /\ InsertedInto(q, h)

(* A throw changes the shape of the forest at most. *)
Pop(q, budget) ==
    /\ count[q] > 0
    /\ LET h == extract_top(Heap(q, budget))
       IN  IF h.thrown THEN Become(q, h, count[q])
           ELSE Become(q, Destroyed(h, {top(Heap(q, budget))}), count[q] - 1)
    /\ UNCHANGED ordered

Erase(q, n, budget) ==
    /\ n \in Elements(q)
    /\ LET h == detach(Heap(q, budget), n)
       IN  IF h.thrown THEN Become(q, h, count[q])
           ELSE Become(q, Destroyed(h, {n}), count[q] - 1)
    /\ UNCHANGED ordered

Modify(q, n, v, budget) ==
    /\ n \in Elements(q)
    /\ LET out == detach(Heap(q, budget), n)
           h   == insert([out EXCEPT !.value[n] = v], n)
       IN  IF out.thrown THEN Become(q, out, count[q]) /\ UNCHANGED ordered
           ELSE Become(q, h, count[q]) /\ InsertedInto(q, h)

(* Assigning the value throws: the element is gone. *)
ModifyLoses(q, n) ==
    /\ n \in Elements(q)
    /\ LET out == detach(Heap(q, Unlimited), n)
       IN  Become(q, Destroyed(out, {n}), count[q] - 1)
    /\ UNCHANGED ordered

Join(q, other, budget) ==
    /\ q # other
    /\ LET h == join(Heap(q, budget), root[other])
       IN  /\ link' = Links(h)
           /\ root' = [root EXCEPT ![q] = h.root, ![other] = Null]
           /\ count' = [count EXCEPT ![q] = @ + count[other], ![other] = 0]
           /\ ordered' = [ordered EXCEPT
                  ![q] = @ /\ ordered[other] /\ ~(h.thrown /\ world.policy = "pairing"),
                  ![other] = TRUE]
    /\ UNCHANGED world

Swap(q, other) ==
    /\ q # other
    /\ root' = [root EXCEPT ![q] = root[other], ![other] = root[q]]
    /\ count' = [count EXCEPT ![q] = count[other], ![other] = count[q]]
    /\ ordered' = [ordered EXCEPT ![q] = ordered[other], ![other] = ordered[q]]
    /\ UNCHANGED <<world, link>>

-----------------------------------------------------------------------------
(* clear(), the destructor, and a copy that fails *)
Clear(q) ==
    /\ Become(q, [Destroyed(Heap(q, 0), Elements(q)) EXCEPT !.root = Null], 0)
    /\ ordered' = [ordered EXCEPT ![q] = TRUE]

(* clone_nodes_from: the forest of `from` node by node, on free nodes of h *)
Cloned(h, from, fresh) ==
    LET old      == preorder(h, from)
        At(n)    == CHOOSE i \in DOMAIN old : old[i] = n
        Image(n) == IF n = Null THEN Null ELSE fresh[At(n)]
        Of(n)    == old[CHOOSE i \in DOMAIN fresh : fresh[i] = n]
        new      == {fresh[i] : i \in DOMAIN fresh}
    IN  [h EXCEPT !.prev  = [n \in Nodes |-> IF n \in new THEN Image(@[Of(n)]) ELSE @[n]],
                  !.next  = [n \in Nodes |-> IF n \in new THEN Image(@[Of(n)]) ELSE @[n]],
                  !.child = [n \in Nodes |-> IF n \in new THEN Image(@[Of(n)]) ELSE @[n]],
                  !.rank  = [n \in Nodes |-> IF n \in new THEN @[Of(n)] ELSE @[n]],
                  !.value = [n \in Nodes |-> IF n \in new THEN @[Of(n)] ELSE @[n]],
                  !.root  = Image(from)]

(* What q becomes when it has its own nodes destroyed and from's cloned. *)
Copied(q, from) ==
    LET bare == Destroyed(Heap(q, 0), Elements(q))
        room == {n \in Nodes : bare.value[n] = 0}
    IN  Cloned(bare, root[from], SubSeq(SetToSeq(room), 1, count[from]))

Room(q, from) == Cardinality(Nodes \ Free) - count[q] + count[from] <= world.most

CopyAssign(q, from) ==
    /\ q # from /\ Room(q, from)
    /\ Become(q, Copied(q, from), count[from])
    /\ ordered' = [ordered EXCEPT ![q] = ordered[from]]

(* Allocators that are unequal and stay: the values are moved into clones. *)
MoveRebuilds(q, from) ==
    /\ q # from /\ Room(q, from)
    /\ LET h == Destroyed(Copied(q, from), Elements(from))
       IN  /\ link' = Links(h)
           /\ root' = [root EXCEPT ![q] = h.root, ![from] = Null]
           /\ count' = [count EXCEPT ![q] = count[from], ![from] = 0]
    /\ ordered' = [ordered EXCEPT ![q] = ordered[from], ![from] = TRUE]
    /\ UNCHANGED world

(* take_storage_from *)
MoveAssign(q, from) ==
    /\ q # from
    /\ link' = Links(Destroyed(Heap(q, 0), Elements(q)))
    /\ root' = [root EXCEPT ![q] = root[from], ![from] = Null]
    /\ count' = [count EXCEPT ![q] = count[from], ![from] = 0]
    /\ ordered' = [ordered EXCEPT ![q] = ordered[from], ![from] = TRUE]
    /\ UNCHANGED world

Next ==
    \E q \in world.queues :
        \/ \E budget \in world.budgets :
              \/ \E v \in world.values : Push(q, v, budget)
              \/ Pop(q, budget)
              \/ \E other \in world.queues : Join(q, other, budget)
              \/ /\ world.policy \in Mutable
                 /\ \E n \in Nodes :
                       \/ Erase(q, n, budget)
                       \/ \E v \in world.values : Modify(q, n, v, budget)
        \/ world.policy \in Mutable /\ \E n \in Nodes : ModifyLoses(q, n)
        \/ Clear(q)
        \/ \E other \in world.queues :
              \/ Swap(q, other) \/ CopyAssign(q, other)
              \/ MoveRebuilds(q, other) \/ MoveAssign(q, other)

Spec == Init /\ [][Next]_vars

-----------------------------------------------------------------------------
(* Types; and ranks are logarithmic, which the slots of a consolidation    *)
(* of the Fibonacci heap rely on.                                          *)
TypeOK ==
    /\ world \in Worlds
    /\ \A f \in {link.prev, link.next, link.child} : f \in [Nodes -> Nodes \cup {Null}]
    /\ link.rank \in [Nodes -> Nat]
    /\ \A n \in Nodes : 2 ^ link.rank[n] <= Cardinality(Nodes) + 1
    /\ link.value \in [Nodes -> Values \cup {0}]
    /\ root \in [Queues -> Nodes \cup {Null}]
    /\ count \in [Queues -> 0 .. Cardinality(Nodes)]
    /\ ordered \in [Queues -> BOOLEAN]

(* Every element is in one queue's forest, once, and counted there: no     *)
(* throw of a comparator, at whichever comparison, has lost a node.        *)
NodesOwned ==
    /\ \A q \in Queues : count[q] = Cardinality(Elements(q))
                         /\ count[q] = count_nodes(Heap(q, 0))
    /\ \A n \in Nodes : link.value[n] # 0 <=> \E q \in Queues : n \in Elements(q)
    /\ \A q, p \in Queues : q # p => Elements(q) \cap Elements(p) = {}

(* verify() of each policy holds of every queue whose order was not ended  *)
(* by a comparator that threw, and top() is a greatest element of it; the  *)
(* links are consistent in any case.                                       *)
Verifies == \A q \in Queues :
    /\ links_consistent(Heap(q, 0))
    /\ ordered[q] => verify(Heap(q, 0))
    /\ ordered[q] /\ count[q] > 0 =>
           \A n \in Elements(q) : link.value[n] <= link.value[top(Heap(q, 0))]

(* The queues are bags of elements named by stable handles, the greatest   *)
(* of which pop removes, whatever the policy.                              *)
Abstract == INSTANCE HandleQueue WITH
    Handles <- Nodes,
    erasable <- world.policy \in Mutable,
    held <- [q \in Queues |-> Elements(q)],
    value <- link.value
HandleSpec == Abstract!Spec

=============================================================================
