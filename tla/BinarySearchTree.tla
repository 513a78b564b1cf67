-------------------------- MODULE BinarySearchTree --------------------------
(***************************************************************************)
(* chaistl::detail::tree::binary_search_tree (containers/tree), the core   *)
(* of set, map, multiset and multimap, over any of its balance policies.   *)
(*                                                                         *)
(* The links, keys and extensions of all nodes and headers are one heap;   *)
(* the header of a tree has the name of the tree, and end() is the header. *)
(* An operation that throws before its commit point changes nothing and is *)
(* no step; those that can throw halfway are steps of their own.           *)
(***************************************************************************)
EXTENDS TreeNodes, Sequences, SequencesExt, FiniteSetsExt

CONSTANTS
    Trees, Nodes, Keys,
    Priorities,   \* what the random engine of a policy may draw
    Worlds,       \* policy, kind of keys, trees, nodes, keys, and whether hints and
                  \* node handles are used
    MovedFrom     \* the key of a moved-from value

Policies == {"rb", "avl", "splay", "treap", "order_statistic", "size_balanced", "weight_balanced"}

ASSUME NamesAssumption ==
    /\ Nodes \subseteq Nat /\ Keys \subseteq Nat
    /\ Null \notin Nodes \cup Trees /\ MovedFrom \notin Keys
ASSUME WorldsAssumption == \A w \in Worlds :
    /\ w.policy \in Policies /\ w.unique \in BOOLEAN /\ w.handles \in BOOLEAN
    /\ w.trees \subseteq Trees /\ w.nodes \subseteq Nodes /\ w.keys \subseteq Keys

VARIABLES
    world,     \* which of the worlds this is, for good
    heap,      \* left, right, parent, ext and key of the nodes
    size,      \* size_ of each tree
    handle,    \* the node in the node handle, or Null
    merging,   \* the merge() in progress: into, from, the node it is at
    husks      \* trees a move between unequal allocators has emptied of values

vars == <<world, heap, size, handle, merging, husks>>

RB == INSTANCE RedBlackTree
AVL == INSTANCE AVLTree
Treap == INSTANCE TreapTree WITH KeepsSizes <- FALSE
OS == INSTANCE TreapTree WITH KeepsSizes <- TRUE
SB == INSTANCE SizeBalancedTree WITH ByWeight <- FALSE
WB == INSTANCE SizeBalancedTree WITH ByWeight <- TRUE

insert_and_rebalance(policy, h, d, x, parent, t, priority) ==
    CASE policy = "rb"              -> RB!insert_and_rebalance(h, d, x, parent, t)
      [] policy = "avl"             -> AVL!insert_and_rebalance(h, d, x, parent, t)
      [] policy = "splay"           -> splay_insert_and_rebalance(h, d, x, parent, t)
      [] policy = "treap"           -> Treap!insert_and_rebalance(h, d, x, parent, t, priority)
      [] policy = "order_statistic" -> OS!insert_and_rebalance(h, d, x, parent, t, priority)
      [] policy = "size_balanced"   -> SB!insert_and_rebalance(h, d, x, parent, t)
      [] policy = "weight_balanced" -> WB!insert_and_rebalance(h, d, x, parent, t)

(* The links of a node outside the trees mean nothing; they are cleared. *)
unlink_and_rebalance(h, z, t) ==
    LET a == CASE world.policy = "rb"              -> RB!unlink_and_rebalance(h, z, t)
               [] world.policy = "avl"             -> AVL!unlink_and_rebalance(h, z, t)
               [] world.policy = "splay"           -> splay_unlink_and_rebalance(h, z, t)
               [] world.policy = "treap"           -> Treap!unlink_and_rebalance(h, z, t)
               [] world.policy = "order_statistic" -> OS!unlink_and_rebalance(h, z, t)
               [] world.policy = "size_balanced"   -> SB!unlink_and_rebalance(h, z, t)
               [] world.policy = "weight_balanced" -> WB!unlink_and_rebalance(h, z, t)
    IN  [a EXCEPT !.left[z] = Null, !.right[z] = Null, !.parent[z] = Null, !.ext[z] = Null]

verify(t) ==
    LET root == Root(heap, t)
    IN  CASE world.policy = "rb"              -> RB!verify(heap, root)
          [] world.policy = "avl"             -> AVL!verify(heap, root)
          [] world.policy = "splay"           -> TRUE
          [] world.policy = "treap"           -> Treap!verify(heap, root)
          [] world.policy = "order_statistic" -> OS!verify(heap, root)
          [] world.policy = "size_balanced"   -> SB!verify(heap, root)
          [] world.policy = "weight_balanced" -> WB!verify(heap, root)

Randomized == world.policy \in {"treap", "order_statistic"}
Sized      == world.policy \in {"order_statistic", "size_balanced", "weight_balanced"}
Drawn      == IF Randomized THEN Priorities ELSE {1}

-----------------------------------------------------------------------------
RECURSIVE order_of_key(_, _, _)
order_of_key(h, n, k) ==
    CASE n = Null -> 0
      [] n # Null /\ h.key[n] < k ->
             OS!subtree_size_of(h, h.left[n]) + 1 + order_of_key(h, h.right[n], k)
      [] OTHER -> order_of_key(h, h.left[n], k)

RECURSIVE select_by_order(_, _, _, _)
select_by_order(h, t, n, order) ==
    LET left_size == OS!subtree_size_of(h, h.left[n])
    IN  CASE n = Null -> t
          [] n # Null /\ order < left_size -> select_by_order(h, t, h.left[n], order)
          [] n # Null /\ order = left_size -> n
          [] OTHER -> select_by_order(h, t, h.right[n], order - (left_size + 1))

find_by_order(h, t, order) == select_by_order(h, t, Root(h, t), order)

-----------------------------------------------------------------------------
(* From first on by operator++, to end() or for that many nodes. *)
walk(h, t, first, many) ==
    LET from[n \in Nodes \cup Trees, left \in 0 .. many] ==
            IF n = t \/ left = 0 THEN <<>>
            ELSE <<n>> \o from[node_successor(h, n), left - 1]
    IN  from[first, many]

Elements(t) == walk(heap, t, heap.left[t], Cardinality(Nodes) + 1)
Free == {n \in world.nodes : heap.key[n] = Null}

(* Addresses are never compared: the allocator may as well return the node *)
(* of the same name as the key, if it is free, or else the least one.      *)
Fresh(k) == IF k \in Free THEN k ELSE Min(Free)

NoMerge == [into |-> Null, from |-> Null, node |-> Null]

TypeOK ==
    /\ world \in Worlds
    /\ \A d \in Sides : heap[d] \in [Nodes \cup Trees -> Nodes \cup Trees \cup {Null}]
    /\ heap.parent \in [Nodes \cup Trees -> Nodes \cup Trees \cup {Null}]
    /\ heap.key \in [Nodes -> Keys \cup {MovedFrom, Null}]
    /\ size \in [Trees -> 0 .. Cardinality(Nodes)]
    /\ handle \in Nodes \cup {Null}
    /\ merging \in [into : Trees, from : Trees, node : Nodes \cup Trees] \cup {NoMerge}
    /\ husks \subseteq Trees

EmptyHeap ==
    [left |-> [n \in Nodes \cup Trees |-> IF n \in Trees THEN n ELSE Null],
     right |-> [n \in Nodes \cup Trees |-> IF n \in Trees THEN n ELSE Null],
     parent |-> [n \in Nodes \cup Trees |-> Null],
     ext |-> [n \in Nodes |-> Null],
     key |-> [n \in Nodes |-> Null]]

(* What a new node n with key k makes of h at a position. *)
Linked(policy, h, n, k, pos, t, priority) ==
    insert_and_rebalance(policy, [h EXCEPT !.key[n] = k], pos.side, n, pos.parent, t, priority)

(* insert_hint_equal(cend(), ...) of each key into a tree, with the nodes  *)
(* and priorities given.                                                   *)
Appended(policy, h, t, keys, nodes, priorities) ==
    LET after[i \in 0 .. Len(keys)] ==
            IF i = 0 THEN h
            ELSE LET g   == after[i - 1]
                     pos == get_insert_hint_equal_pos(g, t, t, keys[i])
                 IN  Linked(policy, g, nodes[i], keys[i], pos, t, priorities[i])
    IN  after[Len(keys)]

Init ==
    /\ world \in Worlds
    /\ heap = EmptyHeap
    /\ size = [t \in Trees |-> 0]
    /\ handle = Null
    /\ merging = NoMerge
    /\ husks = {}

-----------------------------------------------------------------------------
Idle(t) == t \in world.trees /\ merging = NoMerge /\ t \notin husks
Hints(t) == IF world.handles THEN {Null, t} \cup ToSet(Elements(t)) ELSE {Null}
Same    == UNCHANGED <<world, merging, husks>>

(* insert, emplace and their variants with a hint, of a key not refused *)
Insert(t, k, hint) ==
    LET pos == Position(heap, t, k, hint, world.unique)
    IN  /\ Idle(t) /\ Free # {} /\ pos.existing = Null
        /\ \E priority \in Drawn :
              heap' = Linked(world.policy, heap, Fresh(k), k, pos, t, priority)
        /\ size' = [size EXCEPT ![t] = @ + 1]
        /\ Same /\ UNCHANGED handle

RECURSIVE Unlinked(_, _, _)
Unlinked(h, t, nodes) ==
    IF nodes = <<>> THEN h ELSE Unlinked(unlink_and_rebalance(h, Head(nodes), t), t, Tail(nodes))

Destroyed(h, nodes) ==
    [h EXCEPT !.key = [n \in Nodes |-> IF n \in nodes THEN Null ELSE @[n]]]

(* notify_access: a lookup in a tree that is not const splays what it has  *)
(* found, or else the last node it saw.                                    *)
Accessed(h, t, search) ==
    LET n == IF search.result # t THEN search.result ELSE search.last_visited
    IN  IF world.policy = "splay" /\ n # Null THEN splay_after_access(h, n, t) ELSE h

(* find, lower_bound and upper_bound of a tree that is not const *)
Access(t, k) ==
    /\ Idle(t)
    /\ \E s \in {find_search(heap, t, k), lower_bound_search(heap, t, k),
                  upper_bound_search(heap, t, k)} : heap' = Accessed(heap, t, s)
    /\ Same /\ UNCHANGED <<size, handle>>

(* MUTANT: with two children, the successor's value replaces the node's *)
Erase_by_value(t, n) ==
    LET two == heap.left[n] # Null /\ heap.right[n] # Null
        y   == IF two THEN node_successor(heap, n) ELSE n
    IN  /\ Idle(t) /\ n \in ToSet(Elements(t))
        /\ heap' = Destroyed([unlink_and_rebalance(heap, y, t) EXCEPT !.key[n] = heap.key[y]], {y})
        /\ size' = [size EXCEPT ![t] = @ - 1]
        /\ Same /\ UNCHANGED handle

(* erase(const_iterator) *)
Erase(t, n) ==
    /\ Idle(t) /\ n \in ToSet(Elements(t))
    /\ heap' = Destroyed(unlink_and_rebalance(heap, n, t), {n})
    /\ size' = [size EXCEPT ![t] = @ - 1]
    /\ Same /\ UNCHANGED handle

(* erase(key) looks the key up first, erase_equal erases the whole range. *)
EraseKey(t, k) ==
    LET s     == find_search(heap, t, k)
        range == equal_range(heap, t, k, FALSE)
        gone  == IF world.unique THEN <<s.result>>
                 ELSE walk(heap, range[2], range[1], Cardinality(Nodes))
        found == IF world.unique THEN Accessed(heap, t, s) ELSE heap
    IN  /\ Idle(t) /\ s.result # t
        /\ heap' = Destroyed(Unlinked(found, t, gone), ToSet(gone))
        /\ size' = [size EXCEPT ![t] = @ - Len(gone)]
        /\ Same /\ UNCHANGED handle

(* destroy_tree() and init_header() *)
Cleared(h, t) ==
    LET gone == ToSet(walk(h, t, h.left[t], Cardinality(Nodes)))
        Drop(f) == [n \in DOMAIN f |-> IF n \in gone THEN Null ELSE f[n]]
    IN  [left |-> [Drop(h.left) EXCEPT ![t] = t], right |-> [Drop(h.right) EXCEPT ![t] = t],
         parent |-> [Drop(h.parent) EXCEPT ![t] = Null],
         ext |-> Drop(h.ext), key |-> Drop(h.key)]

Clear(t) ==
    /\ t \in world.trees /\ merging = NoMerge /\ Root(heap, t) # Null
    /\ heap' = Cleared(heap, t)
    /\ size' = [size EXCEPT ![t] = 0]
    /\ husks' = husks \ {t}
    /\ UNCHANGED <<world, handle, merging>>

-----------------------------------------------------------------------------
(* extract(const_iterator) *)
Extract(t, n) ==
    /\ Idle(t) /\ world.handles /\ handle = Null /\ n \in ToSet(Elements(t))
    /\ heap' = unlink_and_rebalance(heap, n, t)
    /\ handle' = n
    /\ size' = [size EXCEPT ![t] = @ - 1]
    /\ Same

(* extract(key) looks the key up first. *)
ExtractKey(t, k) ==
    LET s == find_search(heap, t, k)
    IN  /\ Idle(t) /\ world.handles /\ handle = Null /\ s.result # t
        /\ heap' = unlink_and_rebalance(Accessed(heap, t, s), s.result, t)
        /\ handle' = s.result
        /\ size' = [size EXCEPT ![t] = @ - 1]
        /\ Same

Rekey(k) ==
    /\ merging = NoMerge /\ handle # Null /\ k \in world.keys
    /\ heap' = [heap EXCEPT !.key[handle] = k]
    /\ Same /\ UNCHANGED <<size, handle>>

(* insert_node_unique, insert_node_equal and their variants with a hint *)
InsertNode(t, hint) ==
    LET pos == Position(heap, t, heap.key[handle], hint, world.unique)
    IN  /\ Idle(t) /\ handle # Null /\ pos.existing = Null
        /\ \E priority \in Drawn :
              heap' = Linked(world.policy, heap, handle, heap.key[handle], pos, t, priority)
        /\ size' = [size EXCEPT ![t] = @ + 1]
        /\ handle' = Null
        /\ Same

(* reset() and the destructor of a node handle *)
DropNode ==
    /\ merging = NoMerge /\ handle # Null
    /\ heap' = Destroyed(heap, {handle})
    /\ handle' = Null
    /\ Same /\ UNCHANGED size

-----------------------------------------------------------------------------
(* merge() and merge_equal() walk the source; a comparator that throws     *)
(* ends them between two nodes.                                            *)
MergeBegins(into, from) ==
    /\ into # from /\ Idle(into) /\ Idle(from) /\ Root(heap, from) # Null
    /\ merging' = [into |-> into, from |-> from, node |-> heap.left[from]]
    /\ UNCHANGED <<world, heap, size, handle, husks>>

(* MUTANT: a set takes what a multiset would *)
MergeNode_equal ==
    LET into == merging.into
        from == merging.from
        n    == merging.node
        pos  == Position(heap, into, heap.key[n], Null, FALSE)
        next == node_successor(heap, n)
    IN  /\ merging # NoMerge
        /\ merging' = IF next = from THEN NoMerge ELSE [merging EXCEPT !.node = next]
        /\ \E priority \in Drawn :
               heap' = Linked(world.policy, unlink_and_rebalance(heap, n, from),
                              n, heap.key[n], pos, into, priority)
        /\ size' = [size EXCEPT ![into] = @ + 1, ![from] = @ - 1]
        /\ UNCHANGED <<world, handle, husks>>

(* MUTANT: the size of the source is forgotten *)
MergeNode_miscounted ==
    LET into == merging.into
        from == merging.from
        n    == merging.node
        pos  == Position(heap, into, heap.key[n], Null, world.unique)
        next == node_successor(heap, n)
    IN  /\ merging # NoMerge
        /\ merging' = IF next = from THEN NoMerge ELSE [merging EXCEPT !.node = next]
        /\ IF pos.existing # Null THEN UNCHANGED <<heap, size>>
           ELSE /\ \E priority \in Drawn :
                      heap' = Linked(world.policy, unlink_and_rebalance(heap, n, from),
                                     n, heap.key[n], pos, into, priority)
                /\ size' = [size EXCEPT ![into] = @ + 1]
        /\ UNCHANGED <<world, handle, husks>>

(* One node: its successor is taken, then its position in the destination, *)
(* then it leaves the source, unless its key is refused.                   *)
MergeNode ==
    LET into == merging.into
        from == merging.from
        n    == merging.node
        pos  == Position(heap, into, heap.key[n], Null, world.unique)
        next == node_successor(heap, n)
    IN  /\ merging # NoMerge
        /\ merging' = IF next = from THEN NoMerge ELSE [merging EXCEPT !.node = next]
        /\ IF pos.existing # Null THEN UNCHANGED <<heap, size>>
           ELSE /\ \E priority \in Drawn :
                      heap' = Linked(world.policy, unlink_and_rebalance(heap, n, from),
                                     n, heap.key[n], pos, into, priority)
                /\ size' = [size EXCEPT ![into] = @ + 1, ![from] = @ - 1]
        /\ UNCHANGED <<world, handle, husks>>

MergeThrows ==
    /\ merging # NoMerge
    /\ merging' = NoMerge
    /\ UNCHANGED <<world, heap, size, handle, husks>>

-----------------------------------------------------------------------------
(* t's header takes a root and its ends over, or becomes empty. *)
Adopted(h, t, root, left, right) ==
    IF root = Null THEN [h EXCEPT !.parent[t] = Null, !.left[t] = t, !.right[t] = t]
    ELSE [h EXCEPT !.parent[t] = root, !.left[t] = left, !.right[t] = right, !.parent[root] = t]

AdoptedFrom(h, t, from) ==
    Adopted(h, t, Root(heap, from), heap.left[from], heap.right[from])

swap(t, u) ==
    /\ t # u /\ Idle(t) /\ Idle(u)
    /\ heap' = AdoptedFrom(AdoptedFrom(heap, t, u), u, t)
    /\ size' = [size EXCEPT ![t] = size[u], ![u] = size[t]]
    /\ Same /\ UNCHANGED handle

(* The elements of t are gone before anything else is assigned; a copy or  *)
(* move constructor does the same to a tree that has none.                 *)
Assigned(t, from) ==
    /\ t # from /\ {t, from} \subseteq world.trees
    /\ merging = NoMerge /\ from \notin husks
    /\ UNCHANGED <<world, handle, merging>>

(* Nodes for as many elements; what t has just given back is not reused.   *)
NewNodes(count) == SubSeq(SetToSortSeq(Free, <), 1, count)

(* copy_tree() and copy_from(): the shape and the extensions are copied.   *)
Copied(h, t, from) ==
    LET old == Elements(from)
        new == NewNodes(Len(old))
        Twin(n) == CASE n = Null -> Null
                     [] n = from -> t
                     [] OTHER -> new[CHOOSE i \in DOMAIN old : old[i] = n]
        Original(n) == old[CHOOSE i \in DOMAIN new : new[i] = n]
        Links(link) == [n \in Nodes \cup Trees |->
                           CASE n \in ToSet(new) -> Twin(heap[link][Original(n)])
                             [] n = t -> Twin(heap[link][from])
                             [] OTHER -> h[link][n]]
        Fields(field) == [n \in Nodes |->
                             IF n \in ToSet(new) THEN heap[field][Original(n)] ELSE h[field][n]]
    IN  [left |-> Links("left"), right |-> Links("right"), parent |-> Links("parent"),
         ext |-> Fields("ext"), key |-> Fields("key")]

CopyAssign(t, from) ==
    /\ Assigned(t, from) /\ size[from] <= Cardinality(Free)
    /\ heap' = Copied(Cleared(heap, t), t, from)
    /\ size' = [size EXCEPT ![t] = size[from]]
    /\ husks' = husks \ {t}

(* An exception: the part that was copied is destroyed, t is left empty.   *)
CopyFails(t, from) ==
    /\ Assigned(t, from)
    /\ heap' = Cleared(heap, t)
    /\ size' = [size EXCEPT ![t] = 0]
    /\ husks' = husks \ {t}

MoveAssign(t, from) ==
    /\ Assigned(t, from)
    /\ heap' = Adopted(AdoptedFrom(Cleared(heap, t), t, from), from, Null, from, from)
    /\ size' = [size EXCEPT ![t] = size[from], ![from] = 0]
    /\ husks' = husks \ {t}

MovedOut(h, nodes) ==
    [h EXCEPT !.key = [n \in Nodes |-> IF n \in nodes THEN MovedFrom ELSE @[n]]]

(* Between unequal allocators the elements are moved one by one; an        *)
(* exception leaves those in t that have arrived.                          *)
MoveValues(t, from) ==
    LET old == Elements(from)
    IN  /\ Assigned(t, from) /\ old # <<>>
        /\ \E arrived \in 0 .. Len(old) :
            \E left \in {arrived, arrived + 1} \cap 0 .. Len(old) :
            \E priorities \in [1 .. arrived -> Drawn] :
               /\ arrived <= Cardinality(Free)
               /\ heap' = MovedOut(Appended(world.policy, Cleared(heap, t), t,
                                    [i \in 1 .. arrived |-> heap.key[old[i]]],
                                    NewNodes(arrived), priorities),
                                   ToSet(SubSeq(old, 1, left)))
               /\ size' = [size EXCEPT ![t] = arrived]
               /\ husks' = (husks \ {t}) \cup (IF left = 0 THEN {} ELSE {from})

-----------------------------------------------------------------------------
Next ==
    \/ \E t \in world.trees, k \in world.keys :
           \/ \E hint \in Hints(t) : Insert(t, k, hint)
           \/ EraseKey(t, k) \/ ExtractKey(t, k) \/ Access(t, k)
    \/ \E t \in world.trees, n \in world.nodes : Erase(t, n) \/ Extract(t, n)
    \/ \E t \in world.trees : Clear(t) \/ \E hint \in Hints(t) : InsertNode(t, hint)
    \/ \E k \in world.keys : Rekey(k)
    \/ DropNode \/ MergeNode \/ MergeThrows
    \/ \E t, u \in world.trees : \/ MergeBegins(t, u) \/ swap(t, u)
                                 \/ CopyAssign(t, u) \/ CopyFails(t, u)
                                 \/ MoveAssign(t, u) \/ MoveValues(t, u)

Spec == Init /\ [][Next]_vars

-----------------------------------------------------------------------------
Sound(t) == t \in world.trees \ husks

(* validate(): the policy's invariant holds (verify(): colours and black   *)
(* heights, balance factors, heap order, sizes), header and root point at  *)
(* each other, children point back at their parents, exactly size() nodes  *)
(* are met in order of their keys, and the ends are cached right, however  *)
(* nodes came and went (binary_search_tree.hpp:992, "Full structural       *)
(* self-check").                                                           *)
Validates == \A t \in Trees : Sound(t) =>
    LET s    == Elements(t)
        root == Root(heap, t)
    IN  /\ verify(t)
        /\ Len(s) = size[t]
        /\ root = Null => heap.left[t] = t /\ heap.right[t] = t
        /\ root # Null => /\ heap.parent[root] = t
                          /\ heap.left[t] = node_minimum(heap, root)
                          /\ heap.right[t] = node_maximum(heap, root)
        /\ \A i \in DOMAIN s :
              /\ \A d \in Sides : heap[d][s[i]] # Null => heap.parent[heap[d][s[i]]] = s[i]
              /\ i > 1 => IF world.unique THEN heap.key[s[i - 1]] < heap.key[s[i]]
                          ELSE heap.key[s[i - 1]] <= heap.key[s[i]]

(* How many elements of t come before a position. *)
Rank(s, pos) ==
    IF pos.parent \in Trees THEN 0
    ELSE (CHOOSE i \in DOMAIN s : s[i] = pos.parent) - (IF pos.side = "left" THEN 1 ELSE 0)

(* Every lookup answers what the sequence of the elements says, although   *)
(* it walks the links: find, both bounds, equal_range, and by rank and     *)
(* select where the policy keeps sizes.                                    *)
LookupIsExact == \A t \in Trees : Sound(t) => \A k \in Keys :
    LET s     == Elements(t)
        At(i) == IF i < Len(s) THEN s[i + 1] ELSE t
        below == Len(SelectSeq(s, LAMBDA n : heap.key[n] < k))
        upto  == Len(SelectSeq(s, LAMBDA n : heap.key[n] <= k))
    IN  /\ find_search(heap, t, k).result = IF below < upto THEN At(below) ELSE t
        /\ lower_bound_search(heap, t, k).result = At(below)
        /\ upper_bound_search(heap, t, k).result = At(upto)
        /\ equal_range(heap, t, k, world.unique) = <<At(below), At(upto)>>
        /\ Sized => /\ order_of_key(heap, Root(heap, t), k) = below
                    /\ \A i \in 0 .. Len(s) : find_by_order(heap, t, i) = At(i)

(* A hint never changes whether a key is refused, nor the order of keys;   *)
(* the link an element is attached to is free; an equivalent element goes  *)
(* behind the others, or before the hint where that is among them, as      *)
(* get_insert_hint_equal_pos says ("the element lands directly before      *)
(* hint", else "at the key's upper bound").                                *)
PositionsAreExact == \A t \in Trees : Sound(t) => \A k \in Keys :
    LET s     == Elements(t)
        below == Len(SelectSeq(s, LAMBDA n : heap.key[n] < k))
        upto  == Len(SelectSeq(s, LAMBDA n : heap.key[n] <= k))
        Wanted(hint) ==
            LET i == CASE hint = Null -> upto
                       [] hint = t    -> Len(s)
                       [] OTHER       -> (CHOOSE j \in DOMAIN s : s[j] = hint) - 1
            IN  CASE i \in below .. upto -> i
                  [] i + 1 = below      -> below
                  [] OTHER              -> upto
    IN  \A hint \in {Null, t} \cup ToSet(s) :
            LET pos == Position(heap, t, k, hint, world.unique)
            IN  IF world.unique /\ below < upto THEN pos.existing = s[upto]
                ELSE /\ pos.existing = Null
                     /\ pos.parent # t => heap[pos.side][pos.parent] = Null
                     /\ Rank(s, pos) = Wanted(hint)

(* Every node that exists has one owner, a tree or the node handle: an     *)
(* interrupted merge, copy or move neither leaks nor shares one.           *)
OneOwner ==
    /\ \A t \in Trees : IsInjective(Elements(t))
    /\ \A n \in Nodes : LET owners == {t \in Trees : n \in ToSet(Elements(t))}
                        IN  CASE heap.key[n] = Null -> owners = {} /\ handle # n
                              [] handle = n         -> owners = {}
                              [] OTHER              -> \E t \in Trees : owners = {t}

(* Rebalancing moves nodes, never values, and never past one another: the  *)
(* elements that stay in a tree keep their keys and their order, also      *)
(* among equivalent ones ("iterators and references to other elements stay *)
(* valid", rb_tree.hpp:144).                                               *)
IteratorsSurvive == [][\A t \in Trees : Sound(t) /\ t \notin husks' =>
    \A before \in {Elements(t)}, after \in {Elements(t)'} :
        LET Stays(n)  == Contains(after, n)
            Stayed(n) == Contains(before, n)
        IN  /\ SelectSeq(before, Stays) = SelectSeq(after, Stayed)
            /\ \A n \in ToSet(before) : Stays(n) => heap.key'[n] = heap.key[n]]_vars

(* What the client of a tree in h sees: how often it has each key. *)
Contents(h, t) ==
    LET keys == {<<n, h.key[n]>> : n \in ToSet(walk(h, t, h.left[t], Cardinality(Nodes) + 1))}
    IN  [k \in Keys |-> Cardinality({e \in keys : e[2] = k})]

=============================================================================
