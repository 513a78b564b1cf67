------------------------------ MODULE HeapNodes ------------------------------
(***************************************************************************)
(* The nodes of chaistl's heaps (containers/heap/node.hpp): forests in     *)
(* left-child / next-sibling form.                                         *)
(*                                                                         *)
(* A heap h is the links of all nodes (h.prev, h.next, h.child), what the  *)
(* policy keeps in them (h.rank), their values (h.value), and the root     *)
(* pointer of the queue an operation works on (h.root).  The back edge     *)
(* h.prev of a first child is its parent, else the sibling before it.      *)
(*                                                                         *)
(* Comparators may throw: h.budget is how many comparisons are still to    *)
(* succeed, and h.thrown that one has not.                                 *)
(***************************************************************************)
EXTENDS Integers, Sequences

CONSTANT Null

Compares(h)   == h.budget > 0
Compared(h)   == [h EXCEPT !.budget = @ - 1]
Thrown(h)     == [h EXCEPT !.thrown = TRUE]
Less(h, a, b) == h.value[a] < h.value[b]

Heads(h, n) == h.child[h.prev[n]] = n

(* Out of whatever list n is in: the root list, or the children of a node. *)
unlink_from_list(h, n) ==
    LET prev == h.prev[n]
        next == h.next[n]
        out  == CASE prev = Null -> [h EXCEPT !.root = next]
                  [] prev # Null /\ Heads(h, n) -> [h EXCEPT !.child[prev] = next]
                  [] OTHER -> [h EXCEPT !.next[prev] = next]
    IN  [out EXCEPT !.prev = [m \in DOMAIN @ |-> CASE m = n -> Null
                                                   [] m = next -> prev
                                                   [] OTHER -> @[m]],
                    !.next[n] = Null]

link_first_child(h, n, parent) ==
    LET first == h.child[parent]
    IN  [h EXCEPT !.prev = [m \in DOMAIN @ |-> CASE m = n -> parent
                                                 [] m = first -> n
                                                 [] OTHER -> @[m]],
                  !.next[n] = first,
                  !.child[parent] = n]

link_root_front(h, n) ==
    [h EXCEPT !.prev = [m \in DOMAIN @ |-> CASE m = n -> Null
                                             [] m = h.root -> n
                                             [] OTHER -> @[m]],
              !.next[n] = h.root,
              !.root = n]

replace_in_list(h, n, replacement) ==
    LET prev == h.prev[n]
        next == h.next[n]
        in   == CASE prev = Null -> [h EXCEPT !.root = replacement]
                  [] prev # Null /\ Heads(h, n) -> [h EXCEPT !.child[prev] = replacement]
                  [] OTHER -> [h EXCEPT !.next[prev] = replacement]
    IN  [in EXCEPT !.prev = [m \in DOMAIN @ |-> CASE m = n -> Null
                                                  [] m = replacement -> prev
                                                  [] m = next -> replacement
                                                  [] OTHER -> @[m]],
                   !.next = [m \in DOMAIN @ |-> CASE m = n -> Null
                                                  [] m = replacement -> next
                                                  [] OTHER -> @[m]]]

RECURSIVE parent_of(_, _)
(* Back edges lead to the front of the list, whose back edge is the parent. *)
parent_of(h, n) ==
    LET p == h.prev[n]
    IN  IF p # Null /\ h.child[p] # n THEN parent_of(h, p) ELSE p

RECURSIVE list_from(_, _)
list_from(h, n) == IF n = Null THEN <<>> ELSE <<n>> \o list_from(h, h.next[n])

Roots(h)       == list_from(h, h.root)
Children(h, n) == list_from(h, h.child[n])

RECURSIVE preorder(_, _)
(* for_each_node, in its order *)
preorder(h, n) ==
    IF n = Null THEN <<>> ELSE <<n>> \o preorder(h, h.child[n]) \o preorder(h, h.next[n])

count_nodes(h) == Len(preorder(h, h.root))

links_consistent(h) ==
    /\ h.root # Null => h.prev[h.root] = Null
    /\ \A i \in DOMAIN preorder(h, h.root) :
          LET n == preorder(h, h.root)[i]
          IN  \A m \in {h.child[n], h.next[n]} \ {Null} : h.prev[m] = n

HeapOrdered(h) ==
    \A i \in DOMAIN preorder(h, h.root) :
        LET n == preorder(h, h.root)[i]
        IN  \A j \in DOMAIN Children(h, n) : ~Less(h, n, Children(h, n)[j])

(* The root list made of a sequence of trees. *)
Forest(h, trees) ==
    [h EXCEPT !.root = IF trees = <<>> THEN Null ELSE trees[1],
              !.prev = [m \in DOMAIN @ |->
                           IF \E i \in DOMAIN trees : trees[i] = m
                           THEN LET i == CHOOSE j \in DOMAIN trees : trees[j] = m
                                IN  IF i = 1 THEN Null ELSE trees[i - 1]
                           ELSE @[m]],
              !.next = [m \in DOMAIN @ |->
                           IF \E i \in DOMAIN trees : trees[i] = m
                           THEN LET i == CHOOSE j \in DOMAIN trees : trees[j] = m
                                IN  IF i = Len(trees) THEN Null ELSE trees[i + 1]
                           ELSE @[m]]]

(* find_top: the first of the greatest roots, if no comparison throws *)
FindsTop(h) == Len(Roots(h)) - 1 <= h.budget
(* MUTANT: the last root is not looked at *)
find_top_but_last(h) ==
    LET roots == IF Len(Roots(h)) = 1 THEN Roots(h) ELSE SubSeq(Roots(h), 1, Len(Roots(h)) - 1)
    IN  roots[CHOOSE i \in DOMAIN roots : \A j \in DOMAIN roots : ~Less(h, roots[i], roots[j])]

find_top(h) ==
    LET roots == Roots(h)
    IN  roots[CHOOSE i \in DOMAIN roots :
                 /\ \A j \in DOMAIN roots : ~Less(h, roots[i], roots[j])
                 /\ \A j \in 1 .. i - 1 : Less(h, roots[j], roots[i])]
SearchedTop(h) == [h EXCEPT !.budget = @ - (Len(Roots(h)) - 1)]

=============================================================================
