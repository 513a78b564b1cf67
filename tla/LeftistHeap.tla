---------------------------- MODULE LeftistHeap -----------------------------
(* The leftist heap policy, containers/heap/policy/leftist_heap.hpp: a     *)
(* binary tree whose left child, the first, is the one of the longer path  *)
(* to a missing child; h.rank is that length.  And the skew heap policy,   *)
(* policy/skew_heap.hpp: no ranks, melds swap the children always.         *)
EXTENDS HeapNodes

CONSTANT KeepsRanks    \* is this the leftist policy?

Left(h, n)  == h.child[n]
Right(h, n) == IF h.child[n] = Null THEN Null ELSE h.next[h.child[n]]
npl(h, n)   == IF n = Null THEN 0 ELSE h.rank[n]

detach_children(h, n) ==
    LET loose == {Left(h, n), Right(h, n)}
    IN  [h EXCEPT !.child[n] = Null,
                  !.prev = [m \in DOMAIN @ |-> IF m \in loose THEN Null ELSE @[m]],
                  !.next = [m \in DOMAIN @ |-> IF m \in loose THEN Null ELSE @[m]]]

set_children(h, n, left, right) ==
    [h EXCEPT !.child[n] = left,
              !.prev = [m \in DOMAIN @ |-> CASE m = left -> n
                                             [] m = right -> left
                                             [] OTHER -> @[m]],
              !.next = [m \in DOMAIN @ |-> CASE m = left -> right
                                             [] m = right -> Null
                                             [] OTHER -> @[m]]]

(* n gets back its left child, and what its right one became. *)
Leaning(h, n, left, right) ==
    LET longer  == IF npl(h, left) < npl(h, right) THEN right ELSE left
        shorter == IF longer = left THEN right ELSE left
    IN  [set_children(h, n, longer, shorter) EXCEPT !.rank[n] = npl(h, shorter) + 1]

Swapped(h, n, left, right) == set_children(h, n, right, left)

RECURSIVE meld(_, _, _)
(* The heap after the meld, and its top.  The children of the greater root *)
(* are out of the tree while the rest is compared.                         *)
meld(h, a, b) ==
    CASE a = Null -> [heap |-> h, top |-> b]
      [] a # Null /\ b = Null -> [heap |-> h, top |-> a]
      [] a # Null /\ b # Null /\ ~Compares(h) -> [heap |-> Thrown(h), top |-> a]
      [] OTHER ->
            LET top  == IF Less(h, a, b) THEN b ELSE a
                low  == IF top = a THEN b ELSE a
                rest == meld(detach_children(Compared(h), top), Right(h, top), low)
            IN  [heap |-> CASE rest.heap.thrown -> rest.heap
                            [] ~rest.heap.thrown /\ KeepsRanks ->
                                   Leaning(rest.heap, top, Left(h, top), rest.top)
                            [] OTHER -> Swapped(rest.heap, top, Left(h, top), rest.top),
                 top |-> top]

join(h, other) ==
    LET m == meld(h, h.root, other)
    IN  CASE other = Null -> h
          [] other # Null /\ h.root = Null -> [h EXCEPT !.root = other]
          [] other # Null /\ h.root # Null /\ m.heap.thrown ->
                 link_first_child(m.heap, other, h.root)
          [] OTHER -> [m.heap EXCEPT !.root = m.top]

Unranked(h, n) == IF KeepsRanks THEN [h EXCEPT !.rank[n] = 1] ELSE h

insert(h, n) == join(Unranked(h, n), n)

extract_top(h) ==
    LET m == meld(detach_children(h, h.root), Left(h, h.root), Right(h, h.root))
    IN  IF m.heap.thrown THEN m.heap
        ELSE Unranked([m.heap EXCEPT !.root = m.top], h.root)

IsLeftist(h, n) ==
    /\ npl(h, Left(h, n)) >= npl(h, Right(h, n))
    /\ h.rank[n] = npl(h, Right(h, n)) + 1

verify(h) ==
    h.root # Null =>
        /\ h.prev[h.root] = Null /\ h.next[h.root] = Null
        /\ links_consistent(h)
        /\ HeapOrdered(h)
        /\ \A i \in DOMAIN preorder(h, h.root) :
              LET n == preorder(h, h.root)[i]
              IN  Len(Children(h, n)) <= 2 /\ (KeepsRanks => IsLeftist(h, n))

=============================================================================
