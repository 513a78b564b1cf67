--------------------------- MODULE FibonacciHeap ----------------------------
(* The Fibonacci heap policy, containers/heap/policy/fibonacci_heap.hpp:   *)
(* insertions and joins are lazy, extract_top melds roots of equal degree. *)
EXTENDS HeapNodes

insert(h, n) == link_root_front([h EXCEPT !.rank[n] = 0], n)

(* other's roots come before the queue's *)
join(h, other) == Forest(h, list_from(h, other) \o Roots(h))

(* MUTANT: the degree of the loser goes up as well *)
Melded_both(h, loser, winner) ==
    LET linked == link_first_child(unlink_from_list(Compared(h), loser), loser, winner)
    IN  [linked EXCEPT !.rank[winner] = @ + 1, !.rank[loser] = @ + 1]

Melded(h, loser, winner) ==
    LET linked == link_first_child(unlink_from_list(Compared(h), loser), loser, winner)
    IN  [linked EXCEPT !.rank[winner] = @ + 1]

(* The children of n before the other roots; n, of no children, is out. *)
promote_children(h, n) ==
    LET out  == unlink_from_list(h, n)
        bare == [out EXCEPT !.child[n] = Null, !.rank[n] = 0]
    IN  Forest(bare, Children(h, n) \o Roots(out))

RECURSIVE carried(_, _, _)
(* Melds cur with the root of its degree in the slots, while there is one. *)
carried(h, slots, cur) ==
    LET degree == h.rank[cur]
        other  == slots[degree]
        freed  == [slots EXCEPT ![degree] = Null]
    IN  IF other \in {Null, cur}
        THEN [heap |-> h, slots |-> [slots EXCEPT ![degree] = cur]]
        ELSE IF ~Compares(h) THEN [heap |-> Thrown(h), slots |-> slots]
        ELSE IF Less(h, cur, other) THEN carried(Melded(h, cur, other), freed, other)
        ELSE carried(Melded(h, other, cur), freed, cur)

RECURSIVE consolidate(_, _, _)
consolidate(h, slots, cur) ==
    IF cur = Null \/ h.thrown THEN h
    ELSE LET c == carried(h, slots, cur) IN consolidate(c.heap, c.slots, h.next[cur])

extract_top(h) ==
    LET n    == find_top(h)
        rest == promote_children(SearchedTop(h), n)
        done == consolidate(rest, [d \in 0 .. Len(preorder(h, h.root)) |-> Null], rest.root)
    IN  CASE ~FindsTop(h) -> Thrown(h)
          [] FindsTop(h) /\ done.thrown -> link_root_front(done, n)
          [] OTHER -> done

verify(h) ==
    /\ links_consistent(h)
    /\ \A i \in DOMAIN preorder(h, h.root) :
          LET n == preorder(h, h.root)[i] IN Len(Children(h, n)) = h.rank[n]
    /\ HeapOrdered(h)

=============================================================================
