----------------------------- MODULE TreapTree ------------------------------
(* The treap policy, containers/tree/policy/treap_tree.hpp: each node gets *)
(* a random priority, and no node has a smaller one than its parent.  And  *)
(* the order-statistic policy, policy/order_statistic_tree.hpp: a treap    *)
(* that keeps subtree sizes as well.                                       *)
EXTENDS TreeNodes

CONSTANT KeepsSizes    \* is this the order-statistic policy?

Priority(h, n) == h.ext[n].priority

Turned(h, n, d, header) ==
    IF KeepsSizes THEN rotate(h, n, d, header) ELSE node_rotate(h, n, d, header)

RECURSIVE refresh_ancestors(_, _, _)
refresh_ancestors(h, n, header) ==
    IF n = header \/ ~KeepsSizes THEN h
    ELSE refresh_ancestors(refresh(h, n), h.parent[n], header)

RECURSIVE rotate_up(_, _, _)
rotate_up(h, n, header) ==
    LET p == h.parent[n]
    IN  IF n # Root(h, header) /\ Priority(h, n) < Priority(h, p)
        THEN rotate_up(Turned(h, p, Opposite(SideOf(h, n, p)), header), n, header)
        ELSE h

insert_and_rebalance(h, d, x, parent, header, priority) ==
    LET fresh  == [h EXCEPT !.ext[x] = IF KeepsSizes THEN [priority |-> priority, subtree_size |-> 1]
                                       ELSE [priority |-> priority]]
        linked == node_link_leaf(fresh, d, x, parent, header)
    IN  rotate_up(refresh_ancestors(linked, x, header), x, header)

RECURSIVE sink(_, _, _)
(* The child with the smaller priority comes up. *)
sink(h, z, header) ==
    LET l == h.left[z]
        r == h.right[z]
        d == IF l # Null /\ (r = Null \/ Priority(h, l) < Priority(h, r)) THEN "right" ELSE "left"
    IN  IF l = Null /\ r = Null THEN h ELSE sink(Turned(h, z, d, header), z, header)

unlink_and_rebalance(h, z, header) ==
    LET low == sink(h, z, header)
    IN  refresh_ancestors(cut_leaf(low, z, header),
                          IF Root(low, header) = z THEN header ELSE low.parent[z], header)

RECURSIVE verify_heap(_, _)
verify_heap(h, n) ==
    n # Null => \A d \in Sides : /\ h[d][n] # Null => Priority(h, h[d][n]) >= Priority(h, n)
                                 /\ verify_heap(h, h[d][n])

verify(h, root) == verify_heap(h, root) /\ (KeepsSizes => sizes_add_up(h, root))

=============================================================================
