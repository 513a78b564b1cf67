-------------------------- MODULE SizeBalancedTree --------------------------
(* The size-balanced policy, containers/tree/policy/size_balanced_tree.hpp: *)
(* no subtree is smaller than a child of its sibling; and, with the same    *)
(* passes over other rotations, weight_balanced_tree.hpp:                   *)
(* size(left) <= 4 * (size(right) + 1), and the other way round.            *)
EXTENDS TreeNodes

CONSTANT ByWeight   \* whether this is the weight-balanced policy

(* The subtree of n on side d, and the child of that on side e, if any. *)
Size(h, n, d) == subtree_size_of(h, h[d][n])
SizeBelow(h, n, d, e) == IF h[d][n] = Null THEN 0 ELSE Size(h, h[d][n], e)

(* needs_left_left_rotation, needs_left_right_rotation, ... *)
needs_rotation(h, n, d, e) == SizeBelow(h, n, d, e) > Size(h, n, Opposite(d))

Balanced(h, n) == \A d, e \in Sides : ~needs_rotation(h, n, d, e)

(* Side d is too heavy on its side e, tried in the order of the code. *)
Heavy(h, n) ==
    CASE needs_rotation(h, n, "left", "left")   -> <<"left", "left">>
      [] ~needs_rotation(h, n, "left", "left") /\ needs_rotation(h, n, "left", "right") ->
             <<"left", "right">>
      [] /\ \A e \in Sides : ~needs_rotation(h, n, "left", e)
         /\ needs_rotation(h, n, "right", "right") -> <<"right", "right">>
      [] OTHER -> <<"right", "left">>

(* n goes down, and first its child if that is heavy on the inner side. *)
Rotated(h, n, heavy, header) ==
    LET d    == heavy[1]
        bent == IF d = heavy[2] THEN h ELSE rotate(h, h[d][n], d, header)
    IN  rotate(bent, n, Opposite(d), header)

RECURSIVE rebalance_at(_, _, _)
(* The heap, and the root of the subtree at n, when all of it is balanced: *)
(* after a rotation what is left and right of the new root comes first.    *)
rebalance_at(h, n, header) ==
    LET Below(g, m)   == rebalance_at(g, m, header).heap
        Right(g, top) == Below(g, g.right[top])
        All(g, top)   == rebalance_at(Right(Below(g, g.left[top]), top), top, header)
        Turned(g)     == All(g, g.parent[n])
        Fresh(g)      == IF Balanced(g, n)
                         THEN [heap |-> g, node |-> n]
                         ELSE Turned(Rotated(g, n, Heavy(g, n), header))
    IN  IF n = Null THEN [heap |-> h, node |-> n] ELSE Fresh(refresh(h, n))

-----------------------------------------------------------------------------
(* left_too_heavy, right_too_heavy *)
too_heavy(h, n, d) == Size(h, n, d) > 4 * (Size(h, n, Opposite(d)) + 1)

(* The side that is too heavy; first its child, if heavy on the inner side *)
Weighed(h, n) ==
    LET d == IF too_heavy(h, n, "left") THEN "left" ELSE "right"
        c == h[d][n]
    IN  <<d, IF Size(h, c, Opposite(d)) > Size(h, c, d) THEN Opposite(d) ELSE d>>

RECURSIVE reweigh_at(_, _, _)
(* rebalance_at by weight: until neither side of the root of the subtree   *)
(* is too heavy; the nodes that have gone down are not looked at again.    *)
reweigh_at(h, n, header) ==
    LET fresh == refresh(h, n)
        up    == Rotated(fresh, n, Weighed(fresh, n), header)
    IN  IF \E d \in Sides : too_heavy(fresh, n, d)
        THEN reweigh_at(up, up.parent[n], header)
        ELSE [heap |-> fresh, node |-> n]

-----------------------------------------------------------------------------
RECURSIVE rebalance_ancestors(_, _, _)
rebalance_ancestors(h, n, header) ==
    IF n = header THEN h
    ELSE LET b == IF ByWeight THEN reweigh_at(h, n, header) ELSE rebalance_at(h, n, header)
         IN  rebalance_ancestors(b.heap, b.heap.parent[b.node], header)

insert_and_rebalance(h, d, x, parent, header) ==
    rebalance_ancestors([node_link_leaf(h, d, x, parent, header)
                            EXCEPT !.ext[x] = [subtree_size |-> 1]], x, header)

unlink_and_rebalance(h, z, header) ==
    LET low == rotate_down(h, z, header)
    IN  rebalance_ancestors(cut_leaf(low, z, header),
                            IF Root(low, header) = z THEN header ELSE low.parent[z], header)

RECURSIVE verify_node(_, _)
verify_node(h, n) ==
    n # Null => /\ IF ByWeight THEN \A d \in Sides : ~too_heavy(h, n, d) ELSE Balanced(h, n)
                /\ \A d \in Sides : verify_node(h, h[d][n])

verify(h, root) == verify_node(h, root) /\ sizes_add_up(h, root)

=============================================================================
