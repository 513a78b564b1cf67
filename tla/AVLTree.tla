------------------------------ MODULE AVLTree -------------------------------
(* The AVL policy, containers/tree/policy/avl_tree.hpp. *)
EXTENDS TreeNodes

(* How a balance factor leans on the nodes of side d; what is true of the  *)
(* left at a factor is true of the right at the opposite one.              *)
Leaning(d) == IF d = "left" THEN -1 ELSE 1
Lean(h, n, d) == h.ext[n].balance * Leaning(d)
Balanced(h, n, d, lean) == [h EXCEPT !.ext[n] = [balance |-> lean * Leaning(d)]]

(* promote_left, promote_right: x is two levels too deep on side d *)
promote(h, x, d, header) ==
    LET z      == h[d][x]
        even   == Lean(h, z, d) = 0
        turned == node_rotate(h, x, Opposite(d), header)
    IN  Balanced(Balanced(turned, x, d, IF even THEN 1 ELSE 0), z, d, IF even THEN -1 ELSE 0)

(* promote_left_right, promote_right_left: its child leans the other way *)
promote_inner(h, x, d, header) ==
    LET z      == h[d][x]
        y      == h[Opposite(d)][z]
        yb     == Lean(h, y, d)
        turned == node_rotate(node_rotate(h, z, d, header), x, Opposite(d), header)
    IN  Balanced(Balanced(Balanced(turned, x, d, IF yb > 0 THEN -1 ELSE 0),
                          z, d, IF yb < 0 THEN 1 ELSE 0),
                 y, d, 0)

RECURSIVE retrace_growth(_, _, _)
(* The subtree at n has grown a level. *)
retrace_growth(h, n, header) ==
    LET p == h.parent[n]
        d == SideOf(h, n, p)
    IN  CASE p = header -> h
          [] p # header /\ Lean(h, p, d) > 0 ->
                 IF Lean(h, n, d) < 0 THEN promote_inner(h, p, d, header)
                 ELSE promote(h, p, d, header)
          [] p # header /\ Lean(h, p, d) < 0 -> Balanced(h, p, d, 0)
          [] OTHER -> retrace_growth(Balanced(h, p, d, 1), p, header)

insert_and_rebalance(h, d, x, parent, header) ==
    retrace_growth(Balanced(node_link_leaf(h, d, x, parent, header), x, d, 0), x, header)

-----------------------------------------------------------------------------
RECURSIVE retrace_loss_hasty(_, _, _, _)
(* MUTANT: every rotation is taken to shrink the subtree *)
retrace_loss_hasty(h, n, side, header) ==
    LET up == h.parent[n]
        d  == Opposite(side)
        On(g) == retrace_loss_hasty(g, up, SideOf(h, n, up), header)
    IN  CASE n = header -> h
          [] n # header /\ Lean(h, n, d) = 0 -> Balanced(h, n, d, 1)
          [] n # header /\ Lean(h, n, d) < 0 -> On(Balanced(h, n, d, 0))
          [] n # header /\ Lean(h, n, d) > 0 /\ Lean(h, h[d][n], d) < 0 ->
                 On(promote_inner(h, n, d, header))
          [] OTHER -> On(promote(h, n, d, header))

RECURSIVE retrace_loss(_, _, _, _)
(* The subtree of n on a side has lost a level. *)
retrace_loss(h, n, side, header) ==
    LET up == h.parent[n]
        d  == Opposite(side)
        On(g) == retrace_loss(g, up, SideOf(h, n, up), header)
    IN  CASE n = header -> h
          [] n # header /\ Lean(h, n, d) = 0 -> Balanced(h, n, d, 1)
          [] n # header /\ Lean(h, n, d) < 0 -> On(Balanced(h, n, d, 0))
          [] n # header /\ Lean(h, n, d) > 0 /\ Lean(h, h[d][n], d) < 0 ->
                 On(promote_inner(h, n, d, header))
          [] OTHER -> IF Lean(h, h[d][n], d) = 0 THEN promote(h, n, d, header)
                      ELSE On(promote(h, n, d, header))

unlink_and_rebalance(h, z, header) ==
    LET s == splice(h, z, header)
    IN  retrace_loss(s.heap, s.x_parent, s.side, header)

-----------------------------------------------------------------------------
RECURSIVE subtree_height(_, _)
(* -1 if a balance factor is not the difference of the heights, or not small *)
subtree_height(h, n) ==
    IF n = Null THEN 0
    ELSE LET l == subtree_height(h, h.left[n])
             r == subtree_height(h, h.right[n])
         IN  IF l < 0 \/ r < 0 \/ r - l \notin -1 .. 1 \/ r - l # h.ext[n].balance
             THEN -1
             ELSE 1 + (IF l > r THEN l ELSE r)

verify(h, root) == subtree_height(h, root) >= 0

=============================================================================
