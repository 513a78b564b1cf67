---------------------------- MODULE RedBlackTree ----------------------------
(* The red-black policy, containers/tree/policy/rb_tree.hpp. *)
EXTENDS TreeNodes

Red(h, n) == n # Null /\ h.ext[n].color = "red"
Paint(h, nodes, c) ==
    [h EXCEPT !.ext = [n \in DOMAIN @ |-> IF n \in nodes THEN [color |-> c] ELSE @[n]]]

RECURSIVE repair_red(_, _, _)
(* n is red: red-red violations move upwards until a rotation ends them *)
repair_red(h, n, header) ==
    LET p     == h.parent[n]
        g     == h.parent[p]
        d     == SideOf(h, p, g)
        uncle == h[Opposite(d)][g]
    IN  CASE n = Root(h, header) \/ ~Red(h, p) -> Paint(h, {Root(h, header)}, "black")
          [] n # Root(h, header) /\ Red(h, p) /\ Red(h, uncle) ->
                 repair_red(Paint(Paint(h, {p, uncle}, "black"), {g}, "red"), g, header)
          [] OTHER ->
                 LET inside == n = h[Opposite(d)][p]
                     outer  == IF inside THEN node_rotate(h, p, d, header) ELSE h
                     top    == IF inside THEN n ELSE p
                     turned == node_rotate(Paint(Paint(outer, {top}, "black"), {g}, "red"),
                                           g, Opposite(d), header)
                 IN  repair_red(turned, IF inside THEN p ELSE n, header)

insert_and_rebalance(h, d, x, parent, header) ==
    repair_red(Paint(node_link_leaf(h, d, x, parent, header), {x}, "red"), x, header)

-----------------------------------------------------------------------------
RECURSIVE repair_black(_, _, _, _)
(* The paths through x, maybe null, below x_parent are a black node short. *)
repair_black(h, x, x_parent, header) ==
    LET d       == SideOf(h, x, x_parent)
        e       == Opposite(d)
        beside  == h[e][x_parent]
        \* case 1, a red sibling
        a       == IF Red(h, beside)
                   THEN node_rotate(Paint(Paint(h, {beside}, "black"), {x_parent}, "red"),
                                    x_parent, d, header)
                   ELSE h
        sibling == a[e][x_parent]
        near    == a[d][sibling]
        far     == a[e][sibling]
        \* case 3, the near nephew is rotated into the place of the far one
        b       == IF ~Red(a, far)
                   THEN node_rotate(Paint(Paint(a, {near}, "black"), {sibling}, "red"),
                                    sibling, e, header)
                   ELSE a
        brother == b[e][x_parent]
        c       == Paint(Paint(b, {brother}, b.ext[x_parent].color),
                         {x_parent, b[e][brother]}, "black")
    IN  CASE x = Root(h, header) \/ Red(h, x) -> Paint(h, {x}, "black")
          [] x # Root(h, header) /\ ~Red(h, x) /\ ~Red(a, near) /\ ~Red(a, far) ->
                 repair_black(Paint(a, {sibling}, "red"), x_parent, a.parent[x_parent], header)
          [] OTHER -> Paint(node_rotate(c, x_parent, d, header), {x}, "black")

unlink_and_rebalance(h, z, header) ==
    LET s == splice(h, z, header)
    IN  IF s.ext.color = "black"
        THEN repair_black(s.heap, s.x, s.x_parent, header) ELSE s.heap

-----------------------------------------------------------------------------
RECURSIVE black_height(_, _)
(* -1 if there is a red child of a red node or the heights differ *)
black_height(h, n) ==
    IF n = Null THEN 1
    ELSE LET l == black_height(h, h.left[n])
             r == black_height(h, h.right[n])
         IN  IF \/ Red(h, n) /\ (Red(h, h.left[n]) \/ Red(h, h.right[n]))
                \/ l < 0 \/ l # r
             THEN -1
             ELSE l + (IF Red(h, n) THEN 0 ELSE 1)

verify(h, root) == root # Null => ~Red(h, root) /\ black_height(h, root) >= 0

=============================================================================
