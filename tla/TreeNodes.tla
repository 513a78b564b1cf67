----------------------------- MODULE TreeNodes ------------------------------
(***************************************************************************)
(* The nodes of chaistl's binary search trees (containers/tree/node.hpp).  *)
(*                                                                         *)
(* A heap h is the links of all nodes and headers, h.left, h.right and     *)
(* h.parent, and the nodes' extension h.ext, what the balance policy keeps *)
(* in them.  The header of a tree, `header` below, has the root as its     *)
(* parent and the least and greatest nodes to its left and right.          *)
(*                                                                         *)
(* The code writes each case out for the left and for the right; the two   *)
(* are mirror images, and one definition with a side d stands for both.    *)
(***************************************************************************)
EXTENDS Integers

CONSTANT Null

Sides == {"left", "right"}
Opposite(d) == IF d = "left" THEN "right" ELSE "left"

Root(h, header) == h.parent[header]

(* The side of its parent that x is on; a null link on the left counts. *)
SideOf(h, x, parent) == IF h.left[parent] = x THEN "left" ELSE "right"

RECURSIVE node_extreme(_, _, _)
(* node_minimum to the left, node_maximum to the right *)
node_extreme(h, x, d) == IF h[d][x] = Null THEN x ELSE node_extreme(h, h[d][x], d)

node_minimum(h, x) == node_extreme(h, x, "left")
node_maximum(h, x) == node_extreme(h, x, "right")

(* Told from the shape alone: no flag is stored. *)
node_is_header(h, x) ==
    \/ h.parent[x] = Null
    \/ /\ h.left[x] # Null /\ h.right[x] # Null
       /\ \/ h.left[x] = h.right[x]
          \/ h.parent[h.left[x]] # x
          \/ h.parent[h.right[x]] # x

RECURSIVE climb_from(_, _, _)
(* Up from x, as long as it comes from side d: <<x, its parent>> *)
climb_from(h, x, d) ==
    LET p == h.parent[x]
    IN  IF h[d][p] = x THEN climb_from(h, p, d) ELSE <<x, p>>

node_successor(h, x) ==
    IF h.right[x] # Null THEN node_minimum(h, h.right[x])
    ELSE LET top == climb_from(h, x, "right")
         IN  IF h.right[top[1]] # top[2] THEN top[2] ELSE top[1]

node_predecessor(h, x) ==
    CASE node_is_header(h, x) -> h.right[x]
      [] ~node_is_header(h, x) /\ h.left[x] # Null -> node_maximum(h, h.left[x])
      [] OTHER -> climb_from(h, x, "left")[2]

-----------------------------------------------------------------------------
node_link_leaf(h, d, x, parent, header) ==
    LET leaf == [h EXCEPT !.parent[x] = parent, !.left[x] = Null, !.right[x] = Null,
                          ![d][parent] = x]
    IN  CASE parent = header /\ d = "left" ->
                 [leaf EXCEPT !.parent[header] = x, !.right[header] = x]
          [] parent # header /\ parent = h[d][header] -> [leaf EXCEPT ![d][header] = x]
          [] OTHER -> leaf

(* What pointed to x points to y, the root slot if x was the root. *)
Replace(h, x, y, header) ==
    IF Root(h, header) = x THEN [h EXCEPT !.parent[header] = y]
    ELSE [h EXCEPT ![SideOf(h, x, h.parent[x])][h.parent[x]] = y]

(* node_rotate_left and node_rotate_right: x goes down on side d *)
node_rotate(h, x, d, header) ==
    LET y     == h[Opposite(d)][x]
        inner == h[d][y]
        above == Replace(h, x, y, header)
    IN  [above EXCEPT ![Opposite(d)][x] = inner,
                      ![d][y] = x,
                      !.parent = [n \in DOMAIN @ |-> CASE n = inner -> x
                                                       [] n = y -> h.parent[x]
                                                       [] n = x -> y
                                                       [] OTHER -> @[n]]]

-----------------------------------------------------------------------------
(* The ends of the tree when z, with the one child x or none, leaves it. *)
Extremes(h, z, x, header) ==
    [h EXCEPT !.left[header] = IF @ # z THEN @
                               ELSE IF h.right[z] = Null THEN h.parent[z] ELSE node_minimum(h, x),
              !.right[header] = IF @ # z THEN @
                                ELSE IF h.left[z] = Null THEN h.parent[z] ELSE node_maximum(h, x)]

(* The splice of the red-black and AVL policies: z goes, and if it has two *)
(* children its successor takes its place and its extension.  The result   *)
(* names the link that is now a level short, x under x_parent on a side,   *)
(* and the extension that was removed.                                     *)
splice(h, z, header) ==
    LET l == h.left[z]
        r == h.right[z]
        x == IF l = Null THEN r ELSE l
        y == node_minimum(h, r)
        p == IF y = r THEN y ELSE h.parent[y]
        moved == [Replace(h, z, y, header) EXCEPT
                     !.left[y] = l, !.right[y] = IF y = r THEN @ ELSE r,
                     !.parent = [n \in DOMAIN @ |-> CASE n = y -> h.parent[z]
                                                      [] n \in {l, r} \ {y} -> y
                                                      [] n = h.right[y] -> p
                                                      [] OTHER -> @[n]],
                     !.ext[y] = h.ext[z]]
        promoted == [Replace(h, z, x, header) EXCEPT
                        !.parent = [n \in DOMAIN @ |-> IF n = x THEN h.parent[z] ELSE @[n]]]
    IN  IF l = Null \/ r = Null
        THEN [heap |-> Extremes(promoted, z, x, header), x |-> x, x_parent |-> h.parent[z],
              side |-> IF Root(h, header) # z THEN SideOf(h, z, h.parent[z]) ELSE "right",
              ext |-> h.ext[z]]
        ELSE [heap |-> IF y = r THEN moved ELSE [moved EXCEPT !.left[p] = h.right[y]],
              x |-> h.right[y], x_parent |-> p,
              side |-> IF y = r THEN "right" ELSE "left",
              ext |-> h.ext[y]]

(* The other policies rotate z down until it is a leaf, which is cut off. *)
cut_leaf(h, z, header) ==
    IF Root(h, header) = z
    THEN [h EXCEPT !.parent[header] = Null, !.left[header] = header, !.right[header] = header]
    ELSE [Replace(h, z, Null, header) EXCEPT
             !.left[header] = IF @ = z THEN h.parent[z] ELSE @,
             !.right[header] = IF @ = z THEN h.parent[z] ELSE @]

-----------------------------------------------------------------------------
(* The searches (containers/tree/algorithm.hpp): lookup, and where an      *)
(* element is to be attached.  h.key is the key of each node.              *)

(* Lookup.  end() is the header, here t. *)
RECURSIVE bound_from(_, _, _, _, _)
(* The first node not less than k or, if upper, greater than k. *)
bound_from(h, n, k, upper, found) ==
    LET left == k < h.key[n] \/ (~upper /\ k = h.key[n])
    IN  IF n = Null THEN found
        ELSE bound_from(h, IF left THEN h.left[n] ELSE h.right[n], k, upper,
                 [result |-> IF left THEN n ELSE found.result, last_visited |-> n])

lower_bound_search(h, t, k) ==
    bound_from(h, Root(h, t), k, FALSE, [result |-> t, last_visited |-> Null])
upper_bound_search(h, t, k) ==
    bound_from(h, Root(h, t), k, TRUE, [result |-> t, last_visited |-> Null])

find_search(h, t, k) ==
    LET s == lower_bound_search(h, t, k)
    IN  IF s.result = t \/ k < h.key[s.result] THEN [s EXCEPT !.result = t] ELSE s

RECURSIVE equal_range_from(_, _, _, _, _)
(* equal_range_unique_node and equal_range_multi_node, from n downwards *)
equal_range_from(h, n, k, result, unique) ==
    LET End(m, upper, r) ==
            bound_from(h, m, k, upper, [result |-> r, last_visited |-> Null]).result
    IN  CASE n = Null -> <<result, result>>
          [] n # Null /\ h.key[n] < k -> equal_range_from(h, h.right[n], k, result, unique)
          [] n # Null /\ k < h.key[n] -> equal_range_from(h, h.left[n], k, n, unique)
          [] n # Null /\ k = h.key[n] /\ unique ->
                 <<n, IF h.right[n] # Null THEN node_minimum(h, h.right[n]) ELSE result>>
          [] OTHER -> <<End(h.left[n], FALSE, n), End(h.right[n], TRUE, result)>>

equal_range(h, t, k, unique) == equal_range_from(h, Root(h, t), k, t, unique)

-----------------------------------------------------------------------------
(* Where to insert *)
Attach(parent, d) == [existing |-> Null, parent |-> parent, side |-> d]
Existing(n)       == [existing |-> n, parent |-> Null, side |-> "right"]

RECURSIVE descend(_, _, _, _)
descend(h, n, k, pos) ==
    LET d == IF k < h.key[n] THEN "left" ELSE "right"
    IN  IF n = Null THEN pos ELSE descend(h, h[d][n], k, Attach(n, d))

get_insert_equal_pos(h, t, k) == descend(h, Root(h, t), k, Attach(t, "left"))

get_insert_unique_pos(h, t, k) ==
    LET pos    == get_insert_equal_pos(h, t, k)
        before == IF pos.side = "left" THEN node_predecessor(h, pos.parent) ELSE pos.parent
    IN  IF (pos.side = "left" /\ pos.parent = h.left[t]) \/ h.key[before] < k
        THEN pos ELSE Existing(before)

(* Between two neighbours one of the two links is free. *)
Between(h, before, after) ==
    IF h.right[before] = Null THEN Attach(before, "right") ELSE Attach(after, "left")

get_insert_hint_unique_pos(h, t, hint, k) ==
    LET before == node_predecessor(h, hint)
        after  == node_successor(h, hint)
    IN  CASE hint = t /\ Root(h, t) # Null /\ h.key[h.right[t]] < k -> Attach(h.right[t], "right")
          [] hint # t /\ k < h.key[hint] /\ hint = h.left[t] -> Attach(hint, "left")
          [] hint # t /\ k < h.key[hint] /\ hint # h.left[t] /\ h.key[before] < k ->
                 Between(h, before, hint)
          [] hint # t /\ h.key[hint] < k /\ hint = h.right[t] -> Attach(hint, "right")
          [] hint # t /\ h.key[hint] < k /\ hint # h.right[t] /\ k < h.key[after] ->
                 Between(h, hint, after)
          [] hint # t /\ h.key[hint] = k -> Existing(hint)
          [] OTHER -> get_insert_unique_pos(h, t, k)

(* MUTANT: the node before the hint is not looked at *)
get_insert_hint_equal_pos_unchecked(h, t, hint, k) ==
    IF hint # t /\ k <= h.key[hint] /\ hint # h.left[t]
    THEN Between(h, node_predecessor(h, hint), hint)
    ELSE get_insert_equal_pos(h, t, k)

get_insert_hint_equal_pos(h, t, hint, k) ==
    LET before == node_predecessor(h, hint)
        after  == node_successor(h, hint)
    IN  CASE hint = t /\ Root(h, t) # Null /\ k >= h.key[h.right[t]] -> Attach(h.right[t], "right")
          [] hint # t /\ k <= h.key[hint] /\ hint = h.left[t] -> Attach(hint, "left")
          [] hint # t /\ k <= h.key[hint] /\ hint # h.left[t] /\ k >= h.key[before] ->
                 Between(h, before, hint)
          [] hint # t /\ h.key[hint] < k /\ hint = h.right[t] -> Attach(hint, "right")
          [] hint # t /\ h.key[hint] < k /\ hint # h.right[t] /\ h.key[after] >= k ->
                 Between(h, hint, after)
          [] OTHER -> get_insert_equal_pos(h, t, k)

(* No hint is Null, end() is t. *)
Position(h, t, k, hint, unique) ==
    CASE hint = Null /\ unique  -> get_insert_unique_pos(h, t, k)
      [] hint = Null /\ ~unique -> get_insert_equal_pos(h, t, k)
      [] hint # Null /\ unique  -> get_insert_hint_unique_pos(h, t, hint, k)
      [] OTHER                  -> get_insert_hint_equal_pos(h, t, hint, k)

-----------------------------------------------------------------------------
(* What the policies that keep subtree sizes in their nodes have in common *)
(* (order_statistic_tree.hpp, size_balanced_tree.hpp and                   *)
(* weight_balanced_tree.hpp in containers/tree/policy).                    *)

subtree_size_of(h, n) == IF n = Null THEN 0 ELSE h.ext[n].subtree_size

refresh(h, n) ==
    [h EXCEPT !.ext[n].subtree_size =
        1 + subtree_size_of(h, h.left[n]) + subtree_size_of(h, h.right[n])]

(* MUTANT: the size of the node that comes up is not recomputed *)
rotate_half_refreshed(h, x, d, header) == refresh(node_rotate(h, x, d, header), x)

(* rotate_left, rotate_right: x goes down on side d *)
rotate(h, x, d, header) ==
    LET a == refresh(node_rotate(h, x, d, header), x) IN refresh(a, a.parent[x])

RECURSIVE sizes_add_up(_, _)
sizes_add_up(h, n) ==
    n # Null => /\ h.ext[n].subtree_size =
                       1 + subtree_size_of(h, h.left[n]) + subtree_size_of(h, h.right[n])
                /\ \A d \in Sides : sizes_add_up(h, h[d][n])

RECURSIVE rotate_down(_, _, _)
(* z goes down until it is a leaf; the heavier child comes up. *)
rotate_down(h, z, header) ==
    LET l == h.left[z]
        r == h.right[z]
        d == IF l # Null /\ (r = Null \/ subtree_size_of(h, l) > subtree_size_of(h, r))
             THEN "right" ELSE "left"
    IN  IF l = Null /\ r = Null THEN h ELSE rotate_down(rotate(h, z, d, header), z, header)

-----------------------------------------------------------------------------
(* The splay policy, containers/tree/policy/splay_tree.hpp, keeps nothing  *)
(* in the nodes: what is inserted, erased or found is rotated to the root. *)
RECURSIVE rise(_, _, _)
rise(h, x, header) ==
    LET p  == h.parent[x]
        g  == h.parent[p]
        d  == SideOf(h, x, p)
        dp == SideOf(h, p, g)
        down(a, n, side) == node_rotate(a, n, Opposite(side), header)
    IN  CASE x = Root(h, header) -> h
          [] x # Root(h, header) /\ p = Root(h, header) -> rise(down(h, p, d), x, header)
          [] x # Root(h, header) /\ p # Root(h, header) /\ d = dp ->
                 rise(down(down(h, g, dp), p, d), x, header)
          [] OTHER -> rise(down(down(h, p, d), g, dp), x, header)

splay(h, x, header) ==
    LET a == rise(h, x, header) IN [a EXCEPT !.parent[Root(a, header)] = header]

splay_insert_and_rebalance(h, d, x, parent, header) ==
    splay(node_link_leaf(h, d, x, parent, header), x, header)

splay_after_access(h, n, header) == splay(h, n, header)

refresh_header(h, header) ==
    IF Root(h, header) = Null THEN [h EXCEPT !.left[header] = header, !.right[header] = header]
    ELSE [h EXCEPT !.parent[Root(h, header)] = header,
                   !.left[header] = node_minimum(h, Root(h, header)),
                   !.right[header] = node_maximum(h, Root(h, header))]

(* z, the root, and its two subtrees come apart. *)
Apart(h, z) == [h EXCEPT !.left[z] = Null, !.right[z] = Null, !.parent[z] = Null]

RootedAt(h, n, header) ==
    [h EXCEPT !.parent = [m \in DOMAIN @ |-> CASE m = header -> n
                                               [] m = n -> header
                                               [] OTHER -> @[m]]]

JoinedRight(h, top, r) ==
    [h EXCEPT !.right[top] = r, !.parent = [n \in DOMAIN @ |-> IF n = r THEN top ELSE @[n]]]

(* The greatest node of the left subtree, splayed to its root, takes over  *)
(* the right one.                                                          *)
without_root(h, l, r, header) ==
    IF l = Null THEN RootedAt(h, r, header)
    ELSE JoinedRight(splay(RootedAt(h, l, header), node_maximum(h, l), header),
                     node_maximum(h, l), r)

unlink_root(h, z, header) ==
    refresh_header(without_root(Apart(h, z), h.left[z], h.right[z], header), header)

splay_unlink_and_rebalance(h, z, header) == unlink_root(splay(h, z, header), z, header)

=============================================================================
