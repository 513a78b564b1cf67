---------------------------- MODULE PairingHeap -----------------------------
(* The pairing heap policy, containers/heap/policy/pairing_heap.hpp: one   *)
(* tree; the two passes over the children of a removed node compare nodes  *)
(* that are both linked, so a throw between two steps loses nothing.       *)
EXTENDS HeapNodes

(* MUTANT: a tree whose comparison throws is left out *)
join_forgetting(h, other) ==
    CASE other = Null  -> h
      [] other # Null /\ h.root = Null -> [h EXCEPT !.root = other]
      [] other # Null /\ h.root # Null /\ ~Compares(h) -> Thrown(h)
      [] OTHER -> IF Less(h, h.root, other)
                  THEN link_first_child([Compared(h) EXCEPT !.root = other], h.root, other)
                  ELSE link_first_child(Compared(h), other, h.root)

(* The tree that loses the comparison is hung under the other; so is       *)
(* other if it throws, for want of an answer.                              *)
join(h, other) ==
    CASE other = Null  -> h
      [] other # Null /\ h.root = Null -> [h EXCEPT !.root = other]
      [] other # Null /\ h.root # Null /\ ~Compares(h) ->
             Thrown(link_first_child(h, other, h.root))
      [] OTHER -> IF Less(h, h.root, other)
                  THEN link_first_child([Compared(h) EXCEPT !.root = other], h.root, other)
                  ELSE link_first_child(Compared(h), other, h.root)

insert(h, n) == join(h, n)

(* The loser of siblings a and b goes under the winner, which stays. *)
Paired(h, a, b) ==
    LET loser  == IF Less(h, a, b) THEN a ELSE b
        winner == IF loser = a THEN b ELSE a
    IN  link_first_child(unlink_from_list(Compared(h), loser), loser, winner)

RECURSIVE pair_up_children(_, _)
pair_up_children(h, a) ==
    IF a = Null \/ h.next[a] = Null THEN h
    ELSE IF ~Compares(h) THEN Thrown(h)
    ELSE pair_up_children(Paired(h, a, h.next[a]), h.next[h.next[a]])

RECURSIVE accumulate_children(_, _)
(* From the last child backwards; the winner holds the folded position. *)
accumulate_children(h, parent) ==
    LET list == Children(h, parent)
    IN  CASE Len(list) <= 1 -> h
          [] Len(list) > 1 /\ ~Compares(h) -> Thrown(h)
          [] OTHER -> accumulate_children(Paired(h, list[Len(list) - 1], list[Len(list)]), parent)

(* The children of n, condensed into one tree, take its place. *)
detach(h, n) ==
    LET paired    == pair_up_children(h, h.child[n])
        folded    == IF paired.thrown THEN paired ELSE accumulate_children(paired, n)
        condensed == folded.child[n]
    IN  CASE folded.thrown -> folded
          [] ~folded.thrown /\ condensed # Null ->
                 replace_in_list([folded EXCEPT !.child[n] = Null, !.prev[condensed] = Null],
                                 n, condensed)
          [] OTHER -> unlink_from_list(folded, n)

verify(h) ==
    h.root # Null =>
        /\ h.prev[h.root] = Null /\ h.next[h.root] = Null
        /\ links_consistent(h)
        /\ HeapOrdered(h)

=============================================================================
