---------------------------- MODULE BinomialHeap ----------------------------
(* The binomial heap policy, containers/heap/policy/binomial_heap.hpp.     *)
(* The root list is sorted by degree; a throw in the carry pass leaves it  *)
(* with equal degrees, which the next operation works on.                  *)
EXTENDS HeapNodes

(* MUTANT: the first two of three equal degrees are melded *)
Mergeable_early(h, n) == h.rank[n] = h.rank[h.next[n]]

(* Of three equal degrees in a row the later two are melded. *)
Mergeable(h, n) ==
    LET after == h.next[h.next[n]]
    IN  /\ h.rank[n] = h.rank[h.next[n]]
        /\ after = Null \/ h.rank[after] # h.rank[n]

Melded(h, loser, winner) ==
    LET linked == link_first_child(unlink_from_list(Compared(h), loser), loser, winner)
    IN  [linked EXCEPT !.rank[winner] = @ + 1]

RECURSIVE coalesce(_, _)
(* The carry pass, from root list member n on. *)
coalesce(h, n) ==
    IF n = Null \/ h.next[n] = Null THEN h
    ELSE IF ~Mergeable(h, n) THEN coalesce(h, h.next[n])
    ELSE IF ~Compares(h) THEN Thrown(h)
    ELSE IF Less(h, n, h.next[n]) THEN coalesce(Melded(h, n, h.next[n]), h.next[n])
    ELSE coalesce(Melded(h, h.next[n], n), n)

RECURSIVE zip_by_degree(_, _, _)
zip_by_degree(h, a, b) ==
    IF a = <<>> \/ b = <<>> THEN a \o b
    ELSE IF h.rank[a[1]] <= h.rank[b[1]]
         THEN <<a[1]>> \o zip_by_degree(h, Tail(a), b)
         ELSE <<b[1]>> \o zip_by_degree(h, a, Tail(b))

insert(h, n) ==
    LET linked == link_root_front([h EXCEPT !.rank[n] = 0], n)
    IN  coalesce(linked, linked.root)

join(h, other) ==
    LET zipped == Forest(h, zip_by_degree(h, Roots(h), list_from(h, other)))
    IN  IF other = Null THEN h ELSE coalesce(zipped, zipped.root)

-----------------------------------------------------------------------------
(* Node n and its parent p trade places and degrees: the link triples are  *)
(* exchanged, and up to six neighbours aim at the other of the two.        *)
swap_with_parent(h, n, p) ==
    LET grand  == h.prev[p]
        first  == h.child[p]
        heads  == first = n
        out    == [h EXCEPT
            !.prev = [m \in DOMAIN @ |->
                CASE m = n -> grand
                  [] m = p -> IF heads THEN n ELSE @[n]
                  [] m = h.next[p] -> n
                  [] m = h.next[n] -> p
                  [] m = h.child[n] -> p
                  [] m = first /\ ~heads -> n
                  [] OTHER -> @[m]],
            !.next = [m \in DOMAIN @ |->
                CASE m = n -> @[p] [] m = p -> @[n]
                  [] ~heads /\ m = h.prev[n] -> p
                  [] grand # Null /\ m = grand /\ h.child[grand] # p -> n
                  [] OTHER -> @[m]],
            !.child = [m \in DOMAIN @ |->
                CASE m = n -> IF heads THEN p ELSE first [] m = p -> @[n]
                  [] grand # Null /\ m = grand /\ @[grand] = p -> n
                  [] OTHER -> @[m]],
            !.rank[n] = h.rank[p], !.rank[p] = h.rank[n]]
    IN  IF grand = Null THEN [out EXCEPT !.root = n] ELSE out

RECURSIVE bubbled(_, _)
(* detach's loop: up to the root list, without a comparison *)
bubbled(h, n) ==
    IF parent_of(h, n) = Null THEN h ELSE bubbled(swap_with_parent(h, n, parent_of(h, n)), n)

(* The children, of degrees k-1 down to 0, reversed are a root list. *)
extract_root(h, n) ==
    LET out      == unlink_from_list(h, n)
        children == Children(h, n)
        reversed == [i \in DOMAIN children |-> children[Len(children) + 1 - i]]
        bare     == [out EXCEPT !.child[n] = Null, !.rank[n] = 0]
    IN  Forest(bare, zip_by_degree(out, Roots(out), reversed))

(* What has been taken out is put back, childless, if the carries throw. *)
ExtractedOrBack(h, n) ==
    LET carried == coalesce(extract_root(h, n), extract_root(h, n).root)
    IN  IF carried.thrown THEN link_root_front(carried, n) ELSE carried

detach(h, n) == ExtractedOrBack(bubbled(h, n), n)

extract_top(h) ==
    IF ~FindsTop(h) THEN Thrown(h) ELSE ExtractedOrBack(SearchedTop(h), find_top(h))

-----------------------------------------------------------------------------
IsBinomial(h, n) ==
    /\ Len(Children(h, n)) = h.rank[n]
    /\ \A i \in DOMAIN Children(h, n) : h.rank[Children(h, n)[i]] = h.rank[n] - i

verify(h) ==
    /\ links_consistent(h)
    /\ \A i \in 1 .. Len(Roots(h)) - 1 : h.rank[Roots(h)[i]] <= h.rank[Roots(h)[i + 1]]
    /\ \A i \in DOMAIN preorder(h, h.root) : IsBinomial(h, preorder(h, h.root)[i])
    /\ HeapOrdered(h)

=============================================================================
