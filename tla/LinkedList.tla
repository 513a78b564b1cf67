----------------------------- MODULE LinkedList ------------------------------
(***************************************************************************)
(* chaistl::list: nodes in a ring through a header.  A header is named by  *)
(* its list; Temps are the lists a call makes and destroys.                *)
(***************************************************************************)
EXTENDS ListNodes

Contents(m, h) == Walk(m, m.next[h], h)

-----------------------------------------------------------------------------
(* Links                                                                   *)

init_self_referential(m, h) == [m EXCEPT !.next[h] = h, !.prev[h] = h]

link_nodes(m, position, first, last) ==
    [m EXCEPT !.prev = [@ EXCEPT ![first] = m.prev[position], ![position] = last],
              !.next = [@ EXCEPT ![last] = position, ![m.prev[position]] = first]]

unlink_nodes(m, first, last) ==
    [m EXCEPT !.next = [@ EXCEPT ![m.prev[first]] = m.next[last]],
              !.prev = [@ EXCEPT ![m.next[last]] = m.prev[first]]]

Destroyed(m, h, nodes) ==
    [destroy_nodes(m, h, nodes) EXCEPT
        !.prev = [x \in DOMAIN @ |-> IF x \in ToSet(nodes) THEN Null ELSE @[x]]]

destroy_and_deallocate_nodes(m, h) ==
    init_self_referential([Destroyed(m, h, Contents(m, h)) EXCEPT !.size[h] = 0], h)

(* The header h takes the place of another in the ring from first to last. *)
Adopt(m, h, first, last) ==
    [m EXCEPT !.next = [@ EXCEPT ![h] = first, ![last] = h],
              !.prev = [@ EXCEPT ![h] = last, ![first] = h]]

take_storage_from(m, h, other) ==
    init_self_referential(
        [IF m.size[other] = 0 THEN init_self_referential(m, h)
         ELSE Adopt(m, h, m.next[other], m.prev[other])
         EXCEPT !.size[h] = m.size[other], !.size[other] = 0], other)

replace_storage_from(m, h, other) ==
    take_storage_from(destroy_and_deallocate_nodes(m, h), h, other)

-----------------------------------------------------------------------------
(* Adding and removing elements                                            *)

Grown(m, h, position, n) == [link_nodes(m, position, n, n) EXCEPT !.size[h] = @ + 1]

emplace(m, h, position, v) ==
    IF CanCreate(m) THEN Grown(create_node(m, h, v), h, position, Fresh(m)) ELSE Raise(m)

(* A loop of emplace_back (position h) or emplace_front, one value at a time *)
RECURSIVE EmplaceEach(_, _, _, _)
EmplaceEach(m, h, front, vs) ==
    IF vs = <<>> \/ m.raised THEN m
    ELSE EmplaceEach(emplace(m, h, IF front THEN m.next[h] ELSE h, Head(vs)), h, front, Tail(vs))

(* The chain insert builds before it links it: nodes joined by next alone *)
RECURSIVE Chained(_, _, _, _)
Chained(m, h, last, vs) ==
    IF vs = <<>> THEN [m EXCEPT !.next[last] = Null]
    ELSE IF ~CanCreate(m) THEN Raise(m)
    ELSE Chained([create_node(m, h, Head(vs)) EXCEPT !.next[last] = Fresh(m)], h, Fresh(m), Tail(vs))

LinkChain(m, h, position, chain) ==
    IF m.raised THEN Destroyed(m, h, chain)
    ELSE [link_nodes(m, position, Head(chain), Last(chain)) EXCEPT !.size[h] = @ + Len(chain)]

LinkFrom(m, h, position, first) == LinkChain(m, h, position, Walk(m, first, Null))

insert(m, h, position, vs) ==
    IF vs = <<>> THEN m
    ELSE IF ~CanCreate(m) THEN Raise(m)
    ELSE LinkFrom(Chained(create_node(m, h, Head(vs)), h, Fresh(m), Tail(vs)), h, position, Fresh(m))

erase(m, h, n) ==
    Destroyed([unlink_nodes(m, n, n) EXCEPT !.size[h] = @ - 1], h, <<n>>)

EraseChain(m, h, nodes) ==
    Destroyed([unlink_nodes(m, Head(nodes), Last(nodes)) EXCEPT !.size[h] = @ - Len(nodes)], h, nodes)

erase_range(m, h, first, last) == IF first = last THEN m ELSE EraseChain(m, h, Walk(m, first, last))

RECURSIVE PopBackTo(_, _, _)
PopBackTo(m, h, count) == IF m.size[h] <= count THEN m ELSE PopBackTo(erase(m, h, m.prev[h]), h, count)

(* The guard of a resize that grows pops down to the new size. *)
resize(m, h, count, v) ==
    IF count > m.size[h]
    THEN Guarded(EmplaceEach(m, h, FALSE, [i \in 1..(count - m.size[h]) |-> v]),
                 LAMBDA r : PopBackTo(r, h, count))
    ELSE PopBackTo(m, h, count)

(* A constructor's guard destroys the nodes it has linked. *)
construct(m, h, vs) ==
    Guarded(EmplaceEach(m, h, FALSE, vs), LAMBDA r : destroy_and_deallocate_nodes(r, h))

(* assign overwrites elements, then erases the rest or inserts the rest. *)
RECURSIVE assign(_, _, _, _)
assign(m, h, current, vs) ==
    IF m.raised THEN m
    ELSE IF vs = <<>> THEN erase_range(m, h, current, h)
    ELSE IF current = h THEN insert(m, h, h, vs)
    ELSE assign(Assigned(m, current, Head(vs)), h, m.next[current], Tail(vs))

Values(m, h) == [i \in DOMAIN Contents(m, h) |-> m.value[Contents(m, h)[i]]]

(* The elements of other a move has reached: fuel says how many. *)
Drained(m, other, k) ==
    [m EXCEPT !.value = [n \in Nodes |->
        IF n \in ToSet(SubSeq(Contents(m, other), 1, k)) THEN Husk ELSE @[n]]]

DrainedSince(before, m, other) == Drained(m, other, before.fuel - m.fuel)

-----------------------------------------------------------------------------
(* Whole lists                                                             *)

move_construct(m, h, other) ==
    IF m.alloc[h] = m.alloc[other] THEN take_storage_from(m, h, other)
    ELSE DrainedSince(m, construct(m, h, Values(m, other)), other)

AllocatorOf(m, h, other) == [m EXCEPT !.alloc[h] = m.alloc[other]]

swap_storage(m, h, other) ==
    [IF m.size[h] = 0
     THEN IF m.size[other] = 0 THEN m
          ELSE init_self_referential(Adopt(m, h, m.next[other], m.prev[other]), other)
     ELSE IF m.size[other] = 0
          THEN init_self_referential(Adopt(m, other, m.next[h], m.prev[h]), h)
          ELSE Adopt(Adopt(m, h, m.next[other], m.prev[other]), other, m.next[h], m.prev[h])
     EXCEPT !.size[h] = m.size[other], !.size[other] = m.size[h]]

swap(m, h, other) ==
    IF m.propagates
    THEN [swap_storage(m, h, other) EXCEPT !.alloc[h] = m.alloc[other], !.alloc[other] = m.alloc[h]]
    ELSE swap_storage(m, h, other)

(* operator=(const list&): the copy is complete before the list changes. *)
CopyTaken(m, h, other) ==
    IF m.raised THEN m
    ELSE IF m.propagates
    THEN take_storage_from(AllocatorOf(destroy_and_deallocate_nodes(m, h), h, other), h, "copy")
    ELSE destroy_and_deallocate_nodes(swap(m, h, "copy"), "copy")

copy_assign(m, h, other) ==
    CopyTaken(construct([m EXCEPT !.alloc["copy"] = m.alloc[IF m.propagates THEN other ELSE h]],
                        "copy", Values(m, other)), h, other)

move_assign(m, h, other) ==
    IF m.propagates
    THEN take_storage_from(AllocatorOf(destroy_and_deallocate_nodes(m, h), h, other), h, other)
    ELSE IF m.alloc[h] = m.alloc[other] THEN replace_storage_from(m, h, other)
    ELSE DrainedSince(m, assign(m, h, m.next[h], Values(m, other)), other)

-----------------------------------------------------------------------------
(* List operations                                                         *)

(* The nodes from first to last, n of them, leave other for h. *)
Transfer(m, h, position, other, first, last, n) ==
    link_nodes(unlink_nodes([m EXCEPT !.size = [[@ EXCEPT ![other] = @ - n] EXCEPT ![h] = @ + n]],
                            first, last), position, first, last)

splice(m, h, position, other) ==
    IF m.size[other] = 0 THEN m
    ELSE init_self_referential(
             Transfer(m, h, position, other, m.next[other], m.prev[other], m.size[other]), other)

splice_one(m, h, position, other, it) ==
    IF position = it \/ position = m.next[it] THEN m
    ELSE Transfer(m, h, position, other, it, it, 1)

splice_range(m, h, position, other, first, last) ==
    IF first = last THEN m
    ELSE Transfer(m, h, position, other, first, m.prev[last], Len(Walk(m, first, last)))

RECURSIVE remove(_, _, _, _)
remove(m, h, it, v) ==
    IF it = h \/ m.raised THEN m
    ELSE IF m.fuel = 0 THEN Raise(m)
    ELSE IF m.value[it] = v THEN remove(erase(Spend(m), h, it), h, m.next[it], v)
    ELSE remove(Spend(m), h, m.next[it], v)

RECURSIVE UniqueFrom(_, _, _, _)
UniqueFrom(m, h, it, next) ==
    IF next = h THEN m
    ELSE IF m.fuel = 0 THEN Raise(m)
    ELSE IF m.value[it] = m.value[next] THEN UniqueFrom(erase(Spend(m), h, next), h, it, m.next[next])
    ELSE UniqueFrom(Spend(m), h, next, m.next[next])

unique(m, h) == IF m.size[h] < 2 THEN m ELSE UniqueFrom(m, h, m.next[h], m.next[m.next[h]])

(* Where the run of other's elements from x on that come before y ends *)
RECURSIVE RunEnd(_, _, _, _)
RunEnd(m, other, x, y) ==
    IF x # other /\ Before(m, x, y) THEN RunEnd(m, other, m.next[x], y) ELSE x

(* The comparisons that find it: one for each element, and one that fails *)
RunCost(m, other, x, end) == Len(Walk(m, x, end)) + IF end = other THEN 0 ELSE 1

MoveRun(m, h, other, x, y, end) ==
    IF m.fuel < RunCost(m, other, x, end) THEN Raise(m)
    ELSE Transfer([m EXCEPT !.fuel = @ - RunCost(m, other, x, end)], h, y, other,
                  x, m.prev[end], Len(Walk(m, x, end)))

RECURSIVE MergeFrom(_, _, _, _, _)
MergeFrom(m, h, other, x, y) ==
    IF m.raised THEN m
    ELSE IF y = h \/ x = other THEN splice(m, h, h, other)
    ELSE IF m.fuel = 0 THEN Raise(m)
    ELSE IF Before(m, x, y)
    THEN MergeFrom(MoveRun(m, h, other, x, y, RunEnd(m, other, x, y)), h, other,
                   RunEnd(m, other, x, y), y)
    ELSE MergeFrom(Spend(m), h, other, x, m.next[y])

merge(m, h, other) == IF h = other THEN m ELSE MergeFrom(m, h, other, m.next[other], m.next[h])

(* carry goes up the counters, merged into each full one, to an empty one. *)
RECURSIVE Carry(_, _, _)
Carry(m, i, fill) ==
    IF m.raised THEN [m |-> m, fill |-> fill]
    ELSE IF i <= fill /\ m.size[Counters[i]] # 0
    THEN Carry(swap(merge(m, Counters[i], "carry"), "carry", Counters[i]), i + 1, fill)
    ELSE [m |-> swap(m, "carry", Counters[i]), fill |-> IF i > fill THEN i ELSE fill]

RECURSIVE Collapse(_, _, _, _)
Collapse(m, h, i, fill) ==
    IF m.raised THEN m
    ELSE IF i > fill THEN swap(m, h, Counters[fill])
    ELSE Collapse(merge(m, Counters[i], Counters[i - 1]), h, i + 1, fill)

RECURSIVE Distribute(_, _)
Distribute(r, h) ==
    IF r.m.raised THEN r.m
    ELSE IF r.m.size[h] = 0 THEN Collapse(r.m, h, 2, r.fill)
    ELSE Distribute(Carry(splice_one(r.m, "carry", r.m.next["carry"], h, r.m.next[h]), 1, r.fill), h)

(* The temporary lists are destroyed, with what a throw has left in them. *)
sort(m, h) ==
    IF m.size[h] < 2 THEN m
    ELSE FoldLeft(destroy_and_deallocate_nodes,
                  Distribute([m |-> [m EXCEPT !.alloc = [x \in Headers |->
                                        IF x \in Temps THEN m.alloc[h] ELSE @[x]]],
                              fill |-> 0], h),
                  <<"carry">> \o Counters)

reverse(m, h) ==
    IF m.size[h] < 2 THEN m
    ELSE LET ring == ToSet(Contents(m, h)) \cup {h}
         IN  [m EXCEPT !.next = [x \in DOMAIN @ |-> IF x \in ring THEN m.prev[x] ELSE @[x]],
                       !.prev = [x \in DOMAIN @ |-> IF x \in ring THEN m.next[x] ELSE @[x]]]

=============================================================================
