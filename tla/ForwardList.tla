----------------------------- MODULE ForwardList -----------------------------
(***************************************************************************)
(* chaistl::forward_list: nodes linked by next alone, behind a before-     *)
(* begin node that is named by its list, with a pointer to the last node.  *)
(***************************************************************************)
EXTENDS ListNodes

CONSTANT DefaultResource  \* what a list that is given no allocator uses

Contents(m, h) == Walk(m, m.next[h], Null)

-----------------------------------------------------------------------------
(* Links                                                                   *)

link_after(m, position, first, last) ==
    [m EXCEPT !.next = [@ EXCEPT ![last] = m.next[position], ![position] = first]]

unlink_after(m, position, last) == [m EXCEPT !.next[position] = m.next[last]]

link_back_node(m, h, n) == [m EXCEPT !.next[m.last[h]] = n, !.last[h] = n]

Emptied(m, h) == [m EXCEPT !.next[h] = Null, !.last[h] = h, !.size[h] = 0]

destroy_and_deallocate_nodes(m, h) == Emptied(destroy_nodes(m, h, Contents(m, h)), h)

take_storage_from(m, h, other) ==
    Emptied([m EXCEPT !.next[h] = m.next[other],
                      !.last[h] = IF m.size[other] = 0 THEN h ELSE m.last[other],
                      !.size[h] = m.size[other]], other)

replace_storage_from(m, h, other) ==
    take_storage_from(destroy_and_deallocate_nodes(m, h), h, other)

(* last_ follows an insertion after the last node. *)
Trailed(m, h, position, n) ==
    IF position = m.last[h] \/ m.next[position] = Null THEN [m EXCEPT !.last[h] = n] ELSE m

-----------------------------------------------------------------------------
(* Adding and removing elements                                            *)

Longer(m, h, n) == [m EXCEPT !.size[h] = @ + n]

emplace_after(m, h, position, v) ==
    IF ~CanCreate(m) THEN Raise(m)
    ELSE Longer(link_after(Trailed(create_node(m, h, v), h, position, Fresh(m)),
                           position, Fresh(m), Fresh(m)), h, 1)

emplace_back(m, h, v) ==
    IF ~CanCreate(m) THEN Raise(m)
    ELSE Longer(link_back_node(create_node(m, h, v), h, Fresh(m)), h, 1)

emplace_front(m, h, v) ==
    IF m.size[h] = 0 THEN emplace_back(m, h, v)
    ELSE IF ~CanCreate(m) THEN Raise(m)
    ELSE Longer(link_after(create_node(m, h, v), h, Fresh(m), Fresh(m)), h, 1)

RECURSIVE EmplaceEach(_, _, _)
EmplaceEach(m, h, vs) ==
    IF vs = <<>> \/ m.raised THEN m ELSE EmplaceEach(emplace_back(m, h, Head(vs)), h, Tail(vs))

RECURSIVE Chained(_, _, _, _)
Chained(m, h, last, vs) ==
    IF vs = <<>> THEN [m EXCEPT !.next[last] = Null]
    ELSE IF ~CanCreate(m) THEN Raise(m)
    ELSE Chained([create_node(m, h, Head(vs)) EXCEPT !.next[last] = Fresh(m)], h, Fresh(m), Tail(vs))

(* MUTANT: the chain built so far is not destroyed *)
LinkChain_leaking(m, h, position, chain) ==
    IF m.raised THEN m
    ELSE Longer(link_after(Trailed(m, h, position, Last(chain)), position, Head(chain), Last(chain)),
                h, Len(chain))

LinkChain(m, h, position, chain) ==
    IF m.raised THEN destroy_nodes(m, h, chain)
    ELSE Longer(link_after(Trailed(m, h, position, Last(chain)), position, Head(chain), Last(chain)),
                h, Len(chain))

LinkFrom(m, h, position, first) == LinkChain(m, h, position, Walk(m, first, Null))

insert_after(m, h, position, vs) ==
    IF vs = <<>> THEN m
    ELSE IF ~CanCreate(m) THEN Raise(m)
    ELSE LinkFrom(Chained(create_node(m, h, Head(vs)), h, Fresh(m), Tail(vs)), h, position, Fresh(m))

pop_front(m, h) ==
    destroy_node([unlink_after(m, h, m.next[h]) EXCEPT
                     !.size[h] = @ - 1, !.last[h] = IF m.size[h] = 1 THEN h ELSE @], h, m.next[h])

(* MUTANT: last_ still points to the node that was erased *)
erase_after_last(m, h, position) ==
    IF m.next[position] = Null THEN m
    ELSE destroy_node([unlink_after(m, position, m.next[position]) EXCEPT !.size[h] = @ - 1],
                      h, m.next[position])

erase_after(m, h, position) ==
    IF m.next[position] = Null THEN m
    ELSE destroy_node([unlink_after(m, position, m.next[position]) EXCEPT
                          !.size[h] = @ - 1,
                          !.last[h] = IF @ = m.next[position] THEN position ELSE @],
                      h, m.next[position])

EraseChain(m, h, first, last, nodes) ==
    destroy_nodes([m EXCEPT !.next[first] = last, !.size[h] = @ - Len(nodes),
                            !.last[h] = IF last = Null THEN first ELSE @], h, nodes)

(* The nodes strictly between first and last *)
erase_range(m, h, first, last) ==
    IF first = last \/ m.next[first] = last THEN m
    ELSE EraseChain(m, h, first, last, Walk(m, m.next[first], last))

(* The node before n, found from the front *)
Predecessor(m, h, n) == Last(<<h>> \o Walk(m, m.next[h], n))

RECURSIVE PopBackTo(_, _, _)
PopBackTo(m, h, count) ==
    IF m.size[h] <= count THEN m
    ELSE PopBackTo(IF m.size[h] = 1 THEN pop_front(m, h)
                   ELSE erase_after(m, h, Predecessor(m, h, m.last[h])), h, count)

Regrown(m, h, old) == Guarded(m, LAMBDA r : PopBackTo(r, h, old))

resize(m, h, count, v) ==
    IF count > m.size[h]
    THEN Regrown(EmplaceEach(m, h, [i \in 1..(count - m.size[h]) |-> v]), h, m.size[h])
    ELSE PopBackTo(m, h, count)

construct(m, h, vs) ==
    Guarded(EmplaceEach(m, h, vs), LAMBDA r : destroy_and_deallocate_nodes(r, h))

RECURSIVE assign(_, _, _, _)
assign(m, h, current, vs) ==
    IF m.raised THEN m
    ELSE IF vs = <<>>
    THEN IF current = m.next[h] THEN destroy_and_deallocate_nodes(m, h)
         ELSE erase_range(m, h, Predecessor(m, h, current), Null)
    ELSE IF current = Null THEN EmplaceEach(m, h, vs)
    ELSE assign(Assigned(m, current, Head(vs)), h, m.next[current], Tail(vs))

Values(m, h) == [i \in DOMAIN Contents(m, h) |-> m.value[Contents(m, h)[i]]]

(* The elements of other a move has reached: fuel says how many. *)
Drained(m, other, k) ==
    [m EXCEPT !.value = [n \in Nodes |->
        IF n \in ToSet(SubSeq(Contents(m, other), 1, k)) THEN Husk ELSE @[n]]]

DrainedSince(before, m, other) == Drained(m, other, before.fuel - m.fuel)

-----------------------------------------------------------------------------
(* Whole lists                                                             *)

move_construct(m, h, other) ==
    IF m.alloc[h] = m.alloc[other] THEN take_storage_from(m, h, other)
    ELSE DrainedSince(m, construct(m, h, Values(m, other)), other)

AllocatorOf(m, h, other) == [m EXCEPT !.alloc[h] = m.alloc[other]]

(* MUTANT: an empty list keeps the other's pointer to its header *)
swap_last(m, h, other) ==
    [m EXCEPT !.next = [@ EXCEPT ![h] = m.next[other], ![other] = m.next[h]],
              !.last = [@ EXCEPT ![h] = m.last[other], ![other] = m.last[h]],
              !.size = [@ EXCEPT ![h] = m.size[other], ![other] = m.size[h]]]

swap(m, h, other) ==
    [m EXCEPT !.next = [@ EXCEPT ![h] = m.next[other], ![other] = m.next[h]],
              !.last = [@ EXCEPT ![h] = IF m.size[other] = 0 THEN h ELSE m.last[other],
                                 ![other] = IF m.size[h] = 0 THEN other ELSE m.last[h]],
              !.size = [@ EXCEPT ![h] = m.size[other], ![other] = m.size[h]],
              !.alloc = IF m.propagates
                        THEN [@ EXCEPT ![h] = m.alloc[other], ![other] = m.alloc[h]] ELSE @]

CopyTaken(m, h, other) ==
    IF m.raised THEN m
    ELSE IF m.propagates
    THEN take_storage_from(AllocatorOf(destroy_and_deallocate_nodes(m, h), h, other), h, "copy")
    ELSE destroy_and_deallocate_nodes(swap(m, h, "copy"), "copy")

copy_assign(m, h, other) ==
    CopyTaken(construct([m EXCEPT !.alloc["copy"] = m.alloc[IF m.propagates THEN other ELSE h]],
                        "copy", Values(m, other)), h, other)

move_assign(m, h, other) ==
    IF m.propagates
    THEN take_storage_from(AllocatorOf(destroy_and_deallocate_nodes(m, h), h, other), h, other)
    ELSE IF m.alloc[h] = m.alloc[other] THEN replace_storage_from(m, h, other)
    ELSE DrainedSince(m, assign(m, h, m.next[h], Values(m, other)), other)

-----------------------------------------------------------------------------
(* List operations                                                         *)

splice_after(m, h, position, other) ==
    IF m.size[other] = 0 THEN m
    ELSE Emptied(Longer(link_after(Trailed(m, h, position, m.last[other]),
                                   position, m.next[other], m.last[other]), h, m.size[other]), other)

(* target, the node after it, leaves other for h.                          *)
MoveOne(m, h, position, other, it, target) ==
    LET cut == [unlink_after(m, it, target) EXCEPT
                   !.size[other] = @ - 1,
                   !.last[other] = IF @ = target THEN it ELSE @]
        put == [cut EXCEPT !.next = [[@ EXCEPT ![target] = cut.next[position]]
                                        EXCEPT ![position] = target]]
    IN  Longer([put EXCEPT !.last[h] = IF put.next[target] = Null THEN target ELSE @], h, 1)

splice_after_one(m, h, position, other, it) ==
    IF m.next[it] = Null THEN m ELSE MoveOne(m, h, position, other, it, m.next[it])

(* nodes, the ones strictly between first and end, leave other for h: the  *)
(* count and the tail of other are looked after when other is not h.       *)
MoveRange(m, h, position, other, first, end, nodes) ==
    LET cut == [m EXCEPT
                   !.next[first] = end,
                   !.size = IF h = other THEN @
                            ELSE [@ EXCEPT ![other] = @ - Len(nodes), ![h] = @ + Len(nodes)],
                   !.last[other] = IF h # other /\ end = Null THEN first ELSE @]
        put == link_after(cut, position, Head(nodes), Last(nodes))
    IN  IF \/ position = cut.last[h]
           \/ (end = Null \/ cut.next[position] = Null) /\ put.next[Last(nodes)] = Null
        THEN [put EXCEPT !.last[h] = Last(nodes)] ELSE put

splice_after_range(m, h, position, other, first, end) ==
    IF first = end \/ m.next[first] = end THEN m
    ELSE MoveRange(m, h, position, other, first, end, Walk(m, m.next[first], end))

(* The list is built apart and linked in whole. *)
Prepended(m, h) ==
    IF m.raised THEN destroy_and_deallocate_nodes(m, "copy") ELSE splice_after(m, h, h, "copy")

prepend_range(m, h, vs) ==
    IF vs = <<>> THEN m
    ELSE Prepended(EmplaceEach(AllocatorOf(m, "copy", h), "copy", vs), h)

Dropped(m, h, prev, n) == destroy_node([unlink_after(m, prev, n) EXCEPT !.size[h] = @ - 1], h, n)

RECURSIVE RemoveFrom(_, _, _, _)
RemoveFrom(m, h, prev, v) ==
    IF m.next[prev] = Null THEN [m EXCEPT !.last[h] = prev]
    ELSE IF m.fuel = 0 THEN Raise(m)
    ELSE IF m.value[m.next[prev]] = v
    THEN RemoveFrom(Dropped(Spend(m), h, prev, m.next[prev]), h, prev, v)
    ELSE RemoveFrom(Spend(m), h, m.next[prev], v)

remove(m, h, v) == RemoveFrom(m, h, h, v)

RECURSIVE UniqueFrom(_, _, _)
UniqueFrom(m, h, prev) ==
    IF m.next[prev] = Null THEN [m EXCEPT !.last[h] = prev]
    ELSE IF m.fuel = 0 THEN Raise(m)
    ELSE IF m.value[prev] = m.value[m.next[prev]]
    THEN UniqueFrom(Dropped(Spend(m), h, prev, m.next[prev]), h, prev)
    ELSE UniqueFrom(Spend(m), h, m.next[prev])

unique(m, h) == IF m.size[h] < 2 THEN m ELSE UniqueFrom(m, h, m.next[h])

(* The node after p2 goes after p1. *)
MoveAfter(m, h, other, p1, p2, moved) ==
    [m EXCEPT !.next = [@ EXCEPT ![p2] = m.next[moved], ![moved] = m.next[p1], ![p1] = moved],
              !.last = [[@ EXCEPT ![h] = IF m.next[p1] = Null THEN moved ELSE @]
                           EXCEPT ![other] = IF m.next[moved] = Null THEN p2 ELSE @],
              !.size = [@ EXCEPT ![other] = @ - 1, ![h] = @ + 1]]

AppendRest(m, h, other) ==
    IF m.next[other] = Null THEN Emptied(m, other)
    ELSE Emptied([m EXCEPT !.next[m.last[h]] = m.next[other], !.last[h] = m.last[other],
                           !.size[h] = @ + m.size[other]], other)

RECURSIVE MergeFrom(_, _, _, _)
MergeFrom(m, h, other, p1) ==
    IF m.next[p1] = Null \/ m.next[other] = Null THEN AppendRest(m, h, other)
    ELSE IF m.fuel = 0 THEN Raise(m)
    ELSE IF Before(m, m.next[other], m.next[p1])
    THEN MergeFrom(MoveAfter(Spend(m), h, other, p1, other, m.next[other]), h, other, m.next[other])
    ELSE MergeFrom(Spend(m), h, other, m.next[p1])

merge(m, h, other) ==
    IF h = other \/ m.size[other] = 0 THEN m
    ELSE IF m.size[h] = 0 THEN take_storage_from(m, h, other)
    ELSE MergeFrom(m, h, other, h)

RECURSIVE Carry(_, _, _)
Carry(m, i, fill) ==
    IF m.raised THEN [m |-> m, fill |-> fill]
    ELSE IF i <= fill /\ m.size[Counters[i]] # 0
    THEN Carry(swap(merge(m, Counters[i], "carry"), "carry", Counters[i]), i + 1, fill)
    ELSE [m |-> swap(m, "carry", Counters[i]), fill |-> IF i > fill THEN i ELSE fill]

RECURSIVE Collapse(_, _, _, _)
Collapse(m, h, i, fill) ==
    IF m.raised THEN m
    ELSE IF i > fill THEN swap(m, h, Counters[fill])
    ELSE Collapse(merge(m, Counters[i], Counters[i - 1]), h, i + 1, fill)

RECURSIVE Distribute(_, _)
Distribute(r, h) ==
    IF r.m.raised THEN r.m
    ELSE IF r.m.size[h] = 0 THEN Collapse(r.m, h, 2, r.fill)
    ELSE Distribute(Carry(splice_after_one(r.m, "carry", "carry", h, h), 1, r.fill), h)

(* The temporary lists use the default resource, whatever the list uses.   *)
sort(m, h) ==
    IF m.size[h] < 2 THEN m
    ELSE FoldLeft(destroy_and_deallocate_nodes,
                  Distribute([m |-> [m EXCEPT !.alloc = [x \in Headers |->
                                        IF x \in Temps THEN DefaultResource ELSE @[x]]],
                              fill |-> 0], h),
                  <<"carry">> \o Counters)

reverse(m, h) ==
    IF m.size[h] < 2 THEN m
    ELSE LET nodes == Contents(m, h)
         IN  [m EXCEPT !.last[h] = Head(nodes),
                       !.next = [x \in DOMAIN @ |->
                           IF x = h THEN Last(nodes)
                           ELSE IF x = Head(nodes) THEN Null
                           ELSE IF x \in ToSet(nodes)
                           THEN nodes[(CHOOSE i \in DOMAIN nodes : nodes[i] = x) - 1]
                           ELSE @[x]]]

=============================================================================
