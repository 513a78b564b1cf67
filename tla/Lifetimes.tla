----------------------------- MODULE Lifetimes ------------------------------
(***************************************************************************)
(* Storage and the lifetimes of the elements in it, as chaistl's vector    *)
(* and deque manage them (memory/detail).  A memory m holds:               *)
(*   box     the containers of a call: cells (the slots of the storage, by *)
(*           position), cap (its allocated size), first and size (where    *)
(*           the elements are), alloc (the memory resource)                *)
(*   ranges  what a construction_transaction would destroy                 *)
(*   arg     the call's argument, ref its position when it is an element   *)
(*           of "self"                                                     *)
(*   held    the allocations each resource has handed out                  *)
(*   fuel    the calls of user code and of the allocator that will succeed *)
(*   raised  an exception is active: until it is caught nothing else runs  *)
(*   wrong   an element was constructed over another, destroyed twice, or  *)
(*           lost with its storage                                         *)
(*   nothrow, propagates   the element's move constructor, the allocator   *)
(***************************************************************************)
EXTENDS Integers, SequencesExt, FiniteSetsExt

CONSTANTS
    Raw,      \* a slot without an element
    Husk,     \* an element that was moved from
    Absent    \* a slot of storage that was not allocated

Boxes == {"self", "other", "copy", "inserted", "new"}

Nowhere == -1

EmptyBox(alloc) == [cells |-> <<>>, cap |-> 0, first |-> 0, size |-> 0, alloc |-> alloc]

Raise(m) == [m EXCEPT !.raised = TRUE]

(* n calls in a row, the first of which to fail throws *)
Spend(m, n) == IF n > m.fuel THEN [Raise(m) EXCEPT !.fuel = 0] ELSE [m EXCEPT !.fuel = @ - n]

Must(m, condition) == [m EXCEPT !.wrong = @ \/ ~condition]

Cell(m, b, p) == IF p \in DOMAIN m.box[b].cells THEN m.box[b].cells[p] ELSE Absent

Span(p, n) == p..(p + n - 1)

Cells(m, b, p, n) == [k \in 1..n |-> Cell(m, b, p + k - 1)]

Live(m, b, positions) == \A p \in positions : Cell(m, b, p) \notin {Raw, Absent}

Vacant(m, b, positions) == \A p \in positions : Cell(m, b, p) = Raw

Written(m, b, p, values) ==
    [m EXCEPT !.box[b].cells =
        [q \in DOMAIN @ |-> IF q \in Span(p, Len(values)) THEN values[q - p + 1] ELSE @[q]]]

(* The argument, which is freed memory when its storage was given back *)
Argument(m) == IF m.ref = Nowhere THEN m.arg ELSE Cell(m, "self", m.ref)

Dangling(m) == IF m.ref = Nowhere THEN m ELSE [m EXCEPT !.ref = Nowhere, !.arg = Husk]

-----------------------------------------------------------------------------
(* Storage                                                                 *)

Grant(m, b) == IF m.fuel = 0 THEN Raise(m)
               ELSE [m EXCEPT !.fuel = @ - 1, !.held[m.box[b].alloc] = @ + 1]

Returned(m, b) == [m EXCEPT !.held[m.box[b].alloc] = @ - 1]

(* raw_storage_buffer: nothing is allocated for no elements. *)
allocate(m, b, n) ==
    IF m.raised \/ n = 0 THEN m
    ELSE IF m.fuel = 0 THEN Raise(m)
    ELSE [Grant(m, b) EXCEPT !.box[b].cells = [p \in 0..n - 1 |-> Raw], !.box[b].cap = n]

(* The storage may not hold elements any more. *)
deallocate(m, b) ==
    IF m.box[b].cap = 0 THEN m
    ELSE [Must(Returned(m, b), Vacant(m, b, DOMAIN m.box[b].cells))
             EXCEPT !.box[b] = EmptyBox(@.alloc)]

-----------------------------------------------------------------------------
(* allocator_uninitialized_*: everything is constructed, or (the guard     *)
(* destroys what was) nothing.                                             *)

destroy(m, b, positions) ==
    [Must(m, Live(m, b, positions)) EXCEPT
        !.box[b].cells = [p \in DOMAIN @ |-> IF p \in positions THEN Raw ELSE @[p]]]

Placed(m, b, p, values) ==
    Written(Must(m, Vacant(m, b, Span(p, Len(values)))), b, p, values)

uninitialized_copy(m, b, p, values) ==
    IF m.raised THEN m
    ELSE IF Len(values) > m.fuel THEN [Raise(m) EXCEPT !.fuel = 0]
    ELSE Placed(Spend(m, Len(values)), b, p, values)

uninitialized_fill_n(m, b, p, n) ==
    uninitialized_copy(m, b, p, [k \in 1..n |-> Argument(m)])

Emptied(m, b, p, n) == Written(m, b, p, [k \in 1..n |-> Husk])

(* Elements whose move constructor may throw are copied. *)
uninitialized_move_if_noexcept(m, b, p, from, q, n) ==
    IF m.raised THEN m
    ELSE IF m.nothrow THEN Emptied(Placed(m, b, p, Cells(m, from, q, n)), from, q, n)
    ELSE uninitialized_copy(m, b, p, Cells(m, from, q, n))

(* One element moved into a slot, *from left behind empty *)
construct_moved(m, b, p, from, q) ==
    IF m.raised \/ (~m.nothrow /\ m.fuel = 0) THEN Raise(m)
    ELSE Emptied(Placed(IF m.nothrow THEN m ELSE Spend(m, 1), b, p, Cells(m, from, q, 1)), from, q, 1)

-----------------------------------------------------------------------------
(* Assignment, which stops where it throws                                 *)

(* How many of n moves succeed *)
Reach(m, n) == IF m.nothrow \/ n <= m.fuel THEN n ELSE m.fuel

Moved(m, b, p, q, n, done) ==
    [m EXCEPT
        !.raised = Cardinality(done) < n,
        !.fuel = IF m.nothrow THEN @ ELSE @ - Cardinality(done),
        !.wrong = @ \/ ~Live(m, b, Span(p, n) \cup Span(q, n)),
        !.box[b].cells = [s \in DOMAIN @ |->
            IF s - p \in done THEN @[s - p + q] ELSE IF s - q \in done THEN Husk ELSE @[s]]]

(* std::move of n elements from q towards the front, to p *)
move_forward(m, b, p, q, n) ==
    IF m.raised THEN m ELSE Moved(m, b, p, q, n, 0..(Reach(m, n) - 1))

(* std::move_backward of n elements from q towards the back, to p *)
move_backward(m, b, p, q, n) ==
    IF m.raised THEN m ELSE Moved(m, b, p, q, n, (n - Reach(m, n))..(n - 1))

(* Copy assignment of values, one at a time *)
copy_assign_each(m, b, p, values) ==
    IF m.raised THEN m
    ELSE LET done == SubSeq(values, 1, IF Len(values) < m.fuel THEN Len(values) ELSE m.fuel)
         IN  Written(Must(Spend(m, Len(values)), Live(m, b, Span(p, Len(values)))), b, p, done)

(* Move assignment of one value that only the call has *)
assign_moved(m, b, p, value) ==
    IF m.raised \/ (~m.nothrow /\ m.fuel = 0) THEN Raise(m)
    ELSE Written(Must(IF m.nothrow THEN m ELSE Spend(m, 1), Live(m, b, {p})), b, p, <<value>>)

-----------------------------------------------------------------------------
(* construction_transaction: ranges are destroyed in reverse, unless       *)
(* complete() was reached.  There is room for four: push_range terminates  *)
(* the program at a fifth.                                                 *)

MaxRanges == 4

Registered(m, p, n) ==
    IF m.raised \/ n = 0 THEN m
    ELSE [Must(m, Len(m.ranges) < MaxRanges) EXCEPT !.ranges = Append(@, Span(p, n))]

rollback(m, b) == FoldRight(LAMBDA positions, r : destroy(r, b, positions), m.ranges, m)

=============================================================================
