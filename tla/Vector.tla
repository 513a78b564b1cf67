------------------------------- MODULE Vector -------------------------------
(***************************************************************************)
(* chaistl::vector: elements at the front of one allocation, which a call  *)
(* that needs more room replaces by a larger one.  Box b is the vector a   *)
(* member function is called on; box "new" is the storage it builds.       *)
(***************************************************************************)
EXTENDS Lifetimes

CONSTANT MaxSize    \* max_size() of the allocator

size(m, b) == m.box[b].size

capacity(m, b) == m.box[b].cap

Contents(m, b) == Cells(m, b, 0, size(m, b))

check_capacity(m, count) == IF ~m.raised /\ count > MaxSize THEN Raise(m) ELSE m

recommended_capacity(m, b, required) ==
    IF required <= capacity(m, b) THEN capacity(m, b)
    ELSE IF capacity(m, b) > MaxSize \div 2 THEN MaxSize
    ELSE Max({IF capacity(m, b) = 0 THEN 1 ELSE capacity(m, b) * 2, required})

-----------------------------------------------------------------------------
(* Storage                                                                 *)

destroy_at_end(m, b, new_size) ==
    [destroy(m, b, new_size..(size(m, b) - 1)) EXCEPT !.box[b].size = new_size]

destroy_and_deallocate_storage(m, b) ==
    deallocate(destroy_at_end(IF b = "self" THEN Dangling(m) ELSE m, b, 0), b)

take_storage_from(m, b, from) ==
    [m EXCEPT !.box = [@ EXCEPT ![b] = [m.box[from] EXCEPT !.alloc = m.box[b].alloc],
                                ![from] = EmptyBox(@.alloc)]]

(* An uninitialized_storage_builder: storage for b, filled before b gives  *)
(* its own up, or rolled back and deallocated.                             *)
Storage(m, b, n) ==
    allocate([m EXCEPT !.box["new"] = EmptyBox(m.box[b].alloc), !.ranges = <<>>], "new", n)

Abandoned(m) == [deallocate(rollback(m, "new"), "new") EXCEPT !.ranges = <<>>]

Replaced(m, b, n) ==
    take_storage_from([destroy_and_deallocate_storage(m, b) EXCEPT
                          !.box["new"].size = n, !.ranges = <<>>], b, "new")

release(m, b, n) == IF m.raised THEN Abandoned(m) ELSE Replaced(m, b, n)

(* The builder's constructions register what they construct.               *)
build_copy(m, p, values) == Registered(uninitialized_copy(m, "new", p, values), p, Len(values))

build_fill(m, p, n) == Registered(uninitialized_fill_n(m, "new", p, n), p, n)

(* MUTANT: construct_at does not register the element *)
build_one_unregistered(m, p) == uninitialized_fill_n(m, "new", p, 1)

build_one(m, p) == build_fill(m, p, 1)

build_moved(m, p, from, q, n) ==
    Registered(uninitialized_move_if_noexcept(m, "new", p, from, q, n), p, n)

(* Storage for at least n elements, or length_error                        *)
Enlarged(m, b, n) == Storage(check_capacity(m, n), b, recommended_capacity(m, b, n))

reallocate(m, b, n) == release(build_moved(Storage(m, b, n), 0, b, 0, size(m, b)), b, size(m, b))

-----------------------------------------------------------------------------
(* Constructors                                                            *)

(* vector(count, value), vector(first, last), and the copy constructors    *)
construct(m, b, values) ==
    IF values = <<>> THEN m
    ELSE release(build_copy(Storage(check_capacity(m, Len(values)), b, Len(values)), 0, values), b, Len(values))

construct_moved_from(m, b, from) ==
    IF m.box[b].alloc = m.box[from].alloc THEN take_storage_from(m, b, from)
    ELSE IF size(m, from) = 0 THEN m
    ELSE release(build_moved(Storage(m, b, size(m, from)), 0, from, 0, size(m, from)), b, size(m, from))

(* A vector the call makes, with b's allocator *)
Beside(m, b, temporary) == [m EXCEPT !.box[temporary] = EmptyBox(m.box[b].alloc)]

-----------------------------------------------------------------------------
(* At the end                                                              *)

Longer(m, b, n) == IF m.raised THEN m ELSE [m EXCEPT !.box[b].size = @ + n]

construct_at_end(m, b) == Longer(uninitialized_fill_n(m, b, size(m, b), 1), b, 1)

(* MUTANT: the old elements are moved before the new one is constructed *)
reallocate_and_emplace_back_late(m, b) ==
    release(build_one(build_moved(Enlarged(m, b, size(m, b) + 1), 0, b, 0, size(m, b)), size(m, b)),
            b, size(m, b) + 1)

(* The new element first: it may be a copy of one that is moved next.      *)
reallocate_and_emplace_back(m, b) ==
    release(build_moved(build_one(Enlarged(m, b, size(m, b) + 1), size(m, b)), 0, b, 0, size(m, b)),
            b, size(m, b) + 1)

emplace_back(m, b) ==
    IF m.raised THEN m
    ELSE IF size(m, b) < capacity(m, b) THEN construct_at_end(m, b)
    ELSE reallocate_and_emplace_back(m, b)

append_counted_range(m, b, values) ==
    IF values = <<>> THEN m
    ELSE IF Len(values) > capacity(m, b) - size(m, b)
    THEN release(build_moved(build_copy(Enlarged(m, b, size(m, b) + Len(values)), size(m, b), values),
                             0, b, 0, size(m, b)), b, size(m, b) + Len(values))
    ELSE Longer(uninitialized_copy(m, b, size(m, b), values), b, Len(values))

(* A range that cannot be counted: one emplace_back after the other        *)
append_uncounted_range(m, b, values) ==
    FoldLeft(LAMBDA r, v : emplace_back([r EXCEPT !.ref = Nowhere, !.arg = v], b), m, values)

pop_back(m, b) == destroy_at_end(m, b, size(m, b) - 1)

-----------------------------------------------------------------------------
(* In the middle                                                           *)

reallocate_and_emplace_at(m, b, offset) ==
    release(build_moved(build_moved(build_one(Enlarged(m, b, size(m, b) + 1), offset), 0, b, 0, offset),
                        offset + 1, b, offset, size(m, b) - offset), b, size(m, b) + 1)

(* A copy of the argument first: the shift may overwrite it.               *)
ShiftedByOne(m, b, offset, n) ==
    move_backward(Longer(uninitialized_move_if_noexcept(m, b, n, b, n - 1, 1), b, 1),
                  b, offset + 1, offset, n - 1 - offset)

ShiftedIn(m, b, offset, value) == assign_moved(ShiftedByOne(m, b, offset, size(m, b)), b, offset, value)

emplace_in_spare_capacity(m, b, offset) ==
    IF offset = size(m, b) THEN construct_at_end(m, b) ELSE ShiftedIn(Spend(m, 1), b, offset, Argument(m))

emplace(m, b, offset) ==
    IF size(m, b) = capacity(m, b) THEN reallocate_and_emplace_at(m, b, offset)
    ELSE emplace_in_spare_capacity(m, b, offset)

insert_fill_with_reallocation(m, b, offset, count) ==
    release(
        build_copy(
            build_fill(
                build_copy(Enlarged(m, b, size(m, b) + count), 0, Cells(m, b, 0, offset)), offset, count),
            offset + count, Cells(m, b, offset, size(m, b) - offset)), b, size(m, b) + count)

(* A constructed_range_guard: without complete() the new elements at the   *)
(* end are destroyed.                                                      *)
Guarded(m, b, n) ==
    IF m.raised THEN destroy(m, b, {p \in n..(capacity(m, b) - 1) : Cell(m, b, p) # Raw}) ELSE m

(* The new elements: count copies of the argument, or what box "inserted"  *)
(* holds from position i on                                                *)
construct_new(m, b, p, fill, i, n) ==
    IF fill THEN uninitialized_fill_n(m, b, p, n)
    ELSE uninitialized_move_if_noexcept(m, b, p, "inserted", i, n)

move_assign_if_noexcept(m, b, p, n) ==
    IF m.nothrow /\ ~m.raised
    THEN Emptied(Written(Must(m, Live(m, b, Span(p, n))), b, p, Cells(m, "inserted", 0, n)), "inserted", 0, n)
    ELSE copy_assign_each(m, b, p, Cells(m, "inserted", 0, n))

assign_new(m, b, p, fill, n) ==
    IF fill THEN copy_assign_each(m, b, p, [k \in 1..n |-> Argument(m)])
    ELSE move_assign_if_noexcept(m, b, p, n)

(* count elements at offset, when more than count follow, and when not     *)
ShortInsert(m, b, offset, fill, count, n) ==
    assign_new(
        move_backward(
            Longer(Guarded(uninitialized_move_if_noexcept(m, b, n, b, n - count, count), b, n), b, count),
            b, offset + count, offset, n - count - offset), b, offset, fill, count)

LongInsert(m, b, offset, fill, count, n) ==
    assign_new(
        Longer(Guarded(uninitialized_move_if_noexcept(
                           construct_new(m, b, n, fill, n - offset, count - (n - offset)),
                           b, offset + count, b, offset, n - offset), b, n), b, count),
        b, offset, fill, n - offset)

insert_with_spare_capacity(m, b, offset, fill, count) ==
    IF m.raised THEN m
    ELSE IF offset = size(m, b) THEN Longer(construct_new(m, b, offset, fill, 0, count), b, count)
    ELSE IF count < size(m, b) - offset THEN ShortInsert(m, b, offset, fill, count, size(m, b))
    ELSE LongInsert(m, b, offset, fill, count, size(m, b))

(* The value is copied first: it may be an element.                        *)
insert_fill_with_spare_capacity(m, b, offset, count) ==
    insert_with_spare_capacity([Spend(m, 1) EXCEPT !.arg = Argument(m), !.ref = Nowhere], b, offset, TRUE, count)

insert_fill(m, b, offset, count) ==
    IF count = 0 THEN m
    ELSE IF size(m, b) + count > capacity(m, b) THEN insert_fill_with_reallocation(m, b, offset, count)
    ELSE insert_fill_with_spare_capacity(m, b, offset, count)

insert_range_buffer_with_reallocation(m, b, offset, count) ==
    release(
        build_moved(
            build_moved(
                build_moved(Enlarged(m, b, size(m, b) + count), 0, b, 0, offset),
                offset, "inserted", 0, count),
            offset + count, b, offset, size(m, b) - offset), b, size(m, b) + count)

insert_range_buffer(m, b, offset, count) ==
    IF m.raised \/ count = 0 THEN m
    ELSE IF size(m, b) + count > capacity(m, b)
    THEN insert_range_buffer_with_reallocation(m, b, offset, count)
    ELSE insert_with_spare_capacity(m, b, offset, FALSE, count)

(* insert_range, and insert(first, last), which copies the range to a      *)
(* vector of its own first                                                 *)
insert_range(m, b, offset, values) ==
    IF m.raised THEN m
    ELSE IF offset = size(m, b) THEN append_counted_range(m, b, values)
    ELSE destroy_and_deallocate_storage(
        insert_range_buffer(construct(Beside(m, b, "inserted"), "inserted", values), b, offset, Len(values)),
        "inserted")

(* Appending the elements of a temporary copies them.                      *)
insert_iterators(m, b, offset, values) ==
    destroy_and_deallocate_storage(
        insert_range(construct(Beside(m, b, "copy"), "copy", values), b, offset, values), "copy")

Shortened(m, b, n) == IF m.raised THEN m ELSE destroy_at_end(m, b, n)

erase(m, b, first, last) ==
    IF first = last THEN m
    ELSE Shortened(move_forward(m, b, first, last, size(m, b) - last), b, size(m, b) - (last - first))

-----------------------------------------------------------------------------
(* Capacity and whole vectors                                              *)

reserve(m, b, n) ==
    IF n <= capacity(m, b) THEN m ELSE reallocate(check_capacity(m, n), b, n)

shrink_to_fit(m, b) ==
    IF size(m, b) = capacity(m, b) THEN m
    ELSE IF size(m, b) = 0 THEN destroy_and_deallocate_storage(m, b)
    ELSE reallocate(m, b, size(m, b))

resize(m, b, count) ==
    IF count < size(m, b) THEN destroy_at_end(m, b, count)
    ELSE Longer(uninitialized_fill_n(reserve(m, b, count), b, size(m, b), count - size(m, b)),
                b, count - size(m, b))

(* The operation constructs the new elements; it does not throw.           *)
Overwritten(m, b, values) ==
    IF m.raised THEN m ELSE Longer(Placed(m, b, size(m, b), values), b, Len(values))

resize_and_overwrite(m, b, values) ==
    IF Len(values) <= size(m, b) THEN destroy_at_end(m, b, Len(values))
    ELSE Overwritten(reserve(m, b, Len(values)), b, SubSeq(values, size(m, b) + 1, Len(values)))

swap(m, b, other) ==
    [m EXCEPT !.ref = Nowhere, !.box =
        [@ EXCEPT ![b] = IF m.propagates THEN m.box[other] ELSE [m.box[other] EXCEPT !.alloc = m.box[b].alloc],
                  ![other] = IF m.propagates THEN m.box[b] ELSE [m.box[b] EXCEPT !.alloc = m.box[other].alloc]]]

(* assign and operator=(initializer_list): a copy, then a swap             *)
Swapped(m, b, temporary) ==
    IF m.raised THEN m ELSE destroy_and_deallocate_storage(swap(m, b, temporary), temporary)

assign(m, b, values) == Swapped(construct(Beside(m, b, "copy"), "copy", values), b, "copy")

AllocatorOf(m, b, other) == [m EXCEPT !.box[b].alloc = m.box[other].alloc]

Adopted(m, b, temporary) == take_storage_from(destroy_and_deallocate_storage(m, b), b, temporary)

AdoptedWithAllocator(m, b, temporary, other) ==
    take_storage_from(AllocatorOf(destroy_and_deallocate_storage(m, b), b, other), b, temporary)

CopyTaken(m, b, other) ==
    IF m.raised THEN m
    ELSE IF m.propagates THEN AdoptedWithAllocator(m, b, "copy", other)
    ELSE Adopted(m, b, "copy")

copy_assign(m, b, other) ==
    CopyTaken(construct(Beside(m, IF m.propagates THEN other ELSE b, "copy"), "copy", Contents(m, other)),
              b, other)

MovedTaken(m, b) == IF m.raised THEN m ELSE Adopted(m, b, "copy")

move_assign(m, b, other) ==
    IF m.propagates THEN AdoptedWithAllocator(m, b, other, other)
    ELSE IF m.box[b].alloc = m.box[other].alloc THEN Adopted(m, b, other)
    ELSE MovedTaken(construct_moved_from(Beside(m, b, "copy"), "copy", other), b)

=============================================================================
