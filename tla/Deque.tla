------------------------------- MODULE Deque --------------------------------
(***************************************************************************)
(* chaistl::deque: a map of pointers to blocks of BlockSize slots, the     *)
(* elements in consecutive slots of consecutive blocks.  Slot o of block k *)
(* of the map is position k * BlockSize + o of a box's cells; a block that *)
(* was not allocated has Absent cells; cap is the map's capacity, first    *)
(* the position of the first element, so that first_block_ and             *)
(* first_offset_ are its quotient and its remainder.                       *)
(***************************************************************************)
EXTENDS Lifetimes

CONSTANTS
    MaxSize,              \* max_size() of the allocator
    BlockSize,            \* block_size, at least 16 in the code
    InitialMapCapacity,   \* initial_map_capacity, 8 in the code
    LargestMap            \* bound: the allocator refuses longer maps

size(m, b) == m.box[b].size

first(m, b) == m.box[b].first

map_capacity(m, b) == m.box[b].cap

Contents(m, b) == Cells(m, b, first(m, b), size(m, b))

first_block(m, b) == first(m, b) \div BlockSize

first_offset(m, b) == first(m, b) % BlockSize

Block(k) == Span(k * BlockSize, BlockSize)

HasBlock(m, b, k) == k \in 0..map_capacity(m, b) - 1 /\ Cell(m, b, k * BlockSize) # Absent

BlocksOf(m, b) == {k \in 0..map_capacity(m, b) - 1 : HasBlock(m, b, k)}

-----------------------------------------------------------------------------
(* Iterators: a map slot and an offset in its block.                       *)

iterator_at(m, b, i) ==
    [slot   |-> first_block(m, b) + (first_offset(m, b) + i) \div BlockSize,
     offset |-> (first_offset(m, b) + i) % BlockSize]

element_pointer(m, b, i) == first_block(m, b) * BlockSize + first_offset(m, b) + i

Increment(it) ==
    IF it.offset + 1 = BlockSize THEN [slot |-> it.slot + 1, offset |-> 0]
    ELSE [it EXCEPT !.offset = @ + 1]

Decrement(it) ==
    IF it.offset = 0 THEN [slot |-> it.slot - 1, offset |-> BlockSize - 1]
    ELSE [it EXCEPT !.offset = @ - 1]

(* operator+=; the quotient of a negative number is not what it needs.     *)
Plus(it, offset) ==
    LET target == it.offset + offset
        before == BlockSize - 1 - target
    IN  IF offset = 0 THEN it
        ELSE IF target > 0 THEN [slot |-> it.slot + target \div BlockSize, offset |-> target % BlockSize]
        ELSE [slot |-> it.slot - before \div BlockSize, offset |-> BlockSize - 1 - (before % BlockSize)]

Difference(it, other) ==
    (it.slot - other.slot) * BlockSize + it.offset - other.offset

-----------------------------------------------------------------------------
(* The map and its blocks                                                  *)

AbsentMap(n) == [p \in 0..(n * BlockSize - 1) |-> Absent]

ensure_map(m, b) ==
    IF m.raised \/ map_capacity(m, b) > 0 THEN m
    ELSE IF m.fuel = 0 THEN Raise(m)
    ELSE [Grant(m, b) EXCEPT
             !.box[b].cells = AbsentMap(InitialMapCapacity),
             !.box[b].cap = InitialMapCapacity,
             !.box[b].first = (InitialMapCapacity \div 2) * BlockSize + BlockSize \div 2]

allocate_block(m, b, k) ==
    IF m.raised \/ HasBlock(m, b, k) THEN m
    ELSE IF m.fuel = 0 THEN Raise(m)
    ELSE [Must(Grant(m, b), k \in 0..map_capacity(m, b) - 1) EXCEPT
             !.box[b].cells = [p \in DOMAIN @ |-> IF p \in Block(k) THEN Raw ELSE @[p]]]

Shift(capacity, new_capacity, front_spare) == (new_capacity - capacity) \div 2 + front_spare

(* Block pointers move to the middle of a larger map; elements stay.       *)
Recentred(m, b, n, by) ==
    [m EXCEPT !.box[b].cells = [p \in 0..(n * BlockSize - 1) |->
                                   IF p - by \in DOMAIN @ THEN @[p - by] ELSE Absent],
              !.box[b].cap = n,
              !.box[b].first = @ + by,
              !.ref = IF b = "self" /\ @ # Nowhere THEN @ + by ELSE @]

reallocate_map(m, b, front_spare, back_spare) ==
    LET n == Max({map_capacity(m, b) * 2, map_capacity(m, b) + front_spare + back_spare + InitialMapCapacity})
    IN  IF m.raised \/ m.fuel = 0 \/ n > LargestMap THEN Raise(m)
        ELSE Recentred(Spend(m, 1), b, n, Shift(map_capacity(m, b), n, front_spare) * BlockSize)

PhysicalBlock(m, b, physical) == first_block(m, b) + physical \div BlockSize

ensure_physical_block(m, b, physical) ==
    IF ~m.raised /\ PhysicalBlock(m, b, physical) >= map_capacity(m, b) THEN reallocate_map(m, b, 0, 1) ELSE m

AllocateIn(m, b, physical) == allocate_block(m, b, PhysicalBlock(m, b, physical))

AllocatedAt(m, b, physical) == AllocateIn(ensure_physical_block(m, b, physical), b, physical)

(* MUTANT: no block behind one that fills up *)
BlockBehind_never(m, b, physical) == m

(* At the end of a block, the block after it: end() needs one to point to. *)
BlockBehind(m, b, physical) ==
    IF (physical + 1) % BlockSize = 0 THEN AllocatedAt(m, b, physical + 1) ELSE m

BackSlot(m, b, physical) == BlockBehind(AllocatedAt(m, b, physical), b, physical)

ensure_back_slot(m, b) ==
    LET physical == first_offset(m, b) + size(m, b)
    IN  IF size(m, b) = 0 \/ physical % BlockSize = 0 \/ (physical + 1) % BlockSize = 0
        THEN BackSlot(ensure_map(m, b), b, physical)
        ELSE m

(* Room in front of the first block *)
Retreated(m, b) ==
    IF ~m.raised /\ first(m, b) < 1 THEN reallocate_map(m, b, 1, 0) ELSE m

FrontSlot(m, b) == IF size(m, b) = 0 THEN first(m, b) ELSE first(m, b) - 1

AllocateFront(m, b) == allocate_block(m, b, FrontSlot(m, b) \div BlockSize)

(* The slot before the first element, or the first for the only element    *)
prepare_front_slot(m, b) ==
    IF m.raised THEN m
    ELSE IF size(m, b) = 0 THEN AllocateFront(ensure_map(m, b), b)
    ELSE IF first_offset(m, b) # 0 THEN m
    ELSE AllocateFront(Retreated(m, b), b)

-----------------------------------------------------------------------------
(* Elements at the ends.  The new element is the call's argument, or is    *)
(* moved from the element with that index in box from.                     *)

TheArgument == [from |-> "self", index |-> Nowhere]

construct_at(m, b, p, source) ==
    IF m.raised THEN m
    ELSE IF source = TheArgument THEN uninitialized_fill_n(m, b, p, 1)
    ELSE construct_moved(m, b, p, source.from, first(m, source.from) + source.index)

check_size(m, n) == IF ~m.raised /\ n > MaxSize THEN Raise(m) ELSE m

(* The window is extended when the element has been constructed.           *)
Extended(m, b, p) == IF m.raised THEN m ELSE [m EXCEPT !.box[b].size = @ + 1, !.box[b].first = p]

construct_back(m, b, source) ==
    Extended(construct_at(m, b, element_pointer(m, b, size(m, b)), source), b, first(m, b))

construct_front(m, b, source) ==
    Extended(construct_at(m, b, FrontSlot(m, b), source), b, FrontSlot(m, b))

emplace_back_from(m, b, source) ==
    construct_back(ensure_back_slot(check_size(m, size(m, b) + 1), b), b, source)

emplace_front_from(m, b, source) ==
    construct_front(prepare_front_slot(check_size(m, size(m, b) + 1), b), b, source)

emplace_back(m, b) == emplace_back_from(m, b, TheArgument)

emplace_front(m, b) == emplace_front_from(m, b, TheArgument)

pop_front(m, b) ==
    LET next == first(m, b) + 1
    IN  [destroy(m, b, {first(m, b)}) EXCEPT
            !.box[b].size = @ - 1,
            !.box[b].first = IF size(m, b) = 1
                             THEN (next \div BlockSize) * BlockSize + BlockSize \div 2 ELSE next]

pop_back(m, b) == [destroy(m, b, {element_pointer(m, b, size(m, b) - 1)}) EXCEPT !.box[b].size = @ - 1]

Times(m, n, Step(_)) == FoldLeft(LAMBDA r, i : Step(r), m, [i \in 1..n |-> i])

(* append_fill, append_default, and std::fill_n of a back_inserter         *)
append_fill(m, b, n) == Times(m, n, LAMBDA r : emplace_back(r, b))

With(m, v) == [m EXCEPT !.ref = Nowhere, !.arg = v]

(* append_range, append_iterator_range                                     *)
append_range(m, b, values) == FoldLeft(LAMBDA r, v : emplace_back(With(r, v), b), m, values)

(* n elements of from, with index i on, moved to the back of b             *)
append_moved(m, b, from, i, n) ==
    FoldLeft(LAMBDA r, k : emplace_back_from(r, b, [from |-> from, index |-> i + k - 1]), m, [k \in 1..n |-> k])

(* The elements of box "inserted" moved to the front, the last one first   *)
prepend_buffer(m, b) ==
    FoldRight(LAMBDA k, r : emplace_front_from(r, b, [from |-> "inserted", index |-> k - 1]),
              [k \in 1..size(m, "inserted") |-> k], m)

-----------------------------------------------------------------------------
(* Whole deques                                                            *)

(* Elements are destroyed from begin() to end().                           *)
clear(m, b) ==
    [destroy(m, b, Span(first(m, b), size(m, b))) EXCEPT !.box[b].size = 0]

Deallocated(m, b) ==
    [Must(m, Vacant(m, b, UNION {Block(k) : k \in BlocksOf(m, b)})) EXCEPT
        !.held[m.box[b].alloc] = @ - Cardinality(BlocksOf(m, b)) - 1,
        !.box[b] = EmptyBox(@.alloc)]

destroy_and_deallocate_storage(m, b) ==
    IF map_capacity(m, b) = 0 THEN clear(m, b)
    ELSE Deallocated(clear(IF b = "self" THEN Dangling(m) ELSE m, b), b)

take_storage_from(m, b, from) ==
    [m EXCEPT !.box = [@ EXCEPT ![b] = [m.box[from] EXCEPT !.alloc = m.box[b].alloc],
                                ![from] = EmptyBox(@.alloc)]]

replace_storage_from(m, b, from) == take_storage_from(destroy_and_deallocate_storage(m, b), b, from)

(* A deque the call makes, with b's allocator *)
Beside(m, b, temporary) == [m EXCEPT !.box[temporary] = EmptyBox(m.box[b].alloc)]

Guarded(m, b) == IF m.raised THEN destroy_and_deallocate_storage(m, b) ELSE m

construct(m, b, values) == Guarded(append_range(m, b, values), b)

construct_moved_from(m, b, from) ==
    IF m.box[b].alloc = m.box[from].alloc THEN take_storage_from(m, b, from)
    ELSE Guarded(append_moved(m, b, from, 0, size(m, from)), b)

swap(m, b, other) ==
    [m EXCEPT !.ref = Nowhere, !.box =
        [@ EXCEPT ![b] = IF m.propagates THEN m.box[other] ELSE [m.box[other] EXCEPT !.alloc = m.box[b].alloc],
                  ![other] = IF m.propagates THEN m.box[b] ELSE [m.box[b] EXCEPT !.alloc = m.box[other].alloc]]]

(* swap(copy), and the end of the call's deque                             *)
Swapped(m, b, temporary) ==
    destroy_and_deallocate_storage(IF m.raised THEN m ELSE swap(m, b, temporary), temporary)

assign(m, b, values) == Swapped(construct(Beside(m, b, "copy"), "copy", values), b, "copy")

AllocatorOf(m, b, other) == [m EXCEPT !.box[b].alloc = m.box[other].alloc]

ReplacedWithAllocator(m, b, from, other) ==
    take_storage_from(AllocatorOf(destroy_and_deallocate_storage(m, b), b, other), b, from)

CopyTaken(m, b, other) ==
    IF m.raised THEN m
    ELSE IF m.propagates THEN ReplacedWithAllocator(m, b, "copy", other)
    ELSE replace_storage_from(m, b, "copy")

copy_assign(m, b, other) ==
    CopyTaken(construct(Beside(m, IF m.propagates THEN other ELSE b, "copy"), "copy", Contents(m, other)),
              b, other)

move_assign(m, b, other) ==
    IF m.propagates THEN ReplacedWithAllocator(m, b, other, other)
    ELSE IF m.box[b].alloc = m.box[other].alloc THEN replace_storage_from(m, b, other)
    ELSE Swapped(construct_moved_from(Beside(m, b, "copy"), "copy", other), b, "copy")

resize(m, b, count) ==
    IF count < size(m, b) THEN Times(m, size(m, b) - count, LAMBDA r : pop_back(r, b))
    ELSE append_fill(m, b, count - size(m, b))

shrink_to_fit(m, b) ==
    IF size(m, b) = 0 THEN destroy_and_deallocate_storage(m, b)
    ELSE Swapped(append_moved(Beside(m, b, "copy"), "copy", b, 0, size(m, b)), b, "copy")

-----------------------------------------------------------------------------
(* In the middle                                                           *)

append_buffer(m, b) == append_moved(m, b, "inserted", 0, size(m, "inserted"))

prepend_range(m, b, values) ==
    destroy_and_deallocate_storage(
        prepend_buffer(construct(Beside(m, b, "inserted"), "inserted", values), b), "inserted")

(* The smaller part makes room: a copy of the first or the last element is *)
(* moved out, the others move by one.                                      *)
ShiftToFront(m, b, offset) == move_forward(m, b, first(m, b) + 1, first(m, b) + 2, offset - 1)

ShiftToBack(m, b, offset, n) == move_backward(m, b, first(m, b) + offset + 1, first(m, b) + offset, n)

MadeRoom(m, b, offset) ==
    IF offset < size(m, b) \div 2
    THEN ShiftToFront(emplace_front_from(m, b, [from |-> b, index |-> 0]), b, offset)
    ELSE ShiftToBack(emplace_back_from(m, b, [from |-> b, index |-> size(m, b) - 1]), b, offset,
                     size(m, b) - 1 - offset)

Put(m, b, offset, value) == assign_moved(m, b, element_pointer(m, b, offset), value)

(* The value is made first: the argument may be an element.                *)
emplace(m, b, offset) ==
    IF offset = 0 THEN emplace_front(m, b)
    ELSE IF offset = size(m, b) THEN emplace_back(m, b)
    ELSE Put(MadeRoom(Spend(m, 1), b, offset), b, offset, Argument(m))

(* A new deque of the elements before, the new ones and those behind       *)
rebuild_before(m, b, offset) == append_moved(Beside(m, b, "copy"), "copy", b, 0, offset)

rebuild_with_insertion(inserted, b, offset) ==
    Swapped(append_moved(inserted, "copy", b, offset, size(inserted, b) - offset), b, "copy")

insert_fill(m, b, offset, count) ==
    IF count = 0 THEN m
    ELSE IF offset = 0 THEN Times(m, count, LAMBDA r : emplace_front(r, b))
    ELSE IF offset = size(m, b) THEN append_fill(m, b, count)
    ELSE rebuild_with_insertion(
             append_fill(rebuild_before(With(Spend(m, 1), Argument(m)), b, offset), "copy", count),
             b, offset)

insert_range_buffer(m, b, offset) ==
    IF m.raised \/ size(m, "inserted") = 0 THEN m
    ELSE IF offset = 0 THEN prepend_buffer(m, b)
    ELSE IF offset = size(m, b) THEN append_buffer(m, b)
    ELSE rebuild_with_insertion(append_buffer(rebuild_before(m, b, offset), "copy"), b, offset)

insert_iterators(m, b, offset, values) ==
    destroy_and_deallocate_storage(
        insert_range_buffer(construct(Beside(m, b, "inserted"), "inserted", values), b, offset), "inserted")

insert_range(m, b, offset, values) ==
    IF offset = size(m, b) THEN append_range(m, b, values)
    ELSE IF offset = 0 THEN prepend_range(m, b, values)
    ELSE insert_iterators(m, b, offset, values)

Repeated(m, n, Step(_)) == IF m.raised THEN m ELSE Times(m, n, Step)

(* The shorter side moves over the erased range. *)
erase(m, b, i, j) ==
    IF i = j THEN m
    ELSE IF i < size(m, b) - j
    THEN Repeated(move_backward(m, b, first(m, b) + j - i, first(m, b), i), j - i, LAMBDA r : pop_front(r, b))
    ELSE Repeated(move_forward(m, b, first(m, b) + i, first(m, b) + j, size(m, b) - j), j - i,
                  LAMBDA r : pop_back(r, b))

=============================================================================
