----------------------------- MODULE RingBuffer -----------------------------
(***************************************************************************)
(* chaistl::experimental::ring_buffer and its two overflow policies        *)
(* (experimental/containers/sequence/ring_buffer.hpp, ring_buffer/         *)
(* policies.hpp), for elements whose destructor does something.            *)
(*                                                                         *)
(* An object is its four fields.  A slot of data_ holds an element or is   *)
(* raw memory.                                                             *)
(***************************************************************************)
EXTENDS Integers, Sequences, SequencesExt

CONSTANTS
    Objects,             \* the buffers of the program
    Values,              \* the elements' values
    MaxCapacity,         \* bound on the capacities asked for
    MaxDrops,            \* bound on dropped_count_
    Policies,            \* the Policy argument: "overwrite", "reject"
    NoElement,           \* a slot without an element
    AssignOntoElements   \* do clients assign to buffers that have elements?

RingAssumption ==
    /\ NoElement \notin Values /\ Values # {}
    /\ MaxCapacity \in Nat /\ MaxDrops \in Nat
    /\ Policies \subseteq {"overwrite", "reject"}
    /\ AssignOntoElements \in BOOLEAN

VARIABLES
    policy,     \* Policy, the same for all buffers
    buf,        \* data_, begin_, size_ and capacity_ of each buffer
    dropped,    \* the policy_ of each buffer
    undefined   \* has an operation computed an index modulo zero?

vars == <<policy, buf, dropped, undefined>>

Storage(n) == [0 .. n - 1 -> Values \cup {NoElement}]
RawStorage(n) == [p \in 0 .. n - 1 |-> NoElement]
Empty == [data |-> RawStorage(0), begin |-> 0, size |-> 0, capacity |-> 0]

TypeOK ==
    /\ policy \in Policies
    /\ \A o \in Objects :
          /\ buf[o].capacity \in 0 .. MaxCapacity
          /\ buf[o].data \in Storage(buf[o].capacity)
          /\ buf[o].begin \in 0 .. MaxCapacity
          /\ buf[o].size \in 0 .. MaxCapacity
    /\ dropped \in [Objects -> 0 .. MaxDrops]
    /\ undefined \in BOOLEAN

-----------------------------------------------------------------------------
Advanced(rb)  == (rb.begin + 1) % rb.capacity
Retreated(rb) == IF rb.begin = 0 THEN rb.capacity - 1 ELSE rb.begin - 1

(* element_at_logical, its inverse, and the elements front to back *)
At(rb, i)       == (rb.begin + i) % rb.capacity
Logical(rb, p)  == (p - rb.begin) % rb.capacity
Contents(rb)    == [i \in 1 .. rb.size |-> rb.data[At(rb, i - 1)]]
InWindow(rb, p) == Logical(rb, p) < rb.size

(* The buffer with one slot written, and with the elements `gone` destroyed. *)
Put(rb, i, v)     == [rb EXCEPT !.data[At(rb, i)] = v]
Destroy(rb, gone) ==
    [p \in DOMAIN rb.data |-> IF Logical(rb, p) \in gone THEN NoElement ELSE rb.data[p]]

(* MUTANT: the shift towards the back forgets the last element *)
ShiftedIn_short(rb, offset, v) ==
    [p \in DOMAIN rb.data |->
        LET i == IF rb.size = rb.capacity /\ Logical(rb, p) = 0 THEN rb.size ELSE Logical(rb, p)
        IN  CASE i = offset                    -> v
              [] offset < i /\ i < rb.size     -> rb.data[At(rb, i - 1)]
              [] OTHER                         -> rb.data[p]]

(* [offset, end) moved one slot towards the back, v put at offset.  In a   *)
(* full buffer the slot behind the last element is that of the first.      *)
ShiftedIn(rb, offset, v) ==
    [p \in DOMAIN rb.data |->
        LET i == IF rb.size = rb.capacity /\ Logical(rb, p) = 0 THEN rb.size ELSE Logical(rb, p)
        IN  CASE i = offset                    -> v
              [] offset < i /\ i <= rb.size    -> rb.data[At(rb, i - 1)]
              [] OTHER                         -> rb.data[p]]

(* The first n elements in storage of their own, from slot 0 on. *)
Unrolled(rb, n, capacity) ==
    [data     |-> [p \in 0 .. capacity - 1 |-> IF p < n THEN rb.data[At(rb, p)] ELSE NoElement],
     begin    |-> 0,
     size     |-> n,
     capacity |-> capacity]

Filled(v, n) == [data |-> [p \in 0 .. n - 1 |-> v], begin |-> 0, size |-> n, capacity |-> n]

(* destroy_elements() and deallocate_storage(): size_ and begin_ stay. *)
Bare(rb) == [rb EXCEPT !.data = RawStorage(0), !.capacity = 0]

(* destroy_elements() of a buffer without storage takes an index modulo 0. *)
DestroyIsUndefined(rb) == rb.size > 0 /\ rb.capacity = 0

Init ==
    /\ policy \in Policies
    /\ buf = [o \in Objects |-> Empty]
    /\ dropped = [o \in Objects |-> 0]
    /\ undefined = FALSE

-----------------------------------------------------------------------------
Become(o, rb) == buf' = [buf EXCEPT ![o] = rb]
Free(o) == buf[o].size < buf[o].capacity
Quiet == UNCHANGED <<policy, dropped, undefined>>

(* reject_policy: count the drop *)
Reject(o) ==
    /\ policy = "reject"
    /\ dropped[o] < MaxDrops
    /\ dropped' = [dropped EXCEPT ![o] = @ + 1]
    /\ UNCHANGED <<policy, buf, undefined>>

(* try_push_back, and emplace_back of a buffer with capacity *)
PushBack(o, v) ==
    LET rb == buf[o]
    IN  \/ Free(o) /\ Become(o, [Put(rb, rb.size, v) EXCEPT !.size = @ + 1]) /\ Quiet
        \/ /\ ~Free(o) /\ policy = "overwrite" /\ rb.capacity # 0
           /\ Become(o, [Put(rb, 0, v) EXCEPT !.begin = Advanced(rb)])
           /\ Quiet
        \/ ~Free(o) /\ Reject(o)

(* try_push_front, and emplace_front of a buffer with capacity *)
PushFront(o, v) ==
    LET rb   == buf[o]
        back == [rb EXCEPT !.begin = Retreated(rb)]
    IN  \/ Free(o) /\ Become(o, [Put(back, 0, v) EXCEPT !.size = @ + 1]) /\ Quiet
        \/ /\ ~Free(o) /\ policy = "overwrite" /\ rb.capacity # 0
           /\ Become(o, Put(back, 0, v))
           /\ Quiet
        \/ ~Free(o) /\ Reject(o)

(* emplace and insert: under the overwrite policy a full buffer does        *)
(* nothing at its beginning, else drops its first element                  *)
Emplace(o, offset, v) ==
    LET rb      == buf[o]
        shifted == [rb EXCEPT !.data = ShiftedIn(rb, offset, v)]
    IN  \/ Free(o) /\ Become(o, [shifted EXCEPT !.size = @ + 1]) /\ Quiet
        \/ /\ ~Free(o) /\ policy = "overwrite" /\ offset # 0
           /\ Become(o, [shifted EXCEPT !.begin = Advanced(rb)])
           /\ Quiet
        \/ ~Free(o) /\ Reject(o)

PopBack(o) ==
    LET rb == buf[o]
    IN  /\ rb.size > 0
        /\ Become(o, [rb EXCEPT !.data = Destroy(rb, {rb.size - 1}), !.size = @ - 1])
        /\ Quiet

PopFront(o) ==
    LET rb == buf[o]
    IN  /\ rb.size > 0
        /\ Become(o, [rb EXCEPT !.data = Destroy(rb, {0}),
                                !.begin = Advanced(rb), !.size = @ - 1])
        /\ Quiet

(* erase [first, last): the tail is moved down, what it leaves destroyed *)
Erase(o, first, last) ==
    LET rb    == buf[o]
        count == last - first
        down  == [p \in DOMAIN rb.data |->
                    LET i == Logical(rb, p)
                    IN  IF first <= i /\ i + count < rb.size
                        THEN rb.data[At(rb, i + count)] ELSE rb.data[p]]
    IN  /\ first < last /\ last <= rb.size
        /\ Become(o, [rb EXCEPT !.data = Destroy([rb EXCEPT !.data = down],
                                                 rb.size - count .. rb.size - 1),
                                !.size = @ - count])
        /\ Quiet

Clear(o) ==
    /\ Become(o, [buf[o] EXCEPT !.data = RawStorage(buf[o].capacity), !.begin = 0, !.size = 0])
    /\ Quiet

(* set_capacity: move the elements that fit, from the front *)
Resized(rb, capacity) ==
    Unrolled(rb, IF rb.size < capacity THEN rb.size ELSE capacity, capacity)
SetCapacity(o, capacity) ==
    /\ capacity # buf[o].capacity
    /\ Become(o, Resized(buf[o], capacity))
    /\ Quiet

(* resize: shrink from the back, or grow, the storage too if need be *)
Resize(o, n, v) ==
    LET rb   == buf[o]
        room == IF n > rb.capacity THEN Resized(rb, n) ELSE rb
        grown == [p \in DOMAIN room.data |->
                    IF Logical(room, p) \in rb.size .. n - 1 THEN v ELSE room.data[p]]
    IN  /\ Become(o, IF n <= rb.size
                     THEN [rb EXCEPT !.data = Destroy(rb, n .. rb.size - 1), !.size = n]
                     ELSE [room EXCEPT !.data = grown, !.size = n])
        /\ Quiet

ResetDroppedCount(o) ==
    /\ policy = "reject"
    /\ dropped' = [dropped EXCEPT ![o] = 0]
    /\ UNCHANGED <<policy, buf, undefined>>

-----------------------------------------------------------------------------
(* Copy assignment and assign(): a temporary is made, this buffer is       *)
(* stripped, the two are swapped, and the temporary, which now has the     *)
(* size_ of old but no storage, is destroyed.                              *)
TakeFrom(o, temporary, drops) ==
    /\ AssignOntoElements \/ buf[o].size = 0
    /\ Become(o, temporary)
    /\ dropped' = [dropped EXCEPT ![o] = drops]
    /\ undefined' = DestroyIsUndefined(Bare(buf[o]))
    /\ UNCHANGED policy

CopyAssign(o, p) == TakeFrom(o, Unrolled(buf[p], buf[p].size, buf[p].capacity), dropped[p])
Assign(o, v, n)  == TakeFrom(o, IF n = 0 THEN Empty ELSE Filled(v, n), 0)

(* Move assignment between equal allocators: strip, then swap the fields. *)
MoveAssign(o, p) ==
    /\ AssignOntoElements \/ buf[o].size = 0
    /\ buf' = [buf EXCEPT ![o] = buf[p], ![p] = Bare(buf[o])]
    /\ dropped' = [dropped EXCEPT ![o] = dropped[p], ![p] = dropped[o]]
    /\ UNCHANGED <<policy, undefined>>

Swap(o, p) ==
    /\ buf' = [buf EXCEPT ![o] = buf[p], ![p] = buf[o]]
    /\ dropped' = [dropped EXCEPT ![o] = dropped[p], ![p] = dropped[o]]
    /\ UNCHANGED <<policy, undefined>>

(* A buffer is destroyed and a new one made in its place by moving another. *)
ReplaceByMove(o, p) ==
    /\ undefined' = DestroyIsUndefined(buf[o])
    /\ buf' = [buf EXCEPT ![o] = buf[p], ![p] = Empty]
    /\ dropped' = [dropped EXCEPT ![o] = dropped[p], ![p] = 0]
    /\ UNCHANGED policy

Modify(o) ==
    \/ \E v \in Values : PushBack(o, v) \/ PushFront(o, v)
    \/ \E v \in Values, offset \in 0 .. buf[o].size : Emplace(o, offset, v)
    \/ PopBack(o) \/ PopFront(o) \/ Clear(o) \/ ResetDroppedCount(o)
    \/ \E first, last \in 0 .. buf[o].size : Erase(o, first, last)
    \/ \E n \in 0 .. MaxCapacity : SetCapacity(o, n)
    \/ \E n \in 0 .. MaxCapacity, v \in Values : Resize(o, n, v)

Transfer(o) ==
    \/ \E v \in Values, n \in 0 .. MaxCapacity : Assign(o, v, n)
    \/ \E p \in Objects \ {o} : \/ CopyAssign(o, p) \/ MoveAssign(o, p)
                                \/ Swap(o, p) \/ ReplaceByMove(o, p)

(* Nothing is said of a program that has done something undefined. *)
Next == ~undefined /\ \E o \in Objects : Modify(o) \/ Transfer(o)

Spec == Init /\ [][Next]_vars

-----------------------------------------------------------------------------
(* The slots of the window [begin_, begin_ + size_), around the end of the *)
(* storage, hold an element each, and the other slots are raw: none leaks  *)
(* and none is destroyed twice.                                            *)
Lifetimes ==
    \A o \in Objects :
        LET rb == buf[o]
        IN  /\ rb.size <= rb.capacity
            /\ \A p \in DOMAIN rb.data :
                  rb.data[p] \in IF InWindow(rb, p) THEN Values ELSE {NoElement}

(* No buffer is ever destroyed that has a size_ but no storage, where the  *)
(* index of each element would be taken modulo zero.                       *)
NeverUndefined == ~undefined

(* What holds of buffers whose clients assign only to empty ones. *)
RingIsSafe == TypeOK /\ Lifetimes /\ NeverUndefined

(* Buffers behave as bounded sequences, whatever the position of begin_. *)
Contained  == [o \in Objects |-> Contents(buf[o])]
Capacities == [o \in Objects |-> buf[o].capacity]
Deque == INSTANCE BoundedDeque WITH content <- Contained, capacity <- Capacities
DequeSpec == Deque!Spec
=============================================================================
