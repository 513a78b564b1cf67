-------------------------- MODULE IndexedSequences --------------------------
(***************************************************************************)
(* Programs on a chaistl vector or deque: any calls of the interface, on   *)
(* elements whose move constructor may throw or not, with arguments that   *)
(* are elements of the container or not, while constructors, assignments   *)
(* and allocations throw.                                                  *)
(*                                                                         *)
(* The containers never look at an element's value: what is remembered of  *)
(* an element between calls is that it exists.  Each call sees the         *)
(* elements of the container numbered by their position, so that one of    *)
(* them lost, doubled or misplaced shows.                                  *)
(***************************************************************************)
EXTENDS Integers, SequencesExt, FiniteSetsExt

CONSTANTS
    Kinds,               \* of "vector" and "deque"
    Resources,           \* memory resources
    MaxSize,             \* max_size() of the allocator
    BlockSize,           \* of a deque
    InitialMapCapacity,  \* of a deque
    LargestMap,          \* bound: the allocator refuses longer maps
    MaxInserted,         \* bound on the elements of one call
    Fuels,               \* calls of user code and allocations before one throws
    Unlimited,           \* no call throws
    Faults               \* the mishandled calls a program makes all the same

VARIABLES
    kind,        \* of the container
    nothrow,     \* whether the element's move constructor is noexcept
    propagates,  \* whether allocators propagate
    box,         \* the container: its storage and where the elements are
    held,        \* the allocations each resource has handed out
    wrong,       \* whether an element's lifetime was broken
    kept         \* whether the last call did what is promised of it

vars == <<kind, nothrow, propagates, box, held, wrong, kept>>

(* The contents of a slot; positive numbers are elements.                  *)
Element == 1
Husk    == 0
Raw     == -1
Absent  == -2

Nowhere == -1

Vec == INSTANCE Vector
Deq == INSTANCE Deque
Promise == INSTANCE ArrayContract

(* The numbers of self's elements, of other's, of those a call brings      *)
Own(k) == k
Others(n) == [k \in 1..n |-> 20 + k]
New(n) == [k \in 1..n |-> 40 + k]
NewValue == 60

-----------------------------------------------------------------------------
(* A call starts with its containers: self, and other if it reads one.     *)
Numbered(x) ==
    [x EXCEPT !.cells = [p \in DOMAIN @ |-> IF @[p] = Element THEN p - x.first + 1 ELSE @[p]]]

Anonymous(x) ==
    [x EXCEPT !.cells = [p \in DOMAIN @ |-> IF @[p] \in {Raw, Absent} THEN @[p] ELSE Element]]

Armed(c, fuel) ==
    [box |-> [self |-> Numbered(box), other |-> Vec!EmptyBox(c.source), copy |-> Vec!EmptyBox(c.source),
              inserted |-> Vec!EmptyBox(c.source), new |-> Vec!EmptyBox(c.source)],
     ranges |-> <<>>, held |-> held, fuel |-> fuel, raised |-> FALSE, wrong |-> wrong,
     arg |-> c.value, ref |-> IF c.own = Nowhere THEN Nowhere ELSE box.first + c.own,
     nothrow |-> nothrow, propagates |-> propagates]

(* Other is made without any limit, and a container that is constructed    *)
(* takes the place of one that was destroyed.                              *)
Filled(m, n) == IF kind = "vector" THEN Vec!construct(m, "other", Others(n))
                ELSE Deq!construct(m, "other", Others(n))

Gone(m, b) == IF kind = "vector" THEN Vec!destroy_and_deallocate_storage(m, b)
              ELSE Deq!destroy_and_deallocate_storage(m, b)

Constructors == {"construct", "copy_construct", "move_construct"}

Cleared(m, c) ==
    IF c.op \in Constructors THEN [Gone(m, "self") EXCEPT !.box["self"].alloc = c.alloc] ELSE m

Ready(c, fuel) == [Cleared(Filled(Armed(c, Unlimited), c.others), c) EXCEPT !.fuel = fuel]

Contents(m, b) == IF kind = "vector" THEN Vec!Contents(m, b) ELSE Deq!Contents(m, b)

View(m) ==
    [kind |-> kind, self |-> Contents(m, "self"), other |-> Contents(m, "other"), capacity |-> m.box["self"].cap,
     alloc |-> [self |-> m.box["self"].alloc, other |-> m.box["other"].alloc], propagates |-> propagates]

-----------------------------------------------------------------------------
OnVector(m, c) ==
    CASE c.op = "construct"        -> Vec!construct(m, "self", c.values)
      [] c.op = "copy_construct"   -> Vec!construct(m, "self", Contents(m, "other"))
      [] c.op = "move_construct"   -> Vec!construct_moved_from(m, "self", "other")
      [] c.op = "assign"           -> Vec!assign(m, "self", c.values)
      [] c.op = "copy_assign"      -> Vec!copy_assign(m, "self", "other")
      [] c.op = "move_assign"      -> Vec!move_assign(m, "self", "other")
      [] c.op = "swap"             -> Vec!swap(m, "self", "other")
      [] c.op = "reserve"          -> Vec!reserve(m, "self", c.count)
      [] c.op = "shrink_to_fit"    -> Vec!shrink_to_fit(m, "self")
      [] c.op = "resize"           -> Vec!resize(m, "self", c.count)
      [] c.op = "overwrite"        -> Vec!resize_and_overwrite(m, "self", c.values)
      [] c.op = "emplace_back"     -> Vec!emplace_back(m, "self")
      [] c.op = "emplace"          -> Vec!emplace(m, "self", c.at)
      [] c.op = "append_range"     -> Vec!append_counted_range(m, "self", c.values)
      [] c.op = "append_uncounted" -> Vec!append_uncounted_range(m, "self", c.values)
      [] c.op = "insert_fill"      -> Vec!insert_fill(m, "self", c.at, c.count)
      [] c.op = "insert_range"     -> Vec!insert_range(m, "self", c.at, c.values)
      [] c.op = "insert_iterators" -> Vec!insert_iterators(m, "self", c.at, c.values)
      [] c.op = "pop_back"         -> Vec!pop_back(m, "self")
      [] c.op = "erase"            -> Vec!erase(m, "self", c.at, c.to)
      [] c.op = "clear"            -> Vec!destroy_at_end(m, "self", 0)

OnDeque(m, c) ==
    CASE c.op = "construct"        -> Deq!construct(m, "self", c.values)
      [] c.op = "copy_construct"   -> Deq!construct(m, "self", Contents(m, "other"))
      [] c.op = "move_construct"   -> Deq!construct_moved_from(m, "self", "other")
      [] c.op = "assign"           -> Deq!assign(m, "self", c.values)
      [] c.op = "copy_assign"      -> Deq!copy_assign(m, "self", "other")
      [] c.op = "move_assign"      -> Deq!move_assign(m, "self", "other")
      [] c.op = "swap"             -> Deq!swap(m, "self", "other")
      [] c.op = "shrink_to_fit"    -> Deq!shrink_to_fit(m, "self")
      [] c.op = "resize"           -> Deq!resize(m, "self", c.count)
      [] c.op = "emplace_back"     -> Deq!emplace_back(m, "self")
      [] c.op = "emplace_front"    -> Deq!emplace_front(m, "self")
      [] c.op = "emplace"          -> Deq!emplace(m, "self", c.at)
      [] c.op = "append_range"     -> Deq!append_range(m, "self", c.values)
      [] c.op = "prepend_range"    -> Deq!prepend_range(m, "self", c.values)
      [] c.op = "insert_fill"      -> Deq!insert_fill(m, "self", c.at, c.count)
      [] c.op = "insert_range"     -> Deq!insert_range(m, "self", c.at, c.values)
      [] c.op = "insert_iterators" -> Deq!insert_iterators(m, "self", c.at, c.values)
      [] c.op = "pop_back"         -> Deq!pop_back(m, "self")
      [] c.op = "pop_front"        -> Deq!pop_front(m, "self")
      [] c.op = "erase"            -> Deq!erase(m, "self", c.at, c.to)
      [] c.op = "clear"            -> Deq!clear(m, "self")

-----------------------------------------------------------------------------
(* The calls, by operation                                                 *)

Lengths == 0..MaxInserted

Call(o) == [op |-> o, own |-> Nowhere, value |-> NewValue, others |-> 0,
            source |-> box.alloc, alloc |-> box.alloc, values |-> <<>>, at |-> 0, to |-> 0, count |-> 0]

(* With a value that is an element of the container, or is not             *)
OfValue(c) == {[c EXCEPT !.own = i] : i \in {Nowhere} \cup 0..box.size - 1}

OfVector(ops) == IF kind = "vector" THEN ops ELSE {}

OfDeque(ops) == IF kind = "deque" THEN ops ELSE {}

Construct == {[Call("construct") EXCEPT !.values = New(n)] : n \in Lengths}

ConstructFrom == {[Call(o) EXCEPT !.others = n, !.source = r] :
                     o \in {"copy_construct", "move_construct"}, n \in Lengths, r \in Resources}

AssignFrom == {[Call(o) EXCEPT !.others = n, !.source = r] :
                  o \in {"copy_assign", "move_assign"}, n \in Lengths, r \in Resources}

(* Containers whose resources differ and do not propagate are not swapped. *)
Swap == {[Call("swap") EXCEPT !.others = n, !.source = r] :
            n \in Lengths, r \in IF propagates THEN Resources ELSE {box.alloc}}

OfValues == {[Call(o) EXCEPT !.values = New(n)] :
                n \in Lengths, o \in {"assign", "append_range"}
                    \cup OfVector({"append_uncounted"}) \cup OfDeque({"prepend_range"})}

Reserve == {[Call(o) EXCEPT !.count = n] : o \in OfVector({"reserve"}), n \in 1..MaxSize + 1}

ShrinkToFit == {Call("shrink_to_fit")}

(* vector::resize reads an element of the vector after it has moved on.    *)
ResizeReadsFreed(c) == kind = "vector" /\ c.own # Nowhere /\ c.count > box.cap

Resize ==
    {c \in UNION {OfValue([Call("resize") EXCEPT !.count = n]) : n \in 0..MaxSize + 1} :
        "resize" \in Faults \/ ~ResizeReadsFreed(c)}

Overwrite == {[Call(o) EXCEPT !.values = New(n)] : o \in OfVector({"overwrite"}), n \in Lengths}

EmplaceAtEnds == UNION {OfValue(Call(o)) : o \in {"emplace_back"} \cup OfDeque({"emplace_front"})}

Emplace == UNION {OfValue([Call("emplace") EXCEPT !.at = i]) : i \in 0..box.size}

InsertFill ==
    UNION {OfValue([Call("insert_fill") EXCEPT !.at = i, !.count = n]) : i \in 0..box.size, n \in Lengths}

InsertRange == {[Call(o) EXCEPT !.at = i, !.values = New(n)] :
                   o \in {"insert_range", "insert_iterators"}, i \in 0..box.size, n \in Lengths}

Pop == {Call(o) : o \in IF box.size = 0 THEN {} ELSE {"pop_back"} \cup OfDeque({"pop_front"})}

Erase == {c \in {[Call("erase") EXCEPT !.at = i, !.to = j] : i \in 0..box.size, j \in 0..box.size} : c.at <= c.to}

Clear == {Call("clear")}

-----------------------------------------------------------------------------
Init ==
    /\ kind \in Kinds /\ nothrow \in BOOLEAN /\ propagates \in BOOLEAN
    /\ \E r \in Resources : box = Vec!EmptyBox(r)
    /\ held = [r \in Resources |-> 0]
    /\ wrong = FALSE /\ kept = TRUE

(* memory.md, the comments: what a throw leaves as it was.  A vector that  *)
(* needs new storage fills it before it gives up its own.                  *)
AtAnEnd(c) == c.at = box.size \/ (kind = "deque" /\ c.at = 0)

Strong(c) ==
    \/ c.op \in {"assign", "copy_assign", "move_assign", "emplace_back", "emplace_front"}
    \/ c.op = "emplace" /\ AtAnEnd(c)
    \/ /\ kind = "vector"
       /\ \/ c.op \in {"reserve", "shrink_to_fit", "resize", "overwrite", "append_range"}
          \/ c.op \in {"emplace", "insert_fill", "insert_range", "insert_iterators"}
               /\ (c.at = box.size \/ box.size = box.cap)

Kept(c, s, r) ==
    IF r.raised THEN Promise!Throws(s, c, View(r), Strong(c)) ELSE Promise!Returns(s, c, View(r))

Settled(r) ==
    /\ UNCHANGED <<kind, nothrow, propagates>>
    /\ box' = Anonymous(r.box["self"])
    /\ held' = r.held
    /\ wrong' = r.wrong

(* With a limit, only calls that reach it: the others are made without.    *)
Ends(c, before, r, fuel) ==
    /\ fuel = Unlimited \/ r.raised
    /\ kept' = Kept(c, View(before), r)
    /\ Settled(Gone(r, "other"))

Calls ==
    UNION {Construct, ConstructFrom, AssignFrom, Swap, OfValues, Reserve, ShrinkToFit, Resize, Overwrite,
           EmplaceAtEnds, Emplace, InsertFill, InsertRange, Pop, Erase, Clear}

VectorCall ==
    /\ kind = "vector"
    /\ \E c \in Calls, fuel \in Fuels \cup {Unlimited} :
          Ends(c, Ready(c, Unlimited), OnVector(Ready(c, fuel), c), fuel)

DequeCall ==
    /\ kind = "deque"
    /\ \E c \in Calls, fuel \in Fuels \cup {Unlimited} :
          Ends(c, Ready(c, Unlimited), OnDeque(Ready(c, fuel), c), fuel)

Next == VectorCall \/ DequeCall

Spec == Init /\ [][Next]_vars

-----------------------------------------------------------------------------
(* The container's fields, and the slots of its storage.                   *)
TypeOK ==
    /\ kind \in Kinds /\ nothrow \in BOOLEAN /\ propagates \in BOOLEAN /\ kept \in BOOLEAN /\ wrong \in BOOLEAN
    /\ box.size \in 0..MaxSize /\ box.alloc \in Resources
    /\ box.cap \in 0..(IF kind = "vector" THEN MaxSize ELSE LargestMap)
    /\ DOMAIN box.cells = 0..(IF kind = "vector" THEN box.cap ELSE box.cap * BlockSize) - 1
    /\ \A p \in DOMAIN box.cells : box.cells[p] \in {Raw, Absent, Element}
    /\ kind = "vector" => box.first = 0 /\ Absent \notin Range(box.cells)

Window == Vec!Span(box.first, box.size)

Allocations ==
    IF box.cap = 0 THEN 0
    ELSE IF kind = "vector" THEN 1
    ELSE 1 + Cardinality({k \in 0..box.cap - 1 : box.cells[k * BlockSize] # Absent})

(* Elements live in the slots that size() covers and nowhere else, none    *)
(* was built over another or destroyed twice, and the storage that is      *)
(* allocated is the container's, from its own memory resource.             *)
LifetimesExact ==
    /\ ~wrong
    /\ \A p \in DOMAIN box.cells : (box.cells[p] = Element) <=> (p \in Window)
    /\ Window \subseteq DOMAIN box.cells
    /\ \A r \in Resources : held[r] = IF r = box.alloc THEN Allocations ELSE 0

(* Every call does what its contract states, when it returns and when it   *)
(* throws.                                                                 *)
PromisesKept == kept

(* A deque that has elements has a block for end() to point into, and      *)
(* iterators reach every element from every other one, across blocks.      *)
IteratorsReach ==
    kind = "deque" /\ box.size > 0 =>
        LET m == Armed(Call("clear"), Unlimited)
            at(i) == Deq!iterator_at(m, "self", i)
        IN  /\ \A i \in 0..box.size : Deq!HasBlock(m, "self", at(i).slot)
            /\ \A i, j \in 0..box.size : Deq!Plus(at(i), j - i) = at(j) /\ Deq!Difference(at(j), at(i)) = j - i
            /\ \A i \in 1..box.size : Deq!Increment(at(i - 1)) = at(i) /\ Deq!Decrement(at(i)) = at(i - 1)

=============================================================================
