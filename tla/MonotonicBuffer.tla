-------------------------- MODULE MonotonicBuffer --------------------------
(***************************************************************************)
(* chaistl::pmr::monotonic_buffer_resource (memory_resource.hpp).          *)
(*                                                                         *)
(* A bump pointer runs through the caller's initial buffer and then        *)
(* through chunks of growing size got from upstream.  deallocate() does    *)
(* nothing; release() returns every chunk and goes back to the initial     *)
(* buffer.  Sizes and addresses are integers of a bounded width, so that   *)
(* the sums that may wrap do.                                              *)
(***************************************************************************)
EXTENDS Integers, Sequences, FiniteSets, SequencesExt

CONSTANTS
    MaxSize,         \* std::numeric_limits<std::size_t>::max()
    HeaderSize,      \* sizeof(chunk_header)
    HeaderAlign,     \* alignof(chunk_header)
    MinBufferSize,   \* min_buffer_size
    Alignments,      \* what clients may ask for: powers of two
    Sizes,           \* the sizes clients ask for
    Bases,           \* the addresses upstream's regions may start at
    InitialBuffers,  \* the buffers a client may lend, as [base, size]
    InitialSizes,    \* the initial_size of the other constructor
    MaxLive          \* bound on the blocks clients hold at a time

BufferAssumption ==
    /\ MaxSize \in Nat \ {0}
    /\ {HeaderSize, MinBufferSize} \subseteq 1 .. MaxSize
    /\ HeaderAlign \in 1 .. MaxSize
    /\ Alignments \subseteq 1 .. MaxSize
    /\ Sizes \subseteq 0 .. MaxSize
    /\ Bases \subseteq 1 .. MaxSize
    /\ InitialSizes \subseteq 0 .. MaxSize
    /\ \A b \in InitialBuffers :
          b.base \in 1 .. MaxSize /\ b.size \in 0 .. MaxSize /\ b.base + b.size <= MaxSize

VARIABLES
    initial,    \* initial_buffer_ and initial_buffer_size_
    current,    \* current_buffer_
    space,      \* space_available_
    nextSize,   \* next_buffer_size_
    chunks,     \* chunks_, head first: [base, size]
    blocks      \* ledger: the blocks clients hold

vars == <<initial, current, space, nextSize, chunks, blocks>>

NullAddress == 0
NoBuffer == [base |-> NullAddress, size |-> 0]
Extents == [base : 1 .. MaxSize, size : 0 .. MaxSize]

TypeOK ==
    /\ initial \in InitialBuffers \cup {NoBuffer}
    /\ current \in 0 .. MaxSize
    /\ space \in 0 .. MaxSize
    /\ nextSize \in 1 .. MaxSize
    /\ chunks \in Seq(Extents)
    /\ blocks \subseteq [base : 1 .. MaxSize, size : 0 .. MaxSize, align : Alignments]

-----------------------------------------------------------------------------
LargerOf(a, b) == IF a < b THEN b ELSE a

scale_buffer_size(size) ==
    IF size >= MaxSize \div 2 THEN MaxSize ELSE LargerOf(2 * size, MinBufferSize)

add_overflows(a, b) == a > MaxSize - b

align_up(value, alignment) ==
    LET sum == (value + alignment - 1) % (MaxSize + 1)
    IN  sum - (sum % alignment)

(* Has a buffer of `room` bytes at `from` space for the request? *)
Fits(bytes, alignment, from, room) ==
    LET padding == (align_up(from, alignment) - from) % (MaxSize + 1)
    IN  padding <= room /\ bytes <= room - padding

(* allocate_from_current_buffer returns a pointer that is not null. *)
Serves(bytes, alignment, from, room) ==
    Fits(bytes, alignment, from, room) /\ align_up(from, alignment) # NullAddress

(* MUTANT: the padding is not counted into the bump *)
Bump_short(bytes, alignment, from, room) ==
    /\ current' = from + bytes
    /\ space' = room - bytes
    /\ blocks' = blocks \cup
          {[base |-> align_up(from, alignment), size |-> bytes, align |-> alignment]}

(* allocate_from_current_buffer where it succeeds: bump the pointer. *)
Bump(bytes, alignment, from, room) ==
    LET aligned == align_up(from, alignment)
    IN  /\ current' = aligned + bytes
        /\ space' = room - ((aligned - from) + bytes)
        /\ blocks' = blocks \cup
              {[base |-> aligned, size |-> bytes, align |-> alignment]}

(* The size of the region asked of upstream, and whether computing it wraps. *)
Payload(bytes) == LargerOf(bytes, nextSize)
ChunkAlign(alignment) == LargerOf(HeaderAlign, alignment)

(* MUTANT: no slack for aligning the payload *)
ChunkSize_no_slack(bytes, alignment) == HeaderSize + Payload(bytes)

ChunkSize(bytes, alignment) == HeaderSize + ChunkAlign(alignment) - 1 + Payload(bytes)
SizeOverflows(bytes, alignment) ==
    \/ add_overflows(HeaderSize, ChunkAlign(alignment) - 1)
    \/ add_overflows(HeaderSize + ChunkAlign(alignment) - 1, Payload(bytes))

-----------------------------------------------------------------------------
Overlap(a, b) == a.base < b.base + b.size /\ b.base < a.base + a.size

(* The regions upstream may return: aligned, inside the address space with *)
(* an address past the end, and apart from all memory in use.              *)
Upstream(size, alignment) ==
    {r \in [base : Bases, size : {size}] :
        /\ r.base % alignment = 0
        /\ r.base + size <= MaxSize
        /\ \A o \in {initial} \cup ToSet(chunks) : ~Overlap(r, o)}

Lend(b) ==   \* monotonic_buffer_resource(buffer, buffer_size, upstream)
    /\ initial = b
    /\ nextSize = IF b.size = 0 THEN MinBufferSize ELSE scale_buffer_size(b.size)

StartWith(n) ==   \* monotonic_buffer_resource(initial_size, upstream)
    /\ initial = NoBuffer
    /\ nextSize = LargerOf(n, MinBufferSize)

Init ==
    /\ (\E b \in InitialBuffers : Lend(b)) \/ (\E n \in InitialSizes : StartWith(n))
    /\ current = initial.base
    /\ space = initial.size
    /\ chunks = <<>>
    /\ blocks = {}

AllocateFromCurrent(bytes, alignment) ==
    /\ Cardinality(blocks) < MaxLive
    /\ Serves(bytes, alignment, current, space)
    /\ Bump(bytes, alignment, current, space)
    /\ UNCHANGED <<initial, nextSize, chunks>>

(* allocate_from_new_buffer: the chunk is linked first, and the request is *)
(* tried again inside it; should it not fit, bad_alloc is thrown.          *)
AllocateFromNew(bytes, alignment) ==
    /\ Cardinality(blocks) < MaxLive
    /\ ~Serves(bytes, alignment, current, space)
    /\ ~SizeOverflows(bytes, alignment)
    /\ \E r \in Upstream(ChunkSize(bytes, alignment), ChunkAlign(alignment)) :
          LET from == r.base + HeaderSize
              room == r.size - HeaderSize
          IN  /\ chunks' = Cons(r, chunks)
              /\ IF Serves(bytes, alignment, from, room)
                 THEN Bump(bytes, alignment, from, room)
                 ELSE current' = from /\ space' = room /\ UNCHANGED blocks
    /\ nextSize' = scale_buffer_size(Payload(bytes))
    /\ UNCHANGED initial

(* do_deallocate does nothing: the bytes are not used again *)
Deallocate(b) ==
    /\ blocks' = blocks \ {b}
    /\ UNCHANGED <<initial, current, space, nextSize, chunks>>

Release ==
    /\ chunks' = <<>>
    /\ current' = initial.base
    /\ space' = initial.size
    /\ nextSize' = IF initial.size = 0 THEN MinBufferSize ELSE scale_buffer_size(initial.size)
    /\ blocks' = {}
    /\ UNCHANGED initial

Next ==
    \/ \E bytes \in Sizes, alignment \in Alignments :
          AllocateFromCurrent(bytes, alignment) \/ AllocateFromNew(bytes, alignment)
    \/ \E b \in blocks : Deallocate(b)
    \/ Release

Spec == Init /\ [][Next]_vars

-----------------------------------------------------------------------------
(* The memory the resource may hand out: the initial buffer, and each      *)
(* chunk behind its header.                                                *)
Body(c) == [base |-> c.base + HeaderSize, size |-> c.size - HeaderSize]
Owned == {initial} \cup {Body(c) : c \in ToSet(chunks)}
Inside(a, o) == o.base <= a.base /\ a.base + a.size <= o.base + o.size

(* Every block a client holds is aligned as asked,                         *)
(* lies inside memory the resource still has and off the chunk headers,    *)
(* and shares no byte with another block.                                  *)
BlocksDisjoint ==
    /\ \A b \in blocks : /\ b.base % b.align = 0
                         /\ \E o \in Owned : Inside(b, o)
    /\ \A a, b \in blocks : a # b => ~Overlap(a, b)

(* What is left of the current buffer is owned memory with no block in it, *)
(* so that the next bump is safe, after growth and after release() alike.  *)
WindowFree ==
    LET window == [base |-> current, size |-> space]
    IN  /\ \E o \in Owned : Inside(window, o)
        /\ \A b \in blocks : ~Overlap(window, b)

(* The resource hands out blocks that are aligned, in memory it owns and   *)
(* apart from each other, and what is left of its current buffer is owned  *)
(* and free, although sums of sizes and addresses may wrap.                *)
BumpIsSafe == TypeOK /\ BlocksDisjoint /\ WindowFree

(* A chunk got from upstream always serves the request it was got for: the *)
(* bad_alloc at the end of allocate_from_new_buffer is never thrown, which *)
(* would leave a chunk the caller has paid for.                            *)
ChunkServesRequest ==
    [][Len(chunks') > Len(chunks) =>
          \E b \in blocks' : Inside(b, Body(Head(chunks')))]_vars

=============================================================================
