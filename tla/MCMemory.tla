------------------------------ MODULE MCMemory ------------------------------
(* The memory resources of one thread for TLC: a run has a pool resource,  *)
(* or a monotonic buffer with 6-bit addresses.                             *)
EXTENDS PoolResource, TLC, TLAPS

CONSTANTS
    Resources,                 \* of "pool" and "buffer"
    c1, c2, r1, r2, r3,
    MaxSize, HeaderSize, HeaderAlign, MinBufferSize, Alignments, Sizes, Bases,
    InitialSizes, MaxLive      \* of a monotonic buffer

VARIABLES on, initial, current, space, nextSize, linked, blocks

bufferVars == <<initial, current, space, nextSize, linked, blocks>>
allVars    == <<on, vars, bufferVars>>

Buffer == INSTANCE MonotonicBufferProofs WITH
    chunks <- linked,
    InitialBuffers <- {[base |-> 3, size |-> 5], [base |-> 8, size |-> 0]}

ASSUME BufferAssumption == Buffer!BufferAssumption

(* Neither the block sizes nor the addresses are told apart by the pool.   *)
Symm == Permutations({r1, r2, r3}) \cup Permutations({c1, c2})

MemoryInit ==
    /\ on \in Resources
    /\ Init /\ Buffer!Init
    /\ on = "pool" => initial = Buffer!NoBuffer /\ nextSize = MinBufferSize

MemoryNext ==
    \/ on = "pool" /\ Next /\ UNCHANGED <<on, bufferVars>>
    \/ on = "buffer" /\ Buffer!Next /\ UNCHANGED <<on, vars>>

MemorySpec == MemoryInit /\ [][MemoryNext]_allVars

-----------------------------------------------------------------------------
(* A monotonic buffer hands out blocks that are aligned, in memory it      *)
(* owns and apart from each other, and what is left of its current buffer  *)
(* is owned and free, although sums of sizes and addresses may wrap.       *)
BumpIsSafe == Buffer!BumpIsSafe

(* A chunk got from upstream always serves the request it was got for.     *)
ChunkServesRequest == Buffer!ChunkServesRequest

-----------------------------------------------------------------------------
(* A run with a buffer is a behaviour of the buffer, any other one leaves  *)
(* it as it is.                                                            *)
LEMMA BufferBehaves == MemorySpec => Buffer!Spec
<1>1. MemoryInit => Buffer!Init
      BY DEF MemoryInit
<1>2. [MemoryNext]_allVars => [Buffer!Next]_(Buffer!vars)
      BY DEF MemoryNext, allVars, bufferVars, Buffer!vars
<1>3. QED BY <1>1, <1>2, PTL DEF MemorySpec, Buffer!Spec

(* What the run checks of the buffer with 6-bit addresses holds for every  *)
(* width and every size, alignment and base address.                       *)
THEOREM BufferSafety == MemorySpec => []BumpIsSafe
<1>1. Buffer!Spec => []Buffer!BumpIsSafe
      BY BufferAssumption, Buffer!BumpSafety
<1>2. QED BY <1>1, BufferBehaves, PTL DEF BumpIsSafe

(* So does that a chunk serves the request it was got for. *)
THEOREM BufferServes == MemorySpec => ChunkServesRequest
<1>1. Buffer!Spec => Buffer!ChunkServesRequest
      BY BufferAssumption, Buffer!ChunkServes
<1>2. QED BY <1>1, BufferBehaves, PTL DEF ChunkServesRequest

=============================================================================
