---------------------------- MODULE PoolResource ----------------------------
(***************************************************************************)
(* chaistl::pmr::unsynchronized_pool_resource (memory_resource.hpp).       *)
(*                                                                         *)
(* One pool per block size keeps a list of chunks, newest first.  A chunk  *)
(* is one upstream region carved into blocks on demand; blocks that come   *)
(* back wait on the chunk's LIFO free list.  `unfull` caches a chunk with  *)
(* a block to give.  Requests above the largest pool block go upstream one *)
(* by one and are chained in a doubly linked list of headers.              *)
(*                                                                         *)
(* A block is <<region, index>>; an oversized allocation is index 0 of its *)
(* region.  The chunk pointer the code hides in a block's tail is `slot`.  *)
(***************************************************************************)
EXTENDS Integers, Sequences, FiniteSetsExt, SequencesExt

CONSTANTS
    Classes,               \* the block sizes requests are rounded to
    Regions,               \* the addresses upstream can return
    MaxBlocks,             \* options_.max_blocks_per_chunk
    DefaultNextCapacity,   \* pool::default_next_capacity
    ReleaseEmpty,          \* options_.release_empty_chunks
    Oversized,             \* the request class above largest_required_pool_block
    Null

ASSUME CapacityAssumption ==
    MaxBlocks \in Nat \ {0} /\ DefaultNextCapacity \in Nat \ {0}
ASSUME ReleaseAssumption == ReleaseEmpty \in BOOLEAN
ASSUME NullAssumption ==
    Null \notin Regions /\ Null \notin Classes /\ Oversized \notin Classes \cup {Null}

VARIABLES
    pools,       \* the classes that have a pool
    chunks,      \* chunks_ of each pool, head first
    unfull,      \* unfull_ of each pool
    nextCap,     \* next_capacity_ of each pool
    chunk,       \* the pool_chunk header at the start of a region
    slot,        \* the chunk pointer in the tail of each block
    oversized,   \* head of the oversized list
    prev,        \* oversized_header::previous
    next,        \* oversized_header::next
    held,        \* regions got from upstream and not given back
    live         \* request class under which a client holds a block, or Null

poolVars == <<pools, chunks, unfull, nextCap, chunk, slot>>
listVars == <<oversized, prev, next>>
vars == <<poolVars, listVars, held, live>>

Indexes == 0 .. MaxBlocks - 1
Blocks  == Regions \X Indexes

ChunkHeader == [capacity : 0 .. MaxBlocks, next_index : 0 .. MaxBlocks,
                free_count : 0 .. MaxBlocks, free_list : Seq(Indexes)]
NoChunk == [capacity |-> 0, next_index |-> 0, free_count |-> 0, free_list |-> <<>>]

TypeOK ==
    /\ pools \in SUBSET Classes
    /\ chunks \in [Classes -> Seq(Regions)]
    /\ unfull \in [Classes -> Regions \cup {Null}]
    /\ nextCap \in [Classes -> Nat \ {0}]
    /\ chunk \in [Regions -> ChunkHeader]
    /\ slot \in [Blocks -> Regions \cup {Null}]
    /\ oversized \in Regions \cup {Null}
    /\ prev \in [Regions -> Regions \cup {Null}]
    /\ next \in [Regions -> Regions \cup {Null}]
    /\ held \in SUBSET Regions
    /\ live \in [Blocks -> Classes \cup {Oversized, Null}]

-----------------------------------------------------------------------------
(* MUTANT: the bound of max_blocks_per_chunk is forgotten *)
next_chunk_capacity_unbounded(requested) == IF requested < 1 THEN 1 ELSE requested

(* next_chunk_capacity *)
next_chunk_capacity(requested) ==
    LET atLeastOne == IF requested < 1 THEN 1 ELSE requested
    IN  IF atLeastOne < MaxBlocks THEN atLeastOne ELSE MaxBlocks

(* MUTANT: the chunk at the head is taken unseen *)
find_unfull_chunk_unseen(list, header) == IF list = <<>> THEN Null ELSE list[1]

(* MUTANT: the search gives up after the head *)
find_unfull_chunk_head_only(list, header) ==
    IF list # <<>> /\ header[list[1]].free_count # 0 THEN list[1] ELSE Null

(* find_unfull_chunk: the first chunk of the list with a block to give *)
find_unfull_chunk(list, header) ==
    LET i == SelectInSeq(list, LAMBDA c : header[c].free_count # 0)
    IN  IF i = 0 THEN Null ELSE list[i]

(* The chunk an allocation would use: the hint unless it is null or full. *)
Candidate(k) ==
    IF unfull[k] # Null /\ chunk[unfull[k]].free_count # 0
    THEN unfull[k]
    ELSE find_unfull_chunk(chunks[k], chunk)

(* The tail of pool::allocate once chunk c of pool k has been chosen:      *)
(* a recycled block first, else the next uncarved one.                     *)
TakeBlock(k, c, list, header) ==
    LET h        == header[c]
        recycled == h.free_list # <<>>
        index    == IF recycled THEN Head(h.free_list) ELSE h.next_index
        taken    == [header EXCEPT ![c] =
                       [capacity   |-> h.capacity,
                        next_index |-> IF recycled THEN h.next_index ELSE h.next_index + 1,
                        free_count |-> h.free_count - 1,
                        free_list  |-> IF recycled THEN Tail(h.free_list) ELSE <<>>]]
    IN  /\ chunk' = taken
        /\ slot' = IF recycled THEN slot ELSE [slot EXCEPT ![<<c, index>>] = c]
        /\ unfull' = [unfull EXCEPT ![k] = IF taken[c].free_count = 0
                                           THEN find_unfull_chunk(list, taken)
                                           ELSE c]
        /\ live' = [live EXCEPT ![<<c, index>>] = k]

(* MUTANT: a chunk is given back one block early *)
ReleasesChunk_early(count, capacity) == ReleaseEmpty /\ count >= capacity - 1

(* Does the block that comes back empty its chunk, and is the chunk to go? *)
ReleasesChunk(count, capacity) == ReleaseEmpty /\ count = capacity

(* MUTANT: the hint may still be the chunk that has gone *)
HintWithout_dangling(k, c, rest) == unfull[k]

(* The hint once release_chunk has unlinked c. *)
HintWithout(k, c, rest) ==
    LET hint == IF unfull[k] = c THEN Null ELSE unfull[k]
    IN  IF rest # <<>> /\ hint = Null THEN find_unfull_chunk(rest, chunk) ELSE hint

(* The backward links once deallocate_oversized has unlinked header r. *)
PrevWithout(r) ==
    [x \in Regions |-> IF x = r THEN Null
                       ELSE IF x = next[r] THEN prev[r] ELSE prev[x]]

-----------------------------------------------------------------------------
Init ==
    /\ pools = {}
    /\ chunks = [k \in Classes |-> <<>>]
    /\ unfull = [k \in Classes |-> Null]
    /\ nextCap = [k \in Classes |-> DefaultNextCapacity]
    /\ chunk = [r \in Regions |-> NoChunk]
    /\ slot = [b \in Blocks |-> Null]
    /\ oversized = Null
    /\ prev = [r \in Regions |-> Null]
    /\ next = [r \in Regions |-> Null]
    /\ held = {}
    /\ live = [b \in Blocks |-> Null]

(* allocate() served by a chunk the pool has *)
AllocateFromChunk(k) ==
    /\ Candidate(k) # Null
    /\ pools' = pools \cup {k}
    /\ TakeBlock(k, Candidate(k), chunks[k], chunk)
    /\ UNCHANGED <<chunks, nextCap, listVars, held>>

(* allocate() that gets a chunk from upstream: pushed at the head *)
AllocateFromNewChunk(k, r) ==
    /\ Candidate(k) = Null
    /\ r \notin held
    /\ LET capacity == next_chunk_capacity(nextCap[k])
           header   == [chunk EXCEPT ![r] = [capacity   |-> capacity,
                                             next_index |-> 0,
                                             free_count |-> capacity,
                                             free_list  |-> <<>>]]
       IN  /\ chunks' = [chunks EXCEPT ![k] = Cons(r, @)]
           /\ nextCap' = [nextCap EXCEPT ![k] = next_chunk_capacity(capacity * 2)]
           /\ TakeBlock(k, r, chunks'[k], header)
    /\ held' = held \cup {r}
    /\ pools' = pools \cup {k}
    /\ UNCHANGED listVars

(* allocate() for which upstream throws: the pool was created and the hint *)
(* looked up, nothing else has changed                                     *)
AllocateThrows(k) ==
    /\ Candidate(k) = Null
    /\ pools' = pools \cup {k}
    /\ unfull' = [unfull EXCEPT ![k] = Null]
    /\ UNCHANGED <<chunks, nextCap, chunk, slot, listVars, held, live>>

(* deallocate() that pushes the block on its chunk's free list *)
DeallocateToChunk(k, b) ==
    LET c     == slot[b]
        count == chunk[c].free_count + 1
    IN  /\ live[b] = k
        /\ ~ ReleasesChunk(count, chunk[c].capacity)
        /\ chunk' = [chunk EXCEPT ![c] =
                        [capacity   |-> chunk[c].capacity,
                         next_index |-> chunk[c].next_index,
                         free_count |-> count,
                         free_list  |-> Cons(b[2], chunk[c].free_list)]]
        /\ unfull' = [unfull EXCEPT ![k] = c]
        /\ live' = [live EXCEPT ![b] = Null]
        /\ UNCHANGED <<pools, chunks, nextCap, slot, listVars, held>>

(* deallocate() of a chunk's last block under release_empty_chunks, with   *)
(* release_chunk: unlink it, give it back, look for another hint           *)
DeallocateReleasesChunk(k, b) ==
    LET c    == slot[b]
        rest == RemoveFirst(chunks[k], c)
    IN  /\ live[b] = k
        /\ ReleasesChunk(chunk[c].free_count + 1, chunk[c].capacity)
        /\ chunks' = [chunks EXCEPT ![k] = rest]
        /\ held' = held \ {c}
        /\ nextCap' = [nextCap EXCEPT ![k] = IF rest = <<>> THEN DefaultNextCapacity ELSE @]
        /\ unfull' = [unfull EXCEPT ![k] = HintWithout(k, c, rest)]
        /\ chunk' = [chunk EXCEPT ![c] = NoChunk]
        /\ slot' = [x \in Blocks |-> IF x[1] = c THEN Null ELSE slot[x]]
        /\ live' = [live EXCEPT ![b] = Null]
        /\ UNCHANGED <<pools, listVars>>

(* allocate_oversized: the new header becomes the head of the list *)
AllocateOversized(r) ==
    /\ r \notin held
    /\ held' = held \cup {r}
    /\ prev' = [x \in Regions |-> IF x = r THEN Null
                                  ELSE IF x = oversized THEN r ELSE prev[x]]
    /\ next' = [next EXCEPT ![r] = oversized]
    /\ oversized' = r
    /\ live' = [live EXCEPT ![<<r, 0>>] = Oversized]
    /\ UNCHANGED poolVars

(* deallocate_oversized: unlink the header, then give the region back *)
DeallocateOversized(r) ==
    /\ live[<<r, 0>>] = Oversized
    /\ next' = [x \in Regions |-> IF x = r THEN Null
                                  ELSE IF x = prev[r] THEN next[r] ELSE next[x]]
    /\ prev' = PrevWithout(r)
    /\ oversized' = IF prev[r] = Null THEN next[r] ELSE oversized
    /\ held' = held \ {r}
    /\ live' = [live EXCEPT ![<<r, 0>>] = Null]
    /\ UNCHANGED poolVars

Closed(S, head, nxt) == /\ head # Null => head \in S
                        /\ \A r \in S : nxt[r] # Null => nxt[r] \in S

(* MUTANT: release() frees the head of the oversized list and stops *)
Headers_first(head, nxt) == {head} \ {Null}

(* What release() walks: the chunk lists, and the headers that following   *)
(* `nxt` from the head reaches, i.e. that every closed set contains.       *)
Headers(head, nxt) ==
    {r \in Regions : \A S \in SUBSET Regions : Closed(S, head, nxt) => r \in S}
Listed(k) == ToSet(chunks[k])

(* release(): all chunks, all pools, all oversized regions *)
Release ==
    /\ held' = held \ (Headers(oversized, next) \cup UNION {Listed(k) : k \in Classes})
    /\ pools' = {}
    /\ chunks' = [k \in Classes |-> <<>>]
    /\ unfull' = [k \in Classes |-> Null]
    /\ nextCap' = [k \in Classes |-> DefaultNextCapacity]
    /\ chunk' = [r \in Regions |-> NoChunk]
    /\ slot' = [b \in Blocks |-> Null]
    /\ oversized' = Null
    /\ prev' = [r \in Regions |-> Null]
    /\ next' = [r \in Regions |-> Null]
    /\ live' = [b \in Blocks |-> Null]

Next ==
    \/ \E k \in Classes : \/ AllocateFromChunk(k)
                          \/ AllocateThrows(k)
                          \/ \E r \in Regions : AllocateFromNewChunk(k, r)
                          \/ \E b \in Blocks : DeallocateToChunk(k, b)
                          \/ \E b \in Blocks : DeallocateReleasesChunk(k, b)
    \/ \E r \in Regions : AllocateOversized(r) \/ DeallocateOversized(r)
    \/ Release

Spec == Init /\ [][Next]_vars

-----------------------------------------------------------------------------
(* The blocks clients hold, in all, in region r, and as oversized ones. *)
InUse    == {b \in Blocks : live[b] # Null}
Taken(r) == {i \in Indexes : live[<<r, i>>] # Null}
Big      == {r \in Regions : live[<<r, 0>>] = Oversized}

(* Header h tells the truth about chunk c of class k. *)
Accounted(k, c, h, holder) ==
    /\ h.next_index <= h.capacity
    /\ h.free_count = (h.capacity - h.next_index) + Len(h.free_list)
    /\ IsInjective(h.free_list)
    /\ \A i \in ToSet(h.free_list) : i < h.next_index
    /\ \A i \in Indexes :
          holder[<<c, i>>] = IF i < h.next_index /\ i \notin ToSet(h.free_list)
                             THEN k ELSE Null

(* Every carved block of a chunk is either in one client's hands under the *)
(* chunk's own class or exactly once on its free list, an uncarved one is  *)
(* neither, and free_count counts what is left: so a block handed out is   *)
(* never handed out again before it comes back, however allocations,       *)
(* frees and chunk releases interleave.                                    *)
BlockAccounting ==
    \A k \in Classes : \A c \in Listed(k) : Accounted(k, c, chunk[c], live)

(* The chunk pointer read back from a live or recycled block is the chunk  *)
(* it was carved from, though other pools may reuse the address.           *)
SlotNamesChunk ==
    \A k \in Classes : \A c \in Listed(k) :
        \A i \in Indexes : i < chunk[c].next_index => slot[<<c, i>>] = c

(* unfull_ is null exactly when the pool has no block to give, and else it *)
(* is a chunk of this pool (never one already returned upstream) that can  *)
(* serve the next allocation.                                              *)
HintExact ==
    \A k \in Classes :
        /\ unfull[k] = Null => \A c \in Listed(k) : chunk[c].free_count = 0
        /\ unfull[k] # Null => /\ unfull[k] \in Listed(k)
                               /\ chunk[unfull[k]].free_count # 0

(* Nothing is lost and nothing can be returned twice: what is held from    *)
(* upstream is exactly what the chunk lists and the oversized list name,   *)
(* and no region is named twice.                                           *)
UpstreamConserved ==
    /\ held = Big \cup UNION {Listed(k) : k \in Classes}
    /\ \A k \in Classes : IsInjective(chunks[k])
    /\ \A k \in Classes : /\ Listed(k) \cap Big = {}
                          /\ \A m \in Classes \ {k} : Listed(k) \cap Listed(m) = {}

(* The doubly linked list survives unlinking at any position: the two      *)
(* directions mirror each other, the head is the one header without a      *)
(* predecessor, and the walk of release() reaches every live header.       *)
LinkedList(B, head, prv, nxt) ==
    /\ head # Null => head \in B
    /\ \A r \in B : /\ nxt[r] # Null => nxt[r] \in B /\ prv[nxt[r]] = r
                    /\ prv[r] # Null => prv[r] \in B /\ nxt[prv[r]] = r
                    /\ prv[r] = Null <=> r = head
    /\ Headers(head, nxt) = B

OversizedLinked == LinkedList(Big, oversized, prev, next)

(* Under release_empty_chunks no empty chunk stays behind, and a pool whose *)
(* last chunk has gone starts again from the default capacity.             *)
EagerRelease ==
    /\ ReleaseEmpty => \A k \in Classes : \A c \in Listed(k) : Taken(c) # {}
    /\ \A k \in Classes : chunks[k] = <<>> => nextCap[k] = DefaultNextCapacity

(* The lists are exact: the chunk a pool remembers as not full is one of   *)
(* its own, the oversized allocations that are held are linked both ways,  *)
(* and no empty chunk is kept where they are to be released.               *)
ListsExact == HintExact /\ OversizedLinked /\ EagerRelease

(* A pool goes to upstream for a chunk only when every block of every      *)
(* chunk it has is in a client's hands.                                    *)
NewChunkOnlyWhenFull ==
    [][\A k \in Classes :
          Len(chunks'[k]) > Len(chunks[k]) =>
              \A c \in Listed(k) : Cardinality(Taken(c)) = chunk[c].capacity]_vars

(* The contract of a memory_resource, with the ledger of live blocks. *)
Contract == INSTANCE MemoryResource WITH inUse <- InUse
ContractSpec == Contract!Spec
=============================================================================
