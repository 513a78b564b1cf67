# chaistl: TLA+ models, model checking and proofs

chaistl is a C++23 library of STL-style containers, algorithms and polymorphic
memory resources, all in headers under `src/include/chaistl`. This directory
states what its stateful components promise, models what their code does
operation by operation, and relates the two: TLC checks small instances, the
TLA+ proof system TLAPS proves the most important facts for every value of the
constants.

    cd tla
    tlc -workers 2 -config Memory.cfg MCMemory    # any run of section 3
    tlapm PoolResourceProofs.tla                  # any module of section 6

`PROJECT.json` lists components, runs, mutants (for each property a plausible
bug of the code that breaks it), the map from definitions to source lines,
findings, hazards and theorems.

Contents: 1 inventory · 2 modules and the code · 3 runs and bounds · 4 fairness ·
5 findings · 6 proofs · 7 what is only model-checked · 8 what is not modelled ·
9 plan.

## 1. Inventory of the system

There is one place with threads (the mutex of `synchronized_pool_resource`).
Everywhere else the difficulty is in long sequences of calls over linked or
wrapped-around memory, in caches that must follow it, in exceptions that leave
in the middle, and in the boundaries of machine integers. Nothing is persisted
and no messages are exchanged, so there are no crashes or lost messages to model.

| Component | State | Operations | What is hard | What makes it correct |
|---|---|---|---|---|
| `pmr` pool resource (`memory_resource.hpp`) | per block size: list of chunks, free lists, `unfull_` hint, capacity to ask for next; doubly linked list of oversized blocks; chunk pointer in each block's tail | allocate, deallocate, release | hint cached across frees; chunks unlinked in the middle; upstream throws halfway and reuses addresses | a block belongs to one client; free counts and hint exact; everything upstream gave is reachable once |
| `pmr` synchronized pool | one mutex around a pool | the same, by many threads | exceptions while locked; choice and use of a chunk | behaves as one pool; the mutex always comes free |
| `pmr` monotonic buffer | bump pointer, space left, chunks, next size | allocate, deallocate (nothing), release | wrap-around of `align_up` and of size sums; saturation | blocks aligned, apart, inside owned memory; a new chunk serves its request |
| Hash table; `unordered_*`, `power2_unordered_*` | nodes in bucket chains and in an iteration list, cached hashes, load factor, node handle | insert, erase, extract, merge, rehash, clear, copy, move, swap | stateful hashers and cached hashes; two link structures in step; merge or copy interrupted; float load arithmetic | both structures hold the same nodes, lookup exact, each node one owner, rehash only when due |
| Binary search tree and 7 policies; `set`, `map`, `multi*` | nodes with left, right, parent and policy data; header caching root and ends; node handle | insert with hints, erase, extract, merge, copy, move, swap, splaying lookups, rank and select | rotations and erase fix-ups; caches in the header and in nodes; merge walking what it changes | policy's invariant, order, caches, iterators survive, lookups exact, one owner |
| Open-addressing set (experimental) | slots, tombstone count, load factor, probing policy | insert, erase, clear, rehash, reserve | tombstones keep chains alive; probe loops must meet an empty slot | every key reachable, probes end, load bounded |
| Ring buffer (experimental), two overflow policies | slots, `begin_`, `size_`, `capacity_` | push, pop, emplace, erase, resize, set_capacity, assign, move, swap | wrap-around; a full buffer; constructors that throw after `begin_` has moved | slots of the window hold elements, others none; a bounded sequence |
| Priority queue and deque, heap policies | a forest of nodes with policy data, or an array; handles | push, pop, update, erase, meld, copy, move, swap | handles naming elements that move; melds that detach a node before a comparison may throw | heap order, no node lost or shared, handles name their element, the right element comes out |
| `list`, `forward_list` | links, header, size or last node, memory resource | insert, erase, splice, merge, sort, unique, remove, resize, copy, move, swap | chains linked apart and attached; temporary lists while comparisons throw; nodes of unequal memory resources; the cached tail | links both ways through exactly the elements; each node in one list and back to its resource; stability |
| `vector`, `deque`, `array` | storage or blocks under a map, extent of the elements | growth, insert, erase, resize, assign, copy, move, swap | lifetimes when a constructor throws; arguments that are elements; map growth at a block's end | exactly the elements are alive, allocations match, promised contents, strong calls leave no trace |
| Construction and lifetime helpers | constructed ranges, pending storage | construct, commit, roll back | rollback after several ranges | destroys what was constructed and nothing else |
| Flat containers | two parallel sorted vectors | insert, hinted and bulk insert, erase, extract, replace, copy, move | throw between the two vectors; the tail of a bulk insertion sorted and merged | equal lengths, sorted, key beside its own value, first of equivalent keys wins |
| Skip lists | towers of links | insert, erase, lookup | levels linked one by one | each level a sublist of the one below |
| Bit sets | words | shifts, flips, resize | unused bits of the last word | they stay clear |
| Sort functions | arrays | introsort, merge sort, ... | bounds, comparators | sorted permutation |
| Adapters, span, iterators, concepts, functional, meta | none of their own | forwarding | - | - |

Interactions. Containers allocate nodes through allocators, and
`polymorphic_allocator` passes that on to a memory resource, which asks another
one upstream. `unordered_*` adapt the hash table, `set` and `map` the tree: they
forward calls and pick unique or equivalent keys. Nodes travel between
containers of one kind by node handle and by merge. User code is called back in
the middle of operations (hashers, comparators, constructors) and may throw.

## 2. The modules and the code

A model keeps every state change, guard, early return and error path of an
operation, and keeps data only as far as properties tell it apart. An operation
that throws before it has changed anything is no step; one that can throw after
that is an action of its own (`...Throws`, `...Fails`), or its operator is given
a number of calls of user code that succeed before one throws (`budget`,
`fuel`). Where the code writes a case out for left and right, one definition
with a side stands for both. Operators marked MUTANT are not part of a model;
they are used to show that a property can fail.

**Memory resources.**
`MemoryResource` is the contract: what clients hold, and that nothing is handed
out twice. `PoolResource` is `unsynchronized_pool_resource`: `chunks[k]` is
pool k's list (newest first), `chunk[r]` the header stored in region r, `unfull`
the hint, `slot` the chunk pointer at a block's end, `oversized`, `prev`, `next`
the linked list of headers. A block is `<<region, index>>`. Allocation from the
hinted chunk, from a new chunk, its failure upstream, and the two ways to
deallocate are actions; `release()` is one. Upstream may return any region it
does not currently lend out (external). `SynchronizedPool` instantiates
`PoolResource` and adds threads: enter a call, lock, run the body, leave.
Allocation is two steps, so that a lock that fails to protect is visible. Clients
keep the contract of a memory resource when they make a call (`Permitted`): they
return a block that is theirs, and release nothing while another returns a block.
`MonotonicBuffer` keeps sizes and addresses as integers modulo `MaxSize + 1`.

**Keyed containers.**
`KeyedContainer` is the abstract specification: each container a bag of keys
(a set if unique) plus a node handle. `HashTable`, `OpenAddressingSet` and
`BinarySearchTree` implement it.
`HashTable`: `Float` is the conversion to `float`, `Rounded` the division of floats;
`order[t]` is the iteration list, `buckets[t]` the chains, `cached`
the stored hash, `hasher` the state of the Hash object, `merging` the position
of a merge in progress, `husks` the tables whose values a move between unequal
allocators has taken.
`OpenAddressingSet`: `slots` is a function from index to key, `Empty` or
`Tombstone`; probing is one of linear, quadratic, double hashing.
`BinarySearchTree` works on one heap of links (`heap.left`, `.right`,
`.parent`, `.ext`, `.key`); a header has the name of its tree. `TreeNodes` is
`node.hpp`, `algorithm.hpp`, what the three policies with subtree sizes share,
and the splay policy; `RedBlackTree`, `AVLTree`, `TreapTree` (treap and
order-statistic tree, which `KeepsSizes` tells apart) and `SizeBalancedTree` (by
size and, with `ByWeight`, by weight) are the others.
The variable `world`, constant in a behaviour, says which policy, unique or
equivalent keys, how many trees, and whether hints and node handles are used.

`FlatContainer` is `flat_map`, `flat_set`, `flat_multimap` and `flat_multiset`,
by `unique` and `mapped`: `keys` and `values` are the two vectors, and within a
call every element has a number of its own, so that a value beside another's key
shows. A call is a record; that of a bulk insertion says how its entries come
and in which `order` the sort leaves equivalent ones: any for the sets, whose
sort is not stable, the given one for the maps. Comparisons (those of a hardened
build's assertions, too), copies and allocations throw when the call's fuel is
used up. A throw in one of the calls that `Breaks` names may leave the vectors
unsorted or of different lengths: the container is then `broken` until a call
that gives it new contents, and no other call is made on it. `FlatContract` says
what a call returns, a bulk insertion as its insertions one by one, and what may
be left when it throws.

**Priority queues.**
`HeapNodes` is a heap of nodes (`prev`, `next`, `child`, `rank`, `value`) with
what forests share: cutting, linking, walking, consistency of links.
`PairingHeap`, `BinomialHeap`, `FibonacciHeap` and `LeftistHeap` (leftist and
skew, by `KeepsRanks`) are the policies; `PriorityQueue` runs two queues of one policy over the same nodes
and implements `HandleQueue`, a bag whose elements have handles. A handle is the
node's name: `Modify` and `Erase` must act on the element it was
given out for.
`ArrayPriorityQueue` is the queue over a binary or d-ary array heap and the
priority deque over a min-max heap (`at` the array, `MovedFrom` a hole); it
implements `ValueQueue`: when a comparison throws, a single-ended queue may lose
the element that is being sifted, the deque none but the one to be removed.

**Sequences.**
`ListNodes` is what a node of a list goes through: allocated from a resource,
constructed, linked, moved from, destroyed. `LinkedList` (`Ring`, circular with
`prev` and a size) and `ForwardList` (`Single`, with `last_`) are the operations,
as functions from memory to memory; `LinkedLists` is any program over two lists,
and each call is compared with `SequenceContract`.
`Lifetimes` is storage and the element lifetimes in it, with the construction
helpers (`raw_storage_buffer`, builders, `construction_transaction`, the
uninitialized algorithms); `Vector` and `Deque` are the operations on it, and
`IndexedSequences` any program over a container and the temporaries of a call,
compared with `ArrayContract`. The elements are numbered by position at the
start of each call: the containers never look at them.
`RingBuffer` keeps a buffer's four fields and, for each slot, an element or raw
memory; it implements `BoundedDeque`, the abstract bounded sequence with its
overflow policy. `AssignOntoElements` says whether clients assign to a buffer that
has elements, which the code gets wrong (finding 1).

The contracts of lists, arrays and flat containers relate the state before a call
to the state after it; the variable `kept` remembers whether the last call kept
its promise, and is written but never read.

`MCMemory`, `MCHashing`, `MCSorted`, `MCHeaps` and `MCSequences` give TLC's
values. Each puts components beside each other that share no state: `on`, chosen
initially, says which of them runs, and the others stay in one initial state.
`LinkedLists` and `SynchronizedPool` are run as they are.
`MCSorted` also keeps `bag`, what the trees contain, worked out once a step.

The theorems are in `PoolResourceProofs`, `MonotonicBufferProofs`,
`HashTableProofs`, `OpenAddressingSetProofs`, `RingBufferProofs`, which extend the
module they are about, and at the end of `SynchronizedPool`, `MCMemory` and
`MCHashing`, which use those of the modules they are built from.

## 3. Runs and bounds

| Run | Asks | Bounds, and why they are enough |
|---|---|---|
| `memory` | TypeOK, BlockAccounting, UpstreamConserved, ListsExact, NewChunkOnlyWhenFull, ContractSpec; BumpIsSafe, ChunkServesRequest | Pool: 2 block sizes, 3 regions, chunks of up to 3 blocks: a list of three chunks has a head, a middle and a tail to unlink, full and partly free ones beside each other. Symmetric in sizes and regions, which the code never compares. Buffer: 6-bit addresses, so every sum in the code can wrap; initial buffers of 5 and 0 bytes, initial sizes up to the maximum; 2 live blocks. |
| `synchronized_pool` | TypeOK, ChoiceIsFresh, SinglePool, MutexComesFree | 2 threads, 1 block size, 2 regions, chunks of 2: one thread can take the other's last block, or release its chunk. |
| `sequences` | SlotsExact, PromisesKept, IteratorsReach; RingIsSafe, DequeSpec | Vector and deque: up to 6 elements, blocks of 3, a map of up to 3 blocks, so that the map grows on either side; 1 or 2 elements per insertion; the call that throws is the first, second, third, fifth or none; two memory resources, moves that throw or not. Ring buffers: 2 of capacity up to 3, 2 values: every offset, wrap-around, full and empty; clients assign only to buffers without elements. |
| `lists` | TypeOK, LinksExact, NodesOwned, PromisesKept | 2 lists, 4 nodes (a fifth fails to allocate), 2 values, 2 resources, the second call of user code throws or none; ranges with a first, a middle and a last node; sorting uses all counters that four nodes can fill. |
| `hashing` | TablesValidate, LookupIsExact, ContainerSpec, RehashOnlyWhenDue; SetIsSound, SetSpec | 2 tables, 3 nodes, 2 keys, bucket counts 2, 23, 29, load factors 1/8 and 1 (counted in eighths), a hasher that spreads and one that does not: three nodes can leave two equivalent and one other key in a chain. Floats have four bits (`MCRounded`, half to even, exact up to `Precision` = 16): with 23 buckets and load factor 1/8 the limit rounds up from 23 to 24 eighths, so the third element goes past it without a rehash, as the 25165844th does in the code at load factor 1. The set: 4 keys of which two always collide, 4 to 16 slots, load factors 6, 8 and 14 sixteenths. `min_bucket_count` is 4 here, not the code's 8, so that tombstones fill a table within few steps; the code's arithmetic only needs a power of two. |
| `tree_policies` | Validates, LookupIsExact, IteratorsSurvive | one tree for each policy, of up to 9 (red-black), 8 (AVL, size-balanced), 7 (weight-balanced), 6 (splay) or 5 (treap, order-statistic, with 2 priorities) nodes: all erase cases, double rotations and, for the weight-balanced tree, both kinds of rotation occur. New nodes take the key's name where it is free; code never compares addresses. |
| `sorted` | SortedTypeOK, SortedValidates, PositionsAreExact, FlatPromises, ContainerSpec | 2 trees, 3 nodes, 2 or 3 keys, red-black, splay and weight-balanced, sets and multisets, every hint. Flat containers: 3 keys, up to 4 entries, up to 3 given in a call, 2 where they replace others; call 1, 2, 3, 5, 8 or 12 of user code and allocations throws or none does: from the first one to the last of sorting and merging a tail of three. |
| `heaps` | HeapsTypeOK, NodesOwned, HeapsVerify, HandleSpec, ArraySpec | each policy alone with 4 or 5 nodes, and as two queues with 3 or 4 together: binomial trees of order 2, cuts below the roots, consolidation of three roots. Comparators throw after 0 to 4 comparisons, except those of the leftist and skew heaps, which never throw in this run (finding 4). Arrays of up to 8 elements: three levels, so that a min-max heap has grandchildren on both sides. |
| `vector_resize_alias`, `list_chain`, `ring_buffer_assign`, `heap_meld_throw` | one property each, violated | see section 5. |

Type invariants carry the bounds on counters (free counts, chunk capacities,
saturation of sizes). The other properties relate several pieces of state, or a
step to the state before it:

- `ListsExact`: the hint `unfull_` is null or names a chunk with room, and is not
  null while the last search could have found one; the oversized list is linked
  both ways over what is held; no chunk that should have been released is kept.
- `BumpIsSafe`: blocks of the monotonic buffer are aligned, apart, in owned
  memory, and the window left is owned and free.
- `TablesValidate`, `SetIsSound`, `SortedValidates`, `HeapsVerify`: the code's own
  `validate()` and `verify()`, with everything they do not see (links back, cached
  hashes against the hasher, probe sequences that end), and after interrupted
  merges, copies and moves every node in one container or in the handle.
- `RingIsSafe`: counted from `begin_`, the first `size_` slots of a ring buffer hold
  elements and the others are raw; no index is taken modulo zero.
- `RehashOnlyWhenDue`: an insertion changes the bucket count only if the load
  would be exceeded, and leaves it within its bound: exactly where floats hold the
  sizes and the limit, elsewhere up to the error of three roundings. `IteratorsSurvive`: what stays in a tree keeps its key and
  its place, whatever rotations do. `PositionsAreExact`: for every hint the chosen
  link is free and puts the element where the comments say.
- `NodesOwned`: no pairing, binomial or Fibonacci heap and no list loses a node to
  a comparator that throws, and no heap or list shares one or gives it to another
  resource than it came from. Leftist and skew heaps keep their nodes as long as
  no comparison throws; what a throw does to them is `heap_meld_throw`.
- `SlotsExact`: the slots the container covers are constructed and no others;
  nothing is built over an element, destroyed twice or lost.
  `IteratorsReach`: every block from begin() to end() inclusive is allocated.
- `PromisesKept`, `FlatPromises`: the result of each call is the promised sequence
  (stable, keeping nodes where nodes are kept), and after a throw the state is the
  old one, a valid one or empty, as the call promises.
- `ContainerSpec`, `SetSpec`, `DequeSpec`, `HandleSpec`, `ArraySpec`,
  `ContractSpec`: refinement of the abstract specification.

## 4. Fairness

Only `SynchronizedPool` has a liveness property, `MutexComesFree`: whoever
holds the mutex gives it back. Its specification assumes, for each thread, weak
fairness of `Body(t)` (a thread inside a call keeps running, and the call's body
has no loop that waits) and of `Lock(t)` (a thread that waits for a mutex that
stays free gets it). No client is assumed to make a call, and the mutex is not
assumed to be fair, as `std::mutex` is not: a thread may wait for ever while
others take turns. The other modules are sequential; nothing in them runs
unless a client calls, so they have no fairness and no liveness property.

## 5. Findings

1. *Ring buffer, assignment* (`ring_buffer_assign`, `NeverUndefined`): copy
   assignment and `assign` leave `size_` set while `capacity_` is 0 in the
   temporary that is swapped out; its destructor computes `% capacity_`.
2. *Vector, resize* (`vector_resize_alias`, `PromisesKept`): `resize(count, value)`
   with a value that is an element and a count above the capacity copies from
   storage that `reserve` has freed.
3. *List, inserting several elements* (`list_chain`, `PrevIsInverse`): nodes
   inside a new chain have no `prev`; going backwards over them fails.
4. *Leftist and skew heap, throwing comparator* (`heap_meld_throw`, `NodesOwned`):
   `meld` has taken both children off the root when the recursive call compares; an
   exception there loses them, where the policy's concept promises of `insert` and
   `join` that everything is absorbed and stays traversable
   (`policy/concepts.hpp:130-142`). The fourth of four pushes shows it.

Seen while reading, without a run; what would make a passing run fail is excluded
from it by a definition with a name (`Chains`, `SelfSplice`, `SortsAtHome`,
`ResizeReadsFreed`, `Breaks`, `AssignOntoElements`) or, where noted, by not letting
the call throw.

- *Ring buffer*: `emplace_front` (685) moves `begin_`, and `emplace` (726-739)
  shifts the tail, before the constructor that may throw (not let throw).
  `set_capacity` and element-wise moves leak when a constructor throws.
- *Open addressing*: a table without slots gets the minimum count without a look
  at the maximum load factor (332), so `validate()` fails for a factor below 1/8;
  `find()` of an absent key is not equal to `end()`; `place_at` lowers the
  tombstone count before a constructor that may throw, and `rehash_exact` moves
  the slots out before it allocates; the implicit move operations empty the
  slots of their source but leave its `size_` and `tombstones_`.
- *Weight-balanced tree* (`weight_balanced_tree.hpp:116`): after a double rotation
  the nodes that went down are not looked at again. Inserting 21, 10, 23, 22, 24,
  25, 5, 12, 3, 7, 11, 16, 2, 4, 6, 8, 14, 18, 1, 9, 13, 15, 17, 19, 20 and erasing
  25 leaves node 10 with 9 nodes on one side and 1 on the other, beyond the
  ratio 4, and `validate()` false; the compiled header does so too. The bounds of
  `tree_policies` are too small for it.
- *Hash table, load factor*: the limit is computed in `float`
  (`prime_rehash_policy.hpp:117`, `hash_table.hpp:1215-1219`). With 25165843 buckets
  at load factor 1 it rounds up to 25165844, and so does a count of 25165845: these
  two elements are inserted without a rehash, where the comment (104) says
  "no rehash while (N + n) <= z * B" and `max_load_factor()` is the bound. Smaller
  tables can differ for load factors that floats round. The model rounds alike
  (`Float`, `exceeds_load`, `first_guess`).
- *Priority deque*: `max_index()` is `noexcept` (181) but calls the user's
  comparator. One that throws there, in `max()` or `pop_max()`, terminates the
  program, where the comment (105-107) lets a throwing comparator "leave the valid
  storage out of heap order". The model has no step then (`Terminates`).
- *Hash table*: `link_node_multi` is `noexcept` but calls the user's KeyEqual;
  `merge_multi` lacks the guard against merging a table into itself.
- *Monotonic buffer*: `release()` forgets the `initial_size` it was constructed with.
- *forward_list*: `splice_after` of a range that ends the same list leaves `last_`
  stale (1115-1174); `splice_after(pos, same list, it)` with `pos` the element
  moved makes it its own successor (1073-1105); `sort` uses temporary lists with
  the default resource (1329-1331), which get nodes of another one.
- *list*: the guard in `resize` does nothing (789-830); a `sort` whose comparator
  throws destroys the elements that are in temporaries; `prepend_range` reverses
  the range (a test asserts it); `remove(const T&)` with an element of the list
  reads it after it has been destroyed.
- *Binomial heap*: `binomial_heap.hpp:35` claims more of the order of roots than a
  lazy join keeps (trees of order 0, 0, 0, 0 become 0, 0, 1).
- *Vector, deque*: `vector::insert(pos, count, value)` computes with a count that
  may overflow (612-636). A deque used as a queue grows its map and its blocks
  without bound (394-411). `shrink_to_fit` and `rebuild_with_insertion` of a deque
  have moved elements out when a later allocation throws.
- *Flat containers*: an assignment of a map that throws while mapped values are
  copied leaves vectors of unequal length (the comments at `flat_set.hpp:542` and
  `flat_map.hpp:858` say the contents are discarded); `flat_set::insert_range` of a
  single-pass range without a size that throws leaves an unsorted tail, as does
  a comparator that throws in a hardened build's assertion that an appended range
  of a set is sorted; keys whose move throws leave lengths different; a move
  assignment between unequal allocators leaves the source with equal, moved-from
  keys. The first two were confirmed with the compiled headers.

## 6. What is proved

Each theorem holds for every value of the constants that its module's named
assumptions allow; TLC evaluates these assumptions for the values of the runs.
Where a theorem states a property that a run checks, PROJECT.json names it.
Inductive invariants were checked by TLC before they were proved.

**`PoolResourceProofs`**, for every finite or infinite set of block sizes and
regions, every chunk bound and either setting of `ReleaseEmpty` (names are
distinct, the bound is a positive number):

- `TypeCorrect`, `Accounting` (BlockAccounting, SlotNamesChunk, HintExact),
  `Conservation` (UpstreamConserved, OversizedLinked, EagerRelease), `Lists`
  (ListsExact: HintExact, OversizedLinked and EagerRelease),
- `NoEarlyChunk`: a new chunk is asked for only when all chunks are full,
- `Refinement`: `PoolResource` implements `MemoryResource`.

BlockAccounting alone is not inductive: to know which chunk a freed block goes
back to, the pointer in its tail must name that chunk (`SlotNamesChunk`); to know
that the chunk can be unlinked, it must be in its pool's list once; to know that
the hint survives, it must be in that list and have room. `Inv` is the
conjunction of the listed invariants, one per data structure, with
`SlotNamesChunk` and `LiveListed` as the strengthening. There is one lemma per
action that it keeps `Inv`; allocation from the hinted and from a new chunk share
`TakeBlockStep`, the list surgery is in lemmas about sequences and linked lists
(`RemoveFirstOfDistinct`, `PushFront`, `Unlink`), and the least position a search
returns is got from well-foundedness (`MinOfPositions`). `StepRefines` maps each
action to one of the contract's.

**`SynchronizedPool`**, for any set of threads:

- `Freshness`: only the holder of the mutex is inside a body, and the chunk an
  allocation chose is the right one when it takes the block,
- `Linearizable`: every step is a step of `PoolResource` or leaves it alone,
- `InnerSafety` and `ConcurrentContract`: hence the pool's invariants, and the
  contract of a memory resource, hold behind the mutex,
- `TypeCorrect`, and `NoStaleReturn`: when clients return only what is theirs, a
  block is still its client's when the call has got the mutex, and the pool
  finds it under the class it was handed out for.

The strengthening is that a thread which has chosen holds the mutex, so that no
other thread's step changes what it chose from (`StillFresh`), and that no two
calls end the same block (`ReturnsAreOwned`).

**`MonotonicBufferProofs`**, for every width of sizes and addresses, every header,
size and alignment, and whatever regions upstream returns:

- `BumpSafety` (BumpIsSafe) and `ChunkServes` (ChunkServesRequest: the `bad_alloc`
  after a new chunk is dead code).

`Inv` says of blocks and of the window that is left that they lie in owned memory
and apart. The work is in `align_up` and the sums, computed modulo the width: either
they round up, or they wrap to an address that the code's comparisons refuse.
In `MCMemory`, `BufferSafety` and `BufferServes` carry this over to the composition
that TLC runs.

**`RingBufferProofs`**, for any number of buffers of any capacity under either
policy:

- `RingSafety` (RingIsSafe) and `RingIsDeque` (DequeSpec).

Both assume `~AssignOntoElements`: with assignments to buffers that have elements
they are false, which the run `ring_buffer_assign` shows. `Inv` says of each buffer
that it is `Sound`: counted from `begin_`, its first `size_` slots hold elements and
the others are raw. The index arithmetic is in lemmas that take the modulo away
(`Wrap`, `Positions`); then each operation is one on a sequence.

**`HashTableProofs`**, for any tables, nodes, keys, hashers, load factors and
bucket counts, if the policy has a bucket count for what is asked of it
(`SizeAssumption`, the precondition of `next_bucket_count()`) and floats keep to
`FloatAssumption`: a relative error of 1 / `Precision` at most, monotone, and exact
up to `Precision`, which is 2^24 for the code's `float`:

- `HashTablesValidate` (TablesValidate), `HashLookupIsExact` (LookupIsExact),
- `HashRehashOnlyWhenDue` (RehashOnlyWhenDue), an action property: the limit is
  exact where floats hold the sizes, by `Tolerance` within three roundings of it
  elsewhere; `MinimumCount` shows that what the code's quotient and its repair
  arrive at does not exceed the load,
- `HashTableIsContainer` (ContainerSpec): every step is one of the bag's or a
  stutter, those of an interrupted merge and of a throwing insertion among them.

`Inv` is the type invariant, `TableInv` of each table, `Owned` (each node in one
table or in the handle) and `MergeInv`. Of a table, the list and the chains hold the
same nodes, each chain those of its hash (`Linked`), cached hashes are true, and
equivalent keys are adjacent and in the same order in both (`Keyed`). That order is the strengthening:
neither the range `equal_range()` walks nor a rehash that relinks nodes in
list order keeps equivalent keys together without it. `Keyed` is not claimed of
a table whose values were moved out. What a list is within a set of nodes
(`Within`) is a recursive function, whose unfolding is a lemma.

**`OpenAddressingSetProofs`**, for every finite set of keys, every hash function,
probing policy and load factor up to 14/16, if some size is enough for all keys
(`GrowthAssumption`, without which the code's growth runs out of sizes) and floats
have at least 16 as `Precision`:

- `SetSafety`: type correctness, `Validates` (each key once, reachable from its
  hash past tombstones, true counters) and `ProbesEnd`,
- `SetIsContainer` (SetSpec).

`Inv` says that there is no table yet, or an `Open` one: sound, with a slot that is
neither a key's nor a tombstone. That slot is what ends a search, if the probe
sequence gets there: `Probing` proves that linear, quadratic (triangular numbers)
and double hashing (odd steps) visit every slot of a table whose size is a
power of two, from `OddFactor`: a size that divides a product with an odd factor
divides the other one. The load condition keeps the slot when a key is inserted
(`RoomForOne`); when keys and tombstones reach the limit, `Growth` finds the next
size and `RehashedKeeps` shows that the table built there has the same keys.
In `MCHashing`, `SetStaysSound` (SetIsSound) and `SetStaysASet` (SetSpec) carry this
over to the composition that TLC runs.

## 7. What is only model-checked

- `MutexComesFree`: liveness is out of the prover's reach.
- Trees, heaps and lists (all properties of `lists`, `tree_policies` and `heaps`, and
  those of `sorted`): they follow links by RECURSIVE operators, about which
  nothing can be proved, as nothing can about what a recursive definition
  computes for every input.
- Vector and deque (`SlotsExact`, `PromisesKept`, `IteratorsReach`): their calls
  are folds over the steps of a call, rolled back by a fold over ranges; the
  effect of a fold of any length needs induction over data.
- `FlatContainer` (`FlatPromises`, and its part of SortedTypeOK and SortedValidates):
  bulk insertions and their contract are folds and recursive functions over the
  entries of a call.

## 8. What is not modelled, and why

- Components marked "not_modelled" in PROJECT.json, with the reason there: skip
  lists (as the trees, with towers for rotations; their state is too large for
  the runs that are left), bit sets and sort functions (single calls on data,
  no behaviour over time), adapters, span, compile-time code and tools.
- Ring buffer: arguments that alias an element of the buffer; move assignment
  between unequal allocators; constructors that throw.
- Comparators and KeyEquals that throw in a `noexcept` function: the program ends.
- Hash table and tree: merging a container with itself; swapping node handles; range insertion and
  `erase(first, last)`, which are sequences of modelled operations; mapped values.
- Open addressing: copy and move (compiler-generated) and throwing placements.
- Heaps: a copy of nodes that throws halfway, in a copy or in a move between
  unequal allocators.
- Flat containers: elements whose moves throw; vector: counts that overflow.
- Lookups in a container whose values were moved out between unequal allocators
  (a husk) until it is cleared or assigned to: its keys are unspecified.
- Iterators as values; allocator propagation beyond equal or not (lists, vector
  and deque: equal or not, and propagating or not); constexpr.

## 9. Plan

Done: memory resources with proofs; keyed containers (hash table, open
addressing, trees, flat); heaps; lists; vector, deque, ring buffer.

1. *Open addressing and ring buffer completed.* Copy, move and throwing
   constructions, by the fuel of `Lifetimes`.
2. *Skip lists, bit sets, sorts.* Towers as sublists; last word clear; sorts as
   functions against a reference over all inputs up to length 5.
3. *Proofs.* Done: pool, synchronized pool, monotonic buffer, ring buffer, hash
   table, open-addressing set. Left, with the recursive walks replaced by
   predicates on links: ownership in lists and heaps (the set of nodes is
   preserved by each link step), flat containers by the two insertions that every
   call is made of, and the rollback of a vector's growth.
