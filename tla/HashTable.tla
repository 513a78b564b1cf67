----------------------------- MODULE HashTable ------------------------------
(***************************************************************************)
(* chaistl::detail::hash::hash_table (containers/hash/hash_table.hpp), the *)
(* core of unordered_set, _map, _multiset and _multimap, with its rehash   *)
(* policy and node handle.                                                 *)
(*                                                                         *)
(* A node hangs in two structures: the chain of the bucket its cached hash *)
(* selects, and the iteration list.  Both are sequences of nodes here.     *)
(* An operation that throws before its commit point changes nothing and is *)
(* no step; those that can throw halfway are steps of their own.           *)
(***************************************************************************)
EXTENDS Integers, Sequences, SequencesExt

CONSTANTS
    Tables, Nodes, Keys,
    Hashers,           \* the values a stateful Hash may have
    Hash(_, _),        \* what a hasher makes of a key
    BucketCounts,      \* the sizes of RehashPolicy
    LoadFactors, Unit, \* max_load_factor(): l stands for l / Unit, Unit for 1.0f
    Requests,          \* what clients pass to rehash()
    Rounded(_, _),     \* the float nearest to a quotient, without its fraction
    Precision,         \* below it floats have all integers: 2 ^ 24
    MaxNumber,         \* bound on the numbers that become floats
    MovedFrom,         \* the key of a moved-from value
    Null

ASSUME NullAssumption ==
    Null \notin Nodes \cup Keys \cup {MovedFrom} /\ MovedFrom \notin Keys
ASSUME HashAssumption ==
    \A h \in Hashers, k \in Keys \cup {MovedFrom} : Hash(h, k) \in Nat
ASSUME PolicyAssumption ==
    /\ BucketCounts \subseteq 1 .. MaxNumber /\ MaxNumber \in Nat
    /\ LoadFactors \subseteq Nat \ {0} /\ Unit \in LoadFactors

max_bucket_count == Max(BucketCounts)

(* static_cast<float>.  The code multiplies and divides floats by a load   *)
(* factor, of which Unit, a power of two, makes an integer.                *)
Float(x) == Rounded(x, 1)

(* Floats round with a relative error of 1 / Precision at most, never      *)
(* exchange two numbers, and have the integers up to Precision.            *)
ASSUME FloatAssumption ==
    /\ Precision \in Nat \ {0}
    /\ \A x \in 0 .. MaxNumber :
          /\ Float(x) \in Nat
          /\ x <= Precision => Float(x) = x
          /\ Precision * Float(x) <= (Precision + 1) * x
          /\ Precision * Float(x) >= (Precision - 1) * x
          /\ \A y \in 0 .. x : Float(y) <= Float(x)
    /\ \A l \in LoadFactors, c \in 0 .. max_bucket_count : l * Float(c) <= MaxNumber

(* prime_rehash_policy and power2_rehash_policy: count > l * bucket_count  *)
exceeds_load(count, bucket_count, l) == Unit * Float(count) > Float(l * Float(bucket_count))

(* The quotient that minimum_bucket_count() starts from.  A fraction below *)
(* one half of Precision may be cut off before it is rounded: if rounding  *)
(* gave the next integer, the repair of the result gives it, too.          *)
first_guess(count, l) == Rounded(Unit * Float(count), l)

(* Nobody asks for more than max_bucket_count(), next_bucket_count()'s     *)
(* precondition: what is requested and what the nodes need is available.   *)
ASSUME SizeAssumption ==
    /\ IsFiniteSet(Nodes) /\ Cardinality(Nodes) < MaxNumber
    /\ \A l \in LoadFactors, count \in 0 .. Cardinality(Nodes) :
          /\ first_guess(count, l) \in Nat
          /\ \E c \in BucketCounts : first_guess(count, l) <= c /\ ~exceeds_load(count, c, l)
    /\ \A request \in Requests : request \in Nat /\ \E c \in BucketCounts : request <= c

VARIABLES
    unique,    \* is a table one of unique or of equivalent keys?
    hasher,    \* hasher_ of each table
    load,      \* max_load_factor_ of each table
    order,     \* the iteration list of each table
    buckets,   \* the bucket array of each table, <<>> if it has none
    key,       \* the key of each node, Null if there is no such node
    cached,    \* cached_hash of each node
    handle,    \* the node in the node handle, or Null
    merging,   \* the merge() in progress: into, from, the node it is at
    husks      \* tables a move between unequal allocators has emptied of values

elements == <<order, buckets, key, cached>>
vars     == <<unique, hasher, load, elements, handle, merging, husks>>

NoMerge == [into |-> Null, from |-> Null, node |-> Null]
Count(t) == Len(buckets[t])
Free     == {n \in Nodes : key[n] = Null}

TypeOK ==
    /\ unique \in [Tables -> BOOLEAN]
    /\ hasher \in [Tables -> Hashers]
    /\ load \in [Tables -> LoadFactors]
    /\ order \in [Tables -> Seq(Nodes)]
    /\ buckets \in [Tables -> Seq(Seq(Nodes))]
    /\ \A t \in Tables : Count(t) \in BucketCounts \cup {0}
    /\ key \in [Nodes -> Keys \cup {MovedFrom, Null}]
    /\ cached \in [Nodes -> Nat]
    /\ handle \in Nodes \cup {Null}
    /\ merging \in [into : Tables, from : Tables, node : Nodes] \cup {NoMerge}
    /\ husks \subseteq Tables

Init ==
    /\ unique \in [Tables -> BOOLEAN]
    /\ hasher \in [Tables -> Hashers]
    /\ load = [t \in Tables |-> Unit]
    /\ order = [t \in Tables |-> <<>>]
    /\ buckets = [t \in Tables |-> <<>>]
    /\ key = [n \in Nodes |-> Null]
    /\ cached = [n \in Nodes |-> 0]
    /\ handle = Null
    /\ merging = NoMerge
    /\ husks = {}

-----------------------------------------------------------------------------
(* prime_rehash_policy *)
bucket_for_hash(code, bucket_count) == (code % bucket_count) + 1

next_bucket_count(requested) == Min({c \in BucketCounts : c >= requested})

(* MUTANT: the elements to come are not counted *)
need_rehash_late(size, incoming, bucket_count, l) ==
    bucket_count = 0 \/ exceeds_load(size, bucket_count, l)

need_rehash(size, incoming, bucket_count, l) ==
    bucket_count = 0 \/ exceeds_load(size + incoming, bucket_count, l)

(* The rounded quotient, repaired upwards until the elements fit. *)
minimum_bucket_count(element_count, l) ==
    Min({required \in first_guess(element_count, l) .. max_bucket_count :
            ~exceeds_load(element_count, required, l)})

will_rehash_for_one_more(t) == need_rehash(Len(order[t]), 1, Count(t), load[t])

(* The elements of s that are in P, in their order: SelectSeq with a set,  *)
(* and as a function, which the proofs can unfold.                         *)
Within(s, P) ==
    LET F[i \in 0 .. Len(s)] == IF i = 0 THEN <<>>
                               ELSE IF s[i] \in P THEN Append(F[i - 1], s[i]) ELSE F[i - 1]
    IN  F[Len(s)]

(* rebuild_bucket_array: each chain in the order of the iteration list *)
rebuild_bucket_array(list, codes, bucket_count) ==
    [b \in 1 .. bucket_count |->
        Within(list, {n \in Nodes : bucket_for_hash(codes[n], bucket_count) = b})]

Reserved(t) ==
    IF will_rehash_for_one_more(t)
    THEN rebuild_bucket_array(order[t], cached,
             next_bucket_count(minimum_bucket_count(Len(order[t]) + 1, load[t])))
    ELSE buckets[t]

(* MUTANT: the prefilter passes for the comparison *)
find_node_by_hash(t, code, k) ==
    IF Count(t) = 0 THEN Null
    ELSE LET chain == buckets[t][bucket_for_hash(code, Count(t))]
             hit   == SelectInSeq(chain, LAMBDA n : cached[n] = code)
         IN  IF hit = 0 THEN Null ELSE chain[hit]

(* The first node of its chain with that hash and that key. *)
find_node(t, code, k) ==
    IF Count(t) = 0 THEN Null
    ELSE LET chain == buckets[t][bucket_for_hash(code, Count(t))]
             hit   == SelectInSeq(chain, LAMBDA n : cached[n] = code /\ key[n] = k)
         IN  IF hit = 0 THEN Null ELSE chain[hit]

(* The end of the run of nodes from n on that are in P. *)
LastOfRun(s, n, P) ==
    LET first == CHOOSE i \in 1 .. Len(s) : s[i] = n
    IN  Max({i \in first .. Len(s) : \A j \in first + 1 .. i : s[j] \in P})

last_equivalent_in_order(s, n, k) == LastOfRun(s, n, {m \in Nodes : key[m] = k})
last_equivalent_in_bucket(s, n, code, k) ==
    LastOfRun(s, n, {m \in Nodes : cached[m] = code /\ key[m] = k})

(* The nodes of equal_range(): from find_node() on along the list. *)
equal_range(t, k) ==
    LET s     == order[t]
        first == find_node(t, Hash(hasher[t], k), k)
        at    == CHOOSE i \in 1 .. Len(s) : s[i] = first
    IN  CASE first = Null -> {}
          [] first # Null /\ unique[t] -> {first}
          [] OTHER -> {s[i] : i \in at .. last_equivalent_in_order(s, first, k)}

-----------------------------------------------------------------------------
(* MUTANT: equivalent nodes go to the tail of the list, too *)
LinkedOrder_tail(t, n, k, existing) == Append(order[t], n)

(* Linking node n with key k: behind an equivalent node in both            *)
(* structures, else at the list's tail and its chain's tail; a table of    *)
(* unique keys that has just rehashed links it at the chain's head.        *)
LinkedOrder(t, n, k, existing) ==
    IF existing = Null THEN Append(order[t], n)
    ELSE InsertAt(order[t], last_equivalent_in_order(order[t], existing, k) + 1, n)

LinkedBuckets(t, n, k, code, existing) ==
    LET array == Reserved(t)
        b     == bucket_for_hash(code, Len(array))
        chain == array[b]
        at    == CASE existing # Null ->
                          last_equivalent_in_bucket(chain, existing, code, k) + 1
                   [] existing = Null /\ unique[t] /\ will_rehash_for_one_more(t) -> 1
                   [] OTHER -> Len(chain) + 1
    IN  [array EXCEPT ![b] = InsertAt(chain, at, n)]

(* MUTANT: the hash cached by another table is trusted *)
Link_trusting(t, n, k, others, chains) ==
    LET code     == Hash(hasher[t], k)
        existing == find_node(t, code, k)
    IN  /\ unique[t] => existing = Null
        /\ order' = [others EXCEPT ![t] = LinkedOrder(t, n, k, existing)]
        /\ buckets' = [chains EXCEPT ![t] = LinkedBuckets(t, n, k, code, existing)]
        /\ cached' = [cached EXCEPT ![n] = IF key[n] = Null THEN code ELSE @]

(* Put node n with key k into table t, which admits it; the rest of the    *)
(* tables stay, but for `others`, which may have lost the node.            *)
Link(t, n, k, others, chains) ==
    LET code     == Hash(hasher[t], k)
        existing == find_node(t, code, k)
    IN  /\ unique[t] => existing = Null
        /\ order' = [others EXCEPT ![t] = LinkedOrder(t, n, k, existing)]
        /\ buckets' = [chains EXCEPT ![t] = LinkedBuckets(t, n, k, code, existing)]
        /\ cached' = [cached EXCEPT ![n] = code]

(* unlink_node: the cached hash finds the chain *)
UnlinkedOrder(t, n)   == [order EXCEPT ![t] = Within(@, Nodes \ {n})]
UnlinkedBuckets(t, n) ==
    [buckets EXCEPT ![t][bucket_for_hash(cached[n], Count(t))] = Within(@, Nodes \ {n})]

Destroyed(gone) == [n \in Nodes |-> IF n \in gone THEN Null ELSE key[n]]
Uncached(gone)  == [n \in Nodes |-> IF n \in gone THEN 0 ELSE cached[n]]

Idle(t) == merging = NoMerge /\ t \notin husks
Same    == UNCHANGED <<unique, hasher, load, merging, husks>>

(* insert, emplace and try_emplace of a key that is admitted *)
Insert(t, k) ==
    /\ Idle(t)
    /\ \E n \in Free : Link(t, n, k, order, buckets) /\ key' = [key EXCEPT ![n] = k]
    /\ Same /\ UNCHANGED handle

(* erase(const_iterator) *)
Erase(t, n) ==
    /\ Idle(t) /\ n \in ToSet(order[t])
    /\ order' = UnlinkedOrder(t, n)
    /\ buckets' = UnlinkedBuckets(t, n)
    /\ key' = Destroyed({n}) /\ cached' = Uncached({n})
    /\ Same /\ UNCHANGED handle

(* erase_key and erase_multi *)
EraseKey(t, k) ==
    LET gone == equal_range(t, k)
    IN  /\ Idle(t) /\ gone # {}
        /\ order' = [order EXCEPT ![t] = Within(@, Nodes \ gone)]
        /\ buckets' = [buckets EXCEPT ![t] =
                          [b \in 1 .. Count(t) |-> Within(buckets[t][b], Nodes \ gone)]]
        /\ key' = Destroyed(gone) /\ cached' = Uncached(gone)
        /\ Same /\ UNCHANGED handle

(* Sparse tables empty the buckets their nodes are in, dense ones all. *)
Cleared(t) ==
    LET used == {bucket_for_hash(cached[n], Count(t)) : n \in ToSet(order[t])}
    IN  [b \in 1 .. Count(t) |->
            IF Len(order[t]) < Count(t) \div 2 /\ b \notin used THEN buckets[t][b] ELSE <<>>]

Clear(t) ==
    LET gone == ToSet(order[t])
    IN  /\ merging = NoMerge /\ gone # {}
        /\ order' = [order EXCEPT ![t] = <<>>]
        /\ buckets' = [buckets EXCEPT ![t] = Cleared(t)]
        /\ key' = Destroyed(gone) /\ cached' = Uncached(gone)
        /\ husks' = husks \ {t}
        /\ UNCHANGED <<unique, hasher, load, handle, merging>>

-----------------------------------------------------------------------------
(* rehash() and, for n elements, reserve() *)
Rehash(t, request) ==
    LET minimum  == minimum_bucket_count(Len(order[t]), load[t])
        required == IF request > minimum THEN request ELSE minimum
        target   == next_bucket_count(required)
    IN  /\ Idle(t) /\ required # 0 /\ target # Count(t)
        /\ buckets' = [buckets EXCEPT ![t] = rebuild_bucket_array(order[t], cached, target)]
        /\ Same /\ UNCHANGED <<order, key, cached, handle>>

max_load_factor(t, l) ==
    /\ Idle(t) /\ l # load[t]
    /\ load' = [load EXCEPT ![t] = l]
    /\ UNCHANGED <<unique, hasher, elements, handle, merging, husks>>

-----------------------------------------------------------------------------
(* Node handles: the cached hash of a node outside a table means nothing. *)
Extract(t, n) ==
    /\ Idle(t) /\ handle = Null /\ n \in ToSet(order[t])
    /\ order' = UnlinkedOrder(t, n)
    /\ buckets' = UnlinkedBuckets(t, n)
    /\ handle' = n
    /\ Same /\ UNCHANGED <<key, cached>>

(* The key of an extracted node may be changed through the handle. *)
Rekey(k) ==
    /\ merging = NoMerge /\ handle # Null
    /\ key' = [key EXCEPT ![handle] = k]
    /\ Same /\ UNCHANGED <<order, buckets, cached, handle>>

(* insert_node_unique, insert_node_multi *)
InsertNode(t) ==
    /\ Idle(t) /\ handle # Null
    /\ Link(t, handle, key[handle], order, buckets)
    /\ handle' = Null
    /\ Same /\ UNCHANGED key

(* reset() and the destructor of a node handle *)
DropNode ==
    /\ merging = NoMerge /\ handle # Null
    /\ key' = Destroyed({handle}) /\ cached' = Uncached({handle})
    /\ handle' = Null
    /\ Same /\ UNCHANGED <<order, buckets>>

-----------------------------------------------------------------------------
(* merge_unique and merge_multi walk the source; an exception (Hash,       *)
(* KeyEqual, the new bucket array) ends them between two nodes.            *)
MergeBegins(into, from) ==
    /\ into # from /\ Idle(into) /\ Idle(from) /\ order[from] # <<>>
    /\ merging' = [into |-> into, from |-> from, node |-> Head(order[from])]
    /\ UNCHANGED <<unique, hasher, load, elements, handle, husks>>

NextInOrder(t, n) ==
    LET i == CHOOSE j \in 1 .. Len(order[t]) : order[t][j] = n
    IN  IF i = Len(order[t]) THEN NoMerge ELSE [merging EXCEPT !.node = order[t][i + 1]]

MergeNode ==
    LET into == merging.into
        from == merging.from
        n    == merging.node
    IN  /\ merging # NoMerge
        /\ merging' = NextInOrder(from, n)
        /\ \/ /\ Link(into, n, key[n], UnlinkedOrder(from, n), UnlinkedBuckets(from, n))
              /\ UNCHANGED key
           \/ /\ unique[into] /\ find_node(into, Hash(hasher[into], key[n]), key[n]) # Null
              /\ UNCHANGED elements
        /\ UNCHANGED <<unique, hasher, load, handle, husks>>

MergeThrows ==
    /\ merging # NoMerge
    /\ merging' = NoMerge
    /\ UNCHANGED <<unique, hasher, load, elements, handle, husks>>

-----------------------------------------------------------------------------
Transposed(f, t, u) == [f EXCEPT ![t] = f[u], ![u] = f[t]]

Swap(t, u) ==
    /\ t # u /\ unique[t] = unique[u] /\ Idle(t) /\ Idle(u)
    /\ order' = Transposed(order, t, u)
    /\ buckets' = Transposed(buckets, t, u)
    /\ hasher' = Transposed(hasher, t, u)
    /\ load' = Transposed(load, t, u)
    /\ UNCHANGED <<unique, key, cached, handle, merging, husks>>

(* The functors and the load factor are taken, t's own elements gone, by   *)
(* an assignment; a copy or move constructor does the same to a table that *)
(* has none.                                                               *)
Assigned(t, from) ==
    /\ t # from /\ unique[t] = unique[from] /\ merging = NoMerge /\ from \notin husks
    /\ hasher' = [hasher EXCEPT ![t] = hasher[from]]
    /\ load' = [load EXCEPT ![t] = load[from]]
    /\ UNCHANGED <<unique, handle, merging>>

(* link_node() for each element of the source, with the hash cached there *)
Copied(t, from, new) ==
    /\ order' = [order EXCEPT ![t] = new]
    /\ cached' = [n \in Nodes |->
          CASE n \in ToSet(new) -> cached[order[from][CHOOSE i \in DOMAIN new : new[i] = n]]
            [] n \in ToSet(order[t]) \ ToSet(new) -> 0
            [] OTHER -> cached[n]]
    /\ buckets' = [buckets EXCEPT ![t] = rebuild_bucket_array(new, cached', Count(from))]

(* Fresh nodes for the elements of a table; t's own were destroyed before. *)
FreshNodes(t, from) ==
    {s \in [1 .. Len(order[from]) -> Free \cup ToSet(order[t])] : IsInjective(s)}

CopyAssign(t, from) ==
    /\ Assigned(t, from)
    /\ \E new \in FreshNodes(t, from) :
          /\ Copied(t, from, new)
          /\ key' = [n \in Nodes |->
                CASE n \in ToSet(new) -> key[order[from][CHOOSE i \in DOMAIN new : new[i] = n]]
                  [] n \in ToSet(order[t]) \ ToSet(new) -> Null
                  [] OTHER -> key[n]]
    /\ husks' = husks \ {t}

(* copy_from() throws: what has been copied is destroyed, t left empty *)
CopyFails(t, from) ==
    LET gone == ToSet(order[t])
    IN  /\ Assigned(t, from)
        /\ order' = [order EXCEPT ![t] = <<>>]
        /\ buckets' = [buckets EXCEPT ![t] = <<>>]
        /\ key' = Destroyed(gone) /\ cached' = Uncached(gone)
        /\ husks' = husks \ {t}

(* take_storage_from: the source is left without buckets *)
MoveAssign(t, from) ==
    LET gone == ToSet(order[t])
    IN  /\ Assigned(t, from)
        /\ order' = [order EXCEPT ![t] = order[from], ![from] = <<>>]
        /\ buckets' = [buckets EXCEPT ![t] = buckets[from], ![from] = <<>>]
        /\ key' = Destroyed(gone) /\ cached' = Uncached(gone)
        /\ husks' = husks \ {t}

(* move_values_from, between unequal allocators: the source keeps its      *)
(* nodes, with moved-from values; an exception leaves t empty.             *)
MoveValues(t, from) ==
    /\ Assigned(t, from) /\ order[from] # <<>>
    /\ \E new \in FreshNodes(t, from) :
          /\ Copied(t, from, new)
          /\ key' = [n \in Nodes |->
                CASE n \in ToSet(new) -> key[order[from][CHOOSE i \in DOMAIN new : new[i] = n]]
                  [] n \in ToSet(order[t]) \ ToSet(new) -> Null
                  [] n \in ToSet(order[from]) -> MovedFrom
                  [] OTHER -> key[n]]
    /\ husks' = (husks \ {t}) \cup {from}

MoveValuesFails(t, from) ==
    LET gone == ToSet(order[t])
    IN  /\ Assigned(t, from)
        /\ order' = [order EXCEPT ![t] = <<>>]
        /\ buckets' = [buckets EXCEPT ![t] = <<>>]
        /\ cached' = Uncached(gone)
        /\ \E moved \in 1 .. Len(order[from]) :
              key' = [n \in Nodes |->
                 CASE n \in gone -> Null
                   [] n \in ToSet(SubSeq(order[from], 1, moved)) -> MovedFrom
                   [] OTHER -> key[n]]
        /\ husks' = (husks \ {t}) \cup {from}

-----------------------------------------------------------------------------
Next ==
    \/ \E t \in Tables, k \in Keys : Insert(t, k) \/ EraseKey(t, k)
    \/ \E t \in Tables, n \in Nodes : Erase(t, n) \/ Extract(t, n)
    \/ \E t \in Tables : Clear(t) \/ InsertNode(t)
    \/ \E t \in Tables, request \in Requests : Rehash(t, request)
    \/ \E t \in Tables, l \in LoadFactors : max_load_factor(t, l)
    \/ \E k \in Keys : Rekey(k)
    \/ DropNode \/ MergeNode \/ MergeThrows
    \/ \E t, u \in Tables : \/ MergeBegins(t, u) \/ Swap(t, u)
                            \/ CopyAssign(t, u) \/ CopyFails(t, u)
                            \/ MoveAssign(t, u) \/ MoveValues(t, u) \/ MoveValuesFails(t, u)

Spec == Init /\ [][Next]_vars

-----------------------------------------------------------------------------
Sound(t) == t \notin husks

(* validate(): the two structures hold the same nodes, each once and in    *)
(* the chain its cached hash selects, and no cached hash is stale, however *)
(* the nodes came into the table (hash_table.hpp:924 and the layout's      *)
(* "antidote to updating one structure and forgetting the other").         *)
Validates == \A t \in Tables :
    /\ Count(t) = 0 => order[t] = <<>>
    /\ \A b \in 1 .. Count(t) :
          /\ IsInjective(buckets[t][b])
          /\ ToSet(buckets[t][b]) =
                {n \in ToSet(order[t]) : bucket_for_hash(cached[n], Count(t)) = b}
    /\ Sound(t) => \A n \in ToSet(order[t]) : cached[n] = Hash(hasher[t], key[n])

(* Every node that exists has one owner, a table or the node handle:       *)
(* nothing leaks and nothing will be destroyed twice, also when merge() or *)
(* an assignment is cut short by an exception.                             *)
OneOwner ==
    /\ \A t \in Tables : IsInjective(order[t])
    /\ \A n \in Nodes : LET owners == {t \in Tables : n \in ToSet(order[t])}
                        IN  CASE key[n] = Null -> owners = {} /\ handle # n
                              [] handle = n    -> owners = {}
                              [] OTHER         -> \E t \in Tables : owners = {t}

(* What the tables are declared to be and what validate() finds: the list  *)
(* and the chains of a table hold the same nodes, its hashes are fresh,    *)
(* and every node has one owner, whatever operation ended how.             *)
TablesValidate == TypeOK /\ Validates /\ OneOwner

Held(t, k) == {n \in ToSet(order[t]) : key[n] = k}

(* Lookup is complete: equal_range() starts at the first of the equivalent *)
(* nodes of a chain and walks the list, which finds all of them only if    *)
(* they are adjacent in the list, and in the same order in both.           *)
LookupIsExact == \A t \in Tables : Sound(t) => \A k \in Keys :
    equal_range(t, k) = Held(t, k)

Inserts(t) == \/ \E k \in Keys : Insert(t, k)
              \/ InsertNode(t)
              \/ MergeNode /\ merging.into = t /\ order'[t] # order[t]

(* How far from the limit rounding may put it: three roundings. *)
MayExceed(n, c, l) ==
    Unit * n * (Precision * (Precision + 1)) > l * c * ((Precision - 1) * (Precision - 1))
MayFit(n, c, l) ==
    Unit * n * (Precision * (Precision - 1)) <= l * c * ((Precision + 1) * (Precision + 1))

(* Floats hold the sizes and the limit. *)
Exact(n, c, l) == Float(n) = n /\ Float(c) = c /\ Float(l * c) = l * c

(* Iterators survive an insertion unless the load would exceed its bound:  *)
(* then, and only then, the bucket array is rebuilt, and the elements stay *)
(* within the bound (prime_rehash_policy.hpp, "no rehash while             *)
(* (N + n) <= z * B"): for sizes that floats hold exactly, for others as   *)
(* far as rounding lets it tell.                                           *)
RehashOnlyWhenDue == [][\A t \in Tables : Inserts(t) =>
    LET needed == Len(order[t]) + 1
        before == Count(t)
        after  == Count(t)'
        l      == load[t]
    IN  /\ before <= after
        /\ before # 0 /\ before # after => MayExceed(needed, before, l)
        /\ MayFit(needed, after, l)
        /\ before # 0 /\ before # after /\ Exact(needed, before, l) => Unit * needed > l * before
        /\ Exact(needed, after, l) => Unit * needed <= l * after]_vars

Counted == [t \in Tables |-> [k \in Keys |-> Cardinality(Held(t, k))]]
Carried == IF handle = Null THEN Null ELSE key[handle]

(* The tables are bags of keys, the unique ones sets: what is found,       *)
(* inserted, refused, erased, extracted and merged is what it should be,   *)
(* whatever collides and rehashes.                                         *)
Container == INSTANCE KeyedContainer WITH
    Containers <- Tables, MaxCount <- Cardinality(Nodes), count <- Counted, handle <- Carried

ContainerSpec == Container!Spec

=============================================================================
