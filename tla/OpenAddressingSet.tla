------------------------- MODULE OpenAddressingSet --------------------------
(***************************************************************************)
(* chaistl::experimental::open_addressing_set (experimental/containers/    *)
(* open_addressing_set.hpp) with its three probing policies.               *)
(*                                                                         *)
(* A slot holds a key, is empty, or is the tombstone of an erased key, so  *)
(* that the probe chains through it stay searchable.  A key's hash, after  *)
(* HashMix, never changes and is not kept beside it.                       *)
(***************************************************************************)
EXTENDS Integers, FiniteSetsExt

CONSTANTS
    Keys,
    Hash(_),           \* table_hash: HashMix of the hasher's result
    HalfWidth,         \* 2 ^ half_width, where double hashing splits a hash
    min_bucket_count,
    MaxSlots,          \* bound on the table's growth
    LoadFactors,       \* max_load_factor() in sixteenths: 8 is 0.5f
    Requests,          \* what clients pass to rehash()
    Float(_),          \* static_cast<float>
    Precision,         \* floats have the integers up to it: 2 ^ 24
    MaxNumber,         \* bound on the numbers that become floats
    Empty, Tombstone

SetAssumption ==
    /\ Empty \notin Keys /\ Tombstone \notin Keys /\ Empty # Tombstone
    /\ IsFiniteSet(Keys) /\ \A k \in Keys : Hash(k) \in Nat
    /\ HalfWidth \in Nat \ {0}
    /\ 8 \in LoadFactors /\ LoadFactors \subseteq 1 .. 14
    /\ min_bucket_count \in {4, 8} /\ MaxSlots \in Nat /\ Requests \subseteq Nat
    /\ Precision \in Nat /\ Precision >= 16 /\ MaxNumber \in Nat
    /\ \A x \in 0 .. MaxNumber : /\ Float(x) \in Nat
                                 /\ Precision * Float(x) >= (Precision - 1) * x
                                 /\ \A y \in 0 .. x : Float(y) <= Float(x)
    /\ MaxSlots <= MaxNumber /\ Cardinality(Keys) < MaxNumber

(* Of a power of two every divisor but 1 is even. *)
PowerOfTwo(n) == \A d \in 2 .. n : n % d = 0 => d % 2 = 0

SlotCounts == {n \in min_bucket_count .. MaxSlots : PowerOfTwo(n)}

(* A power of two and its product with a load factor are floats already. *)
exceeds_load(count, n, l) == 16 * Float(count) > l * n

(* A table that grows to MaxSlots has room for what is asked of it. *)
GrowthAssumption ==
    \E n \in SlotCounts :
        /\ \A l \in LoadFactors : ~exceeds_load(Cardinality(Keys) + 1, n, l)
        /\ \A r \in Requests : r <= n

VARIABLES
    probing,      \* ProbingPolicy
    slots,        \* slots_, by index
    size,         \* size_
    tombstones,   \* tombstones_
    load          \* max_load_factor_

vars == <<probing, slots, size, tombstones, load>>

EmptySlots(n) == [i \in 0 .. n - 1 |-> Empty]
bucket_count == Cardinality(DOMAIN slots)
Occupied == {i \in DOMAIN slots : slots[i] \in Keys}

TypeOK ==
    /\ probing \in {"linear", "quadratic", "double"}
    /\ bucket_count \in SlotCounts \cup {0}
    /\ slots \in [0 .. bucket_count - 1 -> Keys \cup {Empty, Tombstone}]
    /\ size \in 0 .. bucket_count
    /\ tombstones \in 0 .. bucket_count
    /\ load \in LoadFactors

Init ==
    /\ probing \in {"linear", "quadratic", "double"}
    /\ slots = EmptySlots(0)
    /\ size = 0
    /\ tombstones = 0
    /\ load = 8

-----------------------------------------------------------------------------
(* The triangular numbers, and the odd steps of double hashing, visit      *)
(* every slot of a table whose size is a power of two.                     *)
offset(hash, probe) ==
    CASE probing = "linear"    -> probe
      [] probing = "quadratic" -> (probe * (probe + 1)) \div 2
      [] probing = "double"    -> LET high == hash \div HalfWidth
                                  IN  probe * (IF high % 2 = 0 THEN high + 1 ELSE high)

probe_index(hash, probe, n) == (hash + offset(hash, probe)) % n

(* The slots a key's probe sequence visits in table s, in that order. *)
Probes(s, k) ==
    [probe \in DOMAIN s |-> probe_index(Hash(k), probe, Cardinality(DOMAIN s))]

(* The probes that meet one of values, and the slot where the first does.  *)
Hits(s, k, values) == {probe \in DOMAIN s : s[Probes(s, k)[probe]] \in values}

Met(s, k, values) == Probes(s, k)[Min(Hits(s, k, values))]

(* find_index: is the key met before an empty slot? *)
Finds(s, k) ==
    /\ Hits(s, k, {Empty, k}) # {}
    /\ s[Met(s, k, {Empty, k})] = k

(* Where an insertion puts the key: the first tombstone on the way to the  *)
(* empty slot, or that slot.                                               *)
Target(s, k) == Met(s, k, {Empty, Tombstone})

required_bucket_count(count, l) ==
    Min({n \in SlotCounts : ~exceeds_load(count, n, l)})

(* MUTANT: no bit_ceil *)
next_bucket_count_unrounded(requested, count, l) ==
    IF requested > required_bucket_count(count, l)
    THEN requested ELSE required_bucket_count(count, l)

(* bit_ceil of the largest of the three *)
next_bucket_count(requested, count, l) ==
    Min({n \in SlotCounts : n >= requested /\ n >= required_bucket_count(count, l)})

insert_existing(s, k) == [s EXCEPT ![Met(s, k, {Empty})] = k]

(* rehash_exact: the keys, from the first slot on, into empty slots *)
Rehashed(s, n) ==
    LET placed[i \in 0 .. Cardinality(DOMAIN s)] ==
            IF i = 0 THEN EmptySlots(n)
            ELSE IF s[i - 1] \in Keys THEN insert_existing(placed[i - 1], s[i - 1])
            ELSE placed[i - 1]
    IN  placed[Cardinality(DOMAIN s)]

RehashExact(requested, count, l) ==
    /\ slots' = Rehashed(slots, next_bucket_count(requested, count, l))
    /\ size' = Cardinality(Occupied)
    /\ tombstones' = 0

-----------------------------------------------------------------------------
(* ensure_insert_capacity(), whether or not the key is there already: the  *)
(* table that the insertion works on                                       *)
Crowded == \/ exceeds_load(size + 1, bucket_count, load)
           \/ exceeds_load(size + tombstones + 1, bucket_count, load)

Roomy ==
    CASE bucket_count = 0 -> EmptySlots(next_bucket_count(min_bucket_count, size, load))
      [] bucket_count # 0 /\ Crowded ->
            Rehashed(slots, next_bucket_count(required_bucket_count(size + 1, load), size, load))
      [] OTHER -> slots

Tombstones(s) == Cardinality({i \in DOMAIN s : s[i] = Tombstone})

Insert(k) ==
    LET at    == Target(Roomy, k)
        stale == IF bucket_count = 0 \/ Crowded THEN 0 ELSE tombstones
    IN  /\ \/ /\ Finds(Roomy, k)
              /\ slots' = Roomy
              /\ tombstones' = stale
              /\ UNCHANGED size
           \/ /\ ~Finds(Roomy, k)
              /\ slots' = [Roomy EXCEPT ![at] = k]
              /\ tombstones' = IF Roomy[at] = Tombstone THEN stale - 1 ELSE stale
              /\ size' = size + 1
        /\ UNCHANGED <<probing, load>>

Found(k) == Met(slots, k, {Empty, k})

(* MUTANT: no tombstone is left *)
Erase_untombed(k) ==
    /\ Finds(slots, k)
    /\ slots' = [slots EXCEPT ![Found(k)] = Empty]
    /\ size' = size - 1
    /\ UNCHANGED <<probing, load, tombstones>>

Erase(k) ==
    /\ Finds(slots, k)
    /\ slots' = [slots EXCEPT ![Found(k)] = Tombstone]
    /\ size' = size - 1
    /\ tombstones' = tombstones + 1
    /\ UNCHANGED <<probing, load>>

Clear ==
    /\ slots' = EmptySlots(bucket_count)
    /\ size' = 0
    /\ tombstones' = 0
    /\ UNCHANGED <<probing, load>>

Rehash(hint) ==
    /\ ~(next_bucket_count(hint, size, load) = bucket_count /\ tombstones = 0)
    /\ RehashExact(hint, size, load)
    /\ UNCHANGED <<probing, load>>

Reserve(count) == Rehash(required_bucket_count(count, load))

max_load_factor(l) ==
    /\ load' = l
    /\ IF bucket_count # 0 /\ exceeds_load(size, bucket_count, l)
       THEN RehashExact(required_bucket_count(size, l), size, l)
       ELSE UNCHANGED <<slots, size, tombstones>>
    /\ UNCHANGED probing

Next ==
    \/ \E k \in Keys : Insert(k) \/ Erase(k)
    \/ Clear
    \/ \E n \in Requests : Rehash(n)
    \/ \E n \in 0 .. Cardinality(Keys) : Reserve(n)
    \/ \E l \in LoadFactors : max_load_factor(l)

Spec == Init /\ [][Next]_vars

-----------------------------------------------------------------------------
(* The structural half of validate(): every key is found from its hash,    *)
(* past the tombstones of others and behind every rehash, it is there      *)
(* once, and size_ and tombstones_ count what there is.                    *)
Validates ==
    /\ \A i \in Occupied : Finds(slots, slots[i])
    /\ \A i, j \in Occupied : slots[i] = slots[j] => i = j
    /\ size = Cardinality(Occupied)
    /\ tombstones = Tombstones(slots)

(* A table is never full of keys and tombstones: each probe sequence ends  *)
(* at an empty slot, and the insertion of any key finds room without the   *)
(* retry behind its loop.                                                  *)
ProbesEnd == bucket_count # 0 =>
    \A k \in Keys : Hits(slots, k, {Empty}) # {}

(* What a client sees is a set of keys. *)
Unique  == [c \in {"set"} |-> TRUE]
Counted == [c \in {"set"} |-> [k \in Keys |-> Cardinality({i \in Occupied : slots[i] = k})]]

Container == INSTANCE KeyedContainer WITH
    Containers <- {"set"}, MaxCount <- 1, Null <- Empty,
    unique <- Unique, count <- Counted, handle <- Empty

SetSpec == Container!Spec

=============================================================================
