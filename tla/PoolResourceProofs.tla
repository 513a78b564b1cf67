------------------------- MODULE PoolResourceProofs -------------------------
(* Theorems about PoolResource for every set of classes and regions, every *)
(* chunk bound and either setting of release_empty_chunks.                 *)
EXTENDS PoolResource, SequenceTheorems, FiniteSetTheorems, WellFoundedInduction, TLAPS

(* A non-empty set of positions has a least one, and Min picks it. *)
LEMMA MinOfPositions ==
    ASSUME NEW S, S \subseteq Nat, S # {}
    PROVE  Min(S) \in S /\ \A x \in S : Min(S) <= x
<1> DEFINE R == StrictSubsetOrdering(Nat)
           T == {0 .. x : x \in S}
<1>1. T \subseteq FiniteSubsetsOf(Nat) /\ T # {}
  <2>1. \A x \in S : 0 .. x \in SUBSET Nat /\ IsFiniteSet(0 .. x)
        BY FS_Interval
  <2>2. QED BY <2>1 DEF FiniteSubsetsOf
<1>2. PICK t \in T : \A u \in T : ~ (<<u, t>> \in R)
      BY <1>1, FS_StrictSubsetOrderingWellFounded, WFMin
<1>3. PICK x \in S : t = 0 .. x
      BY <1>2
<1>4. ASSUME NEW y \in S, y < x PROVE FALSE
  <2>1. 0 .. y \in T /\ 0 .. y \subseteq 0 .. x /\ x \notin 0 .. y /\ x \in 0 .. x
        BY <1>4
  <2>2. <<0 .. y, 0 .. x>> \in R
        BY <2>1 DEF StrictSubsetOrdering
  <2>3. QED BY <1>2, <1>3, <2>1, <2>2
<1>5. \A y \in S : x <= y
      BY <1>4
<1>6. QED BY <1>5 DEF Min

(* find_unfull_chunk: null iff every chunk listed is full, else a chunk of *)
(* the list that is not.                                                   *)
LEMMA FindUnfull ==
    ASSUME NEW list \in Seq(Regions), NEW header \in [Regions -> ChunkHeader]
    PROVE  LET c == find_unfull_chunk(list, header)
           IN  /\ c \in Regions \cup {Null}
               /\ c = Null => \A i \in DOMAIN list : header[list[i]].free_count = 0
               /\ c # Null => /\ \E i \in DOMAIN list : list[i] = c
                              /\ header[c].free_count # 0
<1> DEFINE Open == {i \in 1 .. Len(list) : header[list[i]].free_count # 0}
<1>1. Open \subseteq Nat /\ \A i \in 1 .. Len(list) : list[i] \in Regions
      OBVIOUS
<1>2. CASE Open = {}
      BY <1>1, <1>2 DEF find_unfull_chunk, SelectInSeq
<1>3. CASE Open # {}
  <2> DEFINE m == Min(Open)
  <2>1. m \in Open
        BY <1>1, <1>3, MinOfPositions
  <2>2. find_unfull_chunk(list, header) = list[m]
        BY <1>3, <2>1 DEF find_unfull_chunk, SelectInSeq
  <2> HIDE DEF m
  <2>3. m \in DOMAIN list /\ list[m] \in Regions /\ header[list[m]].free_count # 0
        BY <1>1, <2>1
  <2>4. QED BY <2>2, <2>3, NullAssumption
<1>4. QED BY <1>2, <1>3

(* RemoveFirst on a list without repetitions takes out that element only. *)
LEMMA RemoveFirstOfDistinct ==
    ASSUME NEW S, NEW s \in Seq(S), NEW e,
           IsInjective(s), e \in ToSet(s)
    PROVE  LET t == RemoveFirst(s, e)
           IN  /\ t \in Seq(S) /\ Len(t) = Len(s) - 1
               /\ ToSet(t) = ToSet(s) \ {e} /\ IsInjective(t)
<1> DEFINE I == {i \in 1 .. Len(s) : s[i] = e}
           at == Min(I)
           t  == RemoveAt(s, at)
<1>1. I \subseteq Nat /\ I # {} /\ \A i, j \in DOMAIN s : s[i] = s[j] => i = j
      BY DEF ToSet, IsInjective
<1>2. at \in 1 .. Len(s) /\ s[at] = e
  <2>1. at \in I  BY <1>1, MinOfPositions
  <2>2. QED BY <2>1
<1>3. RemoveFirst(s, e) = t
      BY <1>1, <1>2 DEF RemoveFirst, SelectInSeq
<1> HIDE DEF at
<1>4. /\ t \in Seq(S) /\ Len(t) = Len(s) - 1
      /\ \A i \in 1 .. Len(t) : t[i] = IF i < at THEN s[i] ELSE s[i + 1]
  <2> DEFINE u == SubSeq(s, 1, at - 1)
             v == SubSeq(s, at + 1, Len(s))
  <2>1. /\ u \in Seq(S) /\ Len(u) = at - 1
        /\ \A i \in 1 .. at - 1 : u[i] = s[i]
        BY <1>2, SubSeqProperties, ElementOfSeq
  <2>2. /\ v \in Seq(S) /\ Len(v) = Len(s) - at
        /\ \A i \in 1 .. Len(s) - at : v[i] = s[at + i]
        BY <1>2, SubSeqProperties, ElementOfSeq
  <2> HIDE DEF u, v
  <2>3. t = u \o v  BY DEF RemoveAt, u, v
  <2>4. /\ t \in Seq(S) /\ Len(t) = Len(u) + Len(v)
        /\ \A i \in 1 .. Len(u) + Len(v) :
              t[i] = IF i <= Len(u) THEN u[i] ELSE v[i - Len(u)]
    <3>1. /\ u \o v \in Seq(S) /\ Len(u \o v) = Len(u) + Len(v)
          /\ \A i \in 1 .. Len(u) + Len(v) :
                (u \o v)[i] = IF i <= Len(u) THEN u[i] ELSE v[i - Len(u)]
      <4>1. \A p, q \in Seq(S) :
               /\ p \o q \in Seq(S) /\ Len(p \o q) = Len(p) + Len(q)
               /\ \A i \in 1 .. Len(p) + Len(q) :
                     (p \o q)[i] = IF i <= Len(p) THEN p[i] ELSE q[i - Len(p)]
            BY ConcatProperties, Zenon
      <4>2. u \in Seq(S) /\ v \in Seq(S)
            BY <2>1, <2>2
      <4>3. QED BY <4>1, <4>2, Zenon
    <3> HIDE DEF t
    <3>2. QED BY <2>3, <3>1, Zenon
  <2>5. Len(s) \in Nat /\ Len(u) + Len(v) = Len(s) - 1
        BY <1>2, <2>1, <2>2
  <2>6. ASSUME NEW i \in 1 .. Len(s) - 1
        PROVE  t[i] = IF i < at THEN s[i] ELSE s[i + 1]
    <3>1. CASE i < at
          BY <1>2, <2>1, <2>4, <2>5, <3>1
    <3>2. CASE i >= at
      <4>1. i - Len(u) \in 1 .. Len(s) - at /\ i - Len(u) = i - at + 1
            BY <1>2, <2>1, <2>5, <3>2
      <4>2. t[i] = v[i - Len(u)]
            BY <1>2, <2>1, <2>4, <2>5, <3>2
      <4>3. v[i - Len(u)] = s[at + (i - at + 1)]
            BY <2>2, <4>1
      <4>4. QED BY <1>2, <3>2, <4>2, <4>3
    <3>3. QED BY <1>2, <2>5, <3>1, <3>2
  <2>7. QED BY <2>4, <2>5, <2>6
<1> HIDE DEF t
<1>5. DOMAIN t = 1 .. Len(t) /\ DOMAIN s = 1 .. Len(s) /\ Len(s) \in Nat
      BY <1>4
<1>6. ASSUME NEW i \in DOMAIN t PROVE t[i] \in {s[j] : j \in DOMAIN s} \ {e}
  <2>1. PICK j \in DOMAIN s : t[i] = s[j] /\ j # at
        BY <1>2, <1>4, <1>5, SMTT(40)
  <2>2. s[j] # e
        BY <1>1, <1>2, <1>5, <2>1
  <2>3. QED BY <2>1, <2>2
<1>7. ASSUME NEW j \in DOMAIN s, s[j] # e PROVE \E i \in DOMAIN t : t[i] = s[j]
  <2>1. CASE j < at  BY <1>2, <1>4, <1>5, <2>1
  <2>2. CASE j > at
    <3>1. j - 1 \in DOMAIN t /\ t[j - 1] = s[j]  BY <1>2, <1>4, <1>5, <2>2
    <3>2. QED BY <3>1
  <2>3. QED BY <1>2, <1>5, <1>7, <2>1, <2>2
<1>8. ASSUME NEW i \in DOMAIN t, NEW j \in DOMAIN t, t[i] = t[j] PROVE i = j
      BY <1>1, <1>2, <1>4, <1>5, <1>8
<1>9. QED BY <1>3, <1>4, <1>6, <1>7, <1>8 DEF ToSet, IsInjective
(* Distinct positions below n: as many as the sequence is long, so n at    *)
(* most, and fewer when one is missing.                                    *)
LEMMA DistinctPositions ==
    ASSUME NEW n \in Nat, NEW s \in Seq(Nat),
           \A i, j \in DOMAIN s : s[i] = s[j] => i = j,
           \A i \in DOMAIN s : s[i] < n
    PROVE  LET in == {s[i] : i \in DOMAIN s}
           IN  /\ Len(s) <= n
               /\ Cardinality((0 .. n - 1) \ in) = n - Len(s)
               /\ \A x \in 0 .. n - 1 : x \notin in => Len(s) < n
<1> DEFINE in == {s[i] : i \in DOMAIN s}
           all == 0 .. n - 1
<1>0. Len(s) \in Nat
      OBVIOUS
<1>1. DOMAIN s = 1 .. Len(s)
      OBVIOUS
<1>2. s \in Bijection(1 .. Len(s), in)
      BY <1>1 DEF Bijection, Injection, Surjection, IsInjective
<1>3. IsFiniteSet(1 .. Len(s)) /\ Cardinality(1 .. Len(s)) = Len(s)
  <2>1. \A m \in Nat : IsFiniteSet(1 .. m) /\ Cardinality(1 .. m) = m
        BY FS_Interval
  <2>2. QED BY <1>0, <2>1
<1>4. IsFiniteSet(in) /\ Cardinality(in) = Len(s)
      BY <1>2, <1>3, FS_Bijection DEF ExistsBijection
<1>5. IsFiniteSet(all) /\ Cardinality(all) = n
      BY FS_Interval
<1>6. in \subseteq all
      BY <1>1
<1>7. Len(s) <= n
      BY <1>4, <1>5, <1>6, FS_Subset
<1>8. Cardinality(all \ in) = n - Len(s)
  <2>1. Cardinality(all \ in) = Cardinality(all) - Cardinality(all \cap in)
        BY <1>5, FS_Difference
  <2>2. all \cap in = in
        BY <1>6
  <2>3. QED BY <1>4, <1>5, <2>1, <2>2
<1>9. ASSUME NEW x \in all, x \notin in PROVE Len(s) < n
  <2>1. Len(s) # n
        BY <1>4, <1>5, <1>6, <1>9, FS_Subset
  <2>2. QED BY <1>0, <1>7, <2>1
<1>10. QED BY <1>7, <1>8, <1>9

-----------------------------------------------------------------------------
(* Chunk c, in the list to be searched, has a block to give. *)
CanTake(k, c, list, header) ==
    /\ slot \in [Blocks -> Regions \cup {Null}]
    /\ live \in [Blocks -> Classes \cup {Oversized, Null}]
    /\ unfull \in [Classes -> Regions \cup {Null}]
    /\ \E i \in DOMAIN list : list[i] = c
    /\ Accounted(k, c, header[c], live)
    /\ header[c].free_count # 0
    /\ \A i \in Indexes : i < header[c].next_index => slot[<<c, i>>] = c

(* A free block of chunk c has been handed out under class k, c is fully   *)
(* accounted for, other headers, slots and blocks are as they were, and    *)
(* the hint is exact for the list searched.                                *)
TakenFrom(k, c, list, header) ==
    /\ chunk' \in [Regions -> ChunkHeader]
    /\ \A r \in Regions \ {c} : chunk'[r] = header[r]
    /\ Accounted(k, c, chunk'[c], live')
    /\ \E i \in Indexes : /\ live[<<c, i>>] = Null
                          /\ live' = [live EXCEPT ![<<c, i>>] = k]
    /\ slot' \in [Blocks -> Regions \cup {Null}]
    /\ \A b \in Blocks : b[1] # c => slot'[b] = slot[b]
    /\ \A i \in Indexes : i < chunk'[c].next_index => slot'[<<c, i>>] = c
    /\ unfull' \in [Classes -> Regions \cup {Null}]
    /\ \A m \in Classes \ {k} : unfull'[m] = unfull[m]
    /\ unfull'[k] = Null => \A i \in DOMAIN list : chunk'[list[i]].free_count = 0
    /\ unfull'[k] # Null => /\ \E i \in DOMAIN list : list[i] = unfull'[k]
                            /\ chunk'[unfull'[k]].free_count # 0

LEMMA TakeBlockStep ==
    ASSUME NEW k \in Classes, NEW c \in Regions,
           NEW list \in Seq(Regions), NEW header \in [Regions -> ChunkHeader],
           CanTake(k, c, list, header), TakeBlock(k, c, list, header)
    PROVE  TakenFrom(k, c, list, header)
<1>0. /\ slot \in [Blocks -> Regions \cup {Null}]
      /\ live \in [Blocks -> Classes \cup {Oversized, Null}]
      /\ unfull \in [Classes -> Regions \cup {Null}]
      /\ \E i \in DOMAIN list : list[i] = c
      /\ Accounted(k, c, header[c], live)
      /\ header[c].free_count # 0
      /\ \A i \in Indexes : i < header[c].next_index => slot[<<c, i>>] = c
      BY DEF CanTake
<1> DEFINE h        == header[c]
           recycled == h.free_list # <<>>
           index    == IF recycled THEN Head(h.free_list) ELSE h.next_index
           h2       == [capacity   |-> h.capacity,
                        next_index |-> IF recycled THEN h.next_index ELSE h.next_index + 1,
                        free_count |-> h.free_count - 1,
                        free_list  |-> IF recycled THEN Tail(h.free_list) ELSE <<>>]
<1>1. /\ chunk' = [header EXCEPT ![c] = h2]
      /\ slot' = IF recycled THEN slot ELSE [slot EXCEPT ![<<c, index>>] = c]
      /\ unfull' = [unfull EXCEPT ![k] = IF chunk'[c].free_count = 0
                                         THEN find_unfull_chunk(list, chunk')
                                         ELSE c]
      /\ live' = [live EXCEPT ![<<c, index>>] = k]
      BY DEF TakeBlock
<1>2. /\ h \in ChunkHeader
      /\ h.capacity \in 0 .. MaxBlocks /\ h.next_index \in 0 .. MaxBlocks
      /\ h.free_count \in 0 .. MaxBlocks /\ h.free_list \in Seq(Indexes)
      /\ h.free_count # 0 /\ h.next_index <= h.capacity
      /\ h.free_count = (h.capacity - h.next_index) + Len(h.free_list)
      /\ Indexes = 0 .. MaxBlocks - 1 /\ MaxBlocks \in Nat
      BY <1>0, CapacityAssumption DEF ChunkHeader, Accounted, Indexes, ToSet, IsInjective
<1>3. /\ \A i, j \in DOMAIN h.free_list : h.free_list[i] = h.free_list[j] => i = j
      /\ \A i \in DOMAIN h.free_list : h.free_list[i] < h.next_index
      /\ \A i \in Indexes :
            live[<<c, i>>] = IF /\ i < h.next_index
                                /\ \A j \in DOMAIN h.free_list : h.free_list[j] # i
                             THEN k ELSE Null
      BY <1>0 DEF Accounted, ToSet, IsInjective
<1> HIDE DEF h
<1>4. /\ index \in Indexes /\ live[<<c, index>>] = Null
      /\ h2 \in ChunkHeader
      /\ h2.next_index <= h2.capacity
      /\ h2.free_count = (h2.capacity - h2.next_index) + Len(h2.free_list)
      /\ \A i, j \in DOMAIN h2.free_list : h2.free_list[i] = h2.free_list[j] => i = j
      /\ \A i \in DOMAIN h2.free_list : h2.free_list[i] < h2.next_index
      /\ \A i \in Indexes :
            (/\ i < h2.next_index
             /\ \A j \in DOMAIN h2.free_list : h2.free_list[j] # i)
            <=> (\/ i = index
                 \/ /\ i < h.next_index
                    /\ \A j \in DOMAIN h.free_list : h.free_list[j] # i)
  <2>1. CASE h.free_list # <<>>
    <3> DEFINE f == h.free_list
    <3>1. /\ index = Head(f) /\ h2.free_list = Tail(f)
          /\ h2.next_index = h.next_index /\ h2.free_count = h.free_count - 1
          /\ h2.capacity = h.capacity
          /\ h2 = [capacity |-> h.capacity, next_index |-> h.next_index,
                   free_count |-> h.free_count - 1, free_list |-> Tail(f)]
          BY <2>1
    <3>2. /\ f \in Seq(Indexes) /\ Len(f) \in Nat /\ Len(f) > 0 /\ Head(f) = f[1]
          BY <1>2, <2>1
    <3>3. /\ Tail(f) \in Seq(Indexes) /\ Len(Tail(f)) = Len(f) - 1
          /\ DOMAIN Tail(f) = 1 .. Len(f) - 1 /\ DOMAIN f = 1 .. Len(f)
          /\ \A i \in 1 .. Len(f) - 1 : Tail(f)[i] = f[i + 1]
          BY <3>2
    <3>4. /\ \A i, j \in DOMAIN f : f[i] = f[j] => i = j
          /\ \A i \in DOMAIN f : f[i] \in Indexes /\ f[i] < h.next_index
          /\ \A i \in Indexes :
                live[<<c, i>>] = IF /\ i < h.next_index
                                    /\ \A j \in DOMAIN f : f[j] # i
                                 THEN k ELSE Null
          BY <1>3, <3>2
    <3>5. h.free_count = (h.capacity - h.next_index) + Len(f)
          BY <1>2
    <3> HIDE DEF f
    <3>6. index \in Indexes /\ live[<<c, index>>] = Null
      <4>1. 1 \in DOMAIN f
            BY <3>2, <3>3
      <4>2. QED BY <3>1, <3>2, <3>4, <4>1
    <3>7. h2 \in ChunkHeader
      <4>1. h.free_count - 1 \in 0 .. MaxBlocks
            BY <1>2
      <4>2. QED BY <1>2, <3>1, <3>3, <4>1 DEF ChunkHeader
    <3>8. /\ h2.next_index <= h2.capacity
          /\ h2.free_count = (h2.capacity - h2.next_index) + Len(h2.free_list)
      <4>1. Len(Tail(f)) = Len(f) - 1 /\ Len(f) \in Nat
            BY <3>2, <3>3
      <4>2. Len(h2.free_list) = Len(f) - 1
            BY <3>1, <4>1
      <4> HIDE DEF h2
      <4>3. /\ h2.next_index = h.next_index /\ h2.free_count = h.free_count - 1
            /\ h2.capacity = h.capacity
            BY <3>1
      <4>4. /\ h.capacity \in Int /\ h.next_index \in Int /\ h.free_count \in Int
            /\ h.next_index <= h.capacity /\ Len(f) \in Int
            BY <1>2, <4>1
      <4>5. QED BY <3>5, <4>2, <4>3, <4>4
    <3>10. \A i \in DOMAIN Tail(f) : i + 1 \in DOMAIN f /\ i \in Nat /\ Tail(f)[i] = f[i + 1]
          BY <3>2, <3>3
    <3>11. /\ \A i, j \in DOMAIN Tail(f) : Tail(f)[i] = Tail(f)[j] => i = j
          /\ \A i \in DOMAIN Tail(f) : Tail(f)[i] < h.next_index
          BY <3>4, <3>10
    <3>9. ASSUME NEW i \in Indexes
          PROVE  (/\ i < h.next_index
                  /\ \A j \in DOMAIN Tail(f) : Tail(f)[j] # i)
                 <=> (\/ i = f[1]
                      \/ /\ i < h.next_index
                         /\ \A j \in DOMAIN f : f[j] # i)
      <4>1. 1 \in DOMAIN f /\ f[1] < h.next_index
            BY <3>2, <3>3, <3>4
      <4>2. \A j \in DOMAIN Tail(f) : Tail(f)[j] # f[1]
        <5>1. \A j \in DOMAIN Tail(f) : j + 1 \in DOMAIN f /\ j + 1 # 1 /\ Tail(f)[j] = f[j + 1]
              BY <3>2, <3>3
        <5>2. QED BY <3>4, <4>1, <5>1
      <4>3. \A j \in DOMAIN f : j = 1 \/ (j - 1 \in DOMAIN Tail(f) /\ Tail(f)[j - 1] = f[j])
            BY <3>2, <3>3
      <4>4. ASSUME i < h.next_index, \A j \in DOMAIN Tail(f) : Tail(f)[j] # i, i # f[1]
            PROVE  \A j \in DOMAIN f : f[j] # i
            BY <4>3, <4>4
      <4>5. ASSUME i < h.next_index, \A j \in DOMAIN f : f[j] # i
            PROVE  \A j \in DOMAIN Tail(f) : Tail(f)[j] # i
            BY <3>10, <4>5
      <4>6. QED BY <4>1, <4>2, <4>4, <4>5
    <3>12. QED BY <3>1, <3>2, <3>6, <3>7, <3>8, <3>9, <3>11, SMTT(40) DEF f
  <2>2. CASE h.free_list = <<>>
    <3>1. /\ index = h.next_index /\ h2.free_list = <<>>
          /\ h2.next_index = h.next_index + 1 /\ h2.free_count = h.free_count - 1
          /\ h2.capacity = h.capacity
          /\ h2 = [capacity |-> h.capacity, next_index |-> h.next_index + 1,
                   free_count |-> h.free_count - 1, free_list |-> <<>>]
          BY <2>2
    <3>2. h.next_index < h.capacity
          BY <1>2, <2>2
    <3>3. index \in Indexes /\ live[<<c, index>>] = Null
      <4>1. index \in Indexes /\ ~ (index < h.next_index)
            BY <1>2, <3>1, <3>2
      <4>2. QED BY <1>3, <4>1
    <3>4. h2 \in ChunkHeader
      <4>1. /\ h.next_index + 1 \in 0 .. MaxBlocks /\ h.free_count - 1 \in 0 .. MaxBlocks
            /\ <<>> \in Seq(Indexes)
            BY <1>2, <3>2
      <4>2. QED BY <1>2, <3>1, <4>1 DEF ChunkHeader
    <3>5. /\ h2.next_index <= h2.capacity
          /\ h2.free_count = (h2.capacity - h2.next_index) + Len(h2.free_list)
          BY <1>2, <2>2, <3>1, <3>2
    <3>6. \A i \in Indexes : i < h.next_index + 1 <=> i = h.next_index \/ i < h.next_index
          BY <1>2
    <3>7. QED BY <2>2, <3>1, <3>3, <3>4, <3>5, <3>6
  <2>3. QED BY <2>1, <2>2
<1> HIDE DEF h2, index
<1>5. /\ chunk' \in [Regions -> ChunkHeader] /\ chunk'[c] = h2
      /\ \A r \in Regions \ {c} : chunk'[r] = header[r]
      BY <1>0, <1>1, <1>4
<1>6. /\ live' = [live EXCEPT ![<<c, index>>] = k]
      /\ <<c, index>> \in Blocks
      /\ \A i \in Indexes : live'[<<c, i>>] = IF i = index THEN k ELSE live[<<c, i>>]
      BY <1>0, <1>1, <1>4 DEF Blocks
<1>7. Accounted(k, c, chunk'[c], live')
      BY <1>0, <1>3, <1>4, <1>5, <1>6, SMTT(40) DEF Accounted, ToSet, IsInjective
<1>8. /\ slot' \in [Blocks -> Regions \cup {Null}]
      /\ \A b \in Blocks : b[1] # c => slot'[b] = slot[b]
      /\ \A i \in Indexes : i < h2.next_index => slot'[<<c, i>>] = c
  <2>1. CASE recycled
    <3>1. h2.next_index = h.next_index
          BY <1>0, <2>1 DEF h2
    <3>2. QED BY <1>0, <1>1, <2>1, <3>1 DEF h
  <2>2. CASE ~recycled
    <3>1. h2.next_index = h.next_index + 1 /\ index = h.next_index
          BY <1>0, <2>2 DEF h2, index
    <3>2. slot' = [slot EXCEPT ![<<c, index>>] = c]
          BY <1>0, <1>1, <2>2
    <3>3. \A i \in Indexes : i < h2.next_index => i = index \/ i < h.next_index
          BY <1>0, <1>2, <3>1
    <3>4. QED BY <1>0, <1>6, <3>2, <3>3 DEF h, Blocks
  <2>3. QED BY <1>0, <2>1, <2>2
<1>9. /\ unfull' \in [Classes -> Regions \cup {Null}]
      /\ \A m \in Classes \ {k} : unfull'[m] = unfull[m]
      /\ unfull'[k] = Null => \A i \in DOMAIN list : chunk'[list[i]].free_count = 0
      /\ unfull'[k] # Null => /\ \E i \in DOMAIN list : list[i] = unfull'[k]
                              /\ chunk'[unfull'[k]].free_count # 0
  <2>1. CASE h2.free_count = 0
    <3> DEFINE u == find_unfull_chunk(list, chunk')
    <3>1. unfull' = [unfull EXCEPT ![k] = u]
          BY <1>0, <1>1, <1>5, <2>1
    <3>2. /\ u \in Regions \cup {Null}
          /\ u = Null => \A i \in DOMAIN list : chunk'[list[i]].free_count = 0
          /\ u # Null => (\E i \in DOMAIN list : list[i] = u) /\ chunk'[u].free_count # 0
          BY <1>0, <1>5, FindUnfull
    <3> HIDE DEF u
    <3>3. QED BY <1>0, <3>1, <3>2
  <2>2. CASE h2.free_count # 0
        BY <1>0, <1>1, <1>5, <2>2, NullAssumption
  <2>3. QED BY <1>0, <2>1, <2>2
<1>10. QED BY <1>4, <1>5, <1>6, <1>7, <1>8, <1>9 DEF TakenFrom

-----------------------------------------------------------------------------
(* What a client holds under a class lies in a chunk of that class, and an *)
(* oversized allocation is block 0 of its region.                          *)
LiveListed ==
    \A b \in Blocks : /\ \A k \in Classes : live[b] = k => b[1] \in Listed(k)
                      /\ live[b] = Oversized => b[2] = 0

(* The inductive invariant. *)
Inv == /\ TypeOK /\ LiveListed
       /\ BlockAccounting /\ SlotNamesChunk /\ HintExact
       /\ UpstreamConserved /\ OversizedLinked /\ EagerRelease

(* A step that leaves the oversized list and its headers alone keeps it. *)
LEMMA OversizedUntouched ==
    ASSUME OversizedLinked, UNCHANGED listVars, Big' = Big
    PROVE  OversizedLinked'
BY DEF OversizedLinked, listVars

(* A region not held has no live block, and is in no list. *)
LEMMA NotHeld ==
    ASSUME Inv, NEW r \in Regions, r \notin held
    PROVE  /\ \A i \in Indexes : live[<<r, i>>] = Null
           /\ r \notin Big /\ \A k \in Classes : r \notin Listed(k)
<1>1. r \notin Big /\ \A k \in Classes : r \notin Listed(k)
      BY DEF Inv, UpstreamConserved, IsInjective
<1>2. ASSUME NEW i \in Indexes PROVE live[<<r, i>>] = Null
  <2>1. <<r, i>> \in Blocks /\ live[<<r, i>>] \in Classes \cup {Oversized, Null}
        BY DEF Inv, TypeOK, Blocks
  <2>2. live[<<r, i>>] \notin Classes
        BY <1>1, <2>1 DEF Inv, LiveListed
  <2>3. live[<<r, i>>] # Oversized
        BY <1>1, <2>1 DEF Inv, LiveListed, Big
  <2>4. QED BY <2>1, <2>2, <2>3
<1>3. QED BY <1>1, <1>2

(* An allocation from chunk c of pool k, whether c was in the list already *)
(* or is the new head, keeps the invariant.                                *)
LEMMA AllocationKeepsInv ==
    ASSUME Inv, NEW k \in Classes, NEW c \in Regions,
           NEW list \in Seq(Regions), NEW header \in [Regions -> ChunkHeader],
           NEW cap \in Nat \ {0},
           \A r \in Regions \ {c} : header[r] = chunk[r],
           {list[i] : i \in DOMAIN list} = Listed(k) \cup {c},
           \A i, j \in DOMAIN list : list[i] = list[j] => i = j,
           c \notin Big, \A m \in Classes \ {k} : c \notin Listed(m),
           CanTake(k, c, list, header), TakeBlock(k, c, list, header),
           pools' = pools \cup {k},
           chunks' = [chunks EXCEPT ![k] = list],
           nextCap' = [nextCap EXCEPT ![k] = cap],
           held' = held \cup {c}, UNCHANGED listVars
    PROVE  Inv'
<1>a. /\ TypeOK /\ LiveListed /\ BlockAccounting /\ SlotNamesChunk /\ HintExact
      /\ UpstreamConserved /\ OversizedLinked /\ EagerRelease
      BY DEF Inv
<1>b. TakenFrom(k, c, list, header)
      BY TakeBlockStep
<1>c. \A m \in Classes : Listed(m) \subseteq Regions
      BY <1>a DEF TypeOK, Listed, ToSet
<1>0. \E i \in DOMAIN list : list[i] = c
      BY DEF CanTake
<1>1. /\ chunk' \in [Regions -> ChunkHeader]
      /\ \A r \in Regions \ {c} : chunk'[r] = chunk[r]
      /\ Accounted(k, c, chunk'[c], live')
      /\ slot' \in [Blocks -> Regions \cup {Null}]
      /\ \A b \in Blocks : b[1] # c => slot'[b] = slot[b]
      /\ \A i \in Indexes : i < chunk'[c].next_index => slot'[<<c, i>>] = c
      /\ unfull' \in [Classes -> Regions \cup {Null}]
      /\ \A m \in Classes \ {k} : unfull'[m] = unfull[m]
      /\ unfull'[k] = Null => \A i \in DOMAIN list : chunk'[list[i]].free_count = 0
      /\ unfull'[k] # Null => /\ \E i \in DOMAIN list : list[i] = unfull'[k]
                              /\ chunk'[unfull'[k]].free_count # 0
      BY <1>b DEF TakenFrom
<1>2. PICK n \in Indexes : live[<<c, n>>] = Null /\ live' = [live EXCEPT ![<<c, n>>] = k]
      BY <1>b DEF TakenFrom
<1>3. /\ live' \in [Blocks -> Classes \cup {Oversized, Null}]
      /\ live'[<<c, n>>] = k
      /\ \A b \in Blocks : b # <<c, n>> => live'[b] = live[b]
      /\ \A r \in Regions \ {c} : \A i \in Indexes : live'[<<r, i>>] = live[<<r, i>>]
      /\ \A r \in Regions : live'[<<r, 0>>] = Oversized <=> live[<<r, 0>>] = Oversized
  <2>1. <<c, n>> \in Blocks /\ \A r \in Regions, i \in Indexes : <<r, i>> \in Blocks
        BY DEF Blocks
  <2>2. 0 \in Indexes
        BY CapacityAssumption DEF Indexes
  <2>3. QED BY <1>a, <1>2, <2>1, <2>2, NullAssumption DEF TypeOK
<1>4. /\ \A m \in Classes \ {k} : chunks'[m] = chunks[m] /\ Listed(m)' = Listed(m)
      /\ chunks'[k] = list /\ Listed(k)' = Listed(k) \cup {c}
  <2>1. chunks \in [Classes -> Seq(Regions)]
        BY <1>a DEF TypeOK
  <2>2. chunks'[k] = list /\ \A m \in Classes \ {k} : chunks'[m] = chunks[m]
        BY <2>1
  <2>3. \A m \in Classes \ {k} : Listed(m)' = Listed(m)
        BY <2>2 DEF Listed, ToSet
  <2>4. Listed(k)' = {list[i] : i \in DOMAIN list}
        BY <2>2 DEF Listed, ToSet
  <2>5. QED BY <2>2, <2>3, <2>4
<1>5. Big' = Big
      BY <1>3 DEF Big
<1>6. TypeOK'
      BY <1>a, <1>1, <1>3 DEF TypeOK, listVars
<1>7. LiveListed'
  <2>1. ASSUME NEW b \in Blocks, b # <<c, n>>
        PROVE  /\ \A m \in Classes : live'[b] = m => b[1] \in Listed(m)'
               /\ live'[b] = Oversized => b[2] = 0
        BY <1>a, <1>3, <1>4, <2>1 DEF LiveListed
  <2>2. c \in Listed(k)' /\ k # Oversized
        BY <1>4, NullAssumption
  <2>3. ASSUME NEW b \in Blocks, b = <<c, n>>
        PROVE  /\ \A m \in Classes : live'[b] = m => b[1] \in Listed(m)'
               /\ live'[b] = Oversized => b[2] = 0
        BY <1>3, <2>2, <2>3
  <2>4. QED BY <2>1, <2>3 DEF LiveListed
<1>8. BlockAccounting'
  <2>1. ASSUME NEW m \in Classes, NEW r \in Listed(m)', r # c
        PROVE  Accounted(m, r, chunk'[r], live')
    <3>1. r \in Listed(m) /\ r \in Regions /\ chunk'[r] = chunk[r]
          BY <1>1, <1>4, <1>c, <2>1
    <3>2. Accounted(m, r, chunk[r], live)
          BY <1>a, <3>1 DEF BlockAccounting
    <3>3. QED BY <1>3, <2>1, <3>1, <3>2 DEF Accounted, ToSet, IsInjective
  <2>2. ASSUME NEW m \in Classes, NEW r \in Listed(m)', r = c PROVE m = k
        BY <1>4, <2>2
  <2>3. QED BY <1>a, <1>1, <2>1, <2>2 DEF BlockAccounting
<1>9. SlotNamesChunk'
  <2>1. ASSUME NEW m \in Classes, NEW r \in Listed(m)', NEW i \in Indexes,
               i < chunk'[r].next_index, r # c
        PROVE  slot'[<<r, i>>] = r
    <3>1. r \in Listed(m) /\ r \in Regions /\ chunk'[r] = chunk[r]
          BY <1>1, <1>4, <1>c, <2>1
    <3>2. <<r, i>> \in Blocks
          BY <3>1 DEF Blocks
    <3>3. QED BY <1>a, <1>1, <2>1, <3>1, <3>2 DEF SlotNamesChunk
  <2>2. QED BY <1>a, <1>1, <2>1 DEF SlotNamesChunk
<1>10. HintExact'
  <2>1. ASSUME NEW m \in Classes \ {k}
        PROVE  /\ unfull'[m] = Null => \A r \in Listed(m)' : chunk'[r].free_count = 0
               /\ unfull'[m] # Null => /\ unfull'[m] \in Listed(m)'
                                       /\ chunk'[unfull'[m]].free_count # 0
    <3>1. \A r \in Listed(m) : r \in Regions \ {c} /\ chunk'[r] = chunk[r]
          BY <1>1, <1>c
    <3>2. QED BY <1>a, <1>1, <1>4, <3>1 DEF HintExact
  <2>2. /\ unfull'[k] = Null => \A r \in Listed(k)' : chunk'[r].free_count = 0
        /\ unfull'[k] # Null => /\ unfull'[k] \in Listed(k)'
                                /\ chunk'[unfull'[k]].free_count # 0
        BY <1>1, <1>4
  <2>3. QED BY <1>a, <2>1, <2>2 DEF HintExact
<1>11. UpstreamConserved'
  <2>1. held' = Big' \cup UNION {Listed(m)' : m \in Classes}
        BY <1>a, <1>4, <1>5 DEF UpstreamConserved, IsInjective
  <2>2. \A m \in Classes : \A i, j \in DOMAIN chunks'[m] :
            chunks'[m][i] = chunks'[m][j] => i = j
        BY <1>a, <1>4 DEF UpstreamConserved, IsInjective
  <2>3. \A m \in Classes : /\ Listed(m)' \cap Big' = {}
                            /\ \A o \in Classes \ {m} : Listed(m)' \cap Listed(o)' = {}
        BY <1>a, <1>4, <1>5 DEF UpstreamConserved, IsInjective
  <2>4. QED BY <1>a, <2>1, <2>2, <2>3 DEF UpstreamConserved, IsInjective
<1>12. OversizedLinked'
      BY <1>a, <1>5, OversizedUntouched
<1>13. EagerRelease'
  <2>1. ASSUME ReleaseEmpty, NEW m \in Classes, NEW r \in Listed(m)'
        PROVE  Taken(r)' # {}
    <3>1. CASE r = c
      <4>1. n \in Indexes /\ live'[<<r, n>>] # Null
            BY <1>3, <3>1, NullAssumption
      <4>2. n \in Taken(r)'
            BY <4>1 DEF Taken
      <4>3. QED BY <4>2
    <3>2. CASE r # c
      <4>1. r \in Listed(m) /\ r \in Regions
            BY <1>4, <1>c, <3>2
      <4>2. Taken(r)' = Taken(r)
            BY <1>3, <3>2, <4>1 DEF Taken
      <4>3. QED BY <1>a, <2>1, <4>1, <4>2 DEF EagerRelease
    <3>3. QED BY <3>1, <3>2
  <2>2. ASSUME NEW m \in Classes, chunks'[m] = <<>> PROVE nextCap'[m] = DefaultNextCapacity
    <3>1. list # <<>>
          BY <1>0
    <3>2. QED BY <1>a, <1>4, <2>2, <3>1 DEF EagerRelease, TypeOK
  <2>3. QED BY <1>a, <2>1, <2>2 DEF EagerRelease
<1>14. QED BY <1>6, <1>7, <1>8, <1>9, <1>10, <1>11, <1>12, <1>13 DEF Inv

(* The hint lookup of allocate(): null iff the pool has no block to give,  *)
(* else a chunk of the pool that has one.                                  *)
LEMMA CandidateChunk ==
    ASSUME Inv, NEW k \in Classes
    PROVE  /\ Candidate(k) = Null => \A c \in Listed(k) : chunk[c].free_count = 0
           /\ Candidate(k) # Null => /\ Candidate(k) \in Listed(k)
                                     /\ chunk[Candidate(k)].free_count # 0
<1>1. TypeOK /\ HintExact
      BY DEF Inv
<1>2. chunks[k] \in Seq(Regions) /\ chunk \in [Regions -> ChunkHeader]
      BY <1>1 DEF TypeOK
<1>3. CASE unfull[k] # Null /\ chunk[unfull[k]].free_count # 0
      BY <1>1, <1>3 DEF Candidate, HintExact
<1>4. CASE ~ (unfull[k] # Null /\ chunk[unfull[k]].free_count # 0)
  <2> DEFINE u == find_unfull_chunk(chunks[k], chunk)
  <2>1. Candidate(k) = u
        BY <1>4 DEF Candidate
  <2>2. /\ u = Null => \A i \in DOMAIN chunks[k] : chunk[chunks[k][i]].free_count = 0
        /\ u # Null => (\E i \in DOMAIN chunks[k] : chunks[k][i] = u) /\ chunk[u].free_count # 0
        BY <1>2, FindUnfull
  <2> HIDE DEF u
  <2>3. QED BY <2>1, <2>2 DEF Listed, ToSet
<1>5. QED BY <1>3, <1>4

LEMMA AllocateFromChunkKeepsInv ==
    ASSUME Inv, NEW k \in Classes, AllocateFromChunk(k)
    PROVE  Inv'
<1> DEFINE c == Candidate(k)
<1>1. /\ TypeOK /\ BlockAccounting /\ SlotNamesChunk /\ UpstreamConserved
      BY DEF Inv
<1>2. c \in Listed(k) /\ chunk[c].free_count # 0
      BY CandidateChunk DEF AllocateFromChunk
<1>3. /\ pools' = pools \cup {k} /\ TakeBlock(k, c, chunks[k], chunk)
      /\ chunks' = chunks /\ nextCap' = nextCap /\ UNCHANGED listVars /\ held' = held
      BY DEF AllocateFromChunk
<1> HIDE DEF c
<1>4. /\ c \in Regions /\ chunks[k] \in Seq(Regions) /\ chunk \in [Regions -> ChunkHeader]
      /\ nextCap[k] \in Nat \ {0}
      /\ chunks' = [chunks EXCEPT ![k] = chunks[k]]
      /\ nextCap' = [nextCap EXCEPT ![k] = nextCap[k]]
      BY <1>1, <1>2, <1>3 DEF TypeOK, Listed, ToSet
<1>5. /\ c \in held /\ held' = held \cup {c} /\ c \notin Big
      /\ \A m \in Classes \ {k} : c \notin Listed(m)
      /\ \A i, j \in DOMAIN chunks[k] : chunks[k][i] = chunks[k][j] => i = j
      BY <1>1, <1>2, <1>3 DEF UpstreamConserved, IsInjective
<1>6. {chunks[k][i] : i \in DOMAIN chunks[k]} = Listed(k) \cup {c}
      BY <1>2 DEF Listed, ToSet
<1>7. CanTake(k, c, chunks[k], chunk)
      BY <1>1, <1>2 DEF CanTake, TypeOK, BlockAccounting, SlotNamesChunk, Listed, ToSet
<1>8. QED BY <1>3, <1>4, <1>5, <1>6, <1>7, AllocationKeepsInv

LEMMA AllocateFromNewChunkKeepsInv ==
    ASSUME Inv, NEW k \in Classes, NEW r \in Regions, AllocateFromNewChunk(k, r)
    PROVE  Inv'
<1> DEFINE capacity == next_chunk_capacity(nextCap[k])
           cap      == next_chunk_capacity(capacity * 2)
           fresh    == [capacity |-> capacity, next_index |-> 0,
                        free_count |-> capacity, free_list |-> <<>>]
           header   == [chunk EXCEPT ![r] = fresh]
           list     == Cons(r, chunks[k])
<1>1. /\ TypeOK /\ UpstreamConserved
      BY DEF Inv
<1>2. /\ r \notin held /\ chunks' = [chunks EXCEPT ![k] = list]
      /\ nextCap' = [nextCap EXCEPT ![k] = cap]
      /\ TakeBlock(k, r, chunks'[k], header)
      /\ held' = held \cup {r} /\ pools' = pools \cup {k} /\ UNCHANGED listVars
      BY DEF AllocateFromNewChunk
<1>3. /\ chunks[k] \in Seq(Regions) /\ chunk \in [Regions -> ChunkHeader]
      /\ nextCap[k] \in Nat \ {0} /\ chunks \in [Classes -> Seq(Regions)]
      BY <1>1 DEF TypeOK
<1>4. /\ \A i \in Indexes : live[<<r, i>>] = Null
      /\ r \notin Big /\ \A m \in Classes : r \notin Listed(m)
      BY <1>2, NotHeld
<1>5. capacity \in 1 .. MaxBlocks /\ cap \in Nat \ {0}
      BY <1>3, CapacityAssumption DEF next_chunk_capacity
<1>6. /\ list \in Seq(Regions) /\ Len(list) = Len(chunks[k]) + 1 /\ list[1] = r
      /\ \A i \in 1 .. Len(chunks[k]) : list[i + 1] = chunks[k][i]
      BY <1>3 DEF Cons
<1> HIDE DEF capacity, cap
<1>7. fresh \in ChunkHeader
  <2>1. 0 \in 0 .. MaxBlocks /\ capacity \in 0 .. MaxBlocks /\ <<>> \in Seq(Indexes)
        BY <1>5, CapacityAssumption
  <2>2. QED BY <2>1 DEF ChunkHeader
<1> HIDE DEF list
<1>8. /\ DOMAIN chunks[k] = 1 .. Len(chunks[k]) /\ DOMAIN list = 1 .. Len(chunks[k]) + 1
      /\ Len(chunks[k]) \in Nat
      BY <1>3, <1>6
<1>9. \A i \in DOMAIN list : i = 1 \/ (i - 1 \in DOMAIN chunks[k] /\ list[i] = chunks[k][i - 1])
  <2>1. \A i \in DOMAIN list : i = 1 \/ i - 1 \in 1 .. Len(chunks[k])
        BY <1>8
  <2>2. \A i \in DOMAIN list : (i - 1) + 1 = i
        BY <1>8
  <2>3. QED BY <1>6, <1>8, <2>1, <2>2
<1>10. {list[i] : i \in DOMAIN list} = Listed(k) \cup {r}
  <2>1. \A i \in DOMAIN list : list[i] \in Listed(k) \cup {r}
        BY <1>6, <1>9 DEF Listed, ToSet
  <2>2. \E i \in DOMAIN list : list[i] = r
        BY <1>6, <1>8
  <2>3. \A j \in DOMAIN chunks[k] : j + 1 \in DOMAIN list /\ list[j + 1] = chunks[k][j]
        BY <1>6, <1>8
  <2>4. \A x \in Listed(k) : \E i \in DOMAIN list : list[i] = x
        BY <2>3 DEF Listed, ToSet
  <2>5. QED BY <2>1, <2>2, <2>4
<1>11. \A i, j \in DOMAIN list : list[i] = list[j] => i = j
  <2>1. \A i \in DOMAIN list : i # 1 => list[i] # r
        BY <1>4, <1>9 DEF Listed, ToSet
  <2>2. \A i, j \in DOMAIN chunks[k] : chunks[k][i] = chunks[k][j] => i = j
        BY <1>1 DEF UpstreamConserved, IsInjective
  <2>3. \A i, j \in DOMAIN list : i - 1 = j - 1 => i = j
        BY <1>8
  <2>4. ASSUME NEW i \in DOMAIN list, NEW j \in DOMAIN list, list[i] = list[j]
        PROVE  i = j
    <3>1. CASE i = 1 \/ j = 1
          BY <1>6, <2>1, <2>4, <3>1
    <3>2. CASE i # 1 /\ j # 1
      <4>1. /\ i - 1 \in DOMAIN chunks[k] /\ list[i] = chunks[k][i - 1]
            /\ j - 1 \in DOMAIN chunks[k] /\ list[j] = chunks[k][j - 1]
            BY <1>9, <3>2
      <4>2. QED BY <2>2, <2>3, <2>4, <4>1
    <3>3. QED BY <3>1, <3>2
  <2>5. QED BY <2>4
<1>12. header \in [Regions -> ChunkHeader] /\ header[r] = fresh
       /\ \A x \in Regions \ {r} : header[x] = chunk[x]
       BY <1>3, <1>7
<1>13. Accounted(k, r, header[r], live)
  <2>1. /\ fresh.next_index = 0 /\ fresh.capacity = capacity /\ fresh.free_count = capacity
        /\ fresh.free_list = <<>> /\ DOMAIN fresh.free_list = {} /\ Len(fresh.free_list) = 0
        OBVIOUS
  <2>2. \A i \in Indexes : ~ (i < 0)
        BY DEF Indexes
  <2> HIDE DEF fresh, header
  <2>3. QED BY <1>4, <1>5, <1>12, <2>1, <2>2 DEF Accounted, ToSet, IsInjective
<1>14. CanTake(k, r, list, header)
  <2>1. header[r].free_count # 0 /\ header[r].next_index = 0
        BY <1>5, <1>12
  <2>2. \A i \in Indexes : ~ (i < 0)
        BY DEF Indexes
  <2>3. \E i \in DOMAIN list : list[i] = r
        BY <1>6, <1>8
  <2>4. QED BY <1>1, <1>13, <2>1, <2>2, <2>3 DEF CanTake, TypeOK
<1>15. TakeBlock(k, r, list, header)
       BY <1>2, <1>3
<1> HIDE DEF header
<1>16. QED BY <1>2, <1>4, <1>5, <1>6, <1>10, <1>11, <1>12, <1>14, <1>15, AllocationKeepsInv

LEMMA AllocateThrowsKeepsInv ==
    ASSUME Inv, NEW k \in Classes, AllocateThrows(k)
    PROVE  Inv'
<1>1. /\ pools' = pools \cup {k} /\ unfull' = [unfull EXCEPT ![k] = Null]
      /\ chunks' = chunks /\ nextCap' = nextCap /\ chunk' = chunk /\ slot' = slot
      /\ UNCHANGED listVars /\ held' = held /\ live' = live
      BY DEF AllocateThrows
<1>2. \A c \in Listed(k) : chunk[c].free_count = 0
      BY CandidateChunk DEF AllocateThrows
<1>3. TypeOK'
      BY <1>1 DEF Inv, TypeOK, listVars
<1>4. \A m \in Classes : Listed(m)' = Listed(m)
      BY <1>1 DEF Listed, ToSet
<1>5. Big' = Big /\ \A r \in Regions : Taken(r)' = Taken(r)
      BY <1>1 DEF Big, Taken
<1>6. LiveListed' /\ BlockAccounting' /\ SlotNamesChunk'
      BY <1>1, <1>4 DEF Inv, LiveListed, BlockAccounting, SlotNamesChunk
<1>7. HintExact'
      BY <1>1, <1>2, <1>4 DEF Inv, HintExact, TypeOK
<1>8. UpstreamConserved'
      BY <1>1, <1>4, <1>5 DEF Inv, UpstreamConserved, IsInjective
<1>9. OversizedLinked'
      BY <1>1, <1>5, OversizedUntouched DEF Inv
<1>10. EagerRelease'
       BY <1>1, <1>4 DEF Inv, EagerRelease, Taken
<1>11. QED BY <1>3, <1>6, <1>7, <1>8, <1>9, <1>10 DEF Inv

(* A block held under class k: its slot names the chunk it was carved      *)
(* from, a chunk of the pool, whose free list it is not on.                *)
LEMMA LiveBlock ==
    ASSUME Inv, NEW k \in Classes, NEW b \in Blocks, live[b] = k
    PROVE  /\ slot[b] = b[1] /\ b[1] \in Regions /\ b[2] \in Indexes /\ b = <<b[1], b[2]>>
           /\ b[1] \in Listed(k) /\ b[1] \notin Big
           /\ \A m \in Classes \ {k} : b[1] \notin Listed(m)
           /\ Accounted(k, b[1], chunk[b[1]], live)
           /\ b[2] < chunk[b[1]].next_index
           /\ \A j \in DOMAIN chunk[b[1]].free_list : chunk[b[1]].free_list[j] # b[2]
           /\ Len(chunk[b[1]].free_list) < chunk[b[1]].next_index
           /\ chunk[b[1]].free_count + 1 \in 0 .. MaxBlocks
<1> DEFINE c == b[1]
           n == b[2]
           h == chunk[c]
<1>1. c \in Regions /\ n \in Indexes /\ b = <<c, n>>
      BY DEF Blocks
<1>2. c \in Listed(k)
      BY DEF Inv, LiveListed
<1>3. c \notin Big /\ \A m \in Classes \ {k} : c \notin Listed(m)
      BY <1>2 DEF Inv, UpstreamConserved, IsInjective
<1>4. Accounted(k, c, h, live)
      BY <1>2 DEF Inv, BlockAccounting
<1>5. n < h.next_index /\ \A j \in DOMAIN h.free_list : h.free_list[j] # n
      BY <1>1, <1>4, NullAssumption DEF Accounted, ToSet, IsInjective
<1>6. slot[b] = c
      BY <1>1, <1>2, <1>5 DEF Inv, SlotNamesChunk
<1>7. /\ h.capacity \in 0 .. MaxBlocks /\ h.next_index \in 0 .. MaxBlocks
      /\ h.free_count \in 0 .. MaxBlocks /\ h.free_list \in Seq(Indexes)
      BY <1>1 DEF Inv, TypeOK, ChunkHeader
<1>8. /\ h.next_index <= h.capacity
      /\ h.free_count = (h.capacity - h.next_index) + Len(h.free_list)
      /\ \A i, j \in DOMAIN h.free_list : h.free_list[i] = h.free_list[j] => i = j
      /\ \A i \in DOMAIN h.free_list : h.free_list[i] < h.next_index
      BY <1>4 DEF Accounted, ToSet, IsInjective
<1> HIDE DEF h, n, c
<1>9. Len(h.free_list) < h.next_index
  <2> DEFINE f == h.free_list
             p == h.next_index
  <2>1. Indexes \subseteq Nat
        BY DEF Indexes
  <2>a. f \in Seq(Nat)
        BY <1>7, <2>1, SeqMonotonic
  <2>2. p \in Nat /\ n \in 0 .. p - 1
        BY <1>1, <1>5, <1>7, <2>1
  <2>3. /\ \A i, j \in DOMAIN f : f[i] = f[j] => i = j
        /\ \A i \in DOMAIN f : f[i] < p
        /\ n \notin {f[i] : i \in DOMAIN f}
        BY <1>5, <1>8
  <2> HIDE DEF f, p
  <2>4. \A x \in 0 .. p - 1 : x \notin {f[i] : i \in DOMAIN f} => Len(f) < p
        BY <2>a, <2>2, <2>3, DistinctPositions
  <2>5. Len(f) < p
        BY <2>2, <2>3, <2>4
  <2>6. QED BY <2>5 DEF f, p
<1>10. h.free_count + 1 \in 0 .. MaxBlocks
  <2>1. Len(h.free_list) \in Nat
        BY <1>7
  <2>2. QED BY <1>7, <1>8, <1>9, <2>1, CapacityAssumption
<1>11. QED BY <1>1, <1>2, <1>3, <1>4, <1>5, <1>6, <1>9, <1>10 DEF h, n, c

LEMMA DeallocateToChunkKeepsInv ==
    ASSUME Inv, NEW k \in Classes, NEW b \in Blocks, DeallocateToChunk(k, b)
    PROVE  Inv'
<1> DEFINE c  == b[1]
           n  == b[2]
           h  == chunk[c]
           f2 == Cons(n, h.free_list)
           h2 == [capacity   |-> h.capacity, next_index |-> h.next_index,
                  free_count |-> h.free_count + 1, free_list |-> f2]
<1>a. /\ TypeOK /\ LiveListed /\ BlockAccounting /\ SlotNamesChunk /\ HintExact
      /\ UpstreamConserved /\ OversizedLinked /\ EagerRelease
      BY DEF Inv
<1>1. /\ slot[b] = c /\ c \in Regions /\ n \in Indexes /\ b = <<c, n>>
      /\ c \in Listed(k) /\ c \notin Big /\ \A m \in Classes \ {k} : c \notin Listed(m)
      /\ Accounted(k, c, h, live) /\ n < h.next_index
      /\ \A j \in DOMAIN h.free_list : h.free_list[j] # n
      /\ Len(h.free_list) < h.next_index /\ h.free_count + 1 \in 0 .. MaxBlocks
      BY LiveBlock DEF DeallocateToChunk, ReleasesChunk
<1>2. h \in ChunkHeader /\ chunk \in [Regions -> ChunkHeader]
      BY <1>a, <1>1 DEF TypeOK
<1>3. /\ live[b] = k /\ ~ (ReleaseEmpty /\ h.free_count + 1 = h.capacity)
      /\ chunk' = [chunk EXCEPT ![c] = h2]
      /\ unfull' = [unfull EXCEPT ![k] = c]
      /\ live' = [live EXCEPT ![b] = Null]
      /\ chunks' = chunks /\ slot' = slot /\ nextCap' = nextCap /\ held' = held
      /\ pools' = pools /\ UNCHANGED listVars
      BY <1>1 DEF DeallocateToChunk, ReleasesChunk
<1>4. /\ h.capacity \in 0 .. MaxBlocks /\ h.next_index \in 0 .. MaxBlocks
      /\ h.free_count \in 0 .. MaxBlocks /\ h.free_list \in Seq(Indexes)
      BY <1>2 DEF ChunkHeader
<1>5. /\ h2.capacity = h.capacity /\ h2.next_index = h.next_index
      /\ h2.free_count = h.free_count + 1 /\ h2.free_list = f2
      OBVIOUS
<1> HIDE DEF h2, h
<1>6. /\ f2 \in Seq(Indexes) /\ Len(f2) = Len(h.free_list) + 1 /\ f2[1] = n
      /\ DOMAIN f2 = 1 .. Len(h.free_list) + 1 /\ Len(h.free_list) \in Nat
      /\ DOMAIN h.free_list = 1 .. Len(h.free_list)
      /\ \A i \in 1 .. Len(h.free_list) : f2[i + 1] = h.free_list[i]
      BY <1>1, <1>4 DEF Cons
<1> HIDE DEF f2
<1>7. /\ \A i \in DOMAIN f2 : i = 1 \/ (i - 1 \in DOMAIN h.free_list /\ f2[i] = h.free_list[i - 1])
      /\ \A i \in DOMAIN h.free_list : i + 1 \in DOMAIN f2 /\ f2[i + 1] = h.free_list[i]
      /\ 1 \in DOMAIN f2 /\ \A i, j \in DOMAIN f2 : i - 1 = j - 1 => i = j
  <2>1. \A i \in DOMAIN f2 : i = 1 \/ (i - 1 \in 1 .. Len(h.free_list) /\ (i - 1) + 1 = i)
        BY <1>6
  <2>2. QED BY <1>6, <2>1
<1>8. h2 \in ChunkHeader
      BY <1>1, <1>4, <1>6 DEF ChunkHeader, h2
<1>9. /\ live' \in [Blocks -> Classes \cup {Oversized, Null}]
      /\ live'[b] = Null /\ \A x \in Blocks : x # b => live'[x] = live[x]
      /\ \A r \in Regions \ {c} : \A i \in Indexes : live'[<<r, i>>] = live[<<r, i>>]
      /\ \A i \in Indexes : live'[<<c, i>>] = IF i = n THEN Null ELSE live[<<c, i>>]
      /\ \A r \in Regions : live'[<<r, 0>>] = Oversized <=> live[<<r, 0>>] = Oversized
  <2>1. \A r \in Regions, i \in Indexes : <<r, i>> \in Blocks
        BY DEF Blocks
  <2>2. 0 \in Indexes
        BY CapacityAssumption DEF Indexes
  <2>3. live \in [Blocks -> Classes \cup {Oversized, Null}]
        BY <1>a DEF TypeOK
  <2>4. live' = [live EXCEPT ![<<c, n>>] = Null] /\ <<c, n>> \in Blocks
        BY <1>1, <1>3, <2>1
  <2>5. \A r \in Regions, i \in Indexes :
           live'[<<r, i>>] = IF r = c /\ i = n THEN Null ELSE live[<<r, i>>]
        BY <2>1, <2>3, <2>4
  <2>6. live[<<c, 0>>] # Oversized
        BY <1>1 DEF Big
  <2>7. \A r \in Regions : live'[<<r, 0>>] = Oversized <=> live[<<r, 0>>] = Oversized
        BY <2>2, <2>5, <2>6, NullAssumption
  <2>8. QED BY <1>1, <2>1, <2>3, <2>4, <2>5, <2>7
<1>10. Accounted(k, c, h2, live')
  <2>1. /\ h.next_index <= h.capacity
        /\ h.free_count = (h.capacity - h.next_index) + Len(h.free_list)
        /\ \A i, j \in DOMAIN h.free_list : h.free_list[i] = h.free_list[j] => i = j
        /\ \A i \in DOMAIN h.free_list : h.free_list[i] < h.next_index
        /\ \A i \in Indexes :
              live[<<c, i>>] = IF /\ i < h.next_index
                                  /\ \A j \in DOMAIN h.free_list : h.free_list[j] # i
                               THEN k ELSE Null
        BY <1>1 DEF Accounted, ToSet, IsInjective
  <2>2. /\ h2.next_index <= h2.capacity
        /\ h2.free_count = (h2.capacity - h2.next_index) + Len(h2.free_list)
        BY <1>4, <1>5, <1>6, <2>1
  <2>3. ASSUME NEW i \in DOMAIN f2, NEW j \in DOMAIN f2, f2[i] = f2[j] PROVE i = j
    <3>0. \A x \in DOMAIN f2 : x # 1 => f2[x] # n
      <4>1. \A x \in DOMAIN f2 : x # 1 => x - 1 \in DOMAIN h.free_list /\ f2[x] = h.free_list[x - 1]
            BY <1>7
      <4>2. QED BY <1>1, <4>1
    <3>1. CASE i = 1 \/ j = 1
          BY <1>6, <2>3, <3>0, <3>1
    <3>2. CASE i # 1 /\ j # 1
      <4>1. /\ i - 1 \in DOMAIN h.free_list /\ f2[i] = h.free_list[i - 1]
            /\ j - 1 \in DOMAIN h.free_list /\ f2[j] = h.free_list[j - 1]
            BY <1>7, <3>2
      <4>2. \A x, y \in DOMAIN h.free_list : h.free_list[x] = h.free_list[y] => x = y
            BY <2>1
      <4>3. h.free_list[i - 1] = h.free_list[j - 1]
            BY <2>3, <4>1
      <4>4. i - 1 = j - 1
            BY <4>1, <4>2, <4>3, Zenon
      <4>5. QED BY <1>7, <4>4
    <3>3. QED BY <3>1, <3>2
  <2>4. \A i \in DOMAIN f2 : f2[i] < h.next_index
        BY <1>1, <1>6, <1>7, <2>1
  <2>5. ASSUME NEW i \in Indexes
        PROVE  (\A j \in DOMAIN f2 : f2[j] # i)
               <=> i # n /\ \A j \in DOMAIN h.free_list : h.free_list[j] # i
    <3>1. ASSUME i # n, \A j \in DOMAIN h.free_list : h.free_list[j] # i, NEW j \in DOMAIN f2
          PROVE  f2[j] # i
      <4>1. CASE j = 1
            BY <1>6, <3>1, <4>1
      <4>2. CASE j - 1 \in DOMAIN h.free_list /\ f2[j] = h.free_list[j - 1]
            BY <3>1, <4>2
      <4>3. QED BY <1>7, <4>1, <4>2
    <3>2. ASSUME \A j \in DOMAIN f2 : f2[j] # i
          PROVE  i # n /\ \A j \in DOMAIN h.free_list : h.free_list[j] # i
      <4>1. i # n
            BY <1>6, <1>7, <3>2
      <4>2. ASSUME NEW j \in DOMAIN h.free_list PROVE h.free_list[j] # i
            BY <1>7, <3>2
      <4>3. QED BY <4>1, <4>2
    <3>3. QED BY <3>1, <3>2
  <2>6. \A i \in Indexes :
          live'[<<c, i>>] = IF i < h2.next_index /\ \A j \in DOMAIN f2 : f2[j] # i
                            THEN k ELSE Null
        BY <1>5, <1>9, <2>1, <2>5
  <2>7. QED BY <1>5, <2>2, <2>3, <2>4, <2>6 DEF Accounted, ToSet, IsInjective
<1>11. /\ chunk' \in [Regions -> ChunkHeader] /\ chunk'[c] = h2
       /\ \A r \in Regions \ {c} : chunk'[r] = chunk[r]
       BY <1>1, <1>2, <1>3, <1>8
<1>12. /\ \A m \in Classes : Listed(m)' = Listed(m) /\ Listed(m) \subseteq Regions
       /\ Big' = Big
       BY <1>a, <1>3, <1>9 DEF Listed, Big, TypeOK, ToSet
<1>13. TypeOK'
       BY <1>a, <1>1, <1>3, <1>9, <1>11 DEF TypeOK, listVars
<1>14. LiveListed'
       BY <1>a, <1>9, <1>12, NullAssumption DEF LiveListed
<1>15. BlockAccounting'
  <2>1. ASSUME NEW m \in Classes, NEW r \in Listed(m), r # c
        PROVE  Accounted(m, r, chunk'[r], live')
    <3>1. Accounted(m, r, chunk[r], live)
          BY <1>a DEF BlockAccounting
    <3>2. r \in Regions \ {c}
          BY <1>12, <2>1
    <3>3. QED BY <1>9, <1>11, <3>1, <3>2 DEF Accounted, ToSet, IsInjective
  <2>2. QED BY <1>1, <1>10, <1>11, <1>12, <2>1 DEF BlockAccounting
<1>16. SlotNamesChunk'
  <2>1. \A r \in Regions : chunk'[r].next_index = chunk[r].next_index
        BY <1>5, <1>11 DEF h
  <2>2. QED BY <1>a, <1>3, <1>12, <2>1 DEF SlotNamesChunk
<1>17. HintExact'
  <2>1. \A m \in Classes \ {k} : unfull'[m] = unfull[m]
        BY <1>3 DEF HintExact
  <2>2. unfull'[k] = c /\ c # Null /\ h2.free_count # 0
        BY <1>a, <1>1, <1>3, <1>4, <1>5, NullAssumption DEF TypeOK
  <2>3. \A m \in Classes \ {k} : \A r \in Listed(m) : chunk'[r] = chunk[r]
        BY <1>1, <1>11, <1>12
  <2>4. QED BY <1>a, <1>1, <1>11, <1>12, <2>1, <2>2, <2>3 DEF HintExact
<1>18. UpstreamConserved'
       BY <1>a, <1>3, <1>12 DEF UpstreamConserved, IsInjective
<1>19. OversizedLinked'
       BY <1>a, <1>3, <1>12, OversizedUntouched
<1>20. EagerRelease'
  <2>1. ASSUME ReleaseEmpty, NEW m \in Classes, NEW r \in Listed(m), r # c
        PROVE  Taken(r)' # {}
    <3>1. Taken(r)' = Taken(r)
          BY <1>9, <1>12, <2>1 DEF Taken
    <3>2. QED BY <1>a, <2>1, <3>1 DEF EagerRelease
  <2>2. ASSUME ReleaseEmpty PROVE Taken(c)' # {}
    <3> DEFINE p == h.next_index
    <3>0. Indexes \subseteq Nat
          BY DEF Indexes
    <3>a. f2 \in Seq(Nat)
          BY <1>6, <3>0, SeqMonotonic
    <3>1. f2 \in Seq(Nat) /\ p \in Nat
          BY <1>4, <3>a
    <3>2. /\ \A i, j \in DOMAIN f2 : f2[i] = f2[j] => i = j
          /\ \A i \in DOMAIN f2 : f2[i] < p
          BY <1>5, <1>10 DEF Accounted, ToSet, IsInjective
    <3>3. Cardinality((0 .. p - 1) \ {f2[i] : i \in DOMAIN f2}) = p - Len(f2)
          BY <3>1, <3>2, DistinctPositions
    <3>4. p - Len(f2) # 0
      <4>1. h.free_count = (h.capacity - h.next_index) + Len(h.free_list)
            BY <1>1 DEF Accounted, ToSet, IsInjective
      <4>2. QED BY <1>3, <1>4, <1>6, <2>2, <4>1
    <3>5. (0 .. p - 1) \ {f2[i] : i \in DOMAIN f2} # {}
          BY <3>3, <3>4, FS_EmptySet
    <3>6. PICK x \in 0 .. p - 1 : \A j \in DOMAIN f2 : f2[j] # x
          BY <3>5
    <3>7. x \in Indexes /\ x < p
          BY <1>4, <3>6, CapacityAssumption DEF Indexes
    <3>8. live'[<<c, x>>] = k
          BY <1>5, <1>10, <3>6, <3>7 DEF Accounted, ToSet, IsInjective
    <3>9. x \in Taken(c)'
          BY <3>7, <3>8, NullAssumption DEF Taken
    <3>10. QED BY <3>9
  <2>3. \A m \in Classes : chunks'[m] = <<>> => nextCap'[m] = DefaultNextCapacity
        BY <1>a, <1>3 DEF EagerRelease
  <2>4. QED BY <1>12, <2>1, <2>2, <2>3 DEF EagerRelease
<1>21. QED BY <1>13, <1>14, <1>15, <1>16, <1>17, <1>18, <1>19, <1>20 DEF Inv

-----------------------------------------------------------------------------
(* The doubly linked list, as data: pushing a header at the front and      *)
(* unlinking one at any position keep it one list of exactly its members.  *)
LEMMA HeadersAre ==
    ASSUME NEW B \in SUBSET Regions, NEW head, NEW nxt, Closed(B, head, nxt)
    PROVE  Headers(head, nxt) = B
           <=> \A S \in SUBSET Regions : Closed(S, head, nxt) => B \subseteq S
BY DEF Headers

LEMMA PushFront ==
    ASSUME NEW B \in SUBSET Regions, NEW head \in Regions \cup {Null},
           NEW prv \in [Regions -> Regions \cup {Null}],
           NEW nxt \in [Regions -> Regions \cup {Null}],
           LinkedList(B, head, prv, nxt),
           NEW r \in Regions \ B
    PROVE  LinkedList(B \cup {r}, r,
                      [x \in Regions |-> IF x = r THEN Null
                                         ELSE IF x = head THEN r ELSE prv[x]],
                      [nxt EXCEPT ![r] = head])
<1> DEFINE B2   == B \cup {r}
           prv2 == [x \in Regions |-> IF x = r THEN Null
                                      ELSE IF x = head THEN r ELSE prv[x]]
           nxt2 == [nxt EXCEPT ![r] = head]
<1>1. /\ head # Null => head \in B
      /\ \A x \in B : /\ nxt[x] # Null => nxt[x] \in B /\ prv[nxt[x]] = x
                      /\ prv[x] # Null => prv[x] \in B /\ nxt[prv[x]] = x
                      /\ prv[x] = Null <=> x = head
      /\ Headers(head, nxt) = B
      BY DEF LinkedList
<1>2. /\ \A x \in Regions : prv2[x] = IF x = r THEN Null
                                     ELSE IF x = head THEN r ELSE prv[x]
      /\ \A x \in Regions : nxt2[x] = IF x = r THEN head ELSE nxt[x]
      /\ r # Null /\ r \in B2 /\ r # head
      BY <1>1, NullAssumption
<1> HIDE DEF prv2, nxt2
<1>3. ASSUME NEW x \in B2
      PROVE  /\ nxt2[x] # Null => nxt2[x] \in B2 /\ prv2[nxt2[x]] = x
             /\ prv2[x] # Null => prv2[x] \in B2 /\ nxt2[prv2[x]] = x
             /\ prv2[x] = Null <=> x = r
  <2>1. CASE x = r
        BY <1>1, <1>2, <2>1
  <2>2. CASE x # r
    <3>1. x \in B /\ x \in Regions /\ nxt2[x] = nxt[x] /\ x # Null
          BY <1>2, <2>2, NullAssumption
    <3>2. nxt[x] # Null => nxt[x] # r /\ nxt[x] # head /\ nxt[x] \in B
          BY <1>1, <3>1
    <3>3. nxt2[x] # Null => nxt2[x] \in B2 /\ prv2[nxt2[x]] = x
          BY <1>1, <1>2, <3>1, <3>2
    <3>4. CASE x = head
          BY <1>1, <1>2, <2>2, <3>1, <3>3, <3>4
    <3>5. CASE x # head
      <4>1. prv2[x] = prv[x] /\ prv[x] # Null /\ prv[x] \in B /\ prv[x] # r
            BY <1>1, <1>2, <2>2, <3>1, <3>5
      <4>2. QED BY <1>1, <1>2, <2>2, <3>1, <3>3, <4>1
    <3>6. QED BY <3>4, <3>5
  <2>3. QED BY <2>1, <2>2
<1>4. Closed(B2, r, nxt2) /\ Closed(B, head, nxt)
      BY <1>1, <1>2, <1>3 DEF Closed
<1>5. ASSUME NEW S \in SUBSET Regions, Closed(S, r, nxt2) PROVE B2 \subseteq S
  <2>1. r \in S /\ (head # Null => head \in S)
        BY <1>2, <1>5 DEF Closed
  <2>2. Closed(S \cap B, head, nxt)
        BY <1>1, <1>2, <1>5, <2>1 DEF Closed
  <2>3. B \subseteq S \cap B
        BY <1>1, <1>4, <2>2, HeadersAre
  <2>4. QED BY <2>1, <2>3
<1>6. Headers(r, nxt2) = B2
      BY <1>4, <1>5, HeadersAre
<1>7. QED BY <1>2, <1>3, <1>6 DEF LinkedList, prv2, nxt2

UnlinkPrev(prv, nxt, r) == [x \in Regions |-> IF x = r THEN Null
                                             ELSE IF x = nxt[r] THEN prv[r] ELSE prv[x]]
UnlinkNext(prv, nxt, r) == [x \in Regions |-> IF x = r THEN Null
                                             ELSE IF x = prv[r] THEN nxt[r] ELSE nxt[x]]
UnlinkHead(head, prv, nxt, r) == IF prv[r] = Null THEN nxt[r] ELSE head

LEMMA Unlink ==
    ASSUME NEW B \in SUBSET Regions, NEW head \in Regions \cup {Null},
           NEW prv \in [Regions -> Regions \cup {Null}],
           NEW nxt \in [Regions -> Regions \cup {Null}],
           LinkedList(B, head, prv, nxt),
           NEW r \in B
    PROVE  LinkedList(B \ {r}, UnlinkHead(head, prv, nxt, r),
                      UnlinkPrev(prv, nxt, r), UnlinkNext(prv, nxt, r))
<1> DEFINE B2    == B \ {r}
           head2 == IF prv[r] = Null THEN nxt[r] ELSE head
           prv2  == [x \in Regions |-> IF x = r THEN Null
                                       ELSE IF x = nxt[r] THEN prv[r] ELSE prv[x]]
           nxt2  == [x \in Regions |-> IF x = r THEN Null
                                       ELSE IF x = prv[r] THEN nxt[r] ELSE nxt[x]]
<1>1. /\ head # Null => head \in B
      /\ \A x \in B : /\ nxt[x] # Null => nxt[x] \in B /\ prv[nxt[x]] = x
                      /\ prv[x] # Null => prv[x] \in B /\ nxt[prv[x]] = x
                      /\ prv[x] = Null <=> x = head
      /\ Headers(head, nxt) = B
      BY DEF LinkedList
<1>2. /\ \A x \in Regions : prv2[x] = IF x = r THEN Null
                                     ELSE IF x = nxt[r] THEN prv[r] ELSE prv[x]
      /\ \A x \in Regions : nxt2[x] = IF x = r THEN Null
                                     ELSE IF x = prv[r] THEN nxt[r] ELSE nxt[x]
      OBVIOUS
<1>3. Closed(B, head, nxt)
      BY <1>1 DEF Closed
<1>4. \A S \in SUBSET Regions : Closed(S, head, nxt) => B \subseteq S
      BY <1>1, <1>3, HeadersAre
<1>5. nxt[r] # r /\ prv[r] # r
  <2>1. ASSUME nxt[r] = r PROVE FALSE
    <3>1. prv[r] = r /\ r # head
          BY <1>1, <2>1, NullAssumption
    <3>2. Closed(B2, head, nxt)
      <4>1. \A x \in B2 : nxt[x] # r
            BY <1>1, <3>1
      <4>2. QED BY <1>1, <3>1, <4>1 DEF Closed
    <3>3. QED BY <1>4, <3>2
  <2>2. prv[r] = r => nxt[r] = r
        BY <1>1, NullAssumption
  <2>3. QED BY <2>1, <2>2
<1> HIDE DEF prv2, nxt2
<1>6. head2 # Null => head2 \in B2
  <2>1. CASE prv[r] = Null
        BY <1>1, <1>5, <2>1
  <2>2. CASE prv[r] # Null
        BY <1>1, <2>2
  <2>3. QED BY <2>1, <2>2
<1>7. ASSUME NEW x \in B2
      PROVE  /\ nxt2[x] # Null => nxt2[x] \in B2 /\ prv2[nxt2[x]] = x
             /\ prv2[x] # Null => prv2[x] \in B2 /\ nxt2[prv2[x]] = x
             /\ prv2[x] = Null <=> x = head2
  <2>1. x \in B /\ x \in Regions /\ x # r /\ x # Null
        BY NullAssumption
  <2>2. nxt2[x] # Null => nxt2[x] \in B2 /\ prv2[nxt2[x]] = x
    <3>1. CASE x = prv[r]
      <4>1. nxt2[x] = nxt[r]
            BY <1>2, <2>1, <3>1
      <4>2. nxt[r] # Null => nxt[r] \in B2 /\ prv2[nxt[r]] = prv[r]
            BY <1>1, <1>2, <1>5
      <4>3. QED BY <3>1, <4>1, <4>2
    <3>2. CASE x # prv[r]
      <4>1. nxt2[x] = nxt[x]
            BY <1>2, <2>1, <3>2
      <4>2. nxt[x] # Null => nxt[x] \in B /\ prv[nxt[x]] = x
            BY <1>1, <2>1
      <4>3. nxt[x] # r
            BY <1>1, <2>1, <3>2, NullAssumption
      <4>4. nxt[x] # Null => nxt[x] # nxt[r]
            BY <1>1, <2>1
      <4>5. QED BY <1>2, <4>1, <4>2, <4>3, <4>4
    <3>3. QED BY <3>1, <3>2
  <2>3. prv2[x] # Null => prv2[x] \in B2 /\ nxt2[prv2[x]] = x
    <3>1. CASE x = nxt[r]
      <4>1. prv2[x] = prv[r]
            BY <1>2, <2>1, <3>1
      <4>2. prv[r] # Null => prv[r] \in B2 /\ nxt2[prv[r]] = nxt[r]
            BY <1>1, <1>2, <1>5
      <4>3. QED BY <3>1, <4>1, <4>2
    <3>2. CASE x # nxt[r]
      <4>1. prv2[x] = prv[x]
            BY <1>2, <2>1, <3>2
      <4>2. prv[x] # Null => prv[x] \in B /\ nxt[prv[x]] = x
            BY <1>1, <2>1
      <4>3. prv[x] # r
            BY <1>1, <2>1, <3>2, NullAssumption
      <4>4. prv[x] # Null => prv[x] # prv[r]
            BY <1>1, <2>1
      <4>5. QED BY <1>2, <4>1, <4>2, <4>3, <4>4
    <3>3. QED BY <3>1, <3>2
  <2>4. prv2[x] = Null <=> x = head2
    <3>1. CASE prv[r] = Null
          BY <1>1, <1>2, <2>1, <3>1
    <3>2. CASE prv[r] # Null
      <4>1. head2 = head /\ (prv[x] = Null <=> x = head)
            BY <1>1, <2>1, <3>2
      <4>2. CASE x = nxt[r]
            BY <1>1, <1>2, <2>1, <3>2, <4>1, <4>2, NullAssumption
      <4>3. CASE x # nxt[r]
            BY <1>2, <2>1, <4>1, <4>3
      <4>4. QED BY <4>2, <4>3
    <3>3. QED BY <3>1, <3>2
  <2>5. QED BY <2>2, <2>3, <2>4
<1>8. Closed(B2, head2, nxt2)
      BY <1>6, <1>7 DEF Closed
<1>9. ASSUME NEW S \in SUBSET Regions, Closed(S, head2, nxt2) PROVE B2 \subseteq S
  <2>1. CASE prv[r] = Null
    <3>1. head = r
          BY <1>1, <2>1
    <3>2. Closed((S \cap B) \cup {r}, head, nxt)
      <4>1. nxt[r] # Null => nxt[r] \in S \cap B
            BY <1>1, <1>9, <2>1 DEF Closed
      <4>2. \A x \in S \cap B : x # r /\ nxt[x] # Null => nxt[x] \in S \cap B
        <5>1. \A x \in Regions \ {r} : x # prv[r] => nxt2[x] = nxt[x]
              BY <1>2
        <5>2. QED BY <1>1, <1>9, <2>1, <5>1, NullAssumption DEF Closed
      <4>3. QED BY <3>1, <4>1, <4>2 DEF Closed
    <3>3. QED BY <1>4, <3>2
  <2>2. CASE prv[r] # Null /\ prv[r] \in S
    <3>1. Closed((S \cap B) \cup {r}, head, nxt)
      <4>1. head # Null => head \in S \cap B
            BY <1>1, <1>9, <2>2 DEF Closed
      <4>2. nxt[r] # Null => nxt[r] \in S \cap B
        <5>1. prv[r] \in Regions /\ nxt2[prv[r]] = nxt[r]
              BY <1>2, <1>5, <2>2
        <5>2. QED BY <1>1, <1>9, <2>2, <5>1 DEF Closed
      <4>3. \A x \in S \cap B : x # r /\ nxt[x] # Null => nxt[x] \in (S \cap B) \cup {r}
        <5>1. \A x \in Regions \ {r} : x # prv[r] => nxt2[x] = nxt[x]
              BY <1>2
        <5>2. nxt[prv[r]] = r
              BY <1>1, <2>2
        <5>3. QED BY <1>1, <1>9, <5>1, <5>2 DEF Closed
      <4>4. QED BY <4>1, <4>2, <4>3 DEF Closed
    <3>2. QED BY <1>4, <3>1
  <2>3. CASE prv[r] # Null /\ prv[r] \notin S
    <3>1. Closed(S \cap B2, head, nxt)
      <4>1. head # Null => head \in S \cap B2
            BY <1>6, <1>9, <2>3 DEF Closed
      <4>2. ASSUME NEW x \in S \cap B2, nxt[x] # Null PROVE nxt[x] \in S \cap B2
        <5>1. nxt2[x] = nxt[x]
              BY <1>2, <2>3
        <5>2. nxt[x] \in S
              BY <1>9, <4>2, <5>1 DEF Closed
        <5>3. nxt[x] \in B /\ nxt[x] # r
              BY <1>1, <2>3, <4>2
        <5>4. QED BY <5>2, <5>3
      <4>3. QED BY <4>1, <4>2 DEF Closed
    <3>2. B \subseteq S \cap B2
          BY <1>4, <3>1
    <3>3. QED BY <3>2
  <2>4. QED BY <2>1, <2>2, <2>3
<1>10. Headers(head2, nxt2) = B2
       BY <1>8, <1>9, HeadersAre
<1> HIDE DEF head2
<1>11. LinkedList(B2, head2, prv2, nxt2)
       BY <1>6, <1>7, <1>10 DEF LinkedList
<1>12. QED BY <1>11 DEF head2, prv2, nxt2, UnlinkHead, UnlinkPrev, UnlinkNext

-----------------------------------------------------------------------------
(* The last live block of a chunk: nobody holds another block of it. *)
LEMMA LastBlock ==
    ASSUME Inv, NEW k \in Classes, NEW b \in Blocks, live[b] = k,
           chunk[b[1]].free_count + 1 = chunk[b[1]].capacity
    PROVE  \A i \in Indexes : i # b[2] => live[<<b[1], i>>] = Null
<1> DEFINE c == b[1]
           n == b[2]
           f == chunk[c].free_list
           p == chunk[c].next_index
           in == {f[j] : j \in DOMAIN f}
<1>1. /\ c \in Regions /\ n \in Indexes /\ Accounted(k, c, chunk[c], live)
      /\ n < p /\ \A j \in DOMAIN f : f[j] # n
      BY LiveBlock
<1>2. /\ chunk[c].capacity \in Nat /\ p \in Nat /\ chunk[c].free_count \in Nat
      /\ f \in Seq(Indexes)
      BY <1>1, CapacityAssumption DEF Inv, TypeOK, ChunkHeader
<1>3. /\ chunk[c].free_count = (chunk[c].capacity - p) + Len(f)
      /\ \A i, j \in DOMAIN f : f[i] = f[j] => i = j
      /\ \A i \in DOMAIN f : f[i] < p
      /\ \A i \in Indexes : live[<<c, i>>] = IF i < p /\ \A j \in DOMAIN f : f[j] # i
                                             THEN k ELSE Null
      BY <1>1 DEF Accounted, ToSet, IsInjective
<1>4. chunk[c].free_count + 1 = chunk[c].capacity
      OBVIOUS
<1> HIDE DEF f, p
<1>5. Indexes \subseteq Nat
      BY DEF Indexes
<1>6. f \in Seq(Nat)
      BY <1>2, <1>5, SeqMonotonic
<1>7. Len(f) \in Nat /\ p - Len(f) = 1
  <2>1. Len(f) \in Nat
        BY <1>6
  <2>2. QED BY <1>2, <1>3, <1>4, <2>1, SMTT(40)
<1>8. Cardinality((0 .. p - 1) \ in) = 1 /\ IsFiniteSet((0 .. p - 1) \ in)
  <2>1. Cardinality((0 .. p - 1) \ in) = p - Len(f)
        BY <1>2, <1>3, <1>6, DistinctPositions
  <2>2. IsFiniteSet((0 .. p - 1) \ in)
    <3>1. IsFiniteSet(0 .. p - 1)
          BY <1>2, FS_Interval
    <3> HIDE DEF in
    <3>2. QED BY <3>1, FS_Difference
  <2>3. QED BY <1>7, <2>1, <2>2
<1>9. PICK x : (0 .. p - 1) \ in = {x}
      BY <1>8, FS_Singleton
<1>10. n \in (0 .. p - 1) \ in
  <2>1. n \in 0 .. p - 1
    <3>1. n \in Nat /\ n < p
          BY <1>1, <1>5 DEF p
    <3> HIDE DEF n
    <3>2. QED BY <1>2, <3>1
  <2>2. n \notin in
        BY <1>1 DEF f, p
  <2>3. QED BY <2>1, <2>2
<1>11. ASSUME NEW i \in Indexes, i # n PROVE live[<<c, i>>] = Null
  <2>1. i \notin (0 .. p - 1) \ in
        BY <1>9, <1>10, <1>11
  <2>2. ~ (i < p /\ \A j \in DOMAIN f : f[j] # i)
        BY <1>2, <1>5, <2>1
  <2>3. QED BY <1>3, <2>2
<1>12. QED BY <1>11

LEMMA DeallocateReleasesChunkKeepsInv ==
    ASSUME Inv, NEW k \in Classes, NEW b \in Blocks, DeallocateReleasesChunk(k, b)
    PROVE  Inv'
<1> DEFINE c    == b[1]
           rest == RemoveFirst(chunks[k], c)
           hint == IF unfull[k] = c THEN Null ELSE unfull[k]
           u    == find_unfull_chunk(rest, chunk)
<1>a. /\ TypeOK /\ LiveListed /\ BlockAccounting /\ SlotNamesChunk /\ HintExact
      /\ UpstreamConserved /\ OversizedLinked /\ EagerRelease
      BY DEF Inv
<1>1. /\ slot[b] = c /\ c \in Regions /\ b[2] \in Indexes /\ b = <<c, b[2]>>
      /\ c \in Listed(k) /\ c \notin Big /\ \A m \in Classes \ {k} : c \notin Listed(m)
      BY LiveBlock DEF DeallocateReleasesChunk, ReleasesChunk, HintWithout
<1>2. /\ live[b] = k /\ chunk[c].free_count + 1 = chunk[c].capacity
      /\ chunks' = [chunks EXCEPT ![k] = rest] /\ held' = held \ {c}
      /\ nextCap' = [nextCap EXCEPT ![k] = IF rest = <<>> THEN DefaultNextCapacity
                                           ELSE nextCap[k]]
      /\ unfull' = [unfull EXCEPT ![k] = IF rest # <<>> /\ hint = Null THEN u ELSE hint]
      /\ chunk' = [chunk EXCEPT ![c] = NoChunk]
      /\ slot' = [x \in Blocks |-> IF x[1] = c THEN Null ELSE slot[x]]
      /\ live' = [live EXCEPT ![b] = Null]
      /\ pools' = pools /\ UNCHANGED listVars
      BY <1>1 DEF DeallocateReleasesChunk, ReleasesChunk, HintWithout
<1>3. /\ chunks \in [Classes -> Seq(Regions)] /\ chunks[k] \in Seq(Regions)
      /\ chunk \in [Regions -> ChunkHeader]
      /\ live \in [Blocks -> Classes \cup {Oversized, Null}]
      /\ unfull \in [Classes -> Regions \cup {Null}]
      /\ nextCap \in [Classes -> Nat \ {0}]
      BY <1>a DEF TypeOK
<1>4. /\ rest \in Seq(Regions)
      /\ {rest[i] : i \in DOMAIN rest} = Listed(k) \ {c}
      /\ \A i, j \in DOMAIN rest : rest[i] = rest[j] => i = j
  <2>1. IsInjective(chunks[k]) /\ c \in ToSet(chunks[k])
        BY <1>a, <1>1 DEF UpstreamConserved, Listed
  <2>2. /\ rest \in Seq(Regions) /\ ToSet(rest) = ToSet(chunks[k]) \ {c}
        /\ IsInjective(rest)
        BY <1>3, <2>1, RemoveFirstOfDistinct
  <2> HIDE DEF rest
  <2>3. QED BY <2>2 DEF Listed, ToSet, IsInjective
<1>5. /\ u \in Regions \cup {Null}
      /\ u = Null => \A i \in DOMAIN rest : chunk[rest[i]].free_count = 0
      /\ u # Null => (\E i \in DOMAIN rest : rest[i] = u) /\ chunk[u].free_count # 0
      BY <1>3, <1>4, FindUnfull
<1> HIDE DEF rest, u
<1>6. \A i \in Indexes : live'[<<c, i>>] = Null
  <2>1. \A i \in Indexes : i # b[2] => live[<<c, i>>] = Null
        BY <1>2, LastBlock
  <2>2. \A i \in Indexes : <<c, i>> \in Blocks
        BY <1>1 DEF Blocks
  <2>3. QED BY <1>1, <1>2, <1>3, <2>1, <2>2
<1>7. /\ live' \in [Blocks -> Classes \cup {Oversized, Null}]
      /\ \A x \in Blocks : x[1] # c => live'[x] = live[x]
      /\ \A r \in Regions \ {c} : \A i \in Indexes : live'[<<r, i>>] = live[<<r, i>>]
      /\ \A x \in Blocks : x[1] = c => live'[x] = Null
  <2>1. \A r \in Regions, i \in Indexes : <<r, i>> \in Blocks
        BY DEF Blocks
  <2>2. \A x \in Blocks : x = <<x[1], x[2]>> /\ x[1] \in Regions /\ x[2] \in Indexes
        BY DEF Blocks
  <2>3. live' \in [Blocks -> Classes \cup {Oversized, Null}]
        BY <1>2, <1>3
  <2>4. \A x \in Blocks : x # b => live'[x] = live[x]
        BY <1>2, <1>3
  <2>5. \A x \in Blocks : x[1] # c => x # b
        OBVIOUS
  <2>6. \A x \in Blocks : x[1] = c => live'[x] = Null
        BY <1>6, <2>2
  <2>7. \A r \in Regions \ {c}, i \in Indexes : <<r, i>> \in Blocks /\ <<r, i>>[1] # c
        BY <2>1
  <2>8. \A r \in Regions \ {c} : \A i \in Indexes : live'[<<r, i>>] = live[<<r, i>>]
        BY <2>4, <2>5, <2>7
  <2>9. QED BY <2>3, <2>4, <2>5, <2>6, <2>8
<1>8. Big' = Big
  <2>1. 0 \in Indexes
        BY CapacityAssumption DEF Indexes
  <2>2. live'[<<c, 0>>] # Oversized /\ live[<<c, 0>>] # Oversized
        BY <1>1, <1>6, <2>1, NullAssumption DEF Big
  <2>3. QED BY <1>7, <2>1, <2>2 DEF Big
<1>9. /\ \A m \in Classes \ {k} : chunks'[m] = chunks[m] /\ Listed(m)' = Listed(m)
      /\ chunks'[k] = rest /\ Listed(k)' = Listed(k) \ {c}
      /\ \A m \in Classes : c \notin Listed(m)' /\ Listed(m)' \subseteq Listed(m)
                           /\ Listed(m) \subseteq Regions
  <2>1. chunks'[k] = rest /\ \A m \in Classes \ {k} : chunks'[m] = chunks[m]
        BY <1>2, <1>3
  <2>2. \A m \in Classes \ {k} : Listed(m)' = Listed(m)
        BY <2>1 DEF Listed, ToSet
  <2>3. Listed(k)' = {rest[i] : i \in DOMAIN rest}
        BY <2>1 DEF Listed, ToSet
  <2>4. \A m \in Classes : Listed(m) \subseteq Regions
        BY <1>3 DEF Listed, ToSet
  <2>5. QED BY <1>1, <1>4, <2>1, <2>2, <2>3, <2>4
<1>10. /\ chunk' \in [Regions -> ChunkHeader]
       /\ \A r \in Regions \ {c} : chunk'[r] = chunk[r]
  <2>1. NoChunk \in ChunkHeader
    <3>1. <<>> \in Seq(Indexes) /\ 0 \in 0 .. MaxBlocks
          BY CapacityAssumption
    <3>2. QED BY <3>1 DEF NoChunk, ChunkHeader
  <2>2. QED BY <1>2, <1>3, <2>1
<1>11. TypeOK'
  <2>1. chunks' \in [Classes -> Seq(Regions)]
        BY <1>2, <1>3, <1>4
  <2>2. unfull' \in [Classes -> Regions \cup {Null}] /\ nextCap' \in [Classes -> Nat \ {0}]
        BY <1>2, <1>3, <1>5, CapacityAssumption
  <2>3. slot' \in [Blocks -> Regions \cup {Null}] /\ held' \in SUBSET Regions
        BY <1>a, <1>2 DEF TypeOK
  <2>4. QED BY <1>a, <1>2, <1>7, <1>10, <2>1, <2>2, <2>3 DEF TypeOK, listVars
<1>12. LiveListed'
  <2>1. ASSUME NEW x \in Blocks, x[1] = c
        PROVE  /\ \A m \in Classes : live'[x] = m => x[1] \in Listed(m)'
               /\ live'[x] = Oversized => x[2] = 0
        BY <1>7, <2>1, NullAssumption
  <2>2. ASSUME NEW x \in Blocks, x[1] # c
        PROVE  /\ \A m \in Classes : live'[x] = m => x[1] \in Listed(m)'
               /\ live'[x] = Oversized => x[2] = 0
        BY <1>a, <1>7, <1>9, <2>2 DEF LiveListed
  <2>3. QED BY <2>1, <2>2 DEF LiveListed
<1>13. BlockAccounting'
  <2>1. ASSUME NEW m \in Classes, NEW r \in Listed(m)'
        PROVE  Accounted(m, r, chunk'[r], live')
    <3>1. r \in Listed(m) /\ r \in Regions \ {c}
          BY <1>9
    <3>2. Accounted(m, r, chunk[r], live)
          BY <1>a, <3>1 DEF BlockAccounting
    <3>3. QED BY <1>7, <1>10, <3>1, <3>2 DEF Accounted, ToSet, IsInjective
  <2>2. QED BY <2>1 DEF BlockAccounting
<1>14. SlotNamesChunk'
  <2>1. ASSUME NEW m \in Classes, NEW r \in Listed(m)', NEW i \in Indexes,
               i < chunk'[r].next_index
        PROVE  slot'[<<r, i>>] = r
    <3>1. r \in Listed(m) /\ r \in Regions \ {c}
          BY <1>9
    <3>2. <<r, i>> \in Blocks
          BY <3>1 DEF Blocks
    <3>3. slot[<<r, i>>] = r
          BY <1>a, <1>10, <2>1, <3>1 DEF SlotNamesChunk
    <3>4. QED BY <1>2, <3>1, <3>2, <3>3
  <2>2. QED BY <2>1 DEF SlotNamesChunk
<1>15. HintExact'
  <2>1. ASSUME NEW m \in Classes \ {k}
        PROVE  /\ unfull'[m] = Null => \A r \in Listed(m)' : chunk'[r].free_count = 0
               /\ unfull'[m] # Null => /\ unfull'[m] \in Listed(m)'
                                       /\ chunk'[unfull'[m]].free_count # 0
    <3>1. \A r \in Listed(m) : r \in Regions \ {c}
          BY <1>1, <1>9
    <3>2. unfull'[m] = unfull[m] /\ Listed(m)' = Listed(m)
          BY <1>2, <1>3, <1>9
    <3>3. QED BY <1>a, <1>10, <3>1, <3>2 DEF HintExact
  <2>2. /\ unfull'[k] = Null => \A r \in Listed(k)' : chunk'[r].free_count = 0
        /\ unfull'[k] # Null => /\ unfull'[k] \in Listed(k)'
                                /\ chunk'[unfull'[k]].free_count # 0
    <3>1. \A r \in Listed(k)' : r \in Regions \ {c} /\ chunk'[r] = chunk[r]
          BY <1>9, <1>10
    <3>2. Listed(k)' = {rest[i] : i \in DOMAIN rest}
          BY <1>4, <1>9
    <3>3. CASE rest # <<>> /\ hint = Null
      <4>1. unfull'[k] = u
            BY <1>2, <1>3, <3>3
      <4>2. QED BY <1>5, <3>1, <3>2, <4>1
    <3>4. CASE rest = <<>> /\ hint = Null
      <4>1. unfull'[k] = Null /\ DOMAIN rest = {}
            BY <1>2, <1>3, <3>4
      <4>2. QED BY <3>2, <4>1
    <3>5. CASE hint # Null
      <4>1. unfull'[k] = unfull[k] /\ unfull[k] # c /\ unfull[k] # Null
            BY <1>2, <1>3, <3>5
      <4>2. QED BY <1>a, <1>9, <3>1, <4>1 DEF HintExact
    <3>6. QED BY <3>3, <3>4, <3>5
  <2>3. QED BY <2>1, <2>2 DEF HintExact
<1>16. UpstreamConserved'
  <2>1. held' = Big' \cup UNION {Listed(m)' : m \in Classes}
        BY <1>a, <1>1, <1>2, <1>8, <1>9 DEF UpstreamConserved, IsInjective
  <2>2. \A m \in Classes : \A i, j \in DOMAIN chunks'[m] :
            chunks'[m][i] = chunks'[m][j] => i = j
        BY <1>a, <1>4, <1>9 DEF UpstreamConserved, IsInjective
  <2>3. \A m \in Classes : /\ Listed(m)' \cap Big' = {}
                            /\ \A o \in Classes \ {m} : Listed(m)' \cap Listed(o)' = {}
        BY <1>a, <1>8, <1>9 DEF UpstreamConserved, IsInjective
  <2>4. QED BY <2>1, <2>2, <2>3 DEF UpstreamConserved, IsInjective
<1>17. OversizedLinked'
       BY <1>a, <1>2, <1>8, OversizedUntouched
<1>18. EagerRelease'
  <2>1. ASSUME ReleaseEmpty, NEW m \in Classes, NEW r \in Listed(m)' PROVE Taken(r)' # {}
    <3>1. r \in Listed(m) /\ r \in Regions \ {c}
          BY <1>9
    <3>2. Taken(r)' = Taken(r)
          BY <1>7, <3>1 DEF Taken
    <3>3. QED BY <1>a, <2>1, <3>1, <3>2 DEF EagerRelease
  <2>2. ASSUME NEW m \in Classes, chunks'[m] = <<>> PROVE nextCap'[m] = DefaultNextCapacity
        BY <1>a, <1>2, <1>3, <1>9, <2>2 DEF EagerRelease
  <2>3. QED BY <2>1, <2>2 DEF EagerRelease
<1>19. QED BY <1>11, <1>12, <1>13, <1>14, <1>15, <1>16, <1>17, <1>18 DEF Inv

(* Taking or giving back an oversized region leaves every pool alone. *)
LEMMA PoolsUntouched ==
    ASSUME Inv, UNCHANGED poolVars, NEW r \in Regions, \A k \in Classes : r \notin Listed(k),
           \A x \in Regions \ {r} : \A i \in Indexes : live'[<<x, i>>] = live[<<x, i>>],
           \A i \in Indexes : live'[<<r, i>>] \notin Classes
    PROVE  /\ \A k \in Classes : Listed(k)' = Listed(k)
           /\ BlockAccounting' /\ SlotNamesChunk' /\ HintExact' /\ EagerRelease'
           /\ \A b \in Blocks : \A k \in Classes : live'[b] = k => b[1] \in Listed(k)'
<1>1. \A k \in Classes : Listed(k)' = Listed(k) /\ Listed(k) \subseteq Regions \ {r}
      BY DEF poolVars, Listed, Inv, TypeOK, ToSet
<1>2. BlockAccounting'
      BY <1>1 DEF Inv, BlockAccounting, Accounted, poolVars, ToSet, IsInjective
<1>3. SlotNamesChunk' /\ HintExact'
      BY <1>1 DEF Inv, SlotNamesChunk, HintExact, poolVars
<1>4. EagerRelease'
  <2>1. \A k \in Classes : \A c \in Listed(k) : Taken(c)' = Taken(c)
        BY <1>1 DEF Taken
  <2>2. QED BY <1>1, <2>1 DEF Inv, EagerRelease, poolVars
<1>5. ASSUME NEW b \in Blocks, NEW k \in Classes, live'[b] = k PROVE b[1] \in Listed(k)'
  <2>1. b = <<b[1], b[2]>> /\ b[1] \in Regions /\ b[2] \in Indexes
        BY DEF Blocks
  <2>2. b[1] # r /\ live[b] = k
        BY <1>5, <2>1
  <2>3. QED BY <1>1, <2>2 DEF Inv, LiveListed
<1>6. QED BY <1>1, <1>2, <1>3, <1>4, <1>5

LEMMA AllocateOversizedKeepsInv ==
    ASSUME Inv, NEW r \in Regions, AllocateOversized(r)
    PROVE  Inv'
<1>a. /\ TypeOK /\ LiveListed /\ UpstreamConserved /\ OversizedLinked
      BY DEF Inv
<1>1. /\ r \notin held /\ held' = held \cup {r}
      /\ prev' = [x \in Regions |-> IF x = r THEN Null
                                    ELSE IF x = oversized THEN r ELSE prev[x]]
      /\ next' = [next EXCEPT ![r] = oversized] /\ oversized' = r
      /\ live' = [live EXCEPT ![<<r, 0>>] = Oversized]
      /\ UNCHANGED poolVars
      BY DEF AllocateOversized
<1>2. /\ \A i \in Indexes : live[<<r, i>>] = Null
      /\ r \notin Big /\ \A k \in Classes : r \notin Listed(k)
      BY <1>1, NotHeld
<1>3. /\ live' \in [Blocks -> Classes \cup {Oversized, Null}]
      /\ live'[<<r, 0>>] = Oversized
      /\ \A b \in Blocks : b # <<r, 0>> => live'[b] = live[b]
      /\ \A x \in Regions \ {r} : \A i \in Indexes : live'[<<x, i>>] = live[<<x, i>>]
      /\ \A i \in Indexes : live'[<<r, i>>] \notin Classes
  <2>1. 0 \in Indexes /\ \A x \in Regions, i \in Indexes : <<x, i>> \in Blocks
        BY CapacityAssumption DEF Indexes, Blocks
  <2>2. live \in [Blocks -> Classes \cup {Oversized, Null}]
        BY <1>a DEF TypeOK
  <2>3. QED BY <1>1, <1>2, <2>1, <2>2, NullAssumption
<1>4. Big' = Big \cup {r}
  <2>1. 0 \in Indexes
        BY CapacityAssumption DEF Indexes
  <2>2. QED BY <1>3, <2>1 DEF Big
<1>5. /\ \A k \in Classes : Listed(k)' = Listed(k)
      /\ BlockAccounting' /\ SlotNamesChunk' /\ HintExact' /\ EagerRelease'
      /\ \A b \in Blocks : \A k \in Classes : live'[b] = k => b[1] \in Listed(k)'
      BY <1>1, <1>2, <1>3, PoolsUntouched
<1>6. TypeOK'
      BY <1>a, <1>1, <1>3 DEF TypeOK, poolVars
<1>7. LiveListed'
  <2>1. \A b \in Blocks : live'[b] = Oversized => b[2] = 0
        BY <1>a, <1>3 DEF LiveListed
  <2>2. QED BY <1>5, <2>1 DEF LiveListed
<1>8. UpstreamConserved'
      BY <1>a, <1>1, <1>2, <1>4, <1>5 DEF UpstreamConserved, poolVars, IsInjective
<1>9. OversizedLinked'
  <2>1. Big \in SUBSET Regions /\ r \in Regions \ Big
        BY <1>2 DEF Big
  <2>2. /\ oversized \in Regions \cup {Null} /\ prev \in [Regions -> Regions \cup {Null}]
        /\ next \in [Regions -> Regions \cup {Null}] /\ LinkedList(Big, oversized, prev, next)
        BY <1>a DEF TypeOK, OversizedLinked
  <2>3. LinkedList(Big \cup {r}, r,
                   [x \in Regions |-> IF x = r THEN Null
                                      ELSE IF x = oversized THEN r ELSE prev[x]],
                   [next EXCEPT ![r] = oversized])
        BY <2>1, <2>2, PushFront
  <2>4. QED BY <1>1, <1>4, <2>3 DEF OversizedLinked
<1>10. QED BY <1>5, <1>6, <1>7, <1>8, <1>9 DEF Inv

LEMMA DeallocateOversizedKeepsInv ==
    ASSUME Inv, NEW r \in Regions, DeallocateOversized(r)
    PROVE  Inv'
<1>a. /\ TypeOK /\ LiveListed /\ UpstreamConserved /\ OversizedLinked
      BY DEF Inv
<1>1. /\ live[<<r, 0>>] = Oversized /\ held' = held \ {r}
      /\ prev' = [x \in Regions |-> IF x = r THEN Null
                                    ELSE IF x = next[r] THEN prev[r] ELSE prev[x]]
      /\ next' = [x \in Regions |-> IF x = r THEN Null
                                    ELSE IF x = prev[r] THEN next[r] ELSE next[x]]
      /\ oversized' = IF prev[r] = Null THEN next[r] ELSE oversized
      /\ live' = [live EXCEPT ![<<r, 0>>] = Null]
      /\ UNCHANGED poolVars
      BY DEF DeallocateOversized, PrevWithout
<1>2. /\ r \in Big /\ \A k \in Classes : r \notin Listed(k)
      BY <1>a, <1>1 DEF Big, UpstreamConserved, IsInjective
<1>3. /\ live' \in [Blocks -> Classes \cup {Oversized, Null}]
      /\ live'[<<r, 0>>] = Null
      /\ \A b \in Blocks : b # <<r, 0>> => live'[b] = live[b]
      /\ \A x \in Regions \ {r} : \A i \in Indexes : live'[<<x, i>>] = live[<<x, i>>]
      /\ \A i \in Indexes : live'[<<r, i>>] \notin Classes
  <2>1. 0 \in Indexes /\ \A x \in Regions, i \in Indexes : <<x, i>> \in Blocks
        BY CapacityAssumption DEF Indexes, Blocks
  <2>2. live \in [Blocks -> Classes \cup {Oversized, Null}]
        BY <1>a DEF TypeOK
  <2>3. \A i \in Indexes : live[<<r, i>>] \notin Classes
        BY <1>a, <1>2, <2>1 DEF LiveListed
  <2>4. QED BY <1>1, <2>1, <2>2, <2>3, NullAssumption
<1>4. Big' = Big \ {r}
  <2>1. 0 \in Indexes
        BY CapacityAssumption DEF Indexes
  <2>2. QED BY <1>3, <2>1, NullAssumption DEF Big
<1>5. /\ \A k \in Classes : Listed(k)' = Listed(k)
      /\ BlockAccounting' /\ SlotNamesChunk' /\ HintExact' /\ EagerRelease'
      /\ \A b \in Blocks : \A k \in Classes : live'[b] = k => b[1] \in Listed(k)'
      BY <1>1, <1>2, <1>3, PoolsUntouched
<1>6. TypeOK'
  <2>1. /\ oversized' \in Regions \cup {Null} /\ prev' \in [Regions -> Regions \cup {Null}]
        /\ next' \in [Regions -> Regions \cup {Null}] /\ held' \in SUBSET Regions
        BY <1>a, <1>1 DEF TypeOK
  <2>2. QED BY <1>a, <1>1, <1>3, <2>1 DEF TypeOK, poolVars
<1>7. LiveListed'
  <2>1. \A b \in Blocks : live'[b] = Oversized => b[2] = 0
        BY <1>a, <1>3, NullAssumption DEF LiveListed
  <2>2. QED BY <1>5, <2>1 DEF LiveListed
<1>8. UpstreamConserved'
      BY <1>a, <1>1, <1>2, <1>4, <1>5 DEF UpstreamConserved, poolVars, IsInjective
<1>9. OversizedLinked'
  <2>1. Big \in SUBSET Regions
        BY DEF Big
  <2>2. /\ oversized \in Regions \cup {Null} /\ prev \in [Regions -> Regions \cup {Null}]
        /\ next \in [Regions -> Regions \cup {Null}] /\ LinkedList(Big, oversized, prev, next)
        BY <1>a DEF TypeOK, OversizedLinked
  <2>3. LinkedList(Big \ {r}, UnlinkHead(oversized, prev, next, r),
                   UnlinkPrev(prev, next, r), UnlinkNext(prev, next, r))
        BY <1>2, <2>1, <2>2, Unlink
  <2>4. QED BY <1>1, <1>4, <2>3 DEF OversizedLinked, UnlinkHead, UnlinkPrev, UnlinkNext
<1>10. QED BY <1>5, <1>6, <1>7, <1>8, <1>9 DEF Inv

-----------------------------------------------------------------------------
(* With no chunk, no oversized header and no live block, all parts hold. *)
LEMMA EmptyInv ==
    ASSUME pools = {}, chunks = [k \in Classes |-> <<>>],
           unfull = [k \in Classes |-> Null],
           nextCap = [k \in Classes |-> DefaultNextCapacity],
           chunk = [r \in Regions |-> NoChunk], slot = [b \in Blocks |-> Null],
           oversized = Null, prev = [r \in Regions |-> Null],
           next = [r \in Regions |-> Null], held = {}, live = [b \in Blocks |-> Null]
    PROVE  Inv
<1>1. NoChunk \in ChunkHeader
  <2>1. <<>> \in Seq(Indexes) /\ 0 \in 0 .. MaxBlocks
        BY CapacityAssumption
  <2>2. QED BY <2>1 DEF NoChunk, ChunkHeader
<1>2. TypeOK
  <2>1. <<>> \in Seq(Regions)
        OBVIOUS
  <2>2. QED BY <1>1, <2>1, CapacityAssumption DEF TypeOK
<1>3. \A k \in Classes : chunks[k] = <<>> /\ Listed(k) = {}
      BY DEF Listed, ToSet
<1>4. Big = {}
  <2>1. \A r \in Regions : <<r, 0>> \in Blocks
        BY CapacityAssumption DEF Blocks, Indexes
  <2>2. QED BY <2>1, NullAssumption DEF Big
<1>5. LiveListed
      BY NullAssumption DEF LiveListed
<1>6. BlockAccounting /\ SlotNamesChunk /\ HintExact
      BY <1>3 DEF BlockAccounting, SlotNamesChunk, HintExact
<1>7. UpstreamConserved
      BY <1>3, <1>4 DEF UpstreamConserved, IsInjective
<1>8. OversizedLinked
  <2>1. Closed({}, oversized, next)
        BY DEF Closed
  <2>2. Headers(oversized, next) = {}
        BY <2>1 DEF Headers
  <2>3. QED BY <1>4, <2>2 DEF OversizedLinked, LinkedList
<1>9. EagerRelease
      BY <1>3 DEF EagerRelease
<1>10. QED BY <1>2, <1>5, <1>6, <1>7, <1>8, <1>9 DEF Inv

LEMMA InitInv == Init => Inv
BY EmptyInv DEF Init

(* release() leaves the state a new resource starts from. *)
LEMMA ReleaseEmpties ==
    ASSUME Inv, Release
    PROVE  Init'
<1>1. Headers(oversized, next) = Big
      BY DEF Inv, OversizedLinked, LinkedList
<1>2. held' = {}
      BY <1>1 DEF Release, Inv, UpstreamConserved
<1>3. QED BY <1>2 DEF Release, Init

LEMMA ReleaseKeepsInv ==
    ASSUME Inv, Release
    PROVE  Inv'
<1>1. Init'
      BY ReleaseEmpties
<1>2. Init' => Inv'
      BY InitInv, PTL
<1>3. QED BY <1>1, <1>2

LEMMA StepInv == Inv /\ [Next]_vars => Inv'
<1> SUFFICES ASSUME Inv, [Next]_vars PROVE Inv'
    OBVIOUS
<1>1. ASSUME NEW k \in Classes, AllocateFromChunk(k) PROVE Inv'
      BY <1>1, AllocateFromChunkKeepsInv
<1>2. ASSUME NEW k \in Classes, AllocateThrows(k) PROVE Inv'
      BY <1>2, AllocateThrowsKeepsInv
<1>3. ASSUME NEW k \in Classes, NEW r \in Regions, AllocateFromNewChunk(k, r) PROVE Inv'
      BY <1>3, AllocateFromNewChunkKeepsInv
<1>4. ASSUME NEW k \in Classes, NEW b \in Blocks, DeallocateToChunk(k, b) PROVE Inv'
      BY <1>4, DeallocateToChunkKeepsInv
<1>5. ASSUME NEW k \in Classes, NEW b \in Blocks, DeallocateReleasesChunk(k, b) PROVE Inv'
      BY <1>5, DeallocateReleasesChunkKeepsInv
<1>6. ASSUME NEW r \in Regions, AllocateOversized(r) PROVE Inv'
      BY <1>6, AllocateOversizedKeepsInv
<1>7. ASSUME NEW r \in Regions, DeallocateOversized(r) PROVE Inv'
      BY <1>7, DeallocateOversizedKeepsInv
<1>8. CASE Release
      BY <1>8, ReleaseKeepsInv
<1>9. CASE UNCHANGED vars
  <2>1. UNCHANGED <<pools, chunks, unfull, nextCap, chunk, slot, oversized, prev, next, held, live>>
        BY <1>9 DEF vars, poolVars, listVars
  <2>2. TypeOK'
        BY <2>1 DEF Inv, TypeOK
  <2>3. LiveListed'
        BY <2>1 DEF Inv, LiveListed, Listed
  <2>4. BlockAccounting'
        BY <2>1 DEF Inv, BlockAccounting, Listed
  <2>5. SlotNamesChunk' /\ HintExact'
        BY <2>1 DEF Inv, SlotNamesChunk, HintExact, Listed
  <2>6. UpstreamConserved' /\ OversizedLinked'
        BY <2>1 DEF Inv, UpstreamConserved, OversizedLinked, Listed, Big
  <2>7. EagerRelease'
        BY <2>1 DEF Inv, EagerRelease, Listed, Taken
  <2>8. QED BY <2>2, <2>3, <2>4, <2>5, <2>6, <2>7 DEF Inv
<1>10. ASSUME NEW k \in Classes,
               \/ AllocateFromChunk(k)
               \/ AllocateThrows(k)
               \/ \E r \in Regions : AllocateFromNewChunk(k, r)
               \/ \E b \in Blocks : DeallocateToChunk(k, b)
               \/ \E b \in Blocks : DeallocateReleasesChunk(k, b)
       PROVE   Inv'
  <2> HIDE DEF Inv
  <2>1. QED BY <1>1, <1>2, <1>3, <1>4, <1>5, <1>10, Zenon
<1>11. ASSUME NEW r \in Regions, AllocateOversized(r) \/ DeallocateOversized(r)
       PROVE  Inv'
       BY <1>6, <1>7, <1>11, Zenon
<1>12. Next => Inv'
       BY <1>8, <1>10, <1>11, Zenon DEF Next
<1>13. QED BY <1>9, <1>12, Zenon

(* The invariant holds for every set of classes and regions, every chunk   *)
(* bound and both settings of release_empty_chunks.                        *)
THEOREM Invariance == Spec => []Inv
<1>1. QED BY InitInv, StepInv, PTL DEF Spec

(* Every variable of the resource keeps its type. *)
THEOREM TypeCorrect == Spec => []TypeOK
<1>1. Inv => TypeOK
      BY DEF Inv
<1>2. QED BY <1>1, Invariance, PTL

(* The accounting of blocks, the hint and the upstream books are right in  *)
(* every reachable state.                                                  *)
THEOREM Accounting == Spec => [](BlockAccounting /\ SlotNamesChunk /\ HintExact)
<1>1. Inv => BlockAccounting /\ SlotNamesChunk /\ HintExact
      BY DEF Inv
<1>2. QED BY <1>1, Invariance, PTL

(* What is held from upstream is exactly what the two kinds of list reach, *)
(* so nothing leaks and nothing is returned twice.                         *)
THEOREM Conservation == Spec => [](UpstreamConserved /\ OversizedLinked /\ EagerRelease)
<1>1. Inv => UpstreamConserved /\ OversizedLinked /\ EagerRelease
      BY DEF Inv
<1>2. QED BY <1>1, Invariance, PTL

(* The hint, the oversized list and the eager release are exact at once:   *)
(* what allocate(), deallocate() and release() walk is what is there.      *)
THEOREM Lists == Spec => []ListsExact
<1>1. Inv => ListsExact
      BY DEF Inv, ListsExact
<1>2. QED BY <1>1, Invariance, PTL

-----------------------------------------------------------------------------
(* One client block joins those in use. *)
LEMMA InUseGrows ==
    ASSUME NEW b \in Blocks, NEW k, k # Null, live[b] = Null,
           live \in [Blocks -> Classes \cup {Oversized, Null}],
           live' = [live EXCEPT ![b] = k]
    PROVE  b \notin InUse /\ InUse' = InUse \cup {b}
BY DEF InUse

(* One client block leaves those in use. *)
LEMMA InUseShrinks ==
    ASSUME NEW b \in Blocks, live[b] # Null,
           live \in [Blocks -> Classes \cup {Oversized, Null}],
           live' = [live EXCEPT ![b] = Null]
    PROVE  b \in InUse /\ InUse' = InUse \ {b}
BY DEF InUse

LEMMA StepRefines == Inv /\ [Next]_vars => [Contract!Next]_(Contract!vars)
<1> SUFFICES ASSUME Inv, [Next]_vars PROVE [Contract!Next]_(Contract!vars)
    OBVIOUS
<1>a. /\ live \in [Blocks -> Classes \cup {Oversized, Null}]
      /\ Contract!Blocks = Blocks
      BY DEF Inv, TypeOK, Contract!Blocks, Blocks
<1>1. ASSUME NEW k \in Classes, AllocateFromChunk(k) PROVE Contract!Next
  <2> DEFINE c == Candidate(k)
  <2>1. c \in Listed(k) /\ chunk[c].free_count # 0
        BY <1>1, CandidateChunk DEF AllocateFromChunk
  <2>2. TakeBlock(k, c, chunks[k], chunk) /\ held' = held
        BY <1>1 DEF AllocateFromChunk
  <2> HIDE DEF c
  <2>3. /\ c \in Regions /\ c \in held /\ chunks[k] \in Seq(Regions)
        /\ chunk \in [Regions -> ChunkHeader]
        BY <2>1 DEF Inv, TypeOK, Listed, ToSet, UpstreamConserved
  <2>4. CanTake(k, c, chunks[k], chunk)
        BY <2>1 DEF Inv, CanTake, TypeOK, BlockAccounting, SlotNamesChunk, Listed, ToSet
  <2>5. TakenFrom(k, c, chunks[k], chunk)
        BY <2>2, <2>3, <2>4, TakeBlockStep
  <2>6. PICK n \in Indexes : live[<<c, n>>] = Null /\ live' = [live EXCEPT ![<<c, n>>] = k]
        BY <2>5 DEF TakenFrom
  <2>7. <<c, n>> \in Blocks /\ <<c, n>>[1] = c
        BY <2>3 DEF Blocks
  <2>8. Contract!Allocate(<<c, n>>)
        BY <1>a, <2>2, <2>3, <2>6, <2>7, InUseGrows, NullAssumption DEF Contract!Allocate
  <2>9. QED BY <1>a, <2>7, <2>8 DEF Contract!Next
<1>2. ASSUME NEW k \in Classes, AllocateThrows(k) PROVE UNCHANGED Contract!vars
      BY <1>2 DEF AllocateThrows, Contract!vars, InUse
<1>3. ASSUME NEW k \in Classes, NEW r \in Regions, AllocateFromNewChunk(k, r)
      PROVE  Contract!Next
  <2>1. r \notin held /\ held' = held \cup {r}
        BY <1>3 DEF AllocateFromNewChunk
  <2>2. live' = [live EXCEPT ![<<r, 0>>] = k]
        BY <1>3 DEF AllocateFromNewChunk, TakeBlock, Inv, TypeOK
  <2>3. 0 \in Indexes /\ <<r, 0>> \in Blocks /\ <<r, 0>>[1] = r
        BY CapacityAssumption DEF Indexes, Blocks
  <2>4. live[<<r, 0>>] = Null
        BY <2>1, <2>3, NotHeld
  <2>5. Contract!Allocate(<<r, 0>>)
        BY <1>a, <2>1, <2>2, <2>3, <2>4, InUseGrows, NullAssumption DEF Contract!Allocate
  <2>6. QED BY <1>a, <2>3, <2>5 DEF Contract!Next
<1>4. ASSUME NEW k \in Classes, NEW b \in Blocks, DeallocateToChunk(k, b) PROVE Contract!Next
  <2>1. live[b] # Null /\ live' = [live EXCEPT ![b] = Null] /\ held' = held
        BY <1>4, NullAssumption DEF DeallocateToChunk, ReleasesChunk
  <2>2. Contract!Deallocate(b)
        BY <1>a, <2>1, InUseShrinks DEF Contract!Deallocate
  <2>3. QED BY <1>a, <2>2 DEF Contract!Next
<1>5. ASSUME NEW k \in Classes, NEW b \in Blocks, DeallocateReleasesChunk(k, b)
      PROVE  Contract!Next
  <2>1. /\ live[b] = k /\ k # Null /\ live' = [live EXCEPT ![b] = Null]
        /\ slot[b] = b[1] /\ held' = held \ {b[1]}
        /\ chunk[b[1]].free_count + 1 = chunk[b[1]].capacity
        BY <1>5, LiveBlock, NullAssumption DEF DeallocateReleasesChunk, ReleasesChunk, HintWithout
  <2>2. b \in InUse /\ InUse' = InUse \ {b}
        BY <1>a, <2>1, InUseShrinks
  <2>3. \A i \in Indexes : i # b[2] => live[<<b[1], i>>] = Null
        BY <2>1, LastBlock
  <2>4. \A other \in InUse' : other[1] # b[1]
    <3>1. \A x \in Blocks : x = <<x[1], x[2]>> /\ x[2] \in Indexes
          BY DEF Blocks
    <3>2. QED BY <2>2, <2>3, <3>1 DEF InUse
  <2>5. Contract!Deallocate(b)
        BY <2>1, <2>2, <2>4 DEF Contract!Deallocate
  <2>6. QED BY <1>a, <2>5 DEF Contract!Next
<1>6. ASSUME NEW r \in Regions, AllocateOversized(r) PROVE Contract!Next
  <2>1. r \notin held /\ held' = held \cup {r} /\ live' = [live EXCEPT ![<<r, 0>>] = Oversized]
        BY <1>6 DEF AllocateOversized
  <2>2. 0 \in Indexes /\ <<r, 0>> \in Blocks /\ <<r, 0>>[1] = r
        BY CapacityAssumption DEF Indexes, Blocks
  <2>3. live[<<r, 0>>] = Null
        BY <2>1, <2>2, NotHeld
  <2>4. Contract!Allocate(<<r, 0>>)
        BY <1>a, <2>1, <2>2, <2>3, InUseGrows, NullAssumption DEF Contract!Allocate
  <2>5. QED BY <1>a, <2>2, <2>4 DEF Contract!Next
<1>7. ASSUME NEW r \in Regions, DeallocateOversized(r) PROVE Contract!Next
  <2>1. /\ live[<<r, 0>>] = Oversized /\ held' = held \ {r}
        /\ live' = [live EXCEPT ![<<r, 0>>] = Null]
        BY <1>7 DEF DeallocateOversized, PrevWithout
  <2>2. 0 \in Indexes /\ <<r, 0>> \in Blocks /\ <<r, 0>>[1] = r
        BY CapacityAssumption DEF Indexes, Blocks
  <2>3. <<r, 0>> \in InUse /\ InUse' = InUse \ {<<r, 0>>}
        BY <1>a, <2>1, <2>2, InUseShrinks, NullAssumption
  <2>4. \A other \in InUse' : other[1] # r
    <3>1. \A x \in Blocks : x = <<x[1], x[2]>> /\ x[2] \in Indexes /\ x[1] \in Regions
          BY DEF Blocks
    <3>2. r \in Big /\ \A k \in Classes : r \notin Listed(k)
          BY <2>1 DEF Big, Inv, UpstreamConserved
    <3>3. \A x \in Blocks : x[1] = r /\ live[x] # Null => x = <<r, 0>>
          BY <1>a, <3>1, <3>2 DEF Inv, LiveListed
    <3>4. QED BY <2>3, <3>3 DEF InUse
  <2>5. Contract!Deallocate(<<r, 0>>)
        BY <2>1, <2>2, <2>3, <2>4 DEF Contract!Deallocate
  <2>6. QED BY <1>a, <2>2, <2>5 DEF Contract!Next
<1>8. CASE Release
  <2>1. Init'
        BY <1>8, ReleaseEmpties
  <2>2. held' = {} /\ InUse' = {}
        BY <2>1 DEF Init, InUse
  <2>3. QED BY <2>2 DEF Contract!Next, Contract!Release
<1>9. CASE UNCHANGED vars
      BY <1>9 DEF vars, Contract!vars, InUse
<1>10. QED BY <1>1, <1>2, <1>3, <1>4, <1>5, <1>6, <1>7, <1>8, <1>9 DEF Next

(* The pool resource implements the contract of a memory_resource: no      *)
(* block is handed out twice, and no region with a live block goes back.   *)
THEOREM Refinement == Spec => ContractSpec
<1>1. Init => Contract!Init
      BY DEF Init, Contract!Init, InUse
<1>2. QED BY <1>1, StepRefines, Invariance, PTL DEF Spec, ContractSpec, Contract!Spec

-----------------------------------------------------------------------------
(* All blocks of a full chunk are in clients' hands. *)
LEMMA FullChunk ==
    ASSUME Inv, NEW k \in Classes, NEW c \in Listed(k), chunk[c].free_count = 0
    PROVE  Cardinality(Taken(c)) = chunk[c].capacity
<1> DEFINE h == chunk[c]
<1>a. chunks[k] \in Seq(Regions) /\ c \in ToSet(chunks[k])
      BY DEF Inv, TypeOK, Listed
<1>b. c \in Regions
      BY <1>a DEF ToSet
<1>c. Accounted(k, c, h, live)
      BY DEF Inv, BlockAccounting
<1>1. c \in Regions /\ Accounted(k, c, h, live)
      BY <1>b, <1>c
<1>2. /\ h.capacity \in 0 .. MaxBlocks /\ h.next_index \in 0 .. MaxBlocks
      /\ h.free_count = 0 /\ h.free_list \in Seq(Indexes)
      BY <1>1 DEF Inv, TypeOK, ChunkHeader
<1> HIDE DEF h
<1>3. Len(h.free_list) \in Nat
      BY <1>2
<1>4. h.next_index <= h.capacity /\ 0 = (h.capacity - h.next_index) + Len(h.free_list)
      BY <1>1, <1>2 DEF Accounted
<1>5. h.next_index = h.capacity /\ Len(h.free_list) = 0
      BY <1>2, <1>3, <1>4, CapacityAssumption
<1>6. h.free_list = <<>>
      BY <1>2, <1>5
<1>7. \A i \in Indexes : live[<<c, i>>] # Null <=> i < h.capacity
      BY <1>1, <1>5, <1>6, NullAssumption DEF Accounted, ToSet
<1>8. Taken(c) = 0 .. h.capacity - 1
  <2>1. Taken(c) = {i \in Indexes : i < h.capacity}
        BY <1>7 DEF Taken
  <2>2. QED BY <1>2, <2>1, CapacityAssumption DEF Indexes
<1>9. Cardinality(0 .. h.capacity - 1) = h.capacity
  <2>1. \A m \in Nat : Cardinality(0 .. m - 1) = m
    <3>1. \A m \in Nat : Cardinality(0 .. m - 1) = IF 0 > m - 1 THEN 0 ELSE (m - 1) - 0 + 1
          BY FS_Interval
    <3>2. QED BY <3>1
  <2>2. h.capacity \in Nat
        BY <1>2, CapacityAssumption
  <2>3. QED BY <2>1, <2>2
<1>10. QED BY <1>8, <1>9 DEF h

(* Upstream is asked for another chunk only when every block of the pool   *)
(* is taken, whatever the order in which blocks came back.                 *)
THEOREM NoEarlyChunk == Spec => NewChunkOnlyWhenFull
<1> DEFINE A == \A k \in Classes :
                   Len(chunks'[k]) > Len(chunks[k]) =>
                       \A c \in Listed(k) : Cardinality(Taken(c)) = chunk[c].capacity
<1>1. ASSUME Inv, Next PROVE A
  <2>1. chunks \in [Classes -> Seq(Regions)]
        BY <1>1 DEF Inv, TypeOK
  <2>2. \A k \in Classes : Len(chunks[k]) \in Nat
        BY <2>1
  <2>3. ASSUME NEW m \in Classes, NEW r \in Regions, AllocateFromNewChunk(m, r) PROVE A
    <3>1. \A k \in Classes \ {m} : chunks'[k] = chunks[k]
          BY <2>1, <2>3 DEF AllocateFromNewChunk
    <3>2. \A c \in Listed(m) : Cardinality(Taken(c)) = chunk[c].capacity
          BY <1>1, <2>3, CandidateChunk, FullChunk DEF AllocateFromNewChunk
    <3>3. QED BY <2>2, <3>1, <3>2
  <2>4. ASSUME NEW m \in Classes, NEW b \in Blocks, DeallocateReleasesChunk(m, b) PROVE A
    <3> DEFINE rest == RemoveFirst(chunks[m], b[1])
    <3>1. live[b] = m
          BY <2>4 DEF DeallocateReleasesChunk, ReleasesChunk, HintWithout
    <3>2. slot[b] = b[1] /\ b[1] \in Listed(m)
          BY <1>1, <3>1, LiveBlock
    <3>3. chunks' = [chunks EXCEPT ![m] = rest]
          BY <2>4, <3>2 DEF DeallocateReleasesChunk, ReleasesChunk, HintWithout
    <3>4. IsInjective(chunks[m]) /\ b[1] \in ToSet(chunks[m])
          BY <1>1, <3>2 DEF Inv, UpstreamConserved, Listed
    <3>5. Len(rest) = Len(chunks[m]) - 1
          BY <2>1, <3>4, RemoveFirstOfDistinct
    <3> HIDE DEF rest
    <3>6. \A k \in Classes \ {m} : chunks'[k] = chunks[k]
          BY <2>1, <3>3
    <3>7. chunks'[m] = rest
          BY <2>1, <3>3
    <3>8. QED BY <2>2, <3>5, <3>6, <3>7
  <2>5. CASE Release
    <3>1. \A k \in Classes : chunks'[k] = <<>> /\ Len(chunks'[k]) = 0
          BY <2>5 DEF Release
    <3>2. QED BY <2>2, <3>1
  <2>6. ASSUME chunks' = chunks PROVE A
        BY <2>2, <2>6
  <2>7. QED BY <1>1, <2>3, <2>4, <2>5, <2>6
            DEF Next, AllocateFromChunk, AllocateThrows, DeallocateToChunk,
                AllocateOversized, DeallocateOversized, poolVars
<1>2. Inv /\ [Next]_vars => [A]_vars
      BY <1>1
<1>3. QED BY <1>2, Invariance, PTL DEF Spec, NewChunkOnlyWhenFull
=============================================================================
