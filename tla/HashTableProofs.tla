-------------------------- MODULE HashTableProofs ---------------------------
(* Theorems about HashTable for any tables, nodes, keys, hashers and       *)
(* bucket counts.                                                          *)
EXTENDS HashTable, FiniteSetTheorems, WellFoundedInduction, TLAPS

-----------------------------------------------------------------------------
(* The least and the greatest element of a set of numbers. *)
Below == {p \in Nat \X Nat : p[1] < p[2]}

LEMMA BelowWellFounded == IsWellFoundedOn(Below, Nat)
<1>1. OpToRel(<, Nat) = Below
      BY DEF OpToRel, Below
<1>2. QED BY <1>1, NatLessThanWellFounded

LEMMA Least ==
    ASSUME NEW T, T \subseteq Nat, T # {}
    PROVE  Min(T) \in T /\ \A x \in T : Min(T) <= x
<1>1. PICK m \in T : \A x \in T : ~(<<x, m>> \in Below)
      BY BelowWellFounded, WFMin
<1>2. ASSUME NEW x \in T PROVE m <= x
  <2>1. x \in Nat /\ m \in Nat
        OBVIOUS
  <2>2. <<x, m>> \in Nat \X Nat
        BY <2>1
  <2>3. ~(x < m)
        BY <1>1, <2>2 DEF Below
  <2>4. QED BY <2>1, <2>3
<1>3. QED BY <1>2 DEF Min

LEMMA Greatest ==
    ASSUME NEW bound \in Nat, NEW T, T \subseteq 0 .. bound, T # {}
    PROVE  Max(T) \in T /\ \A x \in T : x <= Max(T)
<1> DEFINE U == {bound - x : x \in T}
<1>1. U \subseteq Nat /\ U # {}
      OBVIOUS
<1>2. Min(U) \in U /\ \A y \in U : Min(U) <= y
      BY <1>1, Least
<1>3. PICK m \in T : Min(U) = bound - m
      BY <1>2
<1>4. ASSUME NEW x \in T PROVE x <= m
  <2>1. bound - x \in U
        OBVIOUS
  <2>2. bound - m <= bound - x
        BY <1>2, <1>3, <2>1
  <2>3. QED BY <2>2
<1>5. QED BY <1>4 DEF Max

-----------------------------------------------------------------------------
(* What the proofs say about sequences without repetitions: which elements *)
(* they have, and which comes before which.                                *)
Precedes(s, m, n) == \E i, j \in 1 .. Len(s) : i < j /\ s[i] = m /\ s[j] = n

LEMMA Elements ==
    ASSUME NEW s, NEW S, s \in Seq(S)
    PROVE  ToSet(s) = {s[i] : i \in 1 .. Len(s)} /\ ToSet(s) \subseteq S
BY DEF ToSet

LEMMA Index ==
    ASSUME NEW s, NEW S, s \in Seq(S), NEW n
    PROVE  n \in ToSet(s) <=> \E i \in 1 .. Len(s) : s[i] = n
BY Elements

(* One element has one place. *)
LEMMA Places ==
    ASSUME NEW s, NEW S, s \in Seq(S), IsInjective(s)
    PROVE  \A i, j \in 1 .. Len(s) : s[i] = s[j] => i = j
BY DEF IsInjective

LEMMA Total ==
    ASSUME NEW s, NEW S, s \in Seq(S), IsInjective(s)
    PROVE  /\ \A m, n : Precedes(s, m, n) => m \in ToSet(s) /\ n \in ToSet(s) /\ ~Precedes(s, n, m)
           /\ \A m, n \in ToSet(s) : m = n \/ Precedes(s, m, n) \/ Precedes(s, n, m)
           /\ \A m, n, x : Precedes(s, m, n) /\ Precedes(s, n, x) => Precedes(s, m, x)
<1>1. \A i, j \in 1 .. Len(s) : s[i] = s[j] => i = j
      BY Places
<1>2. Len(s) \in Nat
      OBVIOUS
<1>3. ASSUME NEW m, NEW n, Precedes(s, m, n)
      PROVE  m \in ToSet(s) /\ n \in ToSet(s) /\ ~Precedes(s, n, m)
      BY <1>1, <1>2, <1>3, Index DEF Precedes
<1>4. ASSUME NEW m \in ToSet(s), NEW n \in ToSet(s)
      PROVE  m = n \/ Precedes(s, m, n) \/ Precedes(s, n, m)
  <2>1. PICK i, j \in 1 .. Len(s) : s[i] = m /\ s[j] = n
        BY Index
  <2>2. i < j \/ i = j \/ j < i
        BY <1>2
  <2>3. QED BY <2>1, <2>2 DEF Precedes
<1>5. ASSUME NEW m, NEW n, NEW x, Precedes(s, m, n), Precedes(s, n, x)
      PROVE  Precedes(s, m, x)
  <2>1. PICK i, j \in 1 .. Len(s) : i < j /\ s[i] = m /\ s[j] = n
        BY <1>5 DEF Precedes
  <2>2. PICK k, l \in 1 .. Len(s) : k < l /\ s[k] = n /\ s[l] = x
        BY <1>5 DEF Precedes
  <2>3. j = k
        BY <1>1, <2>1, <2>2
  <2>4. i < l
        BY <1>2, <2>1, <2>2, <2>3
  <2>5. QED BY <2>1, <2>2, <2>4 DEF Precedes
<1>6. QED BY <1>3, <1>4, <1>5

LEMMA EmptyList ==
    /\ IsInjective(<<>>) /\ ToSet(<<>>) = {} /\ Len(<<>>) = 0
    /\ \A S : <<>> \in Seq(S)
    /\ \A m, n : ~Precedes(<<>>, m, n)
BY DEF IsInjective, ToSet, Precedes

LEMMA NoElements ==
    ASSUME NEW s, NEW S, s \in Seq(S), ToSet(s) = {}
    PROVE  s = <<>>
<1>1. \A i \in 1 .. Len(s) : FALSE
      BY Index
<1>2. Len(s) = 0
      BY <1>1
<1>3. QED BY <1>2

-----------------------------------------------------------------------------
(* Filtering: the steps of the recursion, and what the prefixes turn into. *)
Steps(F, s, P, n) ==
    F = [i \in 0 .. n |-> IF i = 0 THEN <<>>
                         ELSE IF s[i] \in P THEN Append(F[i - 1], s[i]) ELSE F[i - 1]]

LEMMA StepsExist ==
    ASSUME NEW s, NEW S, s \in Seq(S), NEW P
    PROVE  \E F : Steps(F, s, P, Len(s))
<1> DEFINE Bad == {n \in 0 .. Len(s) : \A F : ~Steps(F, s, P, n)}
<1>1. SUFFICES ASSUME Bad # {} PROVE FALSE
  <2>1. Len(s) \in 0 .. Len(s)
        OBVIOUS
  <2>2. QED BY <2>1
<1>2. PICK m \in Bad : \A x \in Bad : m <= x
  <2>1. Bad \subseteq Nat
        OBVIOUS
  <2> HIDE DEF Bad
  <2>2. QED BY <1>1, <2>1, Least
<1>3. m \in Nat /\ m <= Len(s) /\ \A F : ~Steps(F, s, P, m)
      OBVIOUS
<1>4. m # 0
  <2>1. Steps([i \in 0 .. 0 |-> <<>>], s, P, 0)
        BY DEF Steps
  <2>2. QED BY <1>3, <2>1
<1>5. m - 1 \notin Bad /\ m - 1 \in 0 .. Len(s)
  <2>1. m - 1 \in 0 .. Len(s) /\ ~(m <= m - 1)
        BY <1>3, <1>4
  <2>2. QED BY <1>2, <2>1
<1>6. PICK F : Steps(F, s, P, m - 1)
      BY <1>5
<1> DEFINE last == IF s[m] \in P THEN Append(F[m - 1], s[m]) ELSE F[m - 1]
           G    == [i \in 0 .. m |-> IF i = m THEN last ELSE F[i]]
<1>7. Steps(G, s, P, m)
  <2>1. ASSUME NEW i \in 0 .. m
        PROVE  G[i] = IF i = 0 THEN <<>>
                      ELSE IF s[i] \in P THEN Append(G[i - 1], s[i]) ELSE G[i - 1]
    <3>1. CASE i = m
          BY <1>3, <1>4, <3>1
    <3>2. CASE i # m
      <4>1. i \in 0 .. m - 1 /\ i - 1 # m
            BY <1>3, <3>2
      <4>2. F[i] = IF i = 0 THEN <<>>
                   ELSE IF s[i] \in P THEN Append(F[i - 1], s[i]) ELSE F[i - 1]
            BY <1>6, <4>1 DEF Steps
      <4>3. i # 0 => G[i - 1] = F[i - 1]
            BY <1>3, <4>1
      <4>4. QED BY <3>2, <4>1, <4>2, <4>3
    <3>3. QED BY <3>1, <3>2
  <2>2. QED BY <2>1, Zenon DEF Steps
<1>8. QED BY <1>3, <1>7

(* A filtered sequence is embedded in the one it comes from. *)
Embeds(r, s, P, n, e) ==
    /\ e \in [1 .. Len(r) -> 1 .. n]
    /\ \A i \in 1 .. Len(r) : r[i] = s[e[i]] /\ s[e[i]] \in P
    /\ \A i, j \in 1 .. Len(r) : i < j => e[i] < e[j]
    /\ \A p \in 1 .. n : s[p] \in P => \E i \in 1 .. Len(r) : e[i] = p

LEMMA EmbedsNext ==
    ASSUME NEW s, NEW S, s \in Seq(S), NEW P, NEW n \in 1 .. Len(s), NEW r \in Seq(S), NEW e,
           Embeds(r, s, P, n - 1, e),
           NEW t, t = IF s[n] \in P THEN Append(r, s[n]) ELSE r
    PROVE  t \in Seq(S) /\ \E f : Embeds(t, s, P, n, f)
<1>1. n \in Nat /\ n > 0 /\ Len(r) \in Nat
      OBVIOUS
<1>2. CASE s[n] \notin P
  <2>1. t = r
        BY <1>2
  <2>2. e \in [1 .. Len(r) -> 1 .. n] /\ \A p \in 1 .. n : s[p] \in P => p \in 1 .. n - 1
        BY <1>1, <1>2 DEF Embeds
  <2>3. Embeds(r, s, P, n, e)
        BY <2>2 DEF Embeds
  <2>4. QED BY <2>1, <2>3
<1>3. CASE s[n] \in P
  <2> DEFINE f == [i \in 1 .. Len(r) + 1 |-> IF i = Len(r) + 1 THEN n ELSE e[i]]
  <2>1. t \in Seq(S) /\ Len(t) = Len(r) + 1 /\ t[Len(r) + 1] = s[n]
        /\ \A i \in 1 .. Len(r) : t[i] = r[i]
        BY <1>3
  <2>2. f \in [1 .. Len(t) -> 1 .. n]
        BY <1>1, <2>1 DEF Embeds
  <2>3. \A i \in 1 .. Len(t) : t[i] = s[f[i]] /\ s[f[i]] \in P
        BY <1>1, <1>3, <2>1 DEF Embeds
  <2>4. ASSUME NEW i \in 1 .. Len(t), NEW j \in 1 .. Len(t), i < j
        PROVE  f[i] < f[j]
    <3>1. i \in 1 .. Len(r) /\ e[i] \in 1 .. n - 1 /\ f[i] = e[i]
          BY <1>1, <2>1, <2>4 DEF Embeds
    <3>2. CASE j = Len(r) + 1
          BY <1>1, <3>1, <3>2
    <3>3. CASE j # Len(r) + 1
      <4>1. j \in 1 .. Len(r) /\ f[j] = e[j]
            BY <1>1, <2>1, <3>3
      <4>2. QED BY <2>4, <3>1, <4>1 DEF Embeds
    <3>4. QED BY <3>2, <3>3
  <2>5. ASSUME NEW p \in 1 .. n, s[p] \in P PROVE \E i \in 1 .. Len(t) : f[i] = p
    <3>1. CASE p = n
          BY <1>1, <2>1, <3>1
    <3>2. CASE p # n
      <4>1. PICK i \in 1 .. Len(r) : e[i] = p
            BY <1>1, <2>5, <3>2 DEF Embeds
      <4>2. i \in 1 .. Len(t) /\ f[i] = p
            BY <1>1, <2>1, <4>1
      <4>3. QED BY <4>2
    <3>3. QED BY <3>1, <3>2
  <2>6. Embeds(t, s, P, n, f)
        BY <2>2, <2>3, <2>4, <2>5 DEF Embeds
  <2>7. QED BY <2>1, <2>6
<1>4. QED BY <1>2, <1>3

LEMMA WithinEmbeds ==
    ASSUME NEW s, NEW S, s \in Seq(S), NEW P
    PROVE  Within(s, P) \in Seq(S) /\ \E e : Embeds(Within(s, P), s, P, Len(s), e)
<1> DEFINE F == CHOOSE F : Steps(F, s, P, Len(s))
<1>1. Within(s, P) = F[Len(s)]
      BY DEF Within, Steps
<1>2. Steps(F, s, P, Len(s))
      BY StepsExist
<1> HIDE DEF F
<1> DEFINE Good(n) == F[n] \in Seq(S) /\ \E e : Embeds(F[n], s, P, n, e)
           Bad     == {n \in 0 .. Len(s) : ~Good(n)}
<1>3. Len(s) \in Nat
      OBVIOUS
<1>4. SUFFICES ASSUME Bad # {} PROVE FALSE
  <2>1. Len(s) \in 0 .. Len(s)
        BY <1>3
  <2>2. QED BY <1>1, <2>1
<1>5. PICK m \in Bad : \A x \in Bad : m <= x
  <2>1. Bad \subseteq Nat
        OBVIOUS
  <2> HIDE DEF Bad
  <2>2. QED BY <1>4, <2>1, Least
<1>6. m \in Nat /\ m <= Len(s) /\ ~Good(m)
      OBVIOUS
<1>7. m # 0
  <2>1. F[0] = <<>>
        BY <1>2, <1>3 DEF Steps
  <2>2. Embeds(<<>>, s, P, 0, [i \in 1 .. 0 |-> 0])
        BY DEF Embeds
  <2>3. Good(0)
        BY <2>1, <2>2
  <2>4. QED BY <1>6, <2>3
<1>8. m - 1 \in 0 .. Len(s) /\ Good(m - 1)
  <2>1. m - 1 \in 0 .. Len(s) /\ ~(m <= m - 1)
        BY <1>3, <1>6, <1>7
  <2>2. m - 1 \notin Bad
        BY <1>5, <2>1
  <2>3. QED BY <2>1, <2>2
<1>9. F[m] = IF s[m] \in P THEN Append(F[m - 1], s[m]) ELSE F[m - 1]
      BY <1>2, <1>6, <1>7 DEF Steps
<1>10. Good(m)
  <2>1. PICK e : Embeds(F[m - 1], s, P, m - 1, e)
        BY <1>8
  <2>2. m \in 1 .. Len(s) /\ F[m - 1] \in Seq(S)
        BY <1>6, <1>7, <1>8
  <2> HIDE DEF Good, Bad
  <2>3. F[m] \in Seq(S) /\ \E f : Embeds(F[m], s, P, m, f)
        BY <1>9, <2>1, <2>2, EmbedsNext, ZenonT(40)
  <2>4. QED BY <2>3 DEF Good
<1>11. QED BY <1>6, <1>10

(* Filtering keeps the elements of P, their order and their uniqueness. *)
LEMMA Filtered ==
    ASSUME NEW s, NEW S, s \in Seq(S), NEW P
    PROVE  LET r == Within(s, P)
           IN  /\ r \in Seq(S)
               /\ ToSet(r) = ToSet(s) \cap P
               /\ IsInjective(s) => IsInjective(r)
               /\ \A m, n : Precedes(r, m, n) => m \in P /\ n \in P /\ Precedes(s, m, n)
               /\ IsInjective(s) => \A m, n \in P : Precedes(s, m, n) => Precedes(r, m, n)
<1> DEFINE r == Within(s, P)
<1>1. r \in Seq(S)
      BY WithinEmbeds
<1>2. PICK e : Embeds(r, s, P, Len(s), e)
      BY WithinEmbeds
<1> HIDE DEF r
<1>3. Len(r) \in Nat /\ Len(s) \in Nat
      BY <1>1
<1>4. /\ e \in [1 .. Len(r) -> 1 .. Len(s)]
      /\ \A i \in 1 .. Len(r) : r[i] = s[e[i]] /\ s[e[i]] \in P
      /\ \A i, j \in 1 .. Len(r) : i < j => e[i] < e[j]
      /\ \A p \in 1 .. Len(s) : s[p] \in P => \E i \in 1 .. Len(r) : e[i] = p
      BY <1>2 DEF Embeds
<1>5. ToSet(r) = ToSet(s) \cap P
  <2>1. \A n : n \in ToSet(r) => n \in ToSet(s) /\ n \in P
        BY <1>1, <1>4, Index
  <2>2. ASSUME NEW n \in ToSet(s), n \in P PROVE n \in ToSet(r)
    <3>1. PICK p \in 1 .. Len(s) : s[p] = n
          BY Index
    <3>2. PICK i \in 1 .. Len(r) : e[i] = p
          BY <1>4, <2>2, <3>1
    <3>3. r[i] = n
          BY <1>4, <3>1, <3>2
    <3>4. QED BY <1>1, <3>3, Index
  <2>3. QED BY <2>1, <2>2
<1>6. ASSUME IsInjective(s) PROVE IsInjective(r)
  <2>1. ASSUME NEW i \in 1 .. Len(r), NEW j \in 1 .. Len(r), r[i] = r[j]
        PROVE  i = j
    <3>1. e[i] = e[j]
          BY <1>4, <1>6, <2>1, Places
    <3>2. ~(i < j) /\ ~(j < i)
          BY <1>3, <1>4, <3>1
    <3>3. QED BY <1>3, <3>2
  <2>2. QED BY <1>1, <2>1 DEF IsInjective
<1>7. \A m, n : Precedes(r, m, n) => m \in P /\ n \in P /\ Precedes(s, m, n)
  <2>1. ASSUME NEW m, NEW n, Precedes(r, m, n)
        PROVE  m \in P /\ n \in P /\ Precedes(s, m, n)
    <3>1. PICK i, j \in 1 .. Len(r) : i < j /\ r[i] = m /\ r[j] = n
          BY <2>1 DEF Precedes
    <3>2. e[i] \in 1 .. Len(s) /\ e[j] \in 1 .. Len(s) /\ e[i] < e[j]
          BY <1>4, <3>1
    <3>3. QED BY <1>4, <3>1, <3>2 DEF Precedes
  <2>2. QED BY <2>1
<1>8. ASSUME IsInjective(s), NEW m \in P, NEW n \in P, Precedes(s, m, n)
      PROVE  Precedes(r, m, n)
  <2>1. PICK p, q \in 1 .. Len(s) : p < q /\ s[p] = m /\ s[q] = n
        BY <1>8 DEF Precedes
  <2>2. PICK i \in 1 .. Len(r) : e[i] = p
        BY <1>4, <1>8, <2>1
  <2>3. PICK j \in 1 .. Len(r) : e[j] = q
        BY <1>4, <1>8, <2>1
  <2>4. r[i] = m /\ r[j] = n
        BY <1>4, <2>1, <2>2, <2>3
  <2>5. i < j
    <3>1. i # j /\ ~(j < i)
          BY <1>3, <1>4, <2>1, <2>2, <2>3
    <3>2. QED BY <1>3, <3>1
  <2>6. QED BY <2>4, <2>5 DEF Precedes
<1>9. QED BY <1>1, <1>5, <1>6, <1>7, <1>8 DEF r

-----------------------------------------------------------------------------
(* Insertion, of which Append is a case. *)
LEMMA Appended ==
    ASSUME NEW s, NEW S, s \in Seq(S), NEW e \in S
    PROVE  Append(s, e) = InsertAt(s, Len(s) + 1, e)
<1> DEFINE r == InsertAt(s, Len(s) + 1, e)
<1>1. Len(s) \in Nat
      OBVIOUS
<1>2. SubSeq(s, 1, (Len(s) + 1) - 1) = s /\ SubSeq(s, Len(s) + 1, Len(s)) = <<>>
      BY <1>1
<1>3. r = (s \o <<e>>) \o <<>>
      BY <1>2 DEF InsertAt
<1>4. QED BY <1>3

(* r is s with e put in at p. *)
Spliced(r, s, p, e) ==
    /\ Len(r) = Len(s) + 1
    /\ \A i \in 1 .. Len(r) : r[i] = IF i < p THEN s[i] ELSE IF i = p THEN e ELSE s[i - 1]

LEMMA InsertedAt ==
    ASSUME NEW s, NEW S, s \in Seq(S), NEW e \in S, NEW p \in 1 .. Len(s) + 1
    PROVE  InsertAt(s, p, e) \in Seq(S) /\ Spliced(InsertAt(s, p, e), s, p, e)
<1> DEFINE a == SubSeq(s, 1, p - 1)
           c == SubSeq(s, p, Len(s))
           r == (a \o <<e>>) \o c
<1>1. Len(s) \in Nat /\ p \in Nat
      OBVIOUS
<1>2. a \in Seq(S) /\ Len(a) = p - 1 /\ \A i \in 1 .. p - 1 : a[i] = s[i]
      BY <1>1
<1>3. c \in Seq(S) /\ Len(c) = Len(s) + 1 - p /\ \A i \in 1 .. Len(s) + 1 - p : c[i] = s[p + i - 1]
      BY <1>1
<1>4. InsertAt(s, p, e) = r
      BY DEF InsertAt
<1> HIDE DEF a, c
<1>5. r \in Seq(S) /\ Len(r) = Len(s) + 1
      BY <1>1, <1>2, <1>3
<1>6. ASSUME NEW i \in 1 .. Len(r)
      PROVE  r[i] = IF i < p THEN s[i] ELSE IF i = p THEN e ELSE s[i - 1]
  <2>1. CASE i < p
        BY <1>1, <1>2, <1>3, <1>5, <2>1
  <2>2. CASE i = p
        BY <1>1, <1>2, <1>3, <1>5, <2>2
  <2>3. CASE i > p
    <3>1. r[i] = c[i - p]
          BY <1>1, <1>2, <1>3, <1>5, <2>3
    <3>2. i - p \in 1 .. Len(s) + 1 - p /\ p + (i - p) - 1 = i - 1
          BY <1>1, <1>5, <2>3
    <3>3. QED BY <1>1, <1>3, <2>3, <3>1, <3>2
  <2>4. QED BY <1>1, <1>5, <2>1, <2>2, <2>3
<1> HIDE DEF r
<1>7. QED BY <1>4, <1>5, <1>6 DEF Spliced

(* The elements in front of position p of s. *)
Ahead(s, p) == {s[i] : i \in {j \in 1 .. Len(s) : j < p}}

LEMMA Inserted ==
    ASSUME NEW s, NEW S, s \in Seq(S), IsInjective(s), NEW e \in S, e \notin ToSet(s),
           NEW p \in 1 .. Len(s) + 1
    PROVE  LET r == InsertAt(s, p, e)
           IN  /\ r \in Seq(S) /\ Len(r) = Len(s) + 1
               /\ ToSet(r) = ToSet(s) \cup {e} /\ IsInjective(r)
               /\ \A m, n : Precedes(r, m, n) <=>
                      \/ Precedes(s, m, n)
                      \/ n = e /\ m \in Ahead(s, p)
                      \/ m = e /\ n \in ToSet(s) \ Ahead(s, p)
<1> DEFINE r == InsertAt(s, p, e)
           Up == [i \in 1 .. Len(s) |-> IF i < p THEN i ELSE i + 1]
<1>1. /\ r \in Seq(S) /\ Len(r) = Len(s) + 1
      /\ \A i \in 1 .. Len(r) : r[i] = IF i < p THEN s[i] ELSE IF i = p THEN e ELSE s[i - 1]
  <2>1. r \in Seq(S) /\ Spliced(r, s, p, e)
        BY InsertedAt
  <2> HIDE DEF r
  <2>2. QED BY <2>1 DEF Spliced
<1> HIDE DEF r
<1>2. Len(s) \in Nat /\ p \in Nat
      OBVIOUS
<1>3. \A i \in 1 .. Len(s) : Up[i] \in 1 .. Len(r) /\ Up[i] # p /\ r[Up[i]] = s[i]
      BY <1>1, <1>2
<1>4. \A i \in 1 .. Len(r) : i = p \/ \E j \in 1 .. Len(s) : Up[j] = i
  <2>1. ASSUME NEW i \in 1 .. Len(r), i # p
        PROVE  \E j \in 1 .. Len(s) : Up[j] = i
    <3>1. CASE i < p
          BY <1>1, <1>2, <3>1
    <3>2. CASE i > p
      <4>1. i - 1 \in 1 .. Len(s) /\ Up[i - 1] = i
            BY <1>1, <1>2, <3>2
      <4>2. QED BY <4>1
    <3>3. QED BY <1>1, <1>2, <2>1, <3>1, <3>2
  <2>2. QED BY <2>1
<1>5. p \in 1 .. Len(r) /\ r[p] = e
      BY <1>1, <1>2
<1>6. ASSUME NEW i \in 1 .. Len(s), NEW j \in 1 .. Len(s)
      PROVE  /\ i < j => Up[i] < Up[j]
             /\ Up[i] < Up[j] => i < j
             /\ i < p => Up[i] < p
             /\ Up[i] < p => i < p
  <2>1. CASE i < p /\ j < p
        BY <1>2, <2>1
  <2>2. CASE i < p /\ ~(j < p)
        BY <1>2, <2>2
  <2>3. CASE ~(i < p) /\ j < p
        BY <1>2, <2>3
  <2>4. CASE ~(i < p) /\ ~(j < p)
        BY <1>2, <2>4
  <2>5. QED BY <2>1, <2>2, <2>3, <2>4
<1> HIDE DEF Up
<1>7. ToSet(r) = ToSet(s) \cup {e}
  <2>1. ASSUME NEW n \in ToSet(r) PROVE n \in ToSet(s) \cup {e}
    <3>1. PICK i \in 1 .. Len(r) : r[i] = n
          BY <1>1, Index
    <3>2. QED BY <1>3, <1>4, <1>5, <3>1, Index, SMTT(40)
  <2>2. ASSUME NEW n \in ToSet(s) PROVE n \in ToSet(r)
    <3>1. PICK i \in 1 .. Len(s) : s[i] = n
          BY Index
    <3>2. QED BY <1>1, <1>3, <3>1, Index
  <2>3. e \in ToSet(r)
        BY <1>1, <1>5, Index
  <2>4. QED BY <2>1, <2>2, <2>3
<1>8. \A j \in 1 .. Len(s) : s[j] # e
      BY Index
<1>9. ASSUME NEW i \in 1 .. Len(r), NEW j \in 1 .. Len(r), r[i] = r[j]
      PROVE  i = j
  <2>1. CASE i = p \/ j = p
        BY <1>3, <1>4, <1>5, <1>8, <1>9, <2>1, SMTT(40)
  <2>2. CASE i # p /\ j # p
        BY <1>3, <1>4, <1>9, <2>2, Places
  <2>3. QED BY <2>1, <2>2
<1>10. IsInjective(r)
       BY <1>1, <1>9 DEF IsInjective
<1>11. \A n : n \in Ahead(s, p) <=> \E j \in 1 .. Len(s) : j < p /\ s[j] = n
       BY DEF Ahead
<1>12. ASSUME NEW m, NEW n, Precedes(r, m, n)
       PROVE  \/ Precedes(s, m, n)
              \/ n = e /\ m \in Ahead(s, p)
              \/ m = e /\ n \in ToSet(s) \ Ahead(s, p)
  <2>1. PICK i, j \in 1 .. Len(r) : i < j /\ r[i] = m /\ r[j] = n
        BY <1>12 DEF Precedes
  <2>2. CASE i = p
    <3>1. PICK k \in 1 .. Len(s) : Up[k] = j
          BY <1>1, <1>2, <1>4, <2>1, <2>2
    <3>2. s[k] = n /\ ~(k < p)
      <4>1. ~(Up[k] < p)
            BY <1>1, <1>2, <2>1, <2>2, <3>1
      <4>2. QED BY <1>3, <1>6, <2>1, <3>1, <4>1
    <3>3. n \notin Ahead(s, p)
      <4>1. SUFFICES ASSUME NEW l \in 1 .. Len(s), l < p, s[l] = n PROVE FALSE
            BY <1>11
      <4>2. l = k
            BY <3>2, <4>1, Places
      <4>3. QED BY <3>2, <4>1, <4>2
    <3>4. n \in ToSet(s)
          BY <3>2, Index
    <3>5. QED BY <1>5, <2>1, <2>2, <3>3, <3>4
  <2>3. CASE j = p
    <3>1. PICK k \in 1 .. Len(s) : Up[k] = i
          BY <1>1, <1>2, <1>4, <2>1, <2>3
    <3>2. s[k] = m /\ k < p
          BY <1>3, <1>6, <2>1, <2>3, <3>1
    <3>3. QED BY <1>5, <1>11, <2>1, <2>3, <3>2
  <2>4. CASE i # p /\ j # p
    <3>1. PICK k \in 1 .. Len(s) : Up[k] = i
          BY <1>4, <2>4
    <3>2. PICK l \in 1 .. Len(s) : Up[l] = j
          BY <1>4, <2>4
    <3>3. k < l /\ s[k] = m /\ s[l] = n
          BY <1>3, <1>6, <2>1, <3>1, <3>2
    <3>4. QED BY <3>3 DEF Precedes
  <2>5. QED BY <2>2, <2>3, <2>4
<1>13. ASSUME NEW m, NEW n, Precedes(s, m, n)
       PROVE  Precedes(r, m, n)
  <2>1. PICK k, l \in 1 .. Len(s) : k < l /\ s[k] = m /\ s[l] = n
        BY <1>13 DEF Precedes
  <2>2. Up[k] < Up[l] /\ r[Up[k]] = m /\ r[Up[l]] = n /\ Up[k] \in 1 .. Len(r) /\ Up[l] \in 1 .. Len(r)
        BY <1>3, <1>6, <2>1
  <2>3. QED BY <2>2 DEF Precedes
<1>14. ASSUME NEW m \in Ahead(s, p)
       PROVE  Precedes(r, m, e)
  <2>1. PICK k \in 1 .. Len(s) : k < p /\ s[k] = m
        BY <1>11
  <2>2. Up[k] < p /\ r[Up[k]] = m /\ Up[k] \in 1 .. Len(r)
        BY <1>3, <1>6, <2>1
  <2>3. QED BY <1>5, <2>2 DEF Precedes
<1>15. ASSUME NEW n \in ToSet(s) \ Ahead(s, p)
       PROVE  Precedes(r, e, n)
  <2>1. PICK k \in 1 .. Len(s) : s[k] = n
        BY Index
  <2>2. ~(k < p)
        BY <1>11, <2>1
  <2>3. Up[k] \in 1 .. Len(r) /\ r[Up[k]] = n /\ p < Up[k]
    <3>1. Up[k] \in 1 .. Len(r) /\ Up[k] # p /\ ~(Up[k] < p) /\ r[Up[k]] = n
          BY <1>3, <1>6, <2>1, <2>2
    <3>2. QED BY <1>1, <1>2, <3>1
  <2>4. QED BY <1>5, <2>3 DEF Precedes
<1>16. QED BY <1>1, <1>7, <1>10, <1>12, <1>13, <1>14, <1>15 DEF r

LEMMA AheadIndex ==
    ASSUME NEW s, NEW S, s \in Seq(S), IsInjective(s), NEW p \in Nat
    PROVE  /\ \A i \in 1 .. Len(s) : i < p => s[i] \in Ahead(s, p)
           /\ \A i \in 1 .. Len(s) : s[i] \in Ahead(s, p) => i < p
           /\ Ahead(s, p) \subseteq ToSet(s)
<1>1. \A i \in 1 .. Len(s) : i < p => s[i] \in Ahead(s, p)
      BY DEF Ahead
<1>2. ASSUME NEW i \in 1 .. Len(s), s[i] \in Ahead(s, p) PROVE i < p
  <2>1. PICK j \in 1 .. Len(s) : j < p /\ s[j] = s[i]
        BY <1>2 DEF Ahead
  <2>2. QED BY <2>1, Places
<1>3. Ahead(s, p) \subseteq ToSet(s)
      BY Index DEF Ahead
<1>4. QED BY <1>1, <1>2, <1>3

-----------------------------------------------------------------------------
(* Elements with the same f are adjacent in s. *)
Grouped(s, f) ==
    \A m, x, n : Precedes(s, m, x) /\ Precedes(s, x, n) /\ f[m] = f[n] => f[x] = f[m]

(* At position p an element with f = k continues the group of k, and does  *)
(* not separate another.                                                   *)
Fits(s, f, k, p) ==
    /\ \A m \in ToSet(s) : f[m] = k =>
          m \in Ahead(s, p) /\ \A x \in Ahead(s, p) : Precedes(s, m, x) => f[x] = k
    /\ \A m \in Ahead(s, p), x \in ToSet(s) \ Ahead(s, p) : f[m] # f[x]

LEMMA RunOf ==
    ASSUME NEW s, NEW S, s \in Seq(S), NEW P, NEW n \in ToSet(s)
    PROVE  LET first == CHOOSE i \in 1 .. Len(s) : s[i] = n
               p     == LastOfRun(s, n, P)
           IN  /\ first \in 1 .. Len(s) /\ s[first] = n
               /\ p \in first .. Len(s) /\ \A j \in first + 1 .. p : s[j] \in P
               /\ p < Len(s) => s[p + 1] \notin P
<1> DEFINE first == CHOOSE i \in 1 .. Len(s) : s[i] = n
           runs  == {i \in first .. Len(s) : \A j \in first + 1 .. i : s[j] \in P}
<1>1. first \in 1 .. Len(s) /\ s[first] = n
      BY Index
<1> HIDE DEF first
<1>2. LastOfRun(s, n, P) = Max(runs)
      BY DEF LastOfRun, first
<1>3. Len(s) \in Nat
      OBVIOUS
<1>4. first \in runs
      BY <1>1, <1>3
<1>5. Max(runs) \in runs /\ \A x \in runs : x <= Max(runs)
  <2>1. runs \subseteq 0 .. Len(s) /\ runs # {}
        BY <1>1, <1>3, <1>4
  <2> HIDE DEF runs
  <2>2. QED BY <1>3, <2>1, Greatest
<1> DEFINE p == Max(runs)
<1>6. p \in first .. Len(s) /\ \A j \in first + 1 .. p : s[j] \in P
      BY <1>5
<1>7. \A x \in runs : x <= p
      BY <1>5
<1> HIDE DEF p
<1>8. ASSUME p < Len(s), s[p + 1] \in P PROVE FALSE
  <2>1. p + 1 \in first .. Len(s)
        BY <1>1, <1>3, <1>6, <1>8
  <2>2. \A j \in first + 1 .. p + 1 : j \in first + 1 .. p \/ j = p + 1
        BY <1>1, <1>3, <1>6
  <2>3. p + 1 \in runs
        BY <1>6, <1>8, <2>1, <2>2
  <2>4. p + 1 <= p
        BY <1>7, <2>3
  <2>5. QED BY <1>1, <1>3, <1>6, <2>4
<1>9. QED BY <1>1, <1>2, <1>6, <1>8 DEF p, first

LEMMA RunEnds ==
    ASSUME NEW s, NEW S, s \in Seq(S), IsInjective(s), NEW P, NEW n \in ToSet(s)
    PROVE  LET p == LastOfRun(s, n, P)
           IN  /\ p \in 1 .. Len(s)
               /\ s[p] = n \/ s[p] \in P
               /\ p < Len(s) => s[p + 1] \notin P
<1> DEFINE first == CHOOSE i \in 1 .. Len(s) : s[i] = n
           p     == LastOfRun(s, n, P)
<1>1. /\ first \in 1 .. Len(s) /\ s[first] = n
      /\ p \in first .. Len(s) /\ \A j \in first + 1 .. p : s[j] \in P
      /\ p < Len(s) => s[p + 1] \notin P
      BY RunOf
<1> HIDE DEF first, p
<1>2. p \in 1 .. Len(s) /\ (p = first \/ p \in first + 1 .. p)
      BY <1>1
<1>3. QED BY <1>1, <1>2 DEF p

(* Behind the last of the group of k, a further element of it fits. *)
LEMMA FitsBehindRun ==
    ASSUME NEW s, NEW S, s \in Seq(S), IsInjective(s), NEW f, Grouped(s, f), NEW k, NEW P,
           \A m \in ToSet(s) : m \in P => f[m] = k,
           \A m \in ToSet(s) : f[m] = k => m \in P,
           NEW n \in ToSet(s), f[n] = k
    PROVE  LastOfRun(s, n, P) + 1 \in 1 .. Len(s) + 1 /\ Fits(s, f, k, LastOfRun(s, n, P) + 1)
<1> DEFINE q == LastOfRun(s, n, P)
           p == q + 1
<1>1. /\ q \in 1 .. Len(s)
      /\ s[q] = n \/ s[q] \in P
      /\ q < Len(s) => s[q + 1] \notin P
      BY RunEnds
<1> HIDE DEF q
<1>2. Len(s) \in Nat /\ q \in Nat /\ p \in Nat /\ p \in 1 .. Len(s) + 1
      BY <1>1
<1>3. \A i \in 1 .. Len(s) : s[i] \in ToSet(s)
      BY Index
<1>4. f[s[q]] = k /\ s[q] \in Ahead(s, p)
  <2>1. q < p
        BY <1>2
  <2>2. QED BY <1>1, <1>2, <1>3, <2>1, AheadIndex
<1>5. ASSUME NEW m \in Ahead(s, p), m # s[q] PROVE Precedes(s, m, s[q])
  <2>1. PICK i \in 1 .. Len(s) : i < p /\ s[i] = m
        BY DEF Ahead
  <2>2. i < q
        BY <1>2, <1>5, <2>1
  <2>3. QED BY <1>1, <2>1, <2>2 DEF Precedes
<1>6. ASSUME NEW x \in ToSet(s) \ Ahead(s, p) PROVE Precedes(s, s[q], x) /\ f[x] # k
  <2>1. PICK l \in 1 .. Len(s) : s[l] = x
        BY Index
  <2>2. q < l
    <3>1. ~(l < p)
          BY <1>2, <1>6, <2>1, AheadIndex
    <3>2. QED BY <1>2, <2>1, <3>1
  <2>3. Precedes(s, s[q], x)
        BY <1>1, <2>1, <2>2 DEF Precedes
  <2>4. ASSUME f[x] = k PROVE FALSE
    <3>1. q + 1 \in 1 .. Len(s) /\ s[q + 1] \notin P
          BY <1>1, <1>2, <2>1, <2>2
    <3>2. f[s[q + 1]] # k
          BY <1>3, <3>1
    <3>3. l # q + 1
          BY <2>1, <2>4, <3>2
    <3>4. Precedes(s, s[q], s[q + 1]) /\ Precedes(s, s[q + 1], x)
      <4>1. q < q + 1 /\ q + 1 < l
            BY <1>2, <2>1, <2>2, <3>3
      <4>2. QED BY <1>1, <2>1, <3>1, <4>1 DEF Precedes
    <3>5. f[s[q + 1]] = k
          BY <1>4, <2>4, <3>4 DEF Grouped
    <3>6. QED BY <3>2, <3>5
  <2>5. QED BY <2>3, <2>4
<1>7. ASSUME NEW m \in ToSet(s), f[m] = k
      PROVE  m \in Ahead(s, p) /\ \A x \in Ahead(s, p) : Precedes(s, m, x) => f[x] = k
  <2>1. m \in Ahead(s, p)
        BY <1>6, <1>7
  <2>2. ASSUME NEW x \in Ahead(s, p), Precedes(s, m, x) PROVE f[x] = k
        BY <1>4, <1>5, <1>7, <2>2 DEF Grouped
  <2>3. QED BY <2>1, <2>2
<1>8. ASSUME NEW m \in Ahead(s, p), NEW x \in ToSet(s) \ Ahead(s, p), f[m] = f[x]
      PROVE  FALSE
  <2>1. f[m] = k
        BY <1>4, <1>5, <1>6, <1>8 DEF Grouped
  <2>2. QED BY <1>6, <1>8, <2>1
<1>9. Fits(s, f, k, p)
      BY <1>7, <1>8 DEF Fits
<1>10. QED BY <1>2, <1>9 DEF q

(* The first of its group fits at either end. *)
LEMMA FitsAtEnds ==
    ASSUME NEW s, NEW S, s \in Seq(S), IsInjective(s), NEW f, NEW k,
           \A m \in ToSet(s) : f[m] # k
    PROVE  Fits(s, f, k, 1) /\ Fits(s, f, k, Len(s) + 1)
<1>1. Len(s) \in Nat
      OBVIOUS
<1>2. Ahead(s, 1) = {}
      BY <1>1 DEF Ahead
<1>3. Ahead(s, Len(s) + 1) = ToSet(s)
  <2>1. \A i \in 1 .. Len(s) : i < Len(s) + 1
        BY <1>1
  <2>2. QED BY <1>1, <2>1, Elements DEF Ahead
<1>4. QED BY <1>2, <1>3 DEF Fits

LEMMA GroupedInserted ==
    ASSUME NEW s, NEW S, s \in Seq(S), IsInjective(s), NEW e \in S, e \notin ToSet(s),
           NEW p \in 1 .. Len(s) + 1, NEW f, NEW g,
           \A m \in ToSet(s) : g[m] = f[m],
           Grouped(s, f), Fits(s, f, g[e], p)
    PROVE  Grouped(InsertAt(s, p, e), g)
<1> DEFINE r == InsertAt(s, p, e)
           k == g[e]
<1>1. /\ r \in Seq(S) /\ ToSet(r) = ToSet(s) \cup {e} /\ IsInjective(r)
      /\ \A m, n : Precedes(r, m, n) =>
             \/ Precedes(s, m, n)
             \/ n = e /\ m \in Ahead(s, p)
             \/ m = e /\ n \in ToSet(s) \ Ahead(s, p)
      /\ \A m \in Ahead(s, p) : Precedes(r, m, e)
      BY Inserted
<1> HIDE DEF r
<1>2. /\ \A m, n : Precedes(r, m, n) => m \in ToSet(r) /\ n \in ToSet(r) /\ ~Precedes(r, n, m)
      /\ \A m, n, x : Precedes(r, m, n) /\ Precedes(r, n, x) => Precedes(r, m, x)
      BY <1>1, Total
<1>3. \A m, n : Precedes(s, m, n) => m # e /\ n # e /\ m \in ToSet(s) /\ n \in ToSet(s)
      BY Total
<1>4. Ahead(s, p) \subseteq ToSet(s)
      BY AheadIndex
<1>5. ASSUME NEW m, NEW x, NEW n, Precedes(r, m, x), Precedes(r, x, n), g[m] = g[n]
      PROVE  g[x] = g[m]
  <2>1. CASE m = e
    <3>1. n \in ToSet(s) /\ f[n] = k
          BY <1>1, <1>2, <1>5, <2>1
    <3>2. Precedes(r, n, e)
          BY <1>1, <3>1 DEF Fits
    <3>3. QED BY <1>2, <1>5, <2>1, <3>2
  <2>2. CASE x = e
    <3>1. m \in Ahead(s, p) /\ n \in ToSet(s) \ Ahead(s, p)
          BY <1>1, <1>2, <1>3, <1>5, <2>2
    <3>2. f[m] = f[n]
          BY <1>4, <1>5, <3>1
    <3>3. QED BY <3>1, <3>2 DEF Fits
  <2>3. CASE m # e /\ x # e /\ n = e
    <3>1. Precedes(s, m, x) /\ x \in Ahead(s, p)
          BY <1>1, <1>3, <1>5, <2>3
    <3>2. m \in ToSet(s) /\ f[m] = k /\ f[x] = g[x]
          BY <1>3, <1>5, <2>3, <3>1
    <3>3. f[x] = k
          BY <3>1, <3>2 DEF Fits
    <3>4. QED BY <1>5, <2>3, <3>2, <3>3
  <2>4. CASE m # e /\ x # e /\ n # e
    <3>1. Precedes(s, m, x) /\ Precedes(s, x, n)
          BY <1>1, <1>5, <2>4
    <3>2. f[m] = g[m] /\ f[x] = g[x] /\ f[n] = g[n]
          BY <1>3, <3>1
    <3>3. f[x] = f[m]
          BY <1>5, <3>1, <3>2 DEF Grouped
    <3>4. QED BY <3>2, <3>3
  <2>5. QED BY <2>1, <2>2, <2>3, <2>4
<1>6. QED BY <1>5 DEF Grouped, r

-----------------------------------------------------------------------------
(* One table, of its parts: the list s and the chains hold the same nodes, *)
(* each in the chain of its hash; ...                                      *)
Linked(s, array, code) ==
    /\ IsInjective(s)
    /\ Len(array) = 0 => s = <<>>
    /\ \A b \in 1 .. Len(array) :
          /\ IsInjective(array[b])
          /\ ToSet(array[b]) = {n \in ToSet(s) : bucket_for_hash(code[n], Len(array)) = b}

(* ... nodes with equal keys are adjacent in the list and in the chains,   *)
(* in the same order.                                                      *)
Agreeing(s, array, f) ==
    /\ Grouped(s, f)
    /\ \A b \in 1 .. Len(array) :
          /\ Grouped(array[b], f)
          /\ \A m, n : Precedes(array[b], m, n) /\ f[m] = f[n] => Precedes(s, m, n)

Distinct(s, f) == \A m, n \in ToSet(s) : f[m] = f[n] => m = n

LEMMA BucketRange ==
    ASSUME NEW code \in Nat, NEW count \in Nat \ {0}
    PROVE  bucket_for_hash(code, count) \in 1 .. count
<1>1. code % count \in 0 .. count - 1
      OBVIOUS
<1>2. QED BY <1>1 DEF bucket_for_hash

(* Only the hashes and keys of its own nodes matter to a table. *)
LEMMA LinkedFrame ==
    ASSUME NEW s, NEW array, NEW code, NEW other, Linked(s, array, code),
           \A n \in ToSet(s) : other[n] = code[n]
    PROVE  Linked(s, array, other)
BY DEF Linked

LEMMA GroupedFrame ==
    ASSUME NEW s, NEW S, s \in Seq(S), IsInjective(s), NEW f, NEW g, Grouped(s, f),
           \A n \in ToSet(s) : g[n] = f[n]
    PROVE  Grouped(s, g)
<1>1. \A m, n : Precedes(s, m, n) => m \in ToSet(s) /\ n \in ToSet(s)
      BY Total
<1>2. QED BY <1>1 DEF Grouped

LEMMA AgreeingFrame ==
    ASSUME NEW s, NEW S, s \in Seq(S), NEW array \in Seq(Seq(S)), NEW code, Linked(s, array, code),
           NEW f, NEW g, Agreeing(s, array, f),
           \A n \in ToSet(s) : g[n] = f[n]
    PROVE  Agreeing(s, array, g)
<1>1. Grouped(s, g)
      BY GroupedFrame DEF Agreeing, Linked
<1>2. ASSUME NEW b \in 1 .. Len(array)
      PROVE  /\ Grouped(array[b], g)
             /\ \A m, n : Precedes(array[b], m, n) /\ g[m] = g[n] => Precedes(s, m, n)
  <2>1. array[b] \in Seq(S) /\ IsInjective(array[b]) /\ ToSet(array[b]) \subseteq ToSet(s)
        BY DEF Linked
  <2>2. \A n \in ToSet(array[b]) : g[n] = f[n]
        BY <2>1
  <2>3. Grouped(array[b], g)
        BY <2>1, <2>2, GroupedFrame DEF Agreeing
  <2>4. \A m, n : Precedes(array[b], m, n) => m \in ToSet(array[b]) /\ n \in ToSet(array[b])
        BY <2>1, Total
  <2>5. QED BY <2>2, <2>3, <2>4 DEF Agreeing
<1>3. QED BY <1>1, <1>2 DEF Agreeing

(* A node is linked into the list and into the chain of its hash. *)
LEMMA LinkedInsert ==
    ASSUME NEW S, NEW s \in Seq(S), NEW array \in Seq(Seq(S)), NEW code, Linked(s, array, code),
           NEW e \in S, e \notin ToSet(s), NEW other,
           \A n \in ToSet(s) : other[n] = code[n],
           NEW b \in 1 .. Len(array), b = bucket_for_hash(other[e], Len(array)),
           NEW p \in 1 .. Len(s) + 1, NEW q \in 1 .. Len(array[b]) + 1
    PROVE  /\ [array EXCEPT ![b] = InsertAt(array[b], q, e)] \in Seq(Seq(S))
           /\ Len([array EXCEPT ![b] = InsertAt(array[b], q, e)]) = Len(array)
           /\ Linked(InsertAt(s, p, e), [array EXCEPT ![b] = InsertAt(array[b], q, e)], other)
<1> DEFINE r     == InsertAt(s, p, e)
           chain == InsertAt(array[b], q, e)
           after == [array EXCEPT ![b] = chain]
<1>1. array[b] \in Seq(S) /\ IsInjective(array[b]) /\ ToSet(array[b]) \subseteq ToSet(s) /\ IsInjective(s)
      BY DEF Linked
<1>2. r \in Seq(S) /\ ToSet(r) = ToSet(s) \cup {e} /\ IsInjective(r) /\ Len(r) = Len(s) + 1
      BY <1>1, Inserted
<1>3. chain \in Seq(S) /\ ToSet(chain) = ToSet(array[b]) \cup {e} /\ IsInjective(chain)
  <2>1. e \notin ToSet(array[b])
        BY <1>1
  <2>2. QED BY <1>1, <2>1, Inserted
<1> HIDE DEF r, chain
<1>4. after \in Seq(Seq(S)) /\ Len(after) = Len(array)
      BY <1>3
<1>5. ASSUME NEW c \in 1 .. Len(after)
      PROVE  /\ IsInjective(after[c])
             /\ ToSet(after[c]) = {n \in ToSet(r) : bucket_for_hash(other[n], Len(after)) = c}
  <2>1. ToSet(array[c]) = {n \in ToSet(s) : bucket_for_hash(other[n], Len(array)) = c}
        /\ IsInjective(array[c])
        BY <1>4 DEF Linked
  <2>2. CASE c = b
    <3>1. after[c] = chain
          BY <1>4, <2>2
    <3>2. QED BY <1>2, <1>3, <1>4, <2>1, <2>2, <3>1
  <2>3. CASE c # b
    <3>1. after[c] = array[c]
          BY <1>4, <2>3
    <3>2. QED BY <1>2, <1>4, <2>1, <2>3, <3>1
  <2>4. QED BY <2>2, <2>3
<1>6. Len(after) # 0
      BY <1>4
<1>7. Linked(r, after, other)
      BY <1>2, <1>5, <1>6 DEF Linked
<1>8. QED BY <1>4, <1>7 DEF r, chain

LEMMA AgreeingInsert ==
    ASSUME NEW S, NEW s \in Seq(S), NEW array \in Seq(Seq(S)), NEW code, Linked(s, array, code),
           NEW e \in S, e \notin ToSet(s), NEW f, NEW g, Agreeing(s, array, f),
           \A n \in ToSet(s) : g[n] = f[n],
           NEW b \in 1 .. Len(array),
           NEW p \in 1 .. Len(s) + 1, NEW q \in 1 .. Len(array[b]) + 1,
           Fits(s, f, g[e], p), Fits(array[b], f, g[e], q)
    PROVE  Agreeing(InsertAt(s, p, e), [array EXCEPT ![b] = InsertAt(array[b], q, e)], g)
<1> DEFINE r     == InsertAt(s, p, e)
           chain == InsertAt(array[b], q, e)
           after == [array EXCEPT ![b] = chain]
<1>1. \A c \in 1 .. Len(array) :
          array[c] \in Seq(S) /\ IsInjective(array[c]) /\ ToSet(array[c]) \subseteq ToSet(s)
      BY DEF Linked
<1>2. /\ IsInjective(s) /\ e \notin ToSet(array[b])
      /\ array[b] \in Seq(S) /\ IsInjective(array[b]) /\ Grouped(array[b], f) /\ q \in Nat
      BY <1>1, SMTT(40) DEF Linked, Agreeing
<1>3. Grouped(r, g)
      BY <1>2, GroupedInserted DEF Agreeing
<1>4. Grouped(chain, g)
  <2>1. \A n \in ToSet(array[b]) : g[n] = f[n]
        BY <1>1
  <2>2. QED BY <1>2, <2>1, GroupedInserted
<1>5. \A m, n : Precedes(s, m, n) => Precedes(r, m, n)
      BY <1>2, Inserted
<1>6. \A m \in Ahead(s, p) : Precedes(r, m, e)
      BY <1>2, Inserted
<1>7. \A m, n : Precedes(chain, m, n) =>
          \/ Precedes(array[b], m, n)
          \/ n = e /\ m \in Ahead(array[b], q)
          \/ m = e /\ n \in ToSet(array[b]) \ Ahead(array[b], q)
      BY <1>1, <1>2, Inserted
<1>8. \A c \in 1 .. Len(array) : \A m, n : Precedes(array[c], m, n) =>
          m \in ToSet(array[c]) /\ n \in ToSet(array[c])
      BY <1>1, Total
<1>9. Ahead(array[b], q) \subseteq ToSet(array[b])
      BY <1>2, AheadIndex
<1>10. chain \in Seq(S)
       BY <1>1, <1>2, Inserted
<1> HIDE DEF r, chain
<1>11. after \in Seq(Seq(S)) /\ Len(after) = Len(array)
       BY <1>10
<1>12. ASSUME NEW m, NEW n, Precedes(chain, m, n), g[m] = g[n]
       PROVE  Precedes(r, m, n)
  <2>1. CASE Precedes(array[b], m, n)
    <3>1. f[m] = f[n]
          BY <1>1, <1>8, <1>12, <2>1
    <3>2. QED BY <1>5, <2>1, <3>1 DEF Agreeing
  <2>2. CASE n = e /\ m \in Ahead(array[b], q)
    <3>1. m \in ToSet(s) /\ f[m] = g[e]
          BY <1>1, <1>9, <1>12, <2>2
    <3>2. QED BY <1>6, <2>2, <3>1 DEF Fits
  <2>3. CASE m = e /\ n \in ToSet(array[b]) \ Ahead(array[b], q)
    <3>1. f[n] = g[e]
          BY <1>1, <1>12, <2>3
    <3>2. QED BY <2>3, <3>1 DEF Fits
  <2>4. QED BY <1>7, <1>12, <2>1, <2>2, <2>3
<1>13. ASSUME NEW c \in 1 .. Len(after)
       PROVE  /\ Grouped(after[c], g)
              /\ \A m, n : Precedes(after[c], m, n) /\ g[m] = g[n] => Precedes(r, m, n)
  <2>1. CASE c = b
    <3>1. after[c] = chain
          BY <1>11, <2>1
    <3>2. QED BY <1>4, <1>12, <3>1
  <2>2. CASE c # b
    <3>1. after[c] = array[c] /\ c \in 1 .. Len(array)
          BY <1>11, <2>2
    <3>2. \A n \in ToSet(array[c]) : g[n] = f[n]
          BY <1>1, <3>1
    <3>3. Grouped(array[c], g)
          BY <1>1, <3>1, <3>2, GroupedFrame DEF Agreeing
    <3>4. \A m, n : Precedes(array[c], m, n) /\ g[m] = g[n] => Precedes(s, m, n)
          BY <1>8, <3>1, <3>2 DEF Agreeing
    <3>5. QED BY <1>5, <3>1, <3>3, <3>4
  <2>3. QED BY <2>1, <2>2
<1>14. Agreeing(r, after, g)
       BY <1>3, <1>13 DEF Agreeing
<1>15. QED BY <1>14 DEF r, chain

LEMMA DistinctInsert ==
    ASSUME NEW S, NEW s \in Seq(S), IsInjective(s), NEW e \in S, e \notin ToSet(s), NEW f, NEW g,
           Distinct(s, f), \A n \in ToSet(s) : g[n] = f[n] /\ f[n] # g[e],
           NEW p \in 1 .. Len(s) + 1
    PROVE  Distinct(InsertAt(s, p, e), g)
<1>1. ToSet(InsertAt(s, p, e)) = ToSet(s) \cup {e}
      BY Inserted
<1>2. QED BY <1>1 DEF Distinct

-----------------------------------------------------------------------------
(* What is left of s are the nodes of P, in their order. *)
Part(r, s, P) ==
    /\ IsInjective(r) /\ ToSet(r) = ToSet(s) \cap P
    /\ \A m, n : Precedes(r, m, n) => Precedes(s, m, n)
    /\ \A m, n \in P : Precedes(s, m, n) => Precedes(r, m, n)

LEMMA Parts ==
    ASSUME NEW s, NEW S, s \in Seq(S), IsInjective(s), NEW P
    PROVE  /\ Within(s, P) \in Seq(S) /\ Part(Within(s, P), s, P)
           /\ ToSet(s) \subseteq P => Part(s, s, P)
BY Filtered DEF Part

(* A list and chains some nodes have been taken from. *)
LEMMA Shrunk ==
    ASSUME NEW S, NEW s \in Seq(S), NEW array \in Seq(Seq(S)), NEW code, Linked(s, array, code),
           NEW P, NEW r \in Seq(S), Part(r, s, P),
           NEW after \in Seq(Seq(S)), Len(after) = Len(array),
           \A b \in 1 .. Len(array) : Part(after[b], array[b], P),
           NEW f
    PROVE  /\ Linked(r, after, code)
           /\ Agreeing(s, array, f) => Agreeing(r, after, f)
           /\ Distinct(s, f) => Distinct(r, f)
<1>1. Linked(r, after, code)
  <2>1. ASSUME Len(after) = 0 PROVE r = <<>>
    <3>1. ToSet(s) = {}
          BY <2>1, EmptyList DEF Linked, Part
    <3>2. ToSet(r) = {}
          BY <3>1 DEF Part
    <3>3. QED BY <3>2, NoElements
  <2>2. \A b \in 1 .. Len(after) :
            /\ IsInjective(after[b])
            /\ ToSet(after[b]) = {n \in ToSet(r) : bucket_for_hash(code[n], Len(after)) = b}
        BY DEF Linked, Part
  <2>3. QED BY <2>1, <2>2 DEF Linked, Part
<1>2. ASSUME Agreeing(s, array, f) PROVE Agreeing(r, after, f)
  <2>1. Grouped(r, f)
        BY <1>2 DEF Agreeing, Grouped, Part
  <2>2. ASSUME NEW b \in 1 .. Len(after)
        PROVE  /\ Grouped(after[b], f)
               /\ \A m, n : Precedes(after[b], m, n) /\ f[m] = f[n] => Precedes(r, m, n)
    <3>0. Part(after[b], array[b], P) /\ Grouped(array[b], f)
          BY <1>2 DEF Agreeing
    <3>1. Grouped(after[b], f)
          BY <3>0 DEF Grouped, Part
    <3>2. ASSUME NEW m, NEW n, Precedes(after[b], m, n), f[m] = f[n]
          PROVE  Precedes(r, m, n)
      <4>1. after[b] \in Seq(S) /\ IsInjective(after[b])
            BY DEF Part
      <4>2. m \in P /\ n \in P
            BY <3>2, <4>1, Total DEF Part
      <4>3. Precedes(s, m, n)
            BY <1>2, <3>2 DEF Agreeing, Part
      <4>4. QED BY <4>2, <4>3 DEF Part
    <3>3. QED BY <3>1, <3>2
  <2>3. QED BY <2>1, <2>2 DEF Agreeing
<1>3. Distinct(s, f) => Distinct(r, f)
      BY DEF Distinct, Part
<1>4. QED BY <1>1, <1>2, <1>3

(* unlink_node: the list loses a node, and the chain of its hash does. *)
LEMMA Unlinked ==
    ASSUME NEW S, NEW s \in Seq(S), NEW array \in Seq(Seq(S)), NEW code, Linked(s, array, code),
           NEW n \in ToSet(s), code[n] \in Nat, NEW f
    PROVE  LET b     == bucket_for_hash(code[n], Len(array))
               r     == Within(s, S \ {n})
               after == [array EXCEPT ![b] = Within(array[b], S \ {n})]
           IN  /\ r \in Seq(S) /\ ToSet(r) = ToSet(s) \ {n}
               /\ b \in 1 .. Len(array)
               /\ after \in Seq(Seq(S)) /\ Len(after) = Len(array)
               /\ Linked(r, after, code)
               /\ Agreeing(s, array, f) => Agreeing(r, after, f)
               /\ Distinct(s, f) => Distinct(r, f)
<1> DEFINE P     == S \ {n}
           b     == bucket_for_hash(code[n], Len(array))
           r     == Within(s, P)
           chain == Within(array[b], P)
           after == [array EXCEPT ![b] = chain]
<1>1. Len(array) \in Nat \ {0}
      BY EmptyList DEF Linked
<1>2. b \in 1 .. Len(array)
      BY <1>1, BucketRange
<1>3. \A c \in 1 .. Len(array) :
          /\ array[c] \in Seq(S) /\ IsInjective(array[c])
          /\ c # b => n \notin ToSet(array[c])
      BY DEF Linked
<1>4. r \in Seq(S) /\ Part(r, s, P)
      BY Parts DEF Linked
<1>5. chain \in Seq(S) /\ Part(chain, array[b], P)
      BY <1>2, <1>3, Parts
<1>6. \A c \in 1 .. Len(array) : ToSet(array[c]) \subseteq S
      BY <1>3, Elements
<1>7. ToSet(s) \subseteq S
      BY Elements
<1> HIDE DEF b, r, chain
<1>8. after \in Seq(Seq(S)) /\ Len(after) = Len(array)
      BY <1>2, <1>5
<1>9. ASSUME NEW c \in 1 .. Len(array)
      PROVE  Part(after[c], array[c], P)
  <2>1. CASE c = b
    <3>1. after[c] = chain
          BY <2>1
    <3>2. QED BY <1>5, <2>1, <3>1
  <2>2. CASE c # b
    <3>1. after[c] = array[c]
          BY <2>2
    <3>2. ToSet(array[c]) \subseteq P
          BY <1>3, <1>6, <2>2
    <3>3. QED BY <1>3, <3>1, <3>2, Parts
  <2>3. QED BY <2>1, <2>2
<1> HIDE DEF after, P
<1>10. /\ Linked(r, after, code)
       /\ Agreeing(s, array, f) => Agreeing(r, after, f)
       /\ Distinct(s, f) => Distinct(r, f)
       BY <1>4, <1>8, <1>9, Shrunk
<1>11. ToSet(r) = ToSet(s) \ {n}
       BY <1>4, <1>7 DEF P, Part
<1>12. QED BY <1>2, <1>4, <1>8, <1>10, <1>11 DEF b, r, chain, after, P

(* The same of several nodes, and of all chains. *)
LEMMA UnlinkedAll ==
    ASSUME NEW S, NEW s \in Seq(S), NEW array \in Seq(Seq(S)), NEW code, Linked(s, array, code),
           NEW gone, NEW f
    PROVE  LET r     == Within(s, S \ gone)
               after == [b \in 1 .. Len(array) |-> Within(array[b], S \ gone)]
           IN  /\ r \in Seq(S) /\ ToSet(r) = ToSet(s) \ gone
               /\ after \in Seq(Seq(S)) /\ Len(after) = Len(array)
               /\ Linked(r, after, code)
               /\ Agreeing(s, array, f) => Agreeing(r, after, f)
               /\ Distinct(s, f) => Distinct(r, f)
<1> DEFINE P     == S \ gone
           r     == Within(s, P)
           after == [b \in 1 .. Len(array) |-> Within(array[b], P)]
<1>1. \A c \in 1 .. Len(array) : array[c] \in Seq(S) /\ IsInjective(array[c])
      BY DEF Linked
<1>2. r \in Seq(S) /\ Part(r, s, P)
      BY Parts DEF Linked
<1>3. ASSUME NEW c \in 1 .. Len(array)
      PROVE  Within(array[c], P) \in Seq(S) /\ Part(Within(array[c], P), array[c], P)
      BY <1>1, Parts
<1>4. Len(array) \in Nat
      OBVIOUS
<1>5. \A c \in 1 .. Len(array) : after[c] = Within(array[c], P)
      OBVIOUS
<1> HIDE DEF P
<1>6. after \in Seq(Seq(S)) /\ Len(after) = Len(array)
      BY <1>3, <1>4
<1> HIDE DEF r, after
<1>10. \A c \in 1 .. Len(array) : Part(after[c], array[c], P)
      BY <1>3, <1>5
<1>7. /\ Linked(r, after, code)
      /\ Agreeing(s, array, f) => Agreeing(r, after, f)
      /\ Distinct(s, f) => Distinct(r, f)
      BY <1>2, <1>6, <1>10, Shrunk
<1>8. ToSet(r) = ToSet(s) \ gone
      BY <1>2, Elements DEF P, Part
<1>9. QED BY <1>2, <1>6, <1>7, <1>8 DEF r, after, P

(* rebuild_bucket_array makes chains that fit the list. *)
LEMMA Rebuilt ==
    ASSUME NEW s \in Seq(Nodes), IsInjective(s), NEW code, \A n \in ToSet(s) : code[n] \in Nat,
           NEW count \in Nat, count = 0 => s = <<>>, NEW f
    PROVE  LET array == rebuild_bucket_array(s, code, count)
           IN  /\ array \in Seq(Seq(Nodes)) /\ Len(array) = count
               /\ Linked(s, array, code)
               /\ Grouped(s, f) => Agreeing(s, array, f)
<1> DEFINE array == rebuild_bucket_array(s, code, count)
           P(b)  == {n \in Nodes : bucket_for_hash(code[n], count) = b}
<1>1. ASSUME NEW b \in 1 .. count
      PROVE  /\ Within(s, P(b)) \in Seq(Nodes) /\ IsInjective(Within(s, P(b)))
             /\ ToSet(Within(s, P(b))) = ToSet(s) \cap P(b)
             /\ \A m, x : Precedes(Within(s, P(b)), m, x) => Precedes(s, m, x)
      BY Filtered
<1>2. /\ array \in Seq(Seq(Nodes)) /\ Len(array) = count
      /\ \A b \in 1 .. count : array[b] = Within(s, P(b))
      BY <1>1 DEF rebuild_bucket_array
<1>3. ToSet(s) \subseteq Nodes
      BY Elements
<1> HIDE DEF array
<1>4. \A b \in 1 .. count : ToSet(array[b]) = {n \in ToSet(s) : bucket_for_hash(code[n], count) = b}
      BY <1>1, <1>2, <1>3
<1> HIDE DEF P
<1>5. Linked(s, array, code)
      BY <1>1, <1>2, <1>4 DEF Linked
<1>6. ASSUME Grouped(s, f) PROVE Agreeing(s, array, f)
      BY <1>1, <1>2, <1>6 DEF Agreeing, Grouped
<1>7. QED BY <1>2, <1>5, <1>6 DEF array

-----------------------------------------------------------------------------
LEMMA Policy ==
    /\ BucketCounts \subseteq Nat \ {0} /\ LoadFactors \subseteq Nat \ {0}
    /\ MaxNumber \in Nat /\ Unit \in LoadFactors
<1>1. MaxNumber \in Nat /\ BucketCounts \subseteq 1 .. MaxNumber
      BY PolicyAssumption
<1>2. 1 .. MaxNumber \subseteq Nat \ {0}
      BY <1>1
<1>3. QED BY <1>1, <1>2, PolicyAssumption

LEMMA Available ==
    ASSUME NEW c \in BucketCounts
    PROVE  /\ max_bucket_count \in BucketCounts /\ c <= max_bucket_count
           /\ max_bucket_count \in 0 .. MaxNumber /\ MaxNumber \in Nat
           /\ c \in Nat \ {0} /\ BucketCounts \subseteq Nat \ {0}
<1>1. MaxNumber \in Nat /\ BucketCounts \subseteq 1 .. MaxNumber
      BY PolicyAssumption
<1>2. 1 .. MaxNumber \subseteq 0 .. MaxNumber /\ 1 .. MaxNumber \subseteq Nat \ {0}
      BY <1>1
<1>3. BucketCounts \subseteq 0 .. MaxNumber /\ BucketCounts \subseteq Nat \ {0} /\ BucketCounts # {}
      BY <1>1, <1>2
<1>4. max_bucket_count \in BucketCounts /\ c <= max_bucket_count
      BY <1>1, <1>3, Greatest DEF max_bucket_count
<1>5. QED BY <1>1, <1>3, <1>4

(* The rehash policy: next_bucket_count() is the smallest size that will   *)
(* do, and there is one for what the nodes and the requests need.          *)
LEMMA NextCount ==
    ASSUME PolicyAssumption, NEW requested \in Int, \E c \in BucketCounts : requested <= c
    PROVE  next_bucket_count(requested) \in BucketCounts /\ requested <= next_bucket_count(requested)
<1> DEFINE T == {c \in BucketCounts : c >= requested}
<1>1. T \subseteq Nat /\ T # {}
  <2>1. PICK c \in BucketCounts : requested <= c
        OBVIOUS
  <2>2. BucketCounts \subseteq Nat
        BY Available
  <2>3. QED BY <2>1, <2>2
<1>2. Min(T) \in T
      BY <1>1, Least
<1>3. QED BY <1>2 DEF next_bucket_count

(* Floats keep the order of the numbers, and so does the limit of a load:  *)
(* more buckets never exceed it sooner.                                    *)
LEMMA Sorted ==
    ASSUME NEW x \in 0 .. MaxNumber, NEW y \in 0 .. x
    PROVE  Float(x) \in Nat /\ Float(y) \in Nat /\ Float(y) <= Float(x)
<1>1. MaxNumber \in Nat
      BY PolicyAssumption
<1>2. x \in 0 .. MaxNumber /\ y \in 0 .. MaxNumber
      BY <1>1
<1>3. \A z \in 0 .. MaxNumber : Float(z) \in Nat /\ \A w \in 0 .. z : Float(w) <= Float(z)
      BY FloatAssumption, Zenon
<1>4. QED BY <1>2, <1>3

LEMMA Limits ==
    ASSUME NEW l \in LoadFactors,
           NEW d \in BucketCounts, NEW c \in 0 .. d
    PROVE  /\ l * Float(c) \in 0 .. MaxNumber /\ Float(c) \in Nat /\ Float(l * Float(c)) \in Nat
           /\ Float(l * Float(c)) <= Float(l * Float(d)) /\ Float(l * Float(d)) \in Nat
<1>1. /\ d \in 0 .. max_bucket_count /\ c \in 0 .. max_bucket_count
      /\ d \in 0 .. MaxNumber /\ MaxNumber \in Nat /\ l \in Nat \ {0}
      BY Available, PolicyAssumption
<1>2. Float(c) \in Nat /\ Float(d) \in Nat /\ Float(c) <= Float(d)
      BY <1>1, Sorted
<1>3. l * Float(c) <= MaxNumber /\ l * Float(d) <= MaxNumber
      BY <1>1, FloatAssumption
<1>4. \A a, b \in Nat : a <= b => l * a \in Nat /\ l * b \in Nat /\ l * a <= l * b
      BY <1>1
<1>5. l * Float(c) \in 0 .. MaxNumber /\ l * Float(d) \in 0 .. MaxNumber /\ l * Float(c) <= l * Float(d)
  <2>1. l * Float(c) \in Nat /\ l * Float(d) \in Nat /\ l * Float(c) <= l * Float(d)
        BY <1>2, <1>4
  <2>2. QED BY <1>1, <1>3, <2>1
<1>6. l * Float(c) \in 0 .. l * Float(d)
      BY <1>5
<1>7. Float(l * Float(c)) <= Float(l * Float(d)) /\ Float(l * Float(c)) \in Nat /\ Float(l * Float(d)) \in Nat
      BY <1>1, <1>5, <1>6, Sorted
<1>8. QED BY <1>2, <1>5, <1>7

LEMMA ExceedsLess ==
    ASSUME NEW l \in LoadFactors, NEW n \in 0 .. MaxNumber,
           NEW d \in BucketCounts, NEW c \in 0 .. d, exceeds_load(n, d, l)
    PROVE  exceeds_load(n, c, l)
<1>1. Float(n) \in Nat /\ Unit \in Nat /\ Unit * Float(n) \in Nat
  <2>1. n \in 0 .. n /\ MaxNumber \in Nat
        BY PolicyAssumption
  <2>2. Float(n) \in Nat /\ Unit \in Nat
        BY <2>1, Sorted, PolicyAssumption
  <2>3. QED BY <2>2
<1>2. QED BY <1>1, Limits DEF exceeds_load

(* An element exceeds the load of no buckets. *)
LEMMA ExceedsNone ==
    ASSUME NEW l \in LoadFactors,
           NEW n \in 1 .. MaxNumber
    PROVE  exceeds_load(n, 0, l)
<1>1. /\ Precision \in Nat \ {0} /\ Unit \in Nat \ {0} /\ l \in Nat \ {0} /\ MaxNumber \in Nat
      BY FloatAssumption, PolicyAssumption
<1>2. Float(0) = 0 /\ Float(1) = 1
      BY <1>1, FloatAssumption
<1>3. Float(n) \in Nat /\ 1 <= Float(n)
      BY <1>1, <1>2, Sorted
<1>4. l * 0 = 0 /\ Unit * Float(n) > 0
      BY <1>1, <1>3
<1>5. QED BY <1>2, <1>4 DEF exceeds_load

(* minimum_bucket_count() is repaired to one that lets the elements in,    *)
(* and the sizes suffice for it.                                           *)
LEMMA MinimumCount ==
    ASSUME NEW l \in LoadFactors, NEW n \in 0 .. Cardinality(Nodes)
    PROVE  LET m == minimum_bucket_count(n, l)
           IN  /\ m \in Nat
               /\ n # 0 => m # 0
               /\ \E c \in BucketCounts : m <= c
               /\ \A c \in BucketCounts : m <= c => ~exceeds_load(n, c, l)
<1> DEFINE T == {required \in first_guess(n, l) .. max_bucket_count : ~exceeds_load(n, required, l)}
           m == Min(T)
<1>1. PICK c \in BucketCounts : first_guess(n, l) <= c /\ ~exceeds_load(n, c, l)
      BY SizeAssumption
<1>2. first_guess(n, l) \in Nat
      BY SizeAssumption
<1>3. c \in Nat /\ c <= max_bucket_count /\ max_bucket_count \in Nat
      BY Available
<1>4. T \subseteq Nat /\ c \in T
      BY <1>1, <1>2, <1>3
<1>5. m \in T /\ m <= c
  <2> HIDE DEF T
  <2>1. QED BY <1>4, Least
<1>6. m \in Nat /\ ~exceeds_load(n, m, l)
      BY <1>4, <1>5
<1> HIDE DEF m
<1>7. n \in 0 .. MaxNumber /\ Cardinality(Nodes) \in Nat
  <2>1. Cardinality(Nodes) \in Nat /\ Cardinality(Nodes) <= MaxNumber /\ MaxNumber \in Nat
        BY FS_CardinalityType, SizeAssumption, PolicyAssumption
  <2>2. QED BY <2>1
<1>8. n # 0 => m # 0
  <2>1. SUFFICES ASSUME n # 0 PROVE m # 0
        OBVIOUS
  <2>2. n \in 1 .. MaxNumber
        BY <1>7, <2>1
  <2>3. QED BY <1>6, <2>2, ExceedsNone
<1>9. ASSUME NEW d \in BucketCounts, m <= d PROVE ~exceeds_load(n, d, l)
  <2>1. m \in 0 .. d
        BY <1>6, <1>9, Available
  <2>2. QED BY <1>6, <1>7, <2>1, ExceedsLess
<1>10. QED BY <1>5, <1>6, <1>8, <1>9 DEF minimum_bucket_count, m

(* What room for n elements makes of a number of buckets. *)
Settles(n, l, before, after) ==
    /\ ~exceeds_load(n, after, l)
    /\ IF before # 0 /\ ~exceeds_load(n, before, l) THEN after = before ELSE after > before

LEMMA Sizes ==
    ASSUME SizeAssumption, NEW s \in Seq(Nodes), IsInjective(s)
    PROVE  /\ Len(s) <= Cardinality(Nodes) /\ Cardinality(Nodes) \in Nat
           /\ \A e \in Nodes : e \notin ToSet(s) => Len(s) + 1 <= Cardinality(Nodes)
<1>1. IsFiniteSet(Nodes) /\ Cardinality(Nodes) \in Nat
      BY FS_CardinalityType DEF SizeAssumption
<1>2. Len(s) \in Nat /\ s \in [1 .. Len(s) -> Nodes]
      OBVIOUS
<1>3. ASSUME NEW T, T \subseteq Nodes, ToSet(s) \subseteq T
      PROVE  Len(s) <= Cardinality(T)
  <2>1. s \in [1 .. Len(s) -> T]
        BY <1>2, <1>3, Elements
  <2>2. s \in Injection(1 .. Len(s), T)
        BY <2>1 DEF Injection
  <2>3. IsFiniteSet(T)
        BY <1>1, <1>3, FS_Subset
  <2>4. Cardinality(1 .. Len(s)) <= Cardinality(T)
        BY <2>2, <2>3, FS_Injection
  <2>5. Cardinality(1 .. Len(s)) = Len(s)
        BY <1>2, FS_Interval
  <2>6. QED BY <2>4, <2>5
<1>4. Len(s) <= Cardinality(Nodes)
      BY <1>3, Elements
<1>5. ASSUME NEW e \in Nodes, e \notin ToSet(s)
      PROVE  Len(s) + 1 <= Cardinality(Nodes)
  <2>1. Len(s) <= Cardinality(Nodes \ {e})
        BY <1>3, <1>5, Elements
  <2>2. Cardinality(Nodes \ {e}) = Cardinality(Nodes) - 1
        BY <1>1, FS_RemoveElement
  <2>3. QED BY <1>1, <1>2, <2>1, <2>2
<1>6. QED BY <1>1, <1>4, <1>5

(* reserve_for_one_more_element leaves chains for the same nodes, whose    *)
(* number lets one more in within the load factor, and leaves them alone   *)
(* if that is so already.                                                  *)
LEMMA ReservedArray ==
    ASSUME PolicyAssumption, FloatAssumption, SizeAssumption, TypeOK, NEW t \in Tables,
           Linked(order[t], buckets[t], cached),
           NEW e \in Nodes, e \notin ToSet(order[t]), NEW f
    PROVE  LET array == Reserved(t)
           IN  /\ array \in Seq(Seq(Nodes)) /\ Len(array) \in BucketCounts
               /\ Linked(order[t], array, cached)
               /\ Agreeing(order[t], buckets[t], f) => Agreeing(order[t], array, f)
               /\ Settles(Len(order[t]) + 1, load[t], Count(t), Len(array))
<1> DEFINE s       == order[t]
           size    == Len(s)
           l       == load[t]
           minimum == minimum_bucket_count(size + 1, l)
           target  == next_bucket_count(minimum)
<1>1. /\ s \in Seq(Nodes) /\ buckets[t] \in Seq(Seq(Nodes)) /\ size \in Nat
      /\ Count(t) \in BucketCounts \cup {0} /\ Count(t) \in Nat
      /\ l \in LoadFactors /\ l \in Nat \ {0} /\ BucketCounts \subseteq Nat \ {0}
      /\ \A n \in Nodes : cached[n] \in Nat
  <2>1. s \in Seq(Nodes) /\ buckets[t] \in Seq(Seq(Nodes)) /\ size \in Nat /\ Count(t) \in Nat
    <3>1. order[t] \in Seq(Nodes) /\ buckets[t] \in Seq(Seq(Nodes))
          BY DEF TypeOK
    <3>2. Len(order[t]) \in Nat /\ Len(buckets[t]) \in Nat
          BY <3>1
    <3>3. QED BY <3>1, <3>2, Zenon DEF Count
  <2>2. Count(t) \in BucketCounts \cup {0}
        BY DEF TypeOK
  <2>3. l \in LoadFactors /\ \A n \in Nodes : cached[n] \in Nat
        BY DEF TypeOK
  <2>4. QED BY <2>1, <2>2, <2>3, Policy
<1>2. IsInjective(s)
      BY DEF Linked
<1> HIDE DEF s
<1>3. size + 1 \in 0 .. Cardinality(Nodes) /\ size + 1 \in 0 .. MaxNumber
  <2>1. size + 1 <= Cardinality(Nodes) /\ Cardinality(Nodes) \in Nat
        BY <1>1, <1>2, Sizes DEF s
  <2>2. Cardinality(Nodes) < MaxNumber /\ MaxNumber \in Nat
        BY Policy DEF SizeAssumption
  <2> HIDE DEF size
  <2>3. QED BY <1>1, <2>1, <2>2
<1>4. /\ minimum \in Nat /\ \E c \in BucketCounts : minimum <= c
      /\ \A c \in BucketCounts : minimum <= c => ~exceeds_load(size + 1, c, l)
  <2> HIDE DEF size, l
  <2>1. QED BY <1>1, <1>3, MinimumCount, ZenonT(60)
<1> HIDE DEF minimum
<1>5. target \in BucketCounts /\ minimum <= target /\ target \in Nat
  <2>1. minimum \in Int
        BY <1>4
  <2>2. target \in BucketCounts /\ minimum <= target
        BY <1>4, <2>1, NextCount, Zenon
  <2>3. QED BY <1>1, <2>2
<1> HIDE DEF target
<1>6. will_rehash_for_one_more(t) <=> Count(t) = 0 \/ exceeds_load(size + 1, Count(t), l)
      BY DEF will_rehash_for_one_more, need_rehash, s
<1>7. CASE ~will_rehash_for_one_more(t)
  <2>1. Reserved(t) = buckets[t]
        BY <1>7 DEF Reserved
  <2>2. QED BY <1>1, <1>6, <1>7, <2>1 DEF s, Count, Settles
<1>8. CASE will_rehash_for_one_more(t)
  <2>1. Reserved(t) = rebuild_bucket_array(s, cached, target)
        BY <1>8 DEF Reserved, s, target, minimum
  <2>2. \A n \in ToSet(s) : cached[n] \in Nat
        BY <1>1, Elements
  <2>3. target # 0
        BY <1>1, <1>5
  <2>4. /\ Reserved(t) \in Seq(Seq(Nodes)) /\ Len(Reserved(t)) = target
        /\ Linked(s, Reserved(t), cached)
        /\ Grouped(s, f) => Agreeing(s, Reserved(t), f)
    <3>1. s \in Seq(Nodes) /\ target \in Nat /\ (target = 0 => s = <<>>)
          BY <1>1, <1>5, <2>3
    <3>2. LET array == rebuild_bucket_array(s, cached, target)
          IN  /\ array \in Seq(Seq(Nodes)) /\ Len(array) = target
              /\ Linked(s, array, cached)
              /\ Grouped(s, f) => Agreeing(s, array, f)
          BY <1>2, <2>2, <3>1, Rebuilt, ZenonT(60)
    <3>3. QED BY <2>1, <3>2
  <2>5. ~exceeds_load(size + 1, target, l)
        BY <1>4, <1>5
  <2>6. Count(t) < target
    <3>1. CASE Count(t) = 0
          BY <1>5, <2>3, <3>1
    <3>2. CASE Count(t) # 0 /\ exceeds_load(size + 1, Count(t), l)
      <4>1. ASSUME target <= Count(t) PROVE FALSE
        <5>1. target \in 0 .. Count(t) /\ Count(t) \in BucketCounts
              BY <1>1, <1>5, <3>2, <4>1
        <5> HIDE DEF size, l
        <5>2. QED BY <1>1, <1>3, <2>5, <3>2, <5>1, ExceedsLess
      <4>2. QED BY <1>1, <1>5, <4>1
    <3>3. QED BY <1>6, <1>8, <3>1, <3>2
  <2>7. Agreeing(s, buckets[t], f) => Grouped(s, f)
        BY DEF Agreeing
  <2>8. Settles(size + 1, l, Count(t), target)
        BY <1>6, <1>8, <2>5, <2>6 DEF Settles
  <2>9. QED BY <1>5, <2>4, <2>7, <2>8 DEF s
<1>9. QED BY <1>7, <1>8

(* find_node: the first of the nodes with that hash and that key in their  *)
(* chain, or none.                                                         *)
LEMMA FindNode ==
    ASSUME PolicyAssumption, TypeOK, NEW t \in Tables, Linked(order[t], buckets[t], cached),
           NEW code \in Nat, NEW k
    PROVE  LET found == find_node(t, code, k)
               Hit   == {n \in ToSet(order[t]) : cached[n] = code /\ key[n] = k}
           IN  \/ found = Null /\ Hit = {}
               \/ /\ found \in Hit
                  /\ bucket_for_hash(code, Count(t)) \in 1 .. Count(t)
                  /\ \A n \in Hit :
                        n = found \/ Precedes(buckets[t][bucket_for_hash(code, Count(t))], found, n)
<1> DEFINE found == find_node(t, code, k)
           s     == order[t]
           Hit   == {n \in ToSet(s) : cached[n] = code /\ key[n] = k}
           b     == bucket_for_hash(code, Count(t))
           chain == buckets[t][b]
           I     == {i \in 1 .. Len(chain) : cached[chain[i]] = code /\ key[chain[i]] = k}
<1>1. /\ s \in Seq(Nodes) /\ buckets[t] \in Seq(Seq(Nodes)) /\ Count(t) \in Nat
      BY DEF TypeOK, Count
<1>2. CASE Count(t) = 0
  <2>1. s = <<>>
        BY <1>2 DEF Linked, Count
  <2>2. ToSet(s) = {}
        BY <2>1, EmptyList
  <2>3. found = Null
        BY <1>2 DEF find_node
  <2>4. QED BY <2>2, <2>3
<1>3. CASE Count(t) # 0
  <2>1. b \in 1 .. Count(t)
        BY <1>1, <1>3, BucketRange
  <2>2. /\ chain \in Seq(Nodes) /\ IsInjective(chain)
        /\ ToSet(chain) = {n \in ToSet(s) : bucket_for_hash(cached[n], Count(t)) = b}
        BY <1>1, <2>1 DEF Linked, Count
  <2>3. \A n \in Hit : n \in ToSet(chain)
        BY <2>2
  <2>4. found = IF I # {} THEN chain[Min(I)] ELSE Null
    <3>1. \A i \in I : i # 0
          BY SMTT(40)
    <3>2. I # {} => Min(I) \in I
      <4>1. I \subseteq Nat
            OBVIOUS
      <4>2. QED BY <4>1, Least
    <3>3. found = LET hit == IF I # {} THEN Min(I) ELSE 0 IN IF hit = 0 THEN Null ELSE chain[hit]
          BY <1>3 DEF find_node, SelectInSeq
    <3> HIDE DEF found, I, chain
    <3>4. QED BY <3>1, <3>2, <3>3
  <2> HIDE DEF found, b, chain
  <2>5. CASE I = {}
    <3>1. ASSUME NEW n \in Hit PROVE FALSE
      <4>1. PICK i \in 1 .. Len(chain) : chain[i] = n
            BY <2>2, <2>3, <3>1, Index
      <4>2. i \in I
            BY <3>1, <4>1
      <4>3. QED BY <2>5, <4>2
    <3>2. QED BY <2>4, <2>5, <3>1 DEF found
  <2>6. CASE I # {}
    <3>1. Min(I) \in I /\ \A i \in I : Min(I) <= i
      <4>1. I \subseteq Nat
            OBVIOUS
      <4>2. QED BY <2>6, <4>1, Least
    <3>2. found = chain[Min(I)]
          BY <2>4, <2>6
    <3>3. found \in Hit
      <4>1. Min(I) \in 1 .. Len(chain)
            BY <3>1
      <4>2. found \in ToSet(chain)
            BY <2>2, <3>2, <4>1, Index
      <4>3. cached[found] = code /\ key[found] = k
            BY <3>1, <3>2
      <4>4. QED BY <2>2, <4>2, <4>3
    <3>4. ASSUME NEW n \in Hit, n # found PROVE Precedes(chain, found, n)
      <4>1. PICK i \in 1 .. Len(chain) : chain[i] = n
            BY <2>2, <2>3, <3>4, Index
      <4>2. i \in I
            BY <3>4, <4>1
      <4>3. Min(I) <= i /\ Min(I) # i /\ Min(I) \in 1 .. Len(chain)
            BY <3>1, <3>2, <3>4, <4>1, <4>2
      <4>4. Min(I) < i
            BY <4>3
      <4>5. QED BY <3>2, <4>1, <4>3, <4>4 DEF Precedes
    <3>5. QED BY <2>1, <3>3, <3>4 DEF found, chain, b
  <2>7. QED BY <2>5, <2>6
<1>4. QED BY <1>2, <1>3

-----------------------------------------------------------------------------
(* What lookup in a table relies on, besides its structure: equal keys are *)
(* together, in a table of unique keys there are none, and no cached hash  *)
(* is stale.                                                               *)
Keyed(s, array, code, f, h, one) ==
    /\ Agreeing(s, array, f)
    /\ one => Distinct(s, f)
    /\ \A n \in ToSet(s) : f[n] \in Keys /\ code[n] = Hash(h, f[n])

LEMMA KeyedFrame ==
    ASSUME NEW s \in Seq(Nodes), NEW array \in Seq(Seq(Nodes)), NEW code, NEW other, NEW f, NEW g,
           NEW h, NEW one, Linked(s, array, code), Keyed(s, array, code, f, h, one),
           \A n \in ToSet(s) : other[n] = code[n] /\ g[n] = f[n]
    PROVE  Keyed(s, array, other, g, h, one)
<1>1. Agreeing(s, array, g)
      BY AgreeingFrame DEF Keyed
<1>2. one => Distinct(s, g)
      BY DEF Keyed, Distinct
<1>3. \A n \in ToSet(s) : g[n] \in Keys /\ other[n] = Hash(h, g[n])
      BY DEF Keyed
<1>4. QED BY <1>1, <1>2, <1>3 DEF Keyed

(* Link: the node comes into the list and into the chain of its hash, each *)
(* time where it fits.                                                     *)
LEMMA LinkKeeps ==
    ASSUME NullAssumption, HashAssumption, PolicyAssumption, FloatAssumption, SizeAssumption, TypeOK,
           NEW t \in Tables, Linked(order[t], buckets[t], cached),
           Keyed(order[t], buckets[t], cached, key, hasher[t], unique[t]),
           NEW n \in Nodes, n \notin ToSet(order[t]), NEW k \in Keys,
           unique[t] => find_node(t, Hash(hasher[t], k), k) = Null,
           NEW g, g[n] = k, \A m \in ToSet(order[t]) : g[m] = key[m]
    PROVE  LET code     == Hash(hasher[t], k)
               existing == find_node(t, code, k)
               s        == LinkedOrder(t, n, k, existing)
               array    == LinkedBuckets(t, n, k, code, existing)
               other    == [cached EXCEPT ![n] = code]
           IN  /\ s \in Seq(Nodes) /\ ToSet(s) = ToSet(order[t]) \cup {n}
               /\ array \in Seq(Seq(Nodes)) /\ Len(array) \in BucketCounts
               /\ Linked(s, array, other)
               /\ Keyed(s, array, other, g, hasher[t], unique[t])
               /\ Settles(Len(order[t]) + 1, load[t], Count(t), Len(array))
               /\ s # order[t]
<1> DEFINE code     == Hash(hasher[t], k)
           existing == find_node(t, code, k)
<1>0. code = Hash(hasher[t], k) /\ existing = find_node(t, code, k) /\ (unique[t] => existing = Null)
      OBVIOUS
<1> HIDE DEF code, existing
<1> USE <1>0
<1> DEFINE s     == order[t]
           other == [cached EXCEPT ![n] = code]
           array == Reserved(t)
           b     == bucket_for_hash(code, Len(array))
           chain == array[b]
           p     == IF existing = Null THEN Len(s) + 1
                    ELSE last_equivalent_in_order(s, existing, k) + 1
           q     == CASE existing # Null ->
                            last_equivalent_in_bucket(chain, existing, code, k) + 1
                      [] existing = Null /\ unique[t] /\ will_rehash_for_one_more(t) -> 1
                      [] OTHER -> Len(chain) + 1
           after == [array EXCEPT ![b] = InsertAt(array[b], q, n)]
<1>1. /\ s \in Seq(Nodes) /\ IsInjective(s) /\ cached \in [Nodes -> Nat]
      /\ Null \notin Nodes
      BY DEF TypeOK, Linked, NullAssumption
<1>2. code \in Nat
  <2>1. hasher[t] \in Hashers
        BY DEF TypeOK
  <2>2. QED BY <2>1 DEF HashAssumption
<1>3. \A m \in ToSet(s) : key[m] = k => cached[m] = code
      BY DEF Keyed
<1>4. /\ array \in Seq(Seq(Nodes)) /\ Len(array) \in BucketCounts
      /\ Linked(s, array, cached) /\ Agreeing(s, array, key)
      /\ Settles(Len(s) + 1, load[t], Count(t), Len(array))
      BY ReservedArray, ZenonT(60) DEF Keyed
<1>5. \/ existing = Null /\ \A m \in ToSet(s) : key[m] # k
      \/ existing \in ToSet(s) /\ existing # Null /\ key[existing] = k /\ cached[existing] = code
  <2>1. \/ existing = Null /\ {m \in ToSet(s) : cached[m] = code /\ key[m] = k} = {}
        \/ existing \in {m \in ToSet(s) : cached[m] = code /\ key[m] = k}
        BY <1>2, FindNode
  <2>2. ToSet(s) \subseteq Nodes
        BY <1>1, Elements
  <2>3. QED BY <1>1, <1>3, <2>1, <2>2
<1> HIDE DEF array, s
<1>6. b \in 1 .. Len(array)
  <2>1. Len(array) \in Nat \ {0}
        BY <1>4 DEF PolicyAssumption
  <2>2. QED BY <1>2, <2>1, BucketRange
<1>7. /\ chain \in Seq(Nodes) /\ IsInjective(chain) /\ Grouped(chain, key) /\ Grouped(s, key)
      /\ ToSet(chain) = {m \in ToSet(s) : bucket_for_hash(cached[m], Len(array)) = b}
  <2>1. chain = array[b] /\ array \in Seq(Seq(Nodes))
        BY <1>4
  <2> HIDE DEF chain
  <2>2. chain \in Seq(Nodes)
        BY <1>6, <2>1
  <2>3. QED BY <1>4, <1>6, <2>1, <2>2 DEF Linked, Agreeing
<1> HIDE DEF chain
<1>8. p \in 1 .. Len(s) + 1 /\ Fits(s, key, k, p)
  <2>1. CASE existing = Null
    <3>1. Fits(s, key, k, Len(s) + 1)
          BY <1>1, <1>5, <2>1, FitsAtEnds
    <3>2. Len(s) \in Nat
          BY <1>1
    <3>3. QED BY <2>1, <3>1, <3>2
  <2>2. CASE existing # Null
    <3> DEFINE P == {m \in Nodes : key[m] = k}
    <3>1. \A m \in ToSet(s) : m \in P <=> key[m] = k
          BY <1>1, Elements
    <3>2. existing \in ToSet(s) /\ key[existing] = k
          BY <1>5, <2>2
    <3> HIDE DEF P
    <3>3. LastOfRun(s, existing, P) + 1 \in 1 .. Len(s) + 1
          /\ Fits(s, key, k, LastOfRun(s, existing, P) + 1)
          BY <1>1, <1>7, <3>1, <3>2, FitsBehindRun
    <3>4. QED BY <2>2, <3>3 DEF last_equivalent_in_order, P
  <2>3. QED BY <2>1, <2>2
<1>9. q \in 1 .. Len(chain) + 1 /\ Fits(chain, key, k, q)
  <2>1. CASE existing = Null
    <3>1. \A m \in ToSet(chain) : key[m] # k
          BY <1>5, <1>7, <2>1
    <3>2. Fits(chain, key, k, 1) /\ Fits(chain, key, k, Len(chain) + 1)
          BY <1>7, <3>1, FitsAtEnds
    <3>3. Len(chain) \in Nat
          BY <1>7
    <3>4. q = 1 \/ q = Len(chain) + 1
          BY <2>1
    <3> HIDE DEF q
    <3>5. QED BY <3>2, <3>3, <3>4
  <2>2. CASE existing # Null
    <3> DEFINE P == {m \in Nodes : cached[m] = code /\ key[m] = k}
    <3>1. ToSet(chain) \subseteq Nodes /\ ToSet(chain) \subseteq ToSet(s)
          BY <1>7, Elements
    <3>2. \A m \in ToSet(chain) : m \in P <=> key[m] = k
          BY <1>3, <3>1 DEF s
    <3>3. existing \in ToSet(chain) /\ key[existing] = k
          BY <1>5, <1>7, <2>2
    <3> HIDE DEF P
    <3>4. LastOfRun(chain, existing, P) + 1 \in 1 .. Len(chain) + 1
          /\ Fits(chain, key, k, LastOfRun(chain, existing, P) + 1)
          BY <1>7, <3>2, <3>3, FitsBehindRun
    <3>5. q = LastOfRun(chain, existing, P) + 1
          BY <2>2 DEF last_equivalent_in_bucket, P
    <3> HIDE DEF q
    <3>6. QED BY <3>4, <3>5
  <2>3. QED BY <2>1, <2>2
<1>10. LinkedOrder(t, n, k, existing) = InsertAt(s, p, n)
  <2>1. Append(s, n) = InsertAt(s, Len(s) + 1, n)
        BY <1>1, Appended
  <2>2. QED BY <2>1 DEF LinkedOrder, s
<1>11. LinkedBuckets(t, n, k, code, existing) = after
      BY DEF LinkedBuckets, array, chain
<1> HIDE DEF p, q
<1>12. /\ InsertAt(s, p, n) \in Seq(Nodes) /\ ToSet(InsertAt(s, p, n)) = ToSet(s) \cup {n}
  <2>1. s \in Seq(Nodes) /\ IsInjective(s) /\ n \notin ToSet(s) /\ p \in 1 .. Len(s) + 1
        BY <1>1, <1>8 DEF s
  <2>2. QED BY <2>1, Inserted, SMTT(60)
<1>13. \A m \in ToSet(s) : other[m] = cached[m]
  <2>1. \A m \in ToSet(s) : m \in Nodes /\ m # n
        BY <1>1, Elements DEF s
  <2>2. QED BY <1>1, <2>1
<1>14. other[n] = code
      BY <1>1
<1> HIDE DEF other
<1>15. /\ after \in Seq(Seq(Nodes)) /\ Len(after) = Len(array)
       /\ Linked(InsertAt(s, p, n), after, other)
  <2>1. b = bucket_for_hash(other[n], Len(array)) /\ n \notin ToSet(s) /\ q \in 1 .. Len(array[b]) + 1
        BY <1>9, <1>14 DEF s, chain
  <2>2. s \in Seq(Nodes) /\ array \in Seq(Seq(Nodes)) /\ Linked(s, array, cached)
        BY <1>1, <1>4
  <2> HIDE DEF b
  <2>3. \A c \in 1 .. Len(array) : c = bucket_for_hash(other[n], Len(array)) =>
           \A i \in 1 .. Len(s) + 1, j \in 1 .. Len(array[c]) + 1 :
              /\ [array EXCEPT ![c] = InsertAt(array[c], j, n)] \in Seq(Seq(Nodes))
              /\ Len([array EXCEPT ![c] = InsertAt(array[c], j, n)]) = Len(array)
              /\ Linked(InsertAt(s, i, n), [array EXCEPT ![c] = InsertAt(array[c], j, n)], other)
        BY <1>13, <2>1, <2>2, LinkedInsert
  <2>4. QED BY <1>6, <1>8, <2>1, <2>3
<1>16. Agreeing(InsertAt(s, p, n), after, g)
  <2>1. /\ n \notin ToSet(s) /\ q \in 1 .. Len(array[b]) + 1
        /\ Fits(s, key, g[n], p) /\ Fits(array[b], key, g[n], q)
        /\ \A m \in ToSet(s) : g[m] = key[m]
        BY <1>8, <1>9 DEF s, chain
  <2> HIDE DEF b
  <2>2. QED BY <1>1, <1>4, <1>6, <1>8, <2>1, AgreeingInsert, ZenonT(60)
<1>17. unique[t] => Distinct(InsertAt(s, p, n), g)
  <2>1. SUFFICES ASSUME unique[t] PROVE Distinct(InsertAt(s, p, n), g)
        OBVIOUS
  <2>2. \A m \in ToSet(s) : g[m] = key[m] /\ key[m] # g[n]
        BY <1>5, <2>1 DEF s
  <2>3. Distinct(s, key) /\ n \notin ToSet(s)
        BY <2>1 DEF Keyed, s
  <2>4. QED BY <1>1, <1>8, <2>2, <2>3, DistinctInsert
<1>18. \A m \in ToSet(s) \cup {n} : g[m] \in Keys /\ other[m] = Hash(hasher[t], g[m])
      BY <1>13, <1>14 DEF Keyed, s
<1>19. InsertAt(s, p, n) # s
      BY <1>12 DEF s
<1>20. Keyed(InsertAt(s, p, n), after, other, g, hasher[t], unique[t])
      BY <1>12, <1>16, <1>17, <1>18 DEF Keyed
<1>21. Len(after) = Len(array) /\ (array = buckets[t] => Len(after) = Count(t))
      BY <1>15 DEF Count
<1> HIDE DEF after
<1>22. QED BY <1>4, <1>10, <1>11, <1>12, <1>15, <1>19, <1>20, <1>21, ZenonT(60)
              DEF s, other, code, existing

-----------------------------------------------------------------------------
(* The inductive invariant.  A table's structure is right whatever its     *)
(* values are; it is keyed right unless a move has emptied its values.     *)
TableInv(t) ==
    /\ Linked(order[t], buckets[t], cached)
    /\ Sound(t) => Keyed(order[t], buckets[t], cached, key, hasher[t], unique[t])

(* A node that exists is in one table, or it is the node handle's. *)
Owned ==
    /\ \A t, u \in Tables : \A n \in ToSet(order[t]) : n \in ToSet(order[u]) => t = u
    /\ \A t \in Tables : \A n \in ToSet(order[t]) : key[n] # Null /\ n # handle
    /\ handle # Null => key[handle] \in Keys
    /\ \A n \in Nodes : key[n] # Null => n = handle \/ \E t \in Tables : n \in ToSet(order[t])

(* A merge is between two tables with values, at a node of the source. *)
MergeInv ==
    merging # NoMerge =>
        /\ merging.into # merging.from
        /\ merging.into \notin husks /\ merging.from \notin husks
        /\ merging.node \in ToSet(order[merging.from])

Inv == TypeOK /\ (\A t \in Tables : TableInv(t)) /\ Owned /\ MergeInv

HashTableAssumption ==
    NullAssumption /\ HashAssumption /\ PolicyAssumption /\ FloatAssumption /\ SizeAssumption

LEMMA TableFrame ==
    ASSUME TypeOK, NEW t \in Tables, TableInv(t), unique' = unique,
           order'[t] = order[t], buckets'[t] = buckets[t], hasher'[t] = hasher[t],
           t \in husks => t \in husks',
           \A n \in ToSet(order[t]) : cached'[n] = cached[n] /\ key'[n] = key[n]
    PROVE  TableInv(t)'
<1>1. order[t] \in Seq(Nodes) /\ buckets[t] \in Seq(Seq(Nodes))
      BY DEF TypeOK
<1>2. Linked(order[t], buckets[t], cached')
      BY LinkedFrame DEF TableInv
<1>3. ASSUME t \notin husks'
      PROVE  Keyed(order[t], buckets[t], cached', key', hasher[t], unique[t])
      BY <1>1, <1>3, KeyedFrame DEF TableInv, Sound
<1>4. QED BY <1>2, <1>3 DEF TableInv, Sound

LEMMA NoSuchMerge ==
    ASSUME NullAssumption, NEW r \in [into : Tables, from : Tables, node : Nodes]
    PROVE  r # NoMerge /\ r.into \in Tables /\ r.from \in Tables /\ r.node \in Nodes
BY DEF NullAssumption, NoMerge

LEMMA InitInv == Init /\ HashTableAssumption => Inv
<1> SUFFICES ASSUME Init, HashTableAssumption PROVE Inv
    OBVIOUS
<1>1. \A S : <<>> \in Seq(S)
      BY EmptyList
<1>2. Unit \in LoadFactors
      BY DEF HashTableAssumption, PolicyAssumption
<1>3. \A t \in Tables : order[t] = <<>> /\ buckets[t] = <<>>
      BY DEF Init
<1>4. \A t \in Tables : Count(t) = 0
      BY <1>3, EmptyList DEF Count
<1>5. TypeOK
      BY <1>1, <1>2, <1>4 DEF Init, TypeOK
<1>6. ASSUME NEW t \in Tables PROVE TableInv(t)
  <2>1. /\ IsInjective(order[t]) /\ ToSet(order[t]) = {} /\ Len(buckets[t]) = 0
        /\ \A m, n : ~Precedes(order[t], m, n)
        BY <1>3, EmptyList
  <2>2. 1 .. Len(buckets[t]) = {}
        BY <2>1
  <2>3. Linked(order[t], buckets[t], cached)
        BY <1>3, <2>1, <2>2 DEF Linked
  <2>4. Keyed(order[t], buckets[t], cached, key, hasher[t], unique[t])
        BY <2>1, <2>2 DEF Keyed, Agreeing, Grouped, Distinct
  <2>5. QED BY <2>3, <2>4 DEF TableInv
<1>7. Owned
  <2>1. \A t \in Tables : ToSet(order[t]) = {}
        BY <1>3, EmptyList
  <2>2. QED BY <2>1 DEF Owned, Init
<1>8. QED BY <1>5, <1>6, <1>7 DEF Inv, MergeInv, Init

(* What an insertion into t does about t's bucket array. *)
Due(t) == Settles(Len(order[t]) + 1, load[t], Count(t), Count(t)')

(* The tables but t, in order and without node n. *)
Without(n, t, others, chains) ==
    \A u \in Tables \ {t} :
        /\ Len(chains[u]) \in BucketCounts \cup {0} /\ n \notin ToSet(others[u])
        /\ Linked(others[u], chains[u], cached)
        /\ Sound(u) => Keyed(others[u], chains[u], cached, key, hasher[u], unique[u])

(* What becomes of the tables when n comes into t. *)
Arrived(n, t, others) ==
    /\ order' \in [Tables -> Seq(Nodes)] /\ buckets' \in [Tables -> Seq(Seq(Nodes))]
    /\ \A u \in Tables : Count(u)' \in BucketCounts \cup {0}
    /\ cached' \in [Nodes -> Nat]
    /\ \A u \in Tables : TableInv(u)'
    /\ ToSet(order'[t]) = ToSet(order[t]) \cup {n} /\ order'[t] # order[t]
    /\ \A u \in Tables \ {t} : order'[u] = others[u]
    /\ Due(t)

(* Putting a node with key k into table t. *)
LEMMA LinkedIn ==
    ASSUME HashTableAssumption, Inv, NEW t \in Tables, t \notin husks, NEW k \in Keys, NEW n \in Nodes,
           NEW others \in [Tables -> Seq(Nodes)], NEW chains \in [Tables -> Seq(Seq(Nodes))],
           n \notin ToSet(order[t]),
           Without(n, t, others, chains),
           Link(t, n, k, others, chains),
           key'[n] = k, \A m \in Nodes \ {n} : key'[m] = key[m],
           UNCHANGED <<unique, hasher, load, husks>>
    PROVE  Arrived(n, t, others)
<1> DEFINE code     == Hash(hasher[t], k)
           existing == find_node(t, code, k)
           s        == LinkedOrder(t, n, k, existing)
           array    == LinkedBuckets(t, n, k, code, existing)
           other    == [cached EXCEPT ![n] = code]
<1>1. /\ unique[t] => existing = Null
      /\ order' = [others EXCEPT ![t] = s]
      /\ buckets' = [chains EXCEPT ![t] = array]
      /\ cached' = other
      BY DEF Link
<1>2. TypeOK /\ \A u \in Tables : TableInv(u)
      BY DEF Inv
<1>3. /\ Linked(order[t], buckets[t], cached)
      /\ Keyed(order[t], buckets[t], cached, key, hasher[t], unique[t])
      BY <1>2 DEF TableInv, Sound
<1>4. \A u \in Tables \ {t} : \A m \in ToSet(others[u]) : m \in Nodes \ {n}
      BY Elements DEF Without
<1>5. \A m \in ToSet(order[t]) : key'[m] = key[m]
  <2>1. \A m \in ToSet(order[t]) : m \in Nodes \ {n}
        BY <1>2, Elements DEF TypeOK
  <2>2. QED BY <2>1
<1> HIDE DEF existing
<1>6. /\ s \in Seq(Nodes) /\ ToSet(s) = ToSet(order[t]) \cup {n}
      /\ array \in Seq(Seq(Nodes)) /\ Len(array) \in BucketCounts
      /\ Linked(s, array, other)
      /\ Keyed(s, array, other, key', hasher[t], unique[t])
      /\ Settles(Len(order[t]) + 1, load[t], Count(t), Len(array))
      /\ s # order[t]
  <2>1. /\ NullAssumption /\ HashAssumption /\ PolicyAssumption /\ FloatAssumption
        /\ SizeAssumption /\ TypeOK
        BY <1>2 DEF HashTableAssumption
  <2>2. n \notin ToSet(order[t]) /\ (unique[t] => find_node(t, Hash(hasher[t], k), k) = Null)
        BY <1>1 DEF existing
  <2>3. QED BY <1>3, <1>5, <2>1, <2>2, LinkKeeps, ZenonT(40) DEF existing
<1>7. code \in Nat
      BY <1>2 DEF HashTableAssumption, HashAssumption, TypeOK
<1> HIDE DEF s, array, code
<1>8. /\ order' \in [Tables -> Seq(Nodes)] /\ buckets' \in [Tables -> Seq(Seq(Nodes))]
      /\ cached' \in [Nodes -> Nat]
      BY <1>1, <1>2, <1>6, <1>7 DEF TypeOK
<1>9. order'[t] = s /\ buckets'[t] = array
      BY <1>1, <1>2 DEF TypeOK
<1>10. \A u \in Tables \ {t} : order'[u] = others[u] /\ buckets'[u] = chains[u]
      BY <1>1
<1>11. \A u \in Tables : Count(u)' \in BucketCounts \cup {0}
      BY <1>6, <1>9, <1>10 DEF Count, Without
<1>12. ASSUME NEW u \in Tables PROVE TableInv(u)'
  <2>1. CASE u = t
        BY <1>1, <1>6, <1>9, <2>1 DEF TableInv
  <2>2. CASE u # t
    <3>1. \A m \in ToSet(others[u]) : cached'[m] = cached[m] /\ key'[m] = key[m]
          BY <1>1, <1>2, <1>4, <2>2 DEF TypeOK
    <3>2. Linked(others[u], chains[u], cached')
          BY <2>2, <3>1, LinkedFrame DEF Without
    <3>3. Sound(u) => Keyed(others[u], chains[u], cached', key', hasher[u], unique[u])
          BY <2>2, <3>1, KeyedFrame DEF Without
    <3>4. QED BY <1>10, <2>2, <3>2, <3>3 DEF TableInv, Sound
  <2>3. QED BY <2>1, <2>2
<1>13. Due(t)
  <2>1. Count(t)' = Len(array)
        BY <1>9 DEF Count
  <2>2. QED BY <1>6, <2>1 DEF Due
<1>14. QED BY <1>6, <1>8, <1>9, <1>10, <1>11, <1>12, <1>13 DEF Arrived

(* The nodes a table may be given: new ones and the handle's. *)
LEMMA Unowned ==
    ASSUME NullAssumption, TypeOK, Owned, NEW n \in Nodes, key[n] = Null \/ n = handle
    PROVE  /\ \A u \in Tables : n \notin ToSet(order[u])
           /\ key[n] = Null => n # handle
<1>1. handle # Null => key[handle] # Null
      BY DEF Owned, NullAssumption
<1>2. n # Null
      BY DEF NullAssumption
<1>3. QED BY <1>1, <1>2 DEF Owned

(* Node n has come into table t, and the other tables are as they were. *)
Gained(t, n) ==
    /\ ToSet(order'[t]) = ToSet(order[t]) \cup {n}
    /\ \A u \in Tables \ {t} : order'[u] = order[u]

(* insert() and insert_node_*(): a new node, or the one of the handle,     *)
(* comes into table t.                                                     *)
LEMMA IntoTable ==
    ASSUME HashTableAssumption, Inv, NEW t \in Tables, Idle(t), NEW n \in Nodes, NEW k \in Keys,
           key[n] = Null \/ n = handle,
           Link(t, n, k, order, buckets), key' = [key EXCEPT ![n] = k],
           handle' = IF n = handle THEN Null ELSE handle, Same
    PROVE  Inv' /\ Due(t) /\ Gained(t, n)
<1>1. /\ TypeOK /\ (\A u \in Tables : TableInv(u)) /\ Owned /\ NullAssumption
      /\ t \notin husks /\ merging = NoMerge /\ merging' = NoMerge
      /\ unique' = unique /\ hasher' = hasher /\ load' = load /\ husks' = husks
      BY DEF Inv, Idle, Same, HashTableAssumption
<1>2. \A u \in Tables : n \notin ToSet(order[u])
      BY <1>1, Unowned
<1>3. /\ order \in [Tables -> Seq(Nodes)] /\ buckets \in [Tables -> Seq(Seq(Nodes))]
      /\ key \in [Nodes -> Keys \cup {MovedFrom, Null}]
      /\ \A u \in Tables : Len(buckets[u]) \in BucketCounts \cup {0}
      BY <1>1 DEF TypeOK, Count
<1>4. key'[n] = k /\ \A m \in Nodes \ {n} : key'[m] = key[m]
      BY <1>3
<1>5. Arrived(n, t, order)
  <2>1. Without(n, t, order, buckets)
        BY <1>1, <1>2, <1>3 DEF TableInv, Without
  <2>2. n \notin ToSet(order[t]) /\ t \notin husks
        BY <1>1, <1>2
  <2>3. UNCHANGED <<unique, hasher, load, husks>>
        BY <1>1
  <2>4. order \in [Tables -> Seq(Nodes)] /\ buckets \in [Tables -> Seq(Seq(Nodes))]
        BY <1>3
  <2>5. QED BY <1>4, <2>1, <2>2, <2>3, <2>4, LinkedIn, ZenonT(60)
<1>6. TypeOK'
  <2>1. key' \in [Nodes -> Keys \cup {MovedFrom, Null}]
        BY <1>3
  <2>2. handle' \in Nodes \cup {Null}
        BY <1>1 DEF TypeOK
  <2>3. QED BY <1>1, <1>5, <2>1, <2>2 DEF TypeOK, Arrived
<1>7. Owned'
  <2>1. \A u \in Tables : \A m \in ToSet(order[u]) : m \in Nodes /\ m # n
        BY <1>2, <1>3, Elements
  <2>2. \A u \in Tables : \A m \in ToSet(order'[u]) :
           m \in ToSet(order[u]) \/ (m = n /\ u = t)
    <3>1. ToSet(order'[t]) = ToSet(order[t]) \cup {n} /\ \A u \in Tables \ {t} : order'[u] = order[u]
          BY <1>5 DEF Arrived
    <3>2. SUFFICES ASSUME NEW u \in Tables, NEW m \in ToSet(order'[u])
                   PROVE  m \in ToSet(order[u]) \/ (m = n /\ u = t)
          OBVIOUS
    <3>3. CASE u = t
          BY <3>1, <3>3
    <3>4. CASE u # t
      <4>1. order'[u] = order[u]
            BY <3>1, <3>4
      <4>2. QED BY <4>1
    <3>5. QED BY <3>3, <3>4
  <2>3. k # Null /\ n # Null
        BY <1>1 DEF NullAssumption
  <2>4. \A u, v \in Tables : \A m \in ToSet(order'[u]) : m \in ToSet(order'[v]) => u = v
        BY <1>1, <2>1, <2>2 DEF Owned
  <2>5. \A u \in Tables : \A m \in ToSet(order'[u]) : key'[m] # Null /\ m # handle'
        BY <1>1, <1>4, <2>1, <2>2, <2>3 DEF Owned
  <2>6. handle' # Null => key'[handle'] \in Keys
        BY <1>1, <1>4 DEF Owned, TypeOK
  <2>7. \A m \in Nodes : key'[m] # Null => m = handle' \/ \E u \in Tables : m \in ToSet(order'[u])
    <3>1. ASSUME NEW m \in Nodes, key'[m] # Null, m # handle'
          PROVE  \E u \in Tables : m \in ToSet(order'[u])
      <4>1. CASE m = n
            BY <1>5, <4>1 DEF Arrived
      <4>2. CASE m # n
        <5>1. key[m] # Null /\ m # handle
              BY <1>4, <3>1, <4>2
        <5>2. PICK u \in Tables : m \in ToSet(order[u])
              BY <1>1, <5>1 DEF Owned
        <5>3. QED BY <1>5, <5>2 DEF Arrived
      <4>3. QED BY <4>1, <4>2
    <3>2. QED BY <3>1
  <2>8. QED BY <2>4, <2>5, <2>6, <2>7 DEF Owned
<1>8. MergeInv'
      BY <1>1 DEF MergeInv
<1>9. Due(t) /\ Gained(t, n) /\ \A u \in Tables : TableInv(u)'
      BY <1>5 DEF Arrived, Gained
<1>10. QED BY <1>6, <1>7, <1>8, <1>9 DEF Inv

LEMMA InsertInv ==
    ASSUME HashTableAssumption, Inv, NEW t \in Tables, NEW k \in Keys, Insert(t, k)
    PROVE  Inv' /\ Due(t) /\ \E n \in Free : Gained(t, n) /\ key' = [key EXCEPT ![n] = k]
<1>1. PICK n \in Free : Link(t, n, k, order, buckets) /\ key' = [key EXCEPT ![n] = k]
      BY DEF Insert
<1>2. n \in Nodes /\ key[n] = Null
      BY DEF Free
<1>3. n # handle
      BY <1>2, Unowned DEF Inv, HashTableAssumption
<1>4. Idle(t) /\ Same /\ handle' = IF n = handle THEN Null ELSE handle
      BY <1>3 DEF Insert
<1>5. QED BY <1>1, <1>2, <1>4, IntoTable

LEMMA InsertNodeInv ==
    ASSUME HashTableAssumption, Inv, NEW t \in Tables, InsertNode(t)
    PROVE  Inv' /\ Due(t) /\ Gained(t, handle)
<1>1. /\ handle \in Nodes /\ key[handle] \in Keys /\ key \in [Nodes -> Keys \cup {MovedFrom, Null}]
      BY DEF InsertNode, Inv, TypeOK, Owned
<1>2. key' = [key EXCEPT ![handle] = key[handle]]
      BY <1>1 DEF InsertNode
<1>3. /\ Idle(t) /\ Same /\ handle' = IF handle = handle THEN Null ELSE handle
      /\ Link(t, handle, key[handle], order, buckets)
      BY DEF InsertNode
<1>4. QED BY <1>1, <1>2, <1>3, IntoTable

(* Table t becomes s and array, and the nodes of the others stay as they   *)
(* are.                                                                    *)
Became(t, s, array) ==
    /\ order' \in [Tables -> Seq(Nodes)] /\ buckets' \in [Tables -> Seq(Seq(Nodes))]
    /\ \A u \in Tables : Count(u)' \in BucketCounts \cup {0}
    /\ \A u \in Tables : TableInv(u)'
    /\ order'[t] = s /\ \A u \in Tables \ {t} : order'[u] = order[u]

LEMMA TableChanges ==
    ASSUME Inv, NEW t \in Tables, NEW s \in Seq(Nodes), NEW array \in Seq(Seq(Nodes)),
           Len(array) \in BucketCounts \cup {0},
           order' = [order EXCEPT ![t] = s], buckets' = [buckets EXCEPT ![t] = array],
           unique' = unique, \A u \in Tables \ {t} : hasher'[u] = hasher[u],
           husks \ {t} \subseteq husks',
           \A u \in Tables \ {t} : \A n \in ToSet(order[u]) : cached'[n] = cached[n],
           \A u \in Tables \ {t} : u \notin husks' => \A n \in ToSet(order[u]) : key'[n] = key[n],
           Linked(s, array, cached'),
           t \notin husks' => Keyed(s, array, cached', key', hasher'[t], unique[t])
    PROVE  Became(t, s, array)
<1>1. /\ order \in [Tables -> Seq(Nodes)] /\ buckets \in [Tables -> Seq(Seq(Nodes))]
      /\ \A u \in Tables : Len(buckets[u]) \in BucketCounts \cup {0}
      BY DEF Inv, TypeOK, Count
<1>2. order' \in [Tables -> Seq(Nodes)] /\ buckets' \in [Tables -> Seq(Seq(Nodes))]
      BY <1>1
<1>3. /\ order'[t] = s /\ buckets'[t] = array
      /\ \A u \in Tables \ {t} : order'[u] = order[u] /\ buckets'[u] = buckets[u]
      BY <1>1
<1>4. \A u \in Tables : Len(buckets'[u]) \in BucketCounts \cup {0}
      BY <1>1, <1>3
<1>5. ASSUME NEW u \in Tables PROVE TableInv(u)'
  <2>1. CASE u = t
        BY <1>3, <2>1 DEF TableInv, Sound
  <2>2. CASE u # t
    <3>1. /\ TypeOK /\ TableInv(u) /\ unique' = unique
          /\ order'[u] = order[u] /\ buckets'[u] = buckets[u] /\ hasher'[u] = hasher[u]
          BY <1>3, <2>2 DEF Inv
    <3>2. u \in husks => u \in husks'
          BY <2>2
    <3>3. \A n \in ToSet(order[u]) : cached'[n] = cached[n]
          BY <2>2
    <3>4. CASE u \in husks'
      <4>1. Linked(order[u], buckets[u], cached')
            BY <3>1, <3>3, LinkedFrame DEF TableInv
      <4>2. QED BY <3>1, <3>4, <4>1 DEF TableInv, Sound
    <3>5. CASE u \notin husks'
      <4>1. \A n \in ToSet(order[u]) : cached'[n] = cached[n] /\ key'[n] = key[n]
            BY <2>2, <3>3, <3>5
      <4>2. QED BY <3>1, <3>2, <4>1, TableFrame
    <3>6. QED BY <3>4, <3>5
  <2>3. QED BY <2>1, <2>2
<1>6. QED BY <1>2, <1>3, <1>4, <1>5 DEF Became, Count

LEMMA OneTable ==
    ASSUME Inv, NEW t \in Tables, NEW s \in Seq(Nodes), NEW array \in Seq(Seq(Nodes)),
           Len(array) \in BucketCounts \cup {0},
           order' = [order EXCEPT ![t] = s], buckets' = [buckets EXCEPT ![t] = array],
           unique' = unique, \A u \in Tables \ {t} : hasher'[u] = hasher[u],
           husks \ {t} \subseteq husks',
           \A u \in Tables \ {t} : \A n \in ToSet(order[u]) : key'[n] = key[n] /\ cached'[n] = cached[n],
           Linked(s, array, cached'),
           t \notin husks' => Keyed(s, array, cached', key', hasher'[t], unique[t])
    PROVE  Became(t, s, array)
BY TableChanges

(* erase, clear and failed assignments destroy nodes of one table. *)
LEMMA Destroys ==
    ASSUME NullAssumption, Inv, NEW t \in Tables, NEW gone, gone \subseteq ToSet(order[t]),
           NEW s \in Seq(Nodes), NEW array \in Seq(Seq(Nodes)),
           Len(array) \in BucketCounts \cup {0},
           order' = [order EXCEPT ![t] = s], buckets' = [buckets EXCEPT ![t] = array],
           ToSet(s) = ToSet(order[t]) \ gone, Linked(s, array, cached),
           key' = Destroyed(gone), cached' = Uncached(gone), unique' = unique,
           hasher' \in [Tables -> Hashers], load' \in [Tables -> LoadFactors],
           \A u \in Tables \ {t} : hasher'[u] = hasher[u],
           handle' = handle, merging = NoMerge, merging' = NoMerge,
           husks' \subseteq Tables, husks \ {t} \subseteq husks',
           t \notin husks' => Keyed(s, array, cached, key, hasher'[t], unique[t])
    PROVE  Inv'
<1>1. TypeOK /\ Owned /\ order \in [Tables -> Seq(Nodes)]
      BY DEF Inv, TypeOK
<1>2. \A u \in Tables : \A n \in ToSet(order[u]) : n \in Nodes
      BY <1>1, Elements
<1>3. \A n \in Nodes \ gone : key'[n] = key[n] /\ cached'[n] = cached[n]
      BY DEF Destroyed, Uncached
<1>4. \A u \in Tables \ {t} : \A n \in ToSet(order[u]) : n \in Nodes \ gone
      BY <1>1, <1>2 DEF Owned
<1>5. \A n \in ToSet(s) : n \in Nodes \ gone
      BY <1>2
<1>6. \A u \in Tables \ {t} : \A n \in ToSet(order[u]) : key'[n] = key[n] /\ cached'[n] = cached[n]
      BY <1>3, <1>4
<1>7. \A n \in ToSet(s) : cached'[n] = cached[n] /\ key'[n] = key[n]
      BY <1>3, <1>5
<1>8. Linked(s, array, cached')
      BY <1>7, LinkedFrame
<1>9. t \notin husks' => Keyed(s, array, cached', key', hasher'[t], unique[t])
  <2>1. \A h : Keyed(s, array, cached, key, h, unique[t])
                => Keyed(s, array, cached', key', h, unique[t])
        BY <1>7, KeyedFrame, SMTT(40)
  <2>2. QED BY <2>1
<1>10. Became(t, s, array)
       BY <1>6, <1>8, <1>9, OneTable
<1>11. TypeOK'
  <2>1. key' \in [Nodes -> Keys \cup {MovedFrom, Null}] /\ cached' \in [Nodes -> Nat]
        BY <1>1 DEF TypeOK, Destroyed, Uncached
  <2>2. unique' \in [Tables -> BOOLEAN] /\ handle' \in Nodes \cup {Null}
        BY <1>1 DEF TypeOK
  <2>3. QED BY <1>10, <2>1, <2>2 DEF TypeOK, Became
<1>12. Owned'
  <2>1. /\ ToSet(order'[t]) = ToSet(order[t]) \ gone
        /\ \A u \in Tables \ {t} : order'[u] = order[u]
        BY <1>10 DEF Became
  <2>2. ASSUME NEW u \in Tables, NEW n \in ToSet(order'[u])
        PROVE  n \in ToSet(order[u]) /\ n \in Nodes \ gone
    <3>1. CASE u = t
          BY <1>2, <2>1, <2>2, <3>1
    <3>2. CASE u # t
      <4>1. order'[u] = order[u]
            BY <2>1, <3>2
      <4>2. QED BY <1>4, <2>2, <3>2, <4>1
    <3>3. QED BY <3>1, <3>2
  <2>3. \A u, v \in Tables : \A n \in ToSet(order'[u]) : n \in ToSet(order'[v]) => u = v
        BY <1>1, <2>2 DEF Owned
  <2>4. \A u \in Tables : \A n \in ToSet(order'[u]) : key'[n] # Null /\ n # handle'
        BY <1>1, <1>3, <2>2 DEF Owned
  <2>5. handle # Null => handle \in Nodes \ gone
        BY <1>1 DEF Owned, TypeOK
  <2>6. handle' # Null => key'[handle'] \in Keys
        BY <1>1, <1>3, <2>5 DEF Owned
  <2>7. ASSUME NEW n \in Nodes, key'[n] # Null, n # handle'
        PROVE  \E u \in Tables : n \in ToSet(order'[u])
    <3>1. n \notin gone
          BY <2>7 DEF Destroyed
    <3>2. PICK u \in Tables : n \in ToSet(order[u])
          BY <1>1, <1>3, <2>7, <3>1 DEF Owned
    <3>3. n \in ToSet(order'[u])
          BY <2>1, <3>1, <3>2
    <3>4. QED BY <3>3
  <2>8. QED BY <2>3, <2>4, <2>6, <2>7 DEF Owned
<1>13. QED BY <1>10, <1>11, <1>12 DEF Inv, MergeInv, Became

(* unlink_node() of a node in table t. *)
LEMMA Unlinking ==
    ASSUME PolicyAssumption, Inv, NEW t \in Tables, NEW n \in ToSet(order[t])
    PROVE  \E r \in Seq(Nodes), after \in Seq(Seq(Nodes)) :
              /\ UnlinkedOrder(t, n) = [order EXCEPT ![t] = r]
              /\ UnlinkedBuckets(t, n) = [buckets EXCEPT ![t] = after]
              /\ ToSet(r) = ToSet(order[t]) \ {n}
              /\ Len(after) = Count(t)
              /\ Linked(r, after, cached)
              /\ Sound(t) => Keyed(r, after, cached, key, hasher[t], unique[t])
<1> DEFINE b     == bucket_for_hash(cached[n], Len(buckets[t]))
           r     == Within(order[t], Nodes \ {n})
           after == [buckets[t] EXCEPT ![b] = Within(buckets[t][b], Nodes \ {n})]
<1>1. /\ order \in [Tables -> Seq(Nodes)] /\ buckets \in [Tables -> Seq(Seq(Nodes))]
      /\ order[t] \in Seq(Nodes) /\ buckets[t] \in Seq(Seq(Nodes))
      BY DEF Inv, TypeOK
<1>2. Linked(order[t], buckets[t], cached)
      BY DEF Inv, TableInv
<1>3. cached[n] \in Nat
      BY <1>1, Elements DEF Inv, TypeOK
<1>4. /\ r \in Seq(Nodes) /\ ToSet(r) = ToSet(order[t]) \ {n}
      /\ after \in Seq(Seq(Nodes)) /\ Len(after) = Len(buckets[t])
      /\ Linked(r, after, cached)
      /\ Agreeing(order[t], buckets[t], key) => Agreeing(r, after, key)
      /\ Distinct(order[t], key) => Distinct(r, key)
  <2>1. \A s \in Seq(Nodes), array \in Seq(Seq(Nodes)) :
           Linked(s, array, cached) /\ n \in ToSet(s) =>
           LET c    == bucket_for_hash(cached[n], Len(array))
               rest == Within(s, Nodes \ {n})
               done == [array EXCEPT ![c] = Within(array[c], Nodes \ {n})]
           IN  /\ rest \in Seq(Nodes) /\ ToSet(rest) = ToSet(s) \ {n}
               /\ c \in 1 .. Len(array)
               /\ done \in Seq(Seq(Nodes)) /\ Len(done) = Len(array)
               /\ Linked(rest, done, cached)
               /\ Agreeing(s, array, key) => Agreeing(rest, done, key)
               /\ Distinct(s, key) => Distinct(rest, key)
        BY <1>3, Unlinked
  <2>2. QED BY <1>1, <1>2, <2>1
<1>5. UnlinkedOrder(t, n) = [order EXCEPT ![t] = r]
      BY <1>1 DEF UnlinkedOrder
<1>6. UnlinkedBuckets(t, n) = [buckets EXCEPT ![t] = after]
      BY <1>1 DEF UnlinkedBuckets, Count
<1>7. Sound(t) => Keyed(r, after, cached, key, hasher[t], unique[t])
      BY <1>4 DEF Inv, TableInv, Keyed
<1> HIDE DEF r, after
<1>8. QED BY <1>4, <1>5, <1>6, <1>7 DEF Count

-----------------------------------------------------------------------------
(* equal_range() finds the nodes with an equal key, and finds them all. *)
LEMMA RangeIsExact ==
    ASSUME HashTableAssumption, Inv, NEW t \in Tables, Sound(t), NEW k \in Keys
    PROVE  equal_range(t, k) = {n \in ToSet(order[t]) : key[n] = k}
<1> DEFINE s     == order[t]
           code  == Hash(hasher[t], k)
           found == find_node(t, code, k)
           b     == bucket_for_hash(code, Count(t))
           chain == buckets[t][b]
           Hits  == {n \in ToSet(s) : key[n] = k}
           P     == {m \in Nodes : key[m] = k}
           at    == CHOOSE i \in 1 .. Len(s) : s[i] = found
           last  == LastOfRun(s, found, P)
<1>1. /\ TypeOK /\ Linked(s, buckets[t], cached) /\ PolicyAssumption /\ NullAssumption
      /\ Keyed(s, buckets[t], cached, key, hasher[t], unique[t])
      BY DEF Inv, TableInv, HashTableAssumption
<1>2. s \in Seq(Nodes) /\ IsInjective(s) /\ code \in Nat
      BY <1>1 DEF TypeOK, Linked, HashTableAssumption, HashAssumption
<1>3. Hits = {n \in ToSet(s) : cached[n] = code /\ key[n] = k}
      BY <1>1 DEF Keyed
<1>4. \/ found = Null /\ Hits = {}
      \/ /\ found \in Hits /\ b \in 1 .. Count(t)
         /\ \A n \in Hits : n = found \/ Precedes(chain, found, n)
      BY <1>1, <1>2, <1>3, FindNode
<1>5. Hits \subseteq Nodes /\ Null \notin Nodes
      BY <1>1, <1>2, Elements DEF NullAssumption
<1>6. equal_range(t, k) = CASE found = Null -> {}
                            [] found # Null /\ unique[t] -> {found}
                            [] OTHER -> {s[i] : i \in at .. last}
      BY DEF equal_range, last_equivalent_in_order
<1> HIDE DEF found
<1>7. CASE found = Null
      BY <1>4, <1>5, <1>6, <1>7
<1>8. CASE found # Null /\ unique[t]
  <2>1. \A n \in Hits : n = found
        BY <1>1, <1>4, <1>8 DEF Keyed, Distinct
  <2>2. QED BY <1>4, <1>6, <1>8, <2>1
<1>9. CASE found # Null /\ ~unique[t]
  <2>1. found \in Hits /\ b \in 1 .. Count(t) /\ found \in ToSet(s)
        BY <1>4, <1>9
  <2>2. /\ at \in 1 .. Len(s) /\ s[at] = found
        /\ last \in at .. Len(s) /\ \A j \in at + 1 .. last : s[j] \in P
        /\ last < Len(s) => s[last + 1] \notin P
        BY <1>2, <2>1, RunOf
  <2>3. equal_range(t, k) = {s[i] : i \in at .. last}
        BY <1>6, <1>9
  <2> HIDE DEF at, last
  <2>4. Len(s) \in Nat
        BY <1>2
  <2>5. ASSUME NEW i \in at .. last PROVE s[i] \in Hits
    <3>1. i = at \/ i \in at + 1 .. last
          BY <2>2, <2>4
    <3>2. i \in 1 .. Len(s)
          BY <2>2, <2>4
    <3>3. s[i] \in ToSet(s)
          BY <1>2, <3>2, Index
    <3>4. QED BY <2>1, <2>2, <3>1, <3>3
  <2>6. ASSUME NEW n \in Hits PROVE \E i \in at .. last : s[i] = n
    <3>1. PICK i \in 1 .. Len(s) : s[i] = n
          BY <1>2, Index
    <3>2. at <= i
      <4>1. CASE n = found
        <5>1. i = at
              BY <1>2, <2>2, <3>1, <4>1, Places
        <5>2. QED BY <2>2, <2>4, <5>1
      <4>2. CASE Precedes(chain, found, n)
        <5>1. key[found] = key[n]
              BY <2>1
        <5>2. Precedes(s, found, n)
              BY <1>1, <2>1, <4>2, <5>1 DEF Keyed, Agreeing, Count
        <5>3. PICK x, y \in 1 .. Len(s) : x < y /\ s[x] = found /\ s[y] = n
              BY <5>2 DEF Precedes
        <5>4. x = at /\ y = i
              BY <1>2, <2>2, <3>1, <5>3, Places
        <5>5. QED BY <5>3, <5>4
      <4>3. QED BY <1>4, <1>9, <4>1, <4>2
    <3>3. ASSUME last < i PROVE FALSE
      <4>1. /\ last + 1 \in 1 .. Len(s) /\ last < Len(s) /\ at < last + 1
            /\ last + 1 = i \/ last + 1 < i
            BY <2>2, <2>4, <3>1, <3>3
      <4>2. key[s[last + 1]] # k
        <5>1. s[last + 1] \in Nodes /\ s[last + 1] \notin P
              BY <1>2, <2>2, <4>1
        <5>2. QED BY <5>1
      <4>3. last + 1 < i
            BY <3>1, <4>1, <4>2
      <4>4. Precedes(s, found, s[last + 1]) /\ Precedes(s, s[last + 1], n)
            BY <2>2, <3>1, <4>1, <4>3 DEF Precedes
      <4>5. key[s[last + 1]] = key[found]
            BY <1>1, <2>1, <4>4 DEF Keyed, Agreeing, Grouped
      <4>6. QED BY <2>1, <4>2, <4>5
    <3>4. QED BY <2>2, <2>4, <3>1, <3>2, <3>3
  <2>7. QED BY <2>3, <2>5, <2>6
<1>10. QED BY <1>7, <1>8, <1>9

-----------------------------------------------------------------------------
(* Every operation keeps the invariant: those that take nodes away, ...     *)
LEMMA EraseInv ==
    ASSUME HashTableAssumption, Inv, NEW t \in Tables, NEW n \in Nodes, Erase(t, n)
    PROVE  Inv'
<1>1. /\ n \in ToSet(order[t]) /\ merging = NoMerge /\ Sound(t)
      /\ order' = UnlinkedOrder(t, n) /\ buckets' = UnlinkedBuckets(t, n)
      /\ key' = Destroyed({n}) /\ cached' = Uncached({n})
      /\ UNCHANGED <<unique, hasher, load, merging, husks, handle>>
      BY DEF Erase, Idle, Same, Sound
<1>2. PolicyAssumption /\ NullAssumption
      BY DEF HashTableAssumption
<1>3. PICK r \in Seq(Nodes), after \in Seq(Seq(Nodes)) :
         /\ order' = [order EXCEPT ![t] = r] /\ buckets' = [buckets EXCEPT ![t] = after]
         /\ ToSet(r) = ToSet(order[t]) \ {n} /\ Len(after) = Count(t)
         /\ Linked(r, after, cached)
         /\ Keyed(r, after, cached, key, hasher[t], unique[t])
      BY <1>1, <1>2, Unlinking
<1>4. /\ hasher' \in [Tables -> Hashers] /\ load' \in [Tables -> LoadFactors]
      /\ husks' \subseteq Tables /\ Len(after) \in BucketCounts \cup {0}
      BY <1>1, <1>3 DEF Inv, TypeOK
<1>5. {n} \subseteq ToSet(order[t]) /\ husks \ {t} \subseteq husks' /\ merging' = NoMerge
      /\ hasher' = hasher /\ unique' = unique /\ handle' = handle
      BY <1>1
<1>6. QED BY <1>1, <1>2, <1>3, <1>4, <1>5, Destroys

LEMMA EraseKeyInv ==
    ASSUME HashTableAssumption, Inv, NEW t \in Tables, NEW k \in Keys, EraseKey(t, k)
    PROVE  /\ Inv' /\ ToSet(order'[t]) = ToSet(order[t]) \ equal_range(t, k)
           /\ \A u \in Tables \ {t} : order'[u] = order[u]
<1> DEFINE gone  == equal_range(t, k)
           r     == Within(order[t], Nodes \ gone)
           after == [b \in 1 .. Len(buckets[t]) |-> Within(buckets[t][b], Nodes \ gone)]
<1>1. gone \subseteq ToSet(order[t])
      BY RangeIsExact DEF EraseKey, Idle, Sound
<1>2. /\ TypeOK /\ TableInv(t) /\ NullAssumption
      /\ order[t] \in Seq(Nodes) /\ buckets[t] \in Seq(Seq(Nodes))
      BY DEF Inv, TypeOK, HashTableAssumption
<1>3. /\ merging = NoMerge /\ Sound(t)
      /\ order' = [order EXCEPT ![t] = r] /\ buckets' = [buckets EXCEPT ![t] = after]
      /\ key' = Destroyed(gone) /\ cached' = Uncached(gone)
      /\ UNCHANGED <<unique, hasher, load, merging, husks, handle>>
      BY <1>2 DEF EraseKey, Idle, Same, Sound, Count, TypeOK
<1> HIDE DEF gone
<1>4. /\ r \in Seq(Nodes) /\ ToSet(r) = ToSet(order[t]) \ gone
      /\ after \in Seq(Seq(Nodes)) /\ Len(after) = Len(buckets[t])
      /\ Linked(r, after, cached)
      /\ Agreeing(order[t], buckets[t], key) => Agreeing(r, after, key)
      /\ Distinct(order[t], key) => Distinct(r, key)
  <2>1. Linked(order[t], buckets[t], cached)
        BY <1>2 DEF TableInv
  <2>2. QED BY <1>2, <2>1, UnlinkedAll
<1> HIDE DEF r, after
<1>5. Keyed(r, after, cached, key, hasher[t], unique[t])
      BY <1>2, <1>3, <1>4 DEF TableInv, Keyed
<1>6. /\ hasher' \in [Tables -> Hashers] /\ load' \in [Tables -> LoadFactors]
      /\ husks' \subseteq Tables /\ Len(after) \in BucketCounts \cup {0}
      BY <1>2, <1>3, <1>4 DEF TypeOK, Count
<1>7. /\ husks \ {t} \subseteq husks' /\ merging' = NoMerge
      /\ hasher' = hasher /\ unique' = unique /\ handle' = handle
      BY <1>3
<1>8. Inv'
      BY <1>1, <1>2, <1>3, <1>4, <1>5, <1>6, <1>7, Destroys
<1>9. order'[t] = r /\ \A u \in Tables \ {t} : order'[u] = order[u]
      BY <1>2, <1>3 DEF TypeOK
<1>10. QED BY <1>4, <1>8, <1>9 DEF gone

(* An empty table. *)
LEMMA EmptyTable ==
    ASSUME NEW array \in Seq(Seq(Nodes)), \A b \in 1 .. Len(array) : array[b] = <<>>,
           NEW code, NEW f, NEW h, NEW one
    PROVE  Linked(<<>>, array, code) /\ Keyed(<<>>, array, code, f, h, one)
<1>1. IsInjective(<<>>) /\ ToSet(<<>>) = {} /\ \A m, n : ~Precedes(<<>>, m, n)
      BY EmptyList
<1>2. Linked(<<>>, array, code)
      BY <1>1 DEF Linked
<1>3. Keyed(<<>>, array, code, f, h, one)
      BY <1>1 DEF Keyed, Agreeing, Grouped, Distinct
<1>4. QED BY <1>2, <1>3

(* clear(), sparse or dense, leaves every bucket empty. *)
LEMMA ClearedBuckets ==
    ASSUME Inv, NEW t \in Tables
    PROVE  /\ Cleared(t) \in Seq(Seq(Nodes)) /\ Len(Cleared(t)) = Count(t)
           /\ \A b \in 1 .. Len(Cleared(t)) : Cleared(t)[b] = <<>>
<1> DEFINE s    == order[t]
           used == {bucket_for_hash(cached[n], Count(t)) : n \in ToSet(s)}
<1>1. /\ buckets[t] \in Seq(Seq(Nodes)) /\ Linked(s, buckets[t], cached) /\ Count(t) \in Nat
      /\ s \in Seq(Nodes)
      BY DEF Inv, TypeOK, TableInv, Count
<1>2. Cleared(t) = [b \in 1 .. Count(t) |->
                       IF Len(s) < Count(t) \div 2 /\ b \notin used THEN buckets[t][b] ELSE <<>>]
      BY DEF Cleared
<1>3. ASSUME NEW b \in 1 .. Count(t), b \notin used PROVE buckets[t][b] = <<>>
  <2>1. /\ buckets[t][b] \in Seq(Nodes)
        /\ ToSet(buckets[t][b]) = {n \in ToSet(s) : bucket_for_hash(cached[n], Count(t)) = b}
        BY <1>1 DEF Linked, Count
  <2>2. ToSet(buckets[t][b]) = {}
        BY <1>3, <2>1
  <2>3. QED BY <2>1, <2>2, NoElements
<1>4. \A b \in 1 .. Count(t) : Cleared(t)[b] = <<>>
      BY <1>2, <1>3
<1>5. DOMAIN Cleared(t) = 1 .. Count(t) /\ <<>> \in Seq(Nodes)
      BY <1>2
<1> HIDE DEF used
<1>6. Cleared(t) \in [1 .. Count(t) -> Seq(Nodes)]
      BY <1>2, <1>4, <1>5
<1> HIDE DEF s
<1>7. Cleared(t) \in Seq(Seq(Nodes)) /\ Len(Cleared(t)) = Count(t)
      BY <1>1, <1>6
<1>8. QED BY <1>4, <1>7

LEMMA ClearInv ==
    ASSUME HashTableAssumption, Inv, NEW t \in Tables, Clear(t)
    PROVE  Inv'
<1> DEFINE gone  == ToSet(order[t])
           after == Cleared(t)
<1>1. /\ merging = NoMerge
      /\ order' = [order EXCEPT ![t] = <<>>] /\ buckets' = [buckets EXCEPT ![t] = after]
      /\ key' = Destroyed(gone) /\ cached' = Uncached(gone) /\ husks' = husks \ {t}
      /\ UNCHANGED <<unique, hasher, load, handle, merging>>
      BY DEF Clear
<1>2. /\ after \in Seq(Seq(Nodes)) /\ Len(after) = Count(t)
      /\ \A b \in 1 .. Len(after) : after[b] = <<>>
      BY ClearedBuckets
<1> HIDE DEF after
<1>3. Linked(<<>>, after, cached) /\ Keyed(<<>>, after, cached, key, hasher'[t], unique[t])
      BY <1>2, EmptyTable
<1>4. /\ hasher' \in [Tables -> Hashers] /\ load' \in [Tables -> LoadFactors]
      /\ husks' \subseteq Tables /\ Len(after) \in BucketCounts \cup {0}
      BY <1>1, <1>2 DEF Inv, TypeOK
<1>5. <<>> \in Seq(Nodes) /\ ToSet(<<>>) = gone \ gone
      BY EmptyList
<1>6. /\ husks \ {t} \subseteq husks' /\ merging' = NoMerge /\ NullAssumption
      /\ hasher' = hasher /\ unique' = unique /\ handle' = handle
      BY <1>1 DEF HashTableAssumption
<1>7. QED BY <1>1, <1>2, <1>3, <1>4, <1>5, <1>6, Destroys

LEMMA CopyFailsInv ==
    ASSUME HashTableAssumption, Inv, NEW t \in Tables, NEW from \in Tables, CopyFails(t, from)
    PROVE  Inv'
<1> DEFINE gone == ToSet(order[t])
<1>1. /\ merging = NoMerge /\ merging' = NoMerge
      /\ order' = [order EXCEPT ![t] = <<>>] /\ buckets' = [buckets EXCEPT ![t] = <<>>]
      /\ key' = Destroyed(gone) /\ cached' = Uncached(gone) /\ husks' = husks \ {t}
      /\ hasher' = [hasher EXCEPT ![t] = hasher[from]] /\ load' = [load EXCEPT ![t] = load[from]]
      /\ unique' = unique /\ handle' = handle
      BY DEF CopyFails, Assigned
<1>2. <<>> \in Seq(Nodes) /\ <<>> \in Seq(Seq(Nodes)) /\ ToSet(<<>>) = gone \ gone /\ Len(<<>>) = 0
      BY EmptyList
<1>3. Linked(<<>>, <<>>, cached) /\ Keyed(<<>>, <<>>, cached, key, hasher'[t], unique[t])
  <2>1. \A b \in 1 .. Len(<<>>) : <<>>[b] = <<>>
        OBVIOUS
  <2>2. QED BY <1>2, <2>1, EmptyTable
<1>4. /\ hasher' \in [Tables -> Hashers] /\ load' \in [Tables -> LoadFactors]
      /\ husks' \subseteq Tables /\ NullAssumption /\ husks \ {t} \subseteq husks'
      /\ \A u \in Tables \ {t} : hasher'[u] = hasher[u]
      BY <1>1 DEF Inv, TypeOK, HashTableAssumption
<1>5. gone \subseteq ToSet(order[t]) /\ Len(<<>>) \in BucketCounts \cup {0}
      BY <1>2
<1>6. QED BY <1>1, <1>2, <1>3, <1>4, <1>5, Destroys

(* ... the ones that change what a table hashes into or how full it may    *)
(* get, ...                                                                *)
LEMMA RehashInv ==
    ASSUME HashTableAssumption, Inv, NEW t \in Tables, NEW request \in Requests, Rehash(t, request)
    PROVE  Inv'
<1> DEFINE s        == order[t]
           minimum  == minimum_bucket_count(Len(s), load[t])
           required == IF request > minimum THEN request ELSE minimum
           target   == next_bucket_count(required)
           array    == rebuild_bucket_array(s, cached, target)
<1>1. /\ merging = NoMerge /\ Sound(t) /\ required # 0
      /\ buckets' = [buckets EXCEPT ![t] = array]
      /\ UNCHANGED <<unique, hasher, load, merging, husks, order, key, cached, handle>>
      BY DEF Rehash, Idle, Same, Sound
<1>2. /\ TypeOK /\ TableInv(t) /\ PolicyAssumption /\ SizeAssumption /\ Owned
      /\ s \in Seq(Nodes) /\ Len(s) \in Nat /\ cached \in [Nodes -> Nat]
      /\ load[t] \in LoadFactors /\ load[t] \in Nat \ {0} /\ BucketCounts \subseteq Nat \ {0}
  <2>1. TypeOK /\ TableInv(t) /\ PolicyAssumption /\ SizeAssumption /\ Owned
        BY DEF Inv, HashTableAssumption
  <2>2. s \in Seq(Nodes) /\ cached \in [Nodes -> Nat] /\ load[t] \in LoadFactors
        BY <2>1 DEF TypeOK
  <2>3. load[t] \in Nat \ {0} /\ BucketCounts \subseteq Nat \ {0}
        BY <2>1, <2>2, Policy
  <2>4. Len(s) \in Nat
        BY <2>2
  <2>5. QED BY <2>1, <2>2, <2>3, <2>4
<1>3. IsInjective(s) /\ Keyed(s, buckets[t], cached, key, hasher[t], unique[t])
      BY <1>1, <1>2 DEF TableInv, Linked
<1>4. minimum \in Nat /\ \E c \in BucketCounts : minimum <= c
  <2>1. Len(s) <= Cardinality(Nodes) /\ Cardinality(Nodes) \in Nat /\ FloatAssumption
        BY <1>2, <1>3, Sizes DEF HashTableAssumption
  <2>2. Len(s) \in Nat
        BY <1>2
  <2> HIDE DEF s
  <2>3. Len(s) \in 0 .. Cardinality(Nodes)
        BY <2>1, <2>2
  <2>4. QED BY <1>2, <2>3, MinimumCount, ZenonT(60)
<1> HIDE DEF minimum
<1>5. request \in Nat /\ \E c \in BucketCounts : request <= c
      BY <1>2 DEF SizeAssumption
<1>6. required \in Int /\ \E c \in BucketCounts : required <= c
      BY <1>4, <1>5
<1> HIDE DEF required
<1>7. target \in BucketCounts
      BY <1>2, <1>6, NextCount
<1>8. target \in Nat /\ target # 0
      BY <1>2, <1>7
<1> HIDE DEF target
<1>9. array \in Seq(Seq(Nodes)) /\ Len(array) = target /\ Linked(s, array, cached)
      /\ (Grouped(s, key) => Agreeing(s, array, key))
  <2>1. \A n \in ToSet(s) : cached[n] \in Nat
        BY <1>2, Elements
  <2> HIDE DEF s
  <2>2. QED BY <1>2, <1>3, <1>8, <2>1, Rebuilt
<1> HIDE DEF array
<1>10. Keyed(s, array, cached, key, hasher[t], unique[t])
       BY <1>3, <1>9 DEF Keyed, Agreeing
<1>11. Became(t, s, array)
  <2>1. /\ order' = [order EXCEPT ![t] = s] /\ buckets' = [buckets EXCEPT ![t] = array]
        /\ unique' = unique /\ hasher' = hasher /\ husks \ {t} \subseteq husks'
        /\ cached' = cached /\ key' = key
        BY <1>1, <1>2 DEF TypeOK
  <2>2. Len(array) \in BucketCounts \cup {0}
        BY <1>7, <1>9
  <2> HIDE DEF s
  <2>3. /\ Linked(s, array, cached')
        /\ t \notin husks' => Keyed(s, array, cached', key', hasher'[t], unique[t])
        /\ \A u \in Tables \ {t} : hasher'[u] = hasher[u]
        /\ \A u \in Tables \ {t} : \A n \in ToSet(order[u]) : key'[n] = key[n] /\ cached'[n] = cached[n]
        BY <1>9, <1>10, <2>1
  <2>4. s \in Seq(Nodes) /\ array \in Seq(Seq(Nodes))
        BY <1>2, <1>9
  <2>5. QED BY <2>1, <2>2, <2>3, <2>4, OneTable
<1>12. TypeOK' /\ Owned'
  <2>1. TypeOK'
        BY <1>1, <1>2, <1>11 DEF TypeOK, Became
  <2>2. Owned'
        BY <1>1, <1>2 DEF Owned
  <2>3. QED BY <2>1, <2>2
<1>13. QED BY <1>1, <1>11, <1>12 DEF Inv, Became, MergeInv

LEMMA LoadFactorInv ==
    ASSUME Inv, NEW t \in Tables, NEW l \in LoadFactors, max_load_factor(t, l)
    PROVE  Inv'
<1>1. /\ load' = [load EXCEPT ![t] = l] /\ merging = NoMerge /\ merging' = merging
      /\ unique' = unique /\ hasher' = hasher /\ husks' = husks /\ handle' = handle
      /\ order' = order /\ buckets' = buckets /\ key' = key /\ cached' = cached
      BY DEF max_load_factor, Idle, elements
<1>2. TypeOK'
      BY <1>1 DEF Inv, TypeOK, Count
<1>3. \A u \in Tables : TableInv(u)'
      BY <1>1 DEF Inv, TableInv, Sound
<1>4. Owned'
      BY <1>1 DEF Inv, Owned
<1>5. QED BY <1>1, <1>2, <1>3, <1>4 DEF Inv, MergeInv

(* ... those on the node handle, ... *)
LEMMA ExtractInv ==
    ASSUME HashTableAssumption, Inv, NEW t \in Tables, NEW n \in Nodes, Extract(t, n)
    PROVE  Inv'
<1>1. /\ n \in ToSet(order[t]) /\ merging = NoMerge /\ Sound(t) /\ handle = Null
      /\ order' = UnlinkedOrder(t, n) /\ buckets' = UnlinkedBuckets(t, n)
      /\ handle' = n /\ key' = key /\ cached' = cached
      /\ unique' = unique /\ hasher' = hasher /\ load' = load /\ merging' = merging /\ husks' = husks
      BY DEF Extract, Idle, Same, Sound
<1>2. PolicyAssumption /\ NullAssumption /\ TypeOK /\ Owned /\ TableInv(t)
      BY DEF HashTableAssumption, Inv
<1>3. PICK r \in Seq(Nodes), after \in Seq(Seq(Nodes)) :
         /\ order' = [order EXCEPT ![t] = r] /\ buckets' = [buckets EXCEPT ![t] = after]
         /\ ToSet(r) = ToSet(order[t]) \ {n} /\ Len(after) = Count(t)
         /\ Linked(r, after, cached)
         /\ Keyed(r, after, cached, key, hasher[t], unique[t])
      BY <1>1, <1>2, Unlinking
<1>4. Became(t, r, after)
  <2>1. Len(after) \in BucketCounts \cup {0}
        BY <1>2, <1>3 DEF TypeOK
  <2>2. /\ husks \ {t} \subseteq husks' /\ unique' = unique /\ Linked(r, after, cached')
        /\ t \notin husks' => Keyed(r, after, cached', key', hasher'[t], unique[t])
        /\ \A u \in Tables \ {t} : hasher'[u] = hasher[u]
        /\ \A u \in Tables \ {t} : \A m \in ToSet(order[u]) : key'[m] = key[m] /\ cached'[m] = cached[m]
        BY <1>1, <1>3
  <2>3. QED BY <1>3, <2>1, <2>2, OneTable
<1>5. TypeOK'
      BY <1>1, <1>2, <1>4 DEF TypeOK, Became
<1>6. Owned'
  <2>1. ToSet(order'[t]) = ToSet(order[t]) \ {n} /\ \A u \in Tables \ {t} : order'[u] = order[u]
        BY <1>3, <1>4 DEF Became
  <2>2. ASSUME NEW u \in Tables, NEW m \in ToSet(order'[u])
        PROVE  m \in ToSet(order[u]) /\ m # n
    <3>1. CASE u = t
          BY <2>1, <2>2, <3>1
    <3>2. CASE u # t
      <4>1. order'[u] = order[u]
            BY <2>1, <3>2
      <4>2. QED BY <1>1, <1>2, <2>2, <3>2, <4>1, ZenonT(40) DEF Owned
    <3>3. QED BY <3>1, <3>2
  <2>3. \A u, v \in Tables : \A m \in ToSet(order'[u]) : m \in ToSet(order'[v]) => u = v
        BY <1>2, <2>2 DEF Owned
  <2>4. \A u \in Tables : \A m \in ToSet(order'[u]) : key'[m] # Null /\ m # handle'
        BY <1>1, <1>2, <2>2 DEF Owned
  <2>5. key'[handle'] \in Keys
        BY <1>1, <1>2 DEF TableInv, Keyed
  <2>6. ASSUME NEW m \in Nodes, key'[m] # Null, m # handle'
        PROVE  \E u \in Tables : m \in ToSet(order'[u])
    <3>1. m # handle
          BY <1>1, <1>2 DEF NullAssumption
    <3>2. PICK u \in Tables : m \in ToSet(order[u])
          BY <1>1, <1>2, <2>6, <3>1 DEF Owned
    <3>3. m \in ToSet(order'[u])
          BY <1>1, <2>1, <2>6, <3>2
    <3>4. QED BY <3>3
  <2>7. QED BY <2>3, <2>4, <2>5, <2>6 DEF Owned
<1>7. QED BY <1>1, <1>4, <1>5, <1>6 DEF Inv, Became, MergeInv

LEMMA RekeyInv ==
    ASSUME HashTableAssumption, Inv, NEW k \in Keys, Rekey(k)
    PROVE  Inv'
<1>1. /\ handle # Null /\ merging = NoMerge /\ merging' = merging
      /\ key' = [key EXCEPT ![handle] = k]
      /\ unique' = unique /\ hasher' = hasher /\ load' = load /\ husks' = husks
      /\ order' = order /\ buckets' = buckets /\ cached' = cached /\ handle' = handle
      BY DEF Rekey, Same
<1>2. TypeOK /\ Owned /\ NullAssumption /\ key \in [Nodes -> Keys \cup {MovedFrom, Null}]
      BY DEF Inv, TypeOK, HashTableAssumption
<1>3. handle \in Nodes /\ key'[handle] = k /\ k # Null
      BY <1>1, <1>2 DEF TypeOK, NullAssumption
<1>4. \A n \in Nodes : n # handle => key'[n] = key[n]
      BY <1>1, <1>2
<1>5. \A u \in Tables : \A n \in ToSet(order[u]) : n \in Nodes /\ n # handle
      BY <1>2, Elements DEF TypeOK, Owned
<1>6. TypeOK'
      BY <1>1, <1>2 DEF TypeOK, Count
<1>7. ASSUME NEW u \in Tables PROVE TableInv(u)'
  <2>1. \A n \in ToSet(order[u]) : cached'[n] = cached[n] /\ key'[n] = key[n]
        BY <1>1, <1>4, <1>5
  <2>2. TypeOK /\ TableInv(u) /\ unique' = unique /\ (u \in husks => u \in husks')
        BY <1>1 DEF Inv
  <2>3. order'[u] = order[u] /\ buckets'[u] = buckets[u] /\ hasher'[u] = hasher[u]
        BY <1>1
  <2>4. QED BY <2>1, <2>2, <2>3, TableFrame
<1>8. Owned'
  <2>1. \A u, v \in Tables : \A n \in ToSet(order'[u]) : n \in ToSet(order'[v]) => u = v
        BY <1>1, <1>2 DEF Owned
  <2>2. \A u \in Tables : \A n \in ToSet(order'[u]) : key'[n] # Null /\ n # handle'
        BY <1>1, <1>2, <1>4, <1>5 DEF Owned
  <2>3. handle' # Null => key'[handle'] \in Keys
        BY <1>1, <1>3
  <2>4. \A n \in Nodes : key'[n] # Null => n = handle' \/ \E u \in Tables : n \in ToSet(order'[u])
        BY <1>1, <1>2, <1>4 DEF Owned
  <2>5. QED BY <2>1, <2>2, <2>3, <2>4 DEF Owned
<1>9. QED BY <1>1, <1>6, <1>7, <1>8 DEF Inv, MergeInv

LEMMA DropNodeInv ==
    ASSUME HashTableAssumption, Inv, DropNode
    PROVE  Inv'
<1>1. /\ handle # Null /\ merging = NoMerge /\ merging' = merging /\ handle' = Null
      /\ key' = Destroyed({handle}) /\ cached' = Uncached({handle})
      /\ unique' = unique /\ hasher' = hasher /\ load' = load /\ husks' = husks
      /\ order' = order /\ buckets' = buckets
      BY DEF DropNode, Same
<1>2. TypeOK /\ Owned /\ NullAssumption
      BY DEF Inv, HashTableAssumption
<1>3. handle \in Nodes /\ key'[handle] = Null
      BY <1>1, <1>2 DEF TypeOK, Destroyed
<1>4. \A n \in Nodes : n # handle => key'[n] = key[n] /\ cached'[n] = cached[n]
      BY <1>1 DEF Destroyed, Uncached
<1>5. \A u \in Tables : \A n \in ToSet(order[u]) : n \in Nodes /\ n # handle
      BY <1>2, Elements DEF TypeOK, Owned
<1>6. TypeOK'
  <2>1. key' \in [Nodes -> Keys \cup {MovedFrom, Null}] /\ cached' \in [Nodes -> Nat]
        BY <1>1, <1>2 DEF TypeOK, Destroyed, Uncached
  <2>2. QED BY <1>1, <1>2, <2>1 DEF TypeOK, Count
<1>7. ASSUME NEW u \in Tables PROVE TableInv(u)'
  <2>1. \A n \in ToSet(order[u]) : cached'[n] = cached[n] /\ key'[n] = key[n]
        BY <1>1, <1>4, <1>5
  <2>2. TypeOK /\ TableInv(u) /\ unique' = unique /\ (u \in husks => u \in husks')
        BY <1>1 DEF Inv
  <2>3. order'[u] = order[u] /\ buckets'[u] = buckets[u] /\ hasher'[u] = hasher[u]
        BY <1>1
  <2>4. QED BY <2>1, <2>2, <2>3, TableFrame
<1>8. Owned'
  <2>1. \A u, v \in Tables : \A n \in ToSet(order'[u]) : n \in ToSet(order'[v]) => u = v
        BY <1>1, <1>2 DEF Owned
  <2>2. \A u \in Tables : \A n \in ToSet(order'[u]) : key'[n] # Null /\ n # handle'
        BY <1>1, <1>2, <1>4, <1>5 DEF Owned, NullAssumption
  <2>3. \A n \in Nodes : key'[n] # Null => n = handle' \/ \E u \in Tables : n \in ToSet(order'[u])
        BY <1>1, <1>2, <1>3, <1>4 DEF Owned
  <2>4. QED BY <1>1, <2>1, <2>2, <2>3 DEF Owned
<1>9. QED BY <1>1, <1>6, <1>7, <1>8 DEF Inv, MergeInv

(* ... the steps of a merge, ... *)
LEMMA MergeBeginsInv ==
    ASSUME HashTableAssumption, Inv, NEW into \in Tables, NEW from \in Tables,
           MergeBegins(into, from)
    PROVE  Inv'
<1>1. /\ into # from /\ into \notin husks /\ from \notin husks /\ order[from] # <<>>
      /\ merging' = [into |-> into, from |-> from, node |-> Head(order[from])]
      /\ unique' = unique /\ hasher' = hasher /\ load' = load /\ husks' = husks /\ handle' = handle
      /\ order' = order /\ buckets' = buckets /\ key' = key /\ cached' = cached
      BY DEF MergeBegins, Idle, elements
<1>2. Head(order[from]) \in ToSet(order[from]) /\ Head(order[from]) \in Nodes
  <2>1. order[from] \in Seq(Nodes)
        BY DEF Inv, TypeOK
  <2>2. Head(order[from]) = order[from][1] /\ 1 \in 1 .. Len(order[from])
        BY <1>1, <2>1
  <2>3. QED BY <2>1, <2>2, Index, Elements
<1>3. TypeOK'
      BY <1>1, <1>2 DEF Inv, TypeOK, Count
<1>4. MergeInv'
      BY <1>1, <1>2 DEF MergeInv
<1>5. (\A u \in Tables : TableInv(u)') /\ Owned'
      BY <1>1 DEF Inv, TableInv, Sound, Owned
<1>6. QED BY <1>3, <1>4, <1>5 DEF Inv

LEMMA MergeThrowsInv ==
    ASSUME Inv, MergeThrows
    PROVE  Inv'
<1>1. /\ merging' = NoMerge
      /\ unique' = unique /\ hasher' = hasher /\ load' = load /\ husks' = husks /\ handle' = handle
      /\ order' = order /\ buckets' = buckets /\ key' = key /\ cached' = cached
      BY DEF MergeThrows, elements
<1>2. TypeOK'
      BY <1>1 DEF Inv, TypeOK, Count
<1>3. (\A u \in Tables : TableInv(u)') /\ Owned'
      BY <1>1 DEF Inv, TableInv, Sound, Owned
<1>4. QED BY <1>1, <1>2, <1>3 DEF Inv, MergeInv

LEMMA NextNode ==
    ASSUME NullAssumption, TypeOK, MergeInv, merging # NoMerge,
           IsInjective(order[merging.from])
    PROVE  LET next == NextInOrder(merging.from, merging.node)
           IN  \/ next = NoMerge
               \/ /\ next \in [into : Tables, from : Tables, node : Nodes]
                  /\ next.into = merging.into /\ next.from = merging.from
                  /\ next.node \in ToSet(order[merging.from]) \ {merging.node}
<1> DEFINE from == merging.from
           n    == merging.node
           s    == order[from]
           i    == CHOOSE j \in 1 .. Len(s) : s[j] = n
<1>1. /\ merging \in [into : Tables, from : Tables, node : Nodes]
      /\ n \in ToSet(s) /\ s \in Seq(Nodes)
      BY DEF TypeOK, MergeInv
<1>2. i \in 1 .. Len(s) /\ s[i] = n
      BY <1>1, Index
<1>3. NextInOrder(from, n) = IF i = Len(s) THEN NoMerge ELSE [merging EXCEPT !.node = s[i + 1]]
      BY DEF NextInOrder
<1> HIDE DEF i, s
<1>4. CASE i = Len(s)
      BY <1>3, <1>4
<1>5. CASE i # Len(s)
  <2>1. i + 1 \in 1 .. Len(s) /\ i + 1 # i
        BY <1>1, <1>2, <1>5
  <2>2. s[i + 1] \in ToSet(s) /\ s[i + 1] # n
        BY <1>1, <1>2, <2>1, Index, Places DEF s
  <2>3. s[i + 1] \in Nodes
        BY <1>1, <2>2, Elements
  <2>4. NextInOrder(from, n) = [merging EXCEPT !.node = s[i + 1]]
        BY <1>3, <1>5
  <2>5. /\ NextInOrder(from, n) \in [into : Tables, from : Tables, node : Nodes]
        /\ NextInOrder(from, n).into = merging.into /\ NextInOrder(from, n).from = from
        /\ NextInOrder(from, n).node = s[i + 1]
        BY <1>1, <2>3, <2>4
  <2>6. QED BY <2>2, <2>5 DEF s
<1>6. QED BY <1>4, <1>5

(* The node that is merged leaves one table and comes into another. *)
Transferred(n, t, u) ==
    /\ t # u /\ t \in Tables /\ u \in Tables /\ n \in ToSet(order[u]) /\ n \notin ToSet(order[t])
    /\ ToSet(order'[t]) = ToSet(order[t]) \cup {n}
    /\ ToSet(order'[u]) = ToSet(order[u]) \ {n}
    /\ \A v \in Tables \ {t, u} : order'[v] = order[v]

(* ... merge() at one node, which moves it or leaves it, ... *)
LEMMA MergeNodeInv ==
    ASSUME HashTableAssumption, Inv, MergeNode
    PROVE  /\ Inv' /\ (order'[merging.into] # order[merging.into] => Due(merging.into))
           /\ UNCHANGED elements \/ Transferred(merging.node, merging.into, merging.from)
<1> DEFINE into == merging.into
           from == merging.from
           n    == merging.node
           k    == key[n]
<1>1. /\ merging # NoMerge /\ merging' = NextInOrder(from, n)
      /\ \/ Link(into, n, k, UnlinkedOrder(from, n), UnlinkedBuckets(from, n)) /\ key' = key
         \/ UNCHANGED elements
      /\ unique' = unique /\ hasher' = hasher /\ load' = load /\ husks' = husks /\ handle' = handle
      BY DEF MergeNode
<1>2. /\ TypeOK /\ Owned /\ NullAssumption /\ PolicyAssumption /\ (\A u \in Tables : TableInv(u))
      /\ into \in Tables /\ from \in Tables /\ n \in Nodes /\ into # from
      /\ into \notin husks /\ from \notin husks /\ n \in ToSet(order[from])
  <2>1. TypeOK /\ Owned /\ NullAssumption /\ PolicyAssumption /\ MergeInv /\ \A u \in Tables : TableInv(u)
        BY DEF Inv, HashTableAssumption
  <2>2. merging \in [into : Tables, from : Tables, node : Nodes]
        BY <1>1, <2>1 DEF TypeOK
  <2>3. QED BY <1>1, <2>1, <2>2 DEF MergeInv
<1>3. \/ merging' = NoMerge
      \/ /\ merging' \in [into : Tables, from : Tables, node : Nodes]
         /\ merging'.into = into /\ merging'.from = from
         /\ merging'.node \in ToSet(order[from]) \ {n}
  <2>1. IsInjective(order[from]) /\ MergeInv
        BY <1>2 DEF TableInv, Linked, Inv
  <2>2. QED BY <1>1, <1>2, <2>1, NextNode
<1>4. CASE UNCHANGED elements
  <2>1. order' = order /\ buckets' = buckets /\ key' = key /\ cached' = cached
        BY <1>4 DEF elements
  <2>2. TypeOK'
        BY <1>1, <1>2, <1>3, <2>1 DEF TypeOK, Count
  <2>3. (\A u \in Tables : TableInv(u)') /\ Owned'
        BY <1>1, <1>2, <2>1 DEF TableInv, Sound, Owned
  <2>4. MergeInv'
        BY <1>1, <1>2, <1>3, <2>1 DEF MergeInv
  <2>5. QED BY <1>4, <2>1, <2>2, <2>3, <2>4 DEF Inv
<1>5. CASE Link(into, n, k, UnlinkedOrder(from, n), UnlinkedBuckets(from, n)) /\ key' = key
  <2>1. PICK r \in Seq(Nodes), after \in Seq(Seq(Nodes)) :
           /\ UnlinkedOrder(from, n) = [order EXCEPT ![from] = r]
           /\ UnlinkedBuckets(from, n) = [buckets EXCEPT ![from] = after]
           /\ ToSet(r) = ToSet(order[from]) \ {n} /\ Len(after) = Count(from)
           /\ Linked(r, after, cached)
           /\ Sound(from) => Keyed(r, after, cached, key, hasher[from], unique[from])
        BY <1>2, Unlinking
  <2> DEFINE others == [order EXCEPT ![from] = r]
             chains == [buckets EXCEPT ![from] = after]
  <2>2. /\ others \in [Tables -> Seq(Nodes)] /\ chains \in [Tables -> Seq(Seq(Nodes))]
        /\ others[from] = r /\ chains[from] = after
        /\ \A u \in Tables \ {from} : others[u] = order[u] /\ chains[u] = buckets[u]
        BY <1>2 DEF TypeOK
  <2>3. Link(into, n, k, others, chains)
        BY <1>5, <2>1
  <2> HIDE DEF others, chains
  <2>4. \A u \in Tables \ {from} : n \notin ToSet(order[u])
        BY <1>2 DEF Owned
  <2>5. \A u \in Tables : Count(u) \in BucketCounts \cup {0}
        BY <1>2 DEF TypeOK
  <2>6. Without(n, into, others, chains)
    <3>1. ASSUME NEW u \in Tables \ {into}
          PROVE  /\ Len(chains[u]) \in BucketCounts \cup {0} /\ n \notin ToSet(others[u])
                 /\ Linked(others[u], chains[u], cached)
                 /\ Sound(u) => Keyed(others[u], chains[u], cached, key, hasher[u], unique[u])
      <4>1. CASE u = from
            BY <2>1, <2>2, <2>5, <4>1
      <4>2. CASE u # from
        <5>1. others[u] = order[u] /\ chains[u] = buckets[u] /\ TableInv(u)
              BY <1>2, <2>2, <4>2
        <5>2. QED BY <2>4, <2>5, <4>2, <5>1 DEF TableInv, Count
      <4>3. QED BY <4>1, <4>2
    <3>2. QED BY <3>1 DEF Without
  <2>7. k \in Keys
        BY <1>2 DEF TableInv, Sound, Keyed
  <2>8. Arrived(n, into, others)
    <3>1. key'[n] = k /\ \A m \in Nodes \ {n} : key'[m] = key[m]
          BY <1>5
    <3>2. UNCHANGED <<unique, hasher, load, husks>> /\ n \notin ToSet(order[into])
          BY <1>1, <1>2, <2>4
    <3>3. into \in Tables /\ into \notin husks /\ n \in Nodes
          BY <1>2
    <3>4. others \in [Tables -> Seq(Nodes)] /\ chains \in [Tables -> Seq(Seq(Nodes))]
          BY <2>2
    <3> HIDE DEF into, n, k
    <3>5. QED BY <2>3, <2>6, <2>7, <3>1, <3>2, <3>3, <3>4, LinkedIn, ZenonT(60)
  <2>9. /\ ToSet(order'[into]) = ToSet(order[into]) \cup {n}
        /\ ToSet(order'[from]) = ToSet(order[from]) \ {n}
        /\ \A u \in Tables \ {into, from} : order'[u] = order[u]
        BY <1>2, <2>1, <2>2, <2>8 DEF Arrived
  <2>10. TypeOK'
         BY <1>1, <1>2, <1>3, <1>5, <2>8 DEF TypeOK, Arrived
  <2>11. Owned'
    <3>1. ASSUME NEW u \in Tables, NEW m \in ToSet(order'[u])
          PROVE  \/ m = n /\ u = into
                 \/ m # n /\ m \in ToSet(order[u])
      <4>1. CASE u = into
            BY <1>2, <2>4, <2>9, <3>1, <4>1
      <4>2. CASE u = from
            BY <2>9, <3>1, <4>2
      <4>3. CASE u \notin {into, from}
        <5>1. order'[u] = order[u] /\ n \notin ToSet(order[u])
              BY <2>4, <2>9, <4>3
        <5>2. QED BY <3>1, <5>1
      <4>4. QED BY <4>1, <4>2, <4>3
    <3>2. ASSUME NEW u \in Tables, NEW v \in Tables, NEW m \in ToSet(order'[u]), m \in ToSet(order'[v])
          PROVE  u = v
      <4>1. CASE m = n
            BY <3>1, <3>2, <4>1
      <4>2. CASE m # n
        <5>1. m \in ToSet(order[u]) /\ m \in ToSet(order[v])
              BY <3>1, <3>2, <4>2
        <5>2. QED BY <1>2, <5>1 DEF Owned
      <4>3. QED BY <4>1, <4>2
    <3>3. ASSUME NEW u \in Tables, NEW m \in ToSet(order'[u])
          PROVE  key'[m] # Null /\ m # handle'
      <4>1. \E v \in Tables : m \in ToSet(order[v])
            BY <1>2, <3>1, <3>3
      <4>2. key[m] # Null /\ m # handle
            BY <1>2, <4>1 DEF Owned
      <4>3. QED BY <1>1, <1>5, <4>2
    <3>4. handle' # Null => key'[handle'] \in Keys
          BY <1>1, <1>2, <1>5 DEF Owned
    <3>5. ASSUME NEW m \in Nodes, key'[m] # Null, m # handle'
          PROVE  \E u \in Tables : m \in ToSet(order'[u])
      <4>1. PICK u \in Tables : m \in ToSet(order[u])
            BY <1>1, <1>2, <1>5, <3>5 DEF Owned
      <4>2. CASE m = n
            BY <1>2, <2>9, <4>2
      <4>3. CASE m # n
        <5>1. m \in ToSet(order'[u])
          <6>1. CASE u \in {into, from}
                BY <2>9, <4>1, <4>3, <6>1
          <6>2. CASE u \notin {into, from}
                BY <2>9, <4>1, <6>2
          <6>3. QED BY <6>1, <6>2
        <5>2. QED BY <5>1
      <4>4. QED BY <4>2, <4>3
    <3>6. QED BY <3>2, <3>3, <3>4, <3>5 DEF Owned
  <2>12. MergeInv'
    <3>1. CASE merging' = NoMerge
          BY <3>1 DEF MergeInv
    <3>2. CASE merging' # NoMerge
          BY <1>1, <1>2, <1>3, <2>9, <3>2 DEF MergeInv
    <3>3. QED BY <3>1, <3>2
  <2>13. (\A u \in Tables : TableInv(u)') /\ Due(into)
         BY <2>8 DEF Arrived
  <2>14. Transferred(n, into, from)
         BY <1>2, <2>4, <2>9 DEF Transferred
  <2>15. QED BY <2>10, <2>11, <2>12, <2>13, <2>14 DEF Inv
<1>6. QED BY <1>1, <1>4, <1>5

(* ... swap, ... *)
LEMMA SwapInv ==
    ASSUME HashTableAssumption, Inv, NEW t \in Tables, NEW u \in Tables, Swap(t, u)
    PROVE  Inv'
<1> DEFINE other(v) == IF v = t THEN u ELSE IF v = u THEN t ELSE v
<1>1. /\ TypeOK /\ Owned /\ \A v \in Tables : TableInv(v)
      /\ t # u /\ unique[t] = unique[u] /\ t \notin husks /\ u \notin husks /\ merging = NoMerge
      /\ order' = Transposed(order, t, u) /\ buckets' = Transposed(buckets, t, u)
      /\ hasher' = Transposed(hasher, t, u) /\ load' = Transposed(load, t, u)
      /\ unique' = unique /\ husks' = husks /\ handle' = handle /\ merging' = merging
      /\ key' = key /\ cached' = cached
      BY DEF Inv, Swap, Idle
<1>2. /\ order' \in [Tables -> Seq(Nodes)] /\ buckets' \in [Tables -> Seq(Seq(Nodes))]
      /\ hasher' \in [Tables -> Hashers] /\ load' \in [Tables -> LoadFactors]
      BY <1>1 DEF TypeOK, Transposed
<1>3. \A v \in Tables : other(v) \in Tables /\ order'[v] = order[other(v)]
                        /\ buckets'[v] = buckets[other(v)] /\ hasher'[v] = hasher[other(v)]
      BY <1>1 DEF TypeOK, Transposed
<1>4. \A v, w \in Tables : other(v) = other(w) => v = w
      BY <1>1
<1>5. \A v \in Tables : /\ v \in husks <=> other(v) \in husks
                        /\ unique[v] = unique[other(v)]
                        /\ other(other(v)) = v
      BY <1>1
<1> HIDE DEF other
<1>6. TypeOK'
  <2>1. \A v \in Tables : Count(v)' \in BucketCounts \cup {0}
        BY <1>1, <1>3 DEF TypeOK, Count
  <2>2. QED BY <1>1, <1>2, <2>1 DEF TypeOK
<1>7. \A v \in Tables : TableInv(v)'
  <2>1. ASSUME NEW v \in Tables PROVE TableInv(v)'
    <3>1. TableInv(other(v))
          BY <1>1, <1>3
    <3>2. QED BY <1>1, <1>3, <1>5, <3>1 DEF TableInv, Sound
  <2>2. QED BY <2>1
<1>8. Owned'
  <2>1. ASSUME NEW v \in Tables, NEW w \in Tables, NEW n \in ToSet(order'[v]), n \in ToSet(order'[w])
        PROVE  v = w
    <3>1. n \in ToSet(order[other(v)]) /\ n \in ToSet(order[other(w)])
          BY <1>3, <2>1
    <3>2. other(v) = other(w)
          BY <1>1, <1>3, <3>1 DEF Owned
    <3>3. QED BY <1>4, <3>2
  <2>2. \A v \in Tables : \A n \in ToSet(order'[v]) : key'[n] # Null /\ n # handle'
        BY <1>1, <1>3 DEF Owned
  <2>3. ASSUME NEW n \in Nodes, key'[n] # Null, n # handle'
        PROVE  \E v \in Tables : n \in ToSet(order'[v])
    <3>1. PICK v \in Tables : n \in ToSet(order[v])
          BY <1>1, <2>3 DEF Owned
    <3>2. order'[other(v)] = order[v] /\ other(v) \in Tables
          BY <1>3, <1>5
    <3>3. QED BY <3>1, <3>2
  <2>4. handle' # Null => key'[handle'] \in Keys
        BY <1>1 DEF Owned
  <2>5. QED BY <2>1, <2>2, <2>3, <2>4 DEF Owned
<1>9. QED BY <1>1, <1>6, <1>7, <1>8 DEF Inv, MergeInv

(* ... and the assignments. *)
LEMMA MoveAssignInv ==
    ASSUME HashTableAssumption, Inv, NEW t \in Tables, NEW from \in Tables, MoveAssign(t, from)
    PROVE  Inv'
<1> DEFINE gone == ToSet(order[t])
<1>1. /\ TypeOK /\ Owned /\ (\A v \in Tables : TableInv(v)) /\ NullAssumption
      /\ t # from /\ unique[t] = unique[from] /\ from \notin husks
      /\ merging = NoMerge /\ merging' = merging /\ unique' = unique /\ handle' = handle
      /\ hasher' = [hasher EXCEPT ![t] = hasher[from]] /\ load' = [load EXCEPT ![t] = load[from]]
      /\ order' = [order EXCEPT ![t] = order[from], ![from] = <<>>]
      /\ buckets' = [buckets EXCEPT ![t] = buckets[from], ![from] = <<>>]
      /\ key' = Destroyed(gone) /\ cached' = Uncached(gone) /\ husks' = husks \ {t}
      BY DEF Inv, MoveAssign, Assigned, HashTableAssumption
<1>2. /\ order \in [Tables -> Seq(Nodes)] /\ buckets \in [Tables -> Seq(Seq(Nodes))]
      /\ hasher \in [Tables -> Hashers] /\ load \in [Tables -> LoadFactors]
      /\ \A v \in Tables : Len(buckets[v]) \in BucketCounts \cup {0}
      BY <1>1 DEF TypeOK, Count
<1>3. /\ <<>> \in Seq(Nodes) /\ <<>> \in Seq(Seq(Nodes)) /\ Len(<<>>) = 0 /\ ToSet(<<>>) = {}
      BY EmptyList
<1>4. /\ order' \in [Tables -> Seq(Nodes)] /\ buckets' \in [Tables -> Seq(Seq(Nodes))]
      /\ hasher' \in [Tables -> Hashers] /\ load' \in [Tables -> LoadFactors]
      BY <1>1, <1>2, <1>3
<1>5. /\ order'[t] = order[from] /\ buckets'[t] = buckets[from] /\ hasher'[t] = hasher[from]
      /\ order'[from] = <<>> /\ buckets'[from] = <<>>
      /\ \A v \in Tables \ {t, from} : order'[v] = order[v] /\ buckets'[v] = buckets[v]
      /\ \A v \in Tables \ {t} : hasher'[v] = hasher[v]
      BY <1>1, <1>2
<1>6. \A n \in Nodes \ gone : key'[n] = key[n] /\ cached'[n] = cached[n]
      BY <1>1 DEF Destroyed, Uncached
<1>7. \A v \in Tables \ {t} : \A n \in ToSet(order[v]) : n \in Nodes \ gone
  <2>1. \A v \in Tables : \A n \in ToSet(order[v]) : n \in Nodes
        BY <1>2, Elements
  <2>2. QED BY <1>1, <2>1 DEF Owned
<1>8. \A v \in Tables \ {t} : \A n \in ToSet(order[v]) : cached'[n] = cached[n] /\ key'[n] = key[n]
      BY <1>6, <1>7
<1>9. TypeOK'
  <2>1. \A v \in Tables : Len(buckets'[v]) \in BucketCounts \cup {0}
    <3>1. ASSUME NEW v \in Tables PROVE Len(buckets'[v]) \in BucketCounts \cup {0}
      <4>1. CASE v = t
            BY <1>2, <1>5, <4>1
      <4>2. CASE v = from
            BY <1>3, <1>5, <4>2
      <4>3. CASE v \notin {t, from}
            BY <1>2, <1>5, <4>3
      <4>4. QED BY <4>1, <4>2, <4>3
    <3>2. QED BY <3>1
  <2>2. key' \in [Nodes -> Keys \cup {MovedFrom, Null}] /\ cached' \in [Nodes -> Nat]
        BY <1>1 DEF TypeOK, Destroyed, Uncached
  <2>3. QED BY <1>1, <1>4, <2>1, <2>2 DEF TypeOK, Count
<1>10. ASSUME NEW v \in Tables PROVE TableInv(v)'
  <2>1. CASE v = t
    <3>1. /\ Linked(order[from], buckets[from], cached)
          /\ Keyed(order[from], buckets[from], cached, key, hasher[from], unique[from])
          BY <1>1 DEF TableInv, Sound
    <3>2. \A n \in ToSet(order[from]) : cached'[n] = cached[n] /\ key'[n] = key[n]
          BY <1>1, <1>8
    <3>3. Linked(order[from], buckets[from], cached')
          BY <3>1, <3>2, LinkedFrame
    <3>4. order[from] \in Seq(Nodes) /\ buckets[from] \in Seq(Seq(Nodes))
          BY <1>2
    <3>5. Keyed(order[from], buckets[from], cached', key', hasher[from], unique[from])
          BY <3>1, <3>2, <3>4, KeyedFrame
    <3>6. QED BY <1>1, <1>5, <2>1, <3>3, <3>5 DEF TableInv
  <2>2. CASE v = from
    <3>1. \A b \in 1 .. Len(<<>>) : <<>>[b] = <<>>
          OBVIOUS
    <3>2. Linked(<<>>, <<>>, cached') /\ Keyed(<<>>, <<>>, cached', key', hasher'[from], unique'[from])
          BY <1>3, <3>1, EmptyTable
    <3>3. QED BY <1>5, <2>2, <3>2 DEF TableInv
  <2>3. CASE v \notin {t, from}
    <3>1. /\ TableInv(v) /\ unique' = unique /\ (v \in husks => v \in husks')
          /\ order'[v] = order[v] /\ buckets'[v] = buckets[v] /\ hasher'[v] = hasher[v]
          BY <1>1, <1>5, <2>3
    <3>2. \A n \in ToSet(order[v]) : cached'[n] = cached[n] /\ key'[n] = key[n]
          BY <1>8, <2>3
    <3>3. QED BY <1>1, <3>1, <3>2, TableFrame
  <2>4. QED BY <2>1, <2>2, <2>3
<1>11. Owned'
  <2>1. ASSUME NEW v \in Tables, NEW n \in ToSet(order'[v])
        PROVE  \E w \in Tables \ {t} : n \in ToSet(order[w]) /\ w = IF v = t THEN from ELSE v
    <3>1. CASE v = t
          BY <1>1, <1>5, <2>1, <3>1
    <3>2. CASE v = from
          BY <1>3, <1>5, <2>1, <3>2
    <3>3. CASE v \notin {t, from}
          BY <1>5, <2>1, <3>3
    <3>4. QED BY <3>1, <3>2, <3>3
  <2>2. ASSUME NEW v \in Tables, NEW w \in Tables, NEW n \in ToSet(order'[v]), n \in ToSet(order'[w])
        PROVE  v = w
    <3>1. ToSet(order'[from]) = {}
          BY <1>3, <1>5
    <3>2. v # from /\ w # from
          BY <2>2, <3>1
    <3>3. QED BY <1>1, <2>1, <2>2, <3>2 DEF Owned
  <2>3. ASSUME NEW v \in Tables, NEW n \in ToSet(order'[v])
        PROVE  key'[n] # Null /\ n # handle'
    <3>1. PICK w \in Tables \ {t} : n \in ToSet(order[w])
          BY <2>1, <2>3
    <3>2. key'[n] = key[n]
          BY <1>8, <3>1
    <3>3. QED BY <1>1, <3>1, <3>2 DEF Owned
  <2>4. handle' # Null => key'[handle'] \in Keys
    <3>1. handle # Null => handle \in Nodes \ gone
          BY <1>1 DEF Owned, TypeOK
    <3>2. QED BY <1>1, <1>6, <3>1 DEF Owned
  <2>5. ASSUME NEW n \in Nodes, key'[n] # Null, n # handle'
        PROVE  \E v \in Tables : n \in ToSet(order'[v])
    <3>1. n \notin gone
          BY <1>1, <2>5 DEF Destroyed
    <3>2. PICK w \in Tables : n \in ToSet(order[w])
          BY <1>1, <1>6, <2>5, <3>1 DEF Owned
    <3>3. w # t
          BY <3>1, <3>2
    <3>4. CASE w = from
          BY <1>5, <3>2, <3>4
    <3>5. CASE w # from
          BY <1>5, <3>2, <3>3, <3>5
    <3>6. QED BY <3>4, <3>5
  <2>6. QED BY <2>2, <2>3, <2>4, <2>5 DEF Owned
<1>12. QED BY <1>1, <1>9, <1>10, <1>11 DEF Inv, MergeInv

(* link_node() of fresh nodes for the elements of `from`, one after the    *)
(* other: the chains are those of the new list, and keyed as the source's. *)
LEMMA Copies ==
    ASSUME HashTableAssumption, Inv, NEW t \in Tables, NEW from \in Tables, Assigned(t, from),
           NEW new \in FreshNodes(t, from), Copied(t, from, new),
           husks' \subseteq Tables, husks \ {t} \subseteq husks',
           \A i \in 1 .. Len(order[from]) : key'[new[i]] = key[order[from][i]],
           \A u \in Tables \ {t} : u \notin husks' => \A n \in ToSet(order[u]) : key'[n] = key[n]
    PROVE  /\ Became(t, new, buckets'[t]) /\ cached' \in [Nodes -> Nat]
           /\ \A n \in ToSet(new) : n \in Nodes /\ n # handle
                 /\ \E m \in ToSet(order[from]) : key'[n] = key[m]
           /\ \A n \in ToSet(new) : n \in ToSet(order[t]) \/ \A u \in Tables : n \notin ToSet(order[u])
<1> DEFINE s     == order[from]
           array == rebuild_bucket_array(new, cached', Count(from))
<1>1. /\ TypeOK /\ Owned /\ NullAssumption /\ t # from /\ unique[t] = unique[from] /\ from \notin husks
      /\ unique' = unique /\ hasher' = [hasher EXCEPT ![t] = hasher[from]]
      /\ Linked(s, buckets[from], cached)
      /\ Keyed(s, buckets[from], cached, key, hasher[from], unique[from])
      BY DEF Inv, TableInv, Sound, Assigned, HashTableAssumption
<1>2. /\ s \in Seq(Nodes) /\ Len(s) \in Nat /\ IsInjective(s) /\ \A n \in ToSet(s) : n \in Nodes
      /\ cached \in [Nodes -> Nat] /\ order[t] \in Seq(Nodes)
      /\ \A i \in 1 .. Len(s) : s[i] \in ToSet(s)
  <2>1. s \in Seq(Nodes) /\ cached \in [Nodes -> Nat] /\ order[t] \in Seq(Nodes)
        BY <1>1 DEF TypeOK
  <2>2. IsInjective(s)
        BY <1>1 DEF Linked
  <2>3. \A i \in 1 .. Len(s) : s[i] \in ToSet(s)
        BY <2>1, Index
  <2>4. \A n \in ToSet(s) : n \in Nodes
        BY <2>1, Elements
  <2>5. Len(s) \in Nat
        BY <2>1
  <2>6. QED BY <2>1, <2>2, <2>3, <2>4, <2>5
<1>3. new \in [1 .. Len(s) -> Free \cup ToSet(order[t])] /\ IsInjective(new)
      BY DEF FreshNodes
<1>4. \A n \in Free \cup ToSet(order[t]) :
         n \in Nodes /\ n # handle /\ \A u \in Tables : n \in ToSet(order[u]) => u = t
  <2>1. \A n \in ToSet(order[t]) : n \in Nodes
        BY <1>2, Elements
  <2>2. \A n \in Free : n \in Nodes /\ key[n] = Null
        BY DEF Free
  <2>3. ASSUME NEW n \in Free
        PROVE  n # handle /\ \A u \in Tables : n \notin ToSet(order[u])
        BY <1>1, <2>2, Unowned
  <2>4. ASSUME NEW n \in ToSet(order[t])
        PROVE  n # handle /\ \A u \in Tables : n \in ToSet(order[u]) => u = t
        BY <1>1 DEF Owned
  <2>5. QED BY <2>1, <2>2, <2>3, <2>4
<1> HIDE DEF s
<1>5. /\ new \in Seq(Nodes) /\ Len(new) = Len(s) /\ DOMAIN new = 1 .. Len(s)
      /\ \A n \in ToSet(new) : \E i \in 1 .. Len(s) : new[i] = n
      /\ \A i \in 1 .. Len(s) : new[i] \in ToSet(new)
      /\ ToSet(new) \subseteq Free \cup ToSet(order[t])
  <2>1. new \in [1 .. Len(s) -> Nodes]
        BY <1>3, <1>4
  <2>2. new \in Seq(Nodes) /\ Len(new) = Len(s) /\ DOMAIN new = 1 .. Len(s)
        BY <1>2, <2>1, SMTT(40)
  <2>3. ToSet(new) = {new[i] : i \in 1 .. Len(s)}
        BY <2>2 DEF ToSet
  <2>4. QED BY <1>3, <2>2, <2>3
<1>6. \A i, j \in 1 .. Len(s) : new[i] = new[j] => i = j
      BY <1>3, <1>5 DEF IsInjective
<1>7. order' = [order EXCEPT ![t] = new]
      BY DEF Copied
<1>8. cached' = [n \in Nodes |->
          CASE n \in ToSet(new) -> cached[s[CHOOSE i \in DOMAIN new : new[i] = n]]
            [] n \in ToSet(order[t]) \ ToSet(new) -> 0
            [] OTHER -> cached[n]]
      BY DEF Copied, s
<1>9. ASSUME NEW i \in 1 .. Len(s)
      PROVE  cached'[new[i]] = cached[s[i]] /\ key'[new[i]] = key[s[i]] /\ s[i] \in Nodes
  <2>1. (CHOOSE j \in DOMAIN new : new[j] = new[i]) = i
        BY <1>5, <1>6
  <2>2. new[i] \in Nodes /\ new[i] \in ToSet(new)
        BY <1>3, <1>4, <1>5
  <2>3. cached'[new[i]] = cached[s[i]]
    <3> DEFINE from_(n) == CHOOSE j \in DOMAIN new : new[j] = n
    <3>1. cached' = [n \in Nodes |->
             CASE n \in ToSet(new) -> cached[s[from_(n)]]
               [] n \in ToSet(order[t]) \ ToSet(new) -> 0
               [] OTHER -> cached[n]]
          BY <1>8
    <3>2. from_(new[i]) = i
          BY <2>1
    <3> HIDE DEF from_
    <3>3. QED BY <3>1, <3>2, <2>2
  <2>4. QED BY <1>2, <2>3 DEF s
<1>10. cached' \in [Nodes -> Nat]
  <2>1. ASSUME NEW n \in ToSet(new)
        PROVE  cached[s[CHOOSE i \in DOMAIN new : new[i] = n]] \in Nat
    <3>1. (CHOOSE i \in DOMAIN new : new[i] = n) \in 1 .. Len(s)
          BY <1>5
    <3>2. QED BY <1>2, <3>1
  <2>2. QED BY <1>2, <1>8, <2>1, ZenonT(40)
<1>11. \A u \in Tables \ {t} : \A n \in ToSet(order[u]) : cached'[n] = cached[n]
  <2>1. ASSUME NEW u \in Tables \ {t}, NEW n \in ToSet(order[u])
        PROVE  n \in Nodes /\ n \notin ToSet(new) /\ n \notin ToSet(order[t])
    <3>1. n \in Nodes
          BY <1>1, Elements DEF TypeOK
    <3>2. n \notin Free \cup ToSet(order[t])
          BY <1>4
    <3>3. QED BY <1>5, <3>1, <3>2
  <2>2. QED BY <1>8, <2>1
<1>12. buckets' = [buckets EXCEPT ![t] = array] /\ buckets'[t] = array
  <2>1. buckets' = [buckets EXCEPT ![t] = array]
        BY DEF Copied
  <2>2. QED BY <1>1, <2>1 DEF TypeOK
<1>13. Count(from) \in Nat /\ (Count(from) = 0 => new = <<>>)
  <2>1. Count(from) \in Nat
        BY <1>1 DEF TypeOK, Count
  <2>2. Count(from) = 0 => Len(s) = 0
        BY <1>1, EmptyList DEF Linked, Count
  <2>3. Len(new) = 0 => new = <<>>
        BY <1>5
  <2>4. QED BY <1>5, <2>1, <2>2, <2>3
<1>14. /\ array \in Seq(Seq(Nodes)) /\ Len(array) = Count(from)
       /\ Linked(new, array, cached')
       /\ Grouped(new, key') => Agreeing(new, array, key')
  <2>1. \A n \in ToSet(new) : cached'[n] \in Nat
        BY <1>5, <1>10, Elements
  <2>2. QED BY <1>3, <1>5, <1>13, <2>1, Rebuilt
<1> HIDE DEF array
<1>15. Grouped(new, key')
  <2>1. ASSUME NEW m, NEW n, Precedes(new, m, n)
        PROVE  \E i, j \in 1 .. Len(s) : i < j /\ new[i] = m /\ new[j] = n
        BY <1>5, <2>1 DEF Precedes
  <2>2. ASSUME NEW m, NEW x, NEW n, Precedes(new, m, x), Precedes(new, x, n), key'[m] = key'[n]
        PROVE  key'[x] = key'[m]
    <3>1. PICK i, j \in 1 .. Len(s) : i < j /\ new[i] = m /\ new[j] = x
          BY <2>1, <2>2
    <3>2. PICK a, c \in 1 .. Len(s) : a < c /\ new[a] = x /\ new[c] = n
          BY <2>1, <2>2
    <3>3. a = j
          BY <1>6, <3>1, <3>2
    <3>4. Precedes(s, s[i], s[j]) /\ Precedes(s, s[j], s[c])
          BY <3>1, <3>2, <3>3 DEF Precedes
    <3>5. key'[m] = key[s[i]] /\ key'[x] = key[s[j]] /\ key'[n] = key[s[c]]
          BY <1>9, <3>1, <3>2
    <3>6. key[s[i]] = key[s[c]]
          BY <2>2, <3>5
    <3>7. key[s[j]] = key[s[i]]
          BY <1>1, <3>4, <3>6 DEF Keyed, Agreeing, Grouped
    <3>8. QED BY <3>5, <3>7
  <2>3. QED BY <2>2 DEF Grouped
<1>16. hasher'[t] = hasher[from] /\ \A u \in Tables \ {t} : hasher'[u] = hasher[u]
       BY <1>1 DEF TypeOK
<1>17. Keyed(new, array, cached', key', hasher'[t], unique[t])
  <2>1. Agreeing(new, array, key')
        BY <1>14, <1>15
  <2>2. unique[t] => Distinct(new, key')
    <3>1. SUFFICES ASSUME unique[t], NEW m \in ToSet(new), NEW n \in ToSet(new), key'[m] = key'[n]
                   PROVE  m = n
          BY DEF Distinct
    <3>2. PICK i, j \in 1 .. Len(s) : new[i] = m /\ new[j] = n
          BY <1>5
    <3>3. key[s[i]] = key[s[j]] /\ s[i] \in ToSet(s) /\ s[j] \in ToSet(s)
          BY <1>2, <1>9, <3>1, <3>2 DEF s
    <3>4. s[i] = s[j]
          BY <1>1, <3>1, <3>3 DEF Keyed, Distinct
    <3>5. i = j
          BY <1>2, <3>4, Places
    <3>6. QED BY <3>2, <3>5
  <2>3. ASSUME NEW n \in ToSet(new)
        PROVE  key'[n] \in Keys /\ cached'[n] = Hash(hasher'[t], key'[n])
    <3>1. PICK i \in 1 .. Len(s) : new[i] = n
          BY <1>5
    <3>2. s[i] \in ToSet(s)
          BY <1>2
    <3>3. key[s[i]] \in Keys /\ cached[s[i]] = Hash(hasher[from], key[s[i]])
          BY <1>1, <3>2 DEF Keyed
    <3>4. QED BY <1>9, <1>16, <3>1, <3>3
  <2>4. QED BY <2>1, <2>2, <2>3 DEF Keyed
<1>18. Became(t, new, array)
  <2>1. Len(array) \in BucketCounts \cup {0}
        BY <1>1, <1>14 DEF TypeOK
  <2>2. t \notin husks' => Keyed(new, array, cached', key', hasher'[t], unique[t])
        BY <1>17
  <2>3. unique' = unique /\ new \in Seq(Nodes) /\ array \in Seq(Seq(Nodes)) /\ Linked(new, array, cached')
        BY <1>1, <1>5, <1>14
  <2>4. \A u \in Tables \ {t} : hasher'[u] = hasher[u]
        BY <1>16
  <2>5. buckets' = [buckets EXCEPT ![t] = array]
        BY <1>12
  <2>6. QED BY <1>7, <1>11, <2>1, <2>2, <2>3, <2>4, <2>5, TableChanges, ZenonT(60)
<1>19. ASSUME NEW n \in ToSet(new)
       PROVE  /\ n \in Nodes /\ n # handle /\ \E m \in ToSet(s) : key'[n] = key[m]
              /\ n \in ToSet(order[t]) \/ \A u \in Tables : n \notin ToSet(order[u])
  <2>1. n \in Free \cup ToSet(order[t])
        BY <1>5
  <2>2. n \in Nodes /\ n # handle /\ \A u \in Tables : n \in ToSet(order[u]) => u = t
        BY <1>4, <2>1
  <2>3. PICK i \in 1 .. Len(s) : new[i] = n
        BY <1>5
  <2>4. key'[n] = key[s[i]] /\ s[i] \in ToSet(s)
        BY <1>2, <1>9, <2>3
  <2>5. QED BY <2>2, <2>4
<1>20. QED BY <1>10, <1>12, <1>18, <1>19 DEF s

(* An assignment that has copied the elements: the table's own nodes that  *)
(* have not been used again are gone, the source has kept its nodes.       *)
LEMMA CopiedInv ==
    ASSUME HashTableAssumption, Inv, NEW t \in Tables, NEW from \in Tables, Assigned(t, from),
           NEW new \in FreshNodes(t, from), Copied(t, from, new),
           husks' \subseteq Tables, husks \ {t} \subseteq husks',
           key' \in [Nodes -> Keys \cup {MovedFrom, Null}],
           \A i \in 1 .. Len(order[from]) : key'[new[i]] = key[order[from][i]],
           \A n \in ToSet(order[t]) \ ToSet(new) : key'[n] = Null,
           \A n \in ToSet(order[from]) : key'[n] # Null /\ (from \notin husks' => key'[n] = key[n]),
           \A n \in Nodes : n \notin ToSet(new) \cup ToSet(order[t]) \cup ToSet(order[from]) =>
                               key'[n] = key[n]
    PROVE  Inv'
<1>1. /\ TypeOK /\ Owned /\ NullAssumption /\ t # from
      /\ merging = NoMerge /\ merging' = merging /\ unique' = unique /\ handle' = handle
      /\ hasher' = [hasher EXCEPT ![t] = hasher[from]] /\ load' = [load EXCEPT ![t] = load[from]]
      BY DEF Inv, Assigned, HashTableAssumption
<1>2. \A u \in Tables : \A n \in ToSet(order[u]) : n \in Nodes
      BY <1>1, Elements DEF TypeOK
<1>3. \A u \in Tables \ {t, from} : \A n \in ToSet(order[u]) : n \notin ToSet(order[t]) \cup ToSet(order[from])
      BY <1>1 DEF Owned
<1>4. \A n \in ToSet(new) : n \in ToSet(order[t]) \/ \A u \in Tables : n \notin ToSet(order[u])
  <2>1. \A n \in ToSet(new) : n \in Free \cup ToSet(order[t])
    <3>1. new \in [1 .. Len(order[from]) -> Free \cup ToSet(order[t])]
          BY DEF FreshNodes
    <3>2. QED BY <3>1 DEF ToSet
  <2>2. \A n \in Free : \A u \in Tables : n \notin ToSet(order[u])
        BY <1>1, Unowned DEF Free
  <2>3. QED BY <2>1, <2>2
<1>5. \A u \in Tables \ {t} : \A n \in ToSet(order[u]) : n \notin ToSet(new)
      BY <1>1, <1>4 DEF Owned
<1>6. \A u \in Tables \ {t} : u \notin husks' => \A n \in ToSet(order[u]) : key'[n] = key[n]
  <2>1. ASSUME NEW u \in Tables \ {t}, u \notin husks', NEW n \in ToSet(order[u])
        PROVE  key'[n] = key[n]
    <3>1. CASE u = from
          BY <2>1, <3>1
    <3>2. CASE u # from
          BY <1>2, <1>3, <1>5, <2>1, <3>2
    <3>3. QED BY <3>1, <3>2
  <2>2. QED BY <2>1
<1>7. /\ Became(t, new, buckets'[t]) /\ cached' \in [Nodes -> Nat]
      /\ \A n \in ToSet(new) : n \in Nodes /\ n # handle
            /\ \E m \in ToSet(order[from]) : key'[n] = key[m]
      BY <1>6, Copies
<1>8. /\ order' \in [Tables -> Seq(Nodes)] /\ buckets' \in [Tables -> Seq(Seq(Nodes))]
      /\ \A u \in Tables : Count(u)' \in BucketCounts \cup {0}
      /\ \A u \in Tables : TableInv(u)'
      /\ order'[t] = new /\ \A u \in Tables \ {t} : order'[u] = order[u]
      BY <1>7 DEF Became
<1>9. TypeOK'
      BY <1>1, <1>7, <1>8 DEF TypeOK
<1>10. Owned'
  <2>1. ASSUME NEW v \in Tables, NEW w \in Tables, NEW n \in ToSet(order'[v]), n \in ToSet(order'[w])
        PROVE  v = w
    <3>1. CASE v = t /\ w # t
          BY <1>5, <1>8, <2>1, <3>1
    <3>2. CASE v # t /\ w = t
          BY <1>5, <1>8, <2>1, <3>2
    <3>3. CASE v # t /\ w # t
          BY <1>1, <1>8, <2>1, <3>3 DEF Owned
    <3>4. QED BY <3>1, <3>2, <3>3
  <2>2. ASSUME NEW v \in Tables, NEW n \in ToSet(order'[v])
        PROVE  key'[n] # Null /\ n # handle'
    <3>1. CASE v = t
      <4>1. PICK m \in ToSet(order[from]) : key'[n] = key[m]
            BY <1>7, <1>8, <2>2, <3>1
      <4>2. QED BY <1>1, <1>7, <1>8, <2>2, <3>1, <4>1 DEF Owned
    <3>2. CASE v = from
          BY <1>1, <1>8, <2>2, <3>2 DEF Owned
    <3>3. CASE v \notin {t, from}
      <4>1. n \in ToSet(order[v]) /\ key[n] # Null /\ n # handle
            BY <1>1, <1>8, <2>2, <3>3 DEF Owned
      <4>2. key'[n] = key[n]
            BY <1>2, <1>3, <1>5, <3>3, <4>1
      <4>3. QED BY <1>1, <4>1, <4>2
    <3>4. QED BY <3>1, <3>2, <3>3
  <2>3. handle' # Null => key'[handle'] \in Keys
    <3>1. SUFFICES ASSUME handle # Null PROVE key'[handle] \in Keys
          BY <1>1
    <3>2. handle \in Nodes /\ key[handle] \in Keys /\ \A u \in Tables : handle \notin ToSet(order[u])
          BY <1>1, <3>1 DEF Owned, TypeOK
    <3>3. handle \notin ToSet(new)
          BY <1>7
    <3>4. QED BY <3>2, <3>3
  <2>4. ASSUME NEW n \in Nodes, key'[n] # Null, n # handle'
        PROVE  \E v \in Tables : n \in ToSet(order'[v])
    <3>1. CASE n \in ToSet(new)
          BY <1>8, <3>1
    <3>2. CASE n \in ToSet(order[from])
          BY <1>1, <1>8, <3>2
    <3>3. CASE n \notin ToSet(new) \cup ToSet(order[from])
      <4>1. n \notin ToSet(order[t]) /\ key[n] # Null
            BY <2>4, <3>3
      <4>2. PICK u \in Tables : n \in ToSet(order[u])
            BY <1>1, <2>4, <4>1 DEF Owned
      <4>3. QED BY <1>8, <4>1, <4>2
    <3>4. QED BY <3>1, <3>2, <3>3
  <2>5. QED BY <2>1, <2>2, <2>3, <2>4 DEF Owned
<1>11. QED BY <1>1, <1>8, <1>9, <1>10 DEF Inv, MergeInv

(* Fresh nodes are different nodes, in no other table. *)
LEMMA Fresh ==
    ASSUME NullAssumption, TypeOK, Owned, NEW t \in Tables, NEW from \in Tables,
           NEW new \in FreshNodes(t, from)
    PROVE  /\ DOMAIN new = 1 .. Len(order[from])
           /\ \A i \in 1 .. Len(order[from]) :
                 /\ (CHOOSE j \in DOMAIN new : new[j] = new[i]) = i
                 /\ new[i] \in Nodes /\ new[i] \in ToSet(new) /\ new[i] # handle
                 /\ \A u \in Tables \ {t} : new[i] \notin ToSet(order[u])
           /\ \A n \in ToSet(new) : \E i \in 1 .. Len(order[from]) : new[i] = n
<1>1. new \in [1 .. Len(order[from]) -> Free \cup ToSet(order[t])] /\ IsInjective(new)
      BY DEF FreshNodes
<1>2. \A i, j \in DOMAIN new : new[i] = new[j] => i = j
      BY <1>1 DEF IsInjective
<1>3. ToSet(new) = {new[i] : i \in DOMAIN new}
      BY DEF ToSet
<1>4. \A n \in Free \cup ToSet(order[t]) :
         n \in Nodes /\ n # handle /\ \A u \in Tables \ {t} : n \notin ToSet(order[u])
  <2>1. \A n \in Free : n \in Nodes /\ n # handle /\ \A u \in Tables : n \notin ToSet(order[u])
        BY Unowned DEF Free
  <2>2. \A n \in ToSet(order[t]) : n \in Nodes
        BY Elements DEF TypeOK
  <2>3. \A n \in ToSet(order[t]) : n # handle /\ \A u \in Tables \ {t} : n \notin ToSet(order[u])
        BY DEF Owned
  <2>4. QED BY <2>1, <2>2, <2>3
<1>5. ASSUME NEW i \in 1 .. Len(order[from])
      PROVE  /\ (CHOOSE j \in DOMAIN new : new[j] = new[i]) = i
             /\ new[i] \in Nodes /\ new[i] \in ToSet(new) /\ new[i] # handle
             /\ \A u \in Tables \ {t} : new[i] \notin ToSet(order[u])
  <2>1. i \in DOMAIN new /\ new[i] \in Free \cup ToSet(order[t])
        BY <1>1
  <2>2. (CHOOSE j \in DOMAIN new : new[j] = new[i]) = i
        BY <1>2, <2>1
  <2>3. QED BY <1>3, <1>4, <2>1, <2>2
<1>6. QED BY <1>1, <1>3, <1>5

(* The fresh nodes of t have got the keys of the source's. *)
Duplicated(t, from, new) ==
    /\ order' = [order EXCEPT ![t] = new]
    /\ \A i \in 1 .. Len(order[from]) : key'[new[i]] = key[order[from][i]]
    /\ \A u \in Tables \ {t, from} : \A n \in ToSet(order[u]) : key'[n] = key[n]
    /\ handle # Null => key'[handle] = key[handle]

(* ... copy assignment and element-wise move assignment, ... *)
LEMMA CopyAssignInv ==
    ASSUME HashTableAssumption, Inv, NEW t \in Tables, NEW from \in Tables, CopyAssign(t, from)
    PROVE  /\ Inv' /\ \E new \in FreshNodes(t, from) : Duplicated(t, from, new)
           /\ \A n \in ToSet(order[from]) : key'[n] = key[n]
<1>1. PICK new \in FreshNodes(t, from) :
         /\ Copied(t, from, new)
         /\ key' = [n \in Nodes |->
               CASE n \in ToSet(new) -> key[order[from][CHOOSE i \in DOMAIN new : new[i] = n]]
                 [] n \in ToSet(order[t]) \ ToSet(new) -> Null
                 [] OTHER -> key[n]]
      BY DEF CopyAssign
<1>2. /\ Assigned(t, from) /\ husks' = husks \ {t} /\ TypeOK /\ Owned /\ t # from
      /\ from \notin husks' /\ order[from] \in Seq(Nodes) /\ NullAssumption
      BY DEF CopyAssign, Assigned, Inv, TypeOK, HashTableAssumption
<1>3. /\ DOMAIN new = 1 .. Len(order[from])
      /\ \A i \in 1 .. Len(order[from]) :
            /\ (CHOOSE j \in DOMAIN new : new[j] = new[i]) = i
            /\ new[i] \in Nodes /\ new[i] \in ToSet(new) /\ new[i] # handle
            /\ \A u \in Tables \ {t} : new[i] \notin ToSet(order[u])
      /\ \A n \in ToSet(new) : \E i \in 1 .. Len(order[from]) : new[i] = n
      BY <1>2, Fresh
<1>4. \A n \in ToSet(order[from]) :
         n \in Nodes /\ n \notin ToSet(new) /\ n \notin ToSet(order[t]) /\ key[n] # Null
  <2>1. \A n \in ToSet(order[from]) : n \in Nodes
        BY <1>2, Elements
  <2>2. \A n \in ToSet(order[from]) : n \notin ToSet(new)
        BY <1>2, <1>3
  <2>3. QED BY <1>2, <2>1, <2>2 DEF Owned
<1>5. \A i \in 1 .. Len(order[from]) : key'[new[i]] = key[order[from][i]]
  <2> DEFINE from_(n) == CHOOSE j \in DOMAIN new : new[j] = n
  <2>1. key' = [n \in Nodes |->
           CASE n \in ToSet(new) -> key[order[from][from_(n)]]
             [] n \in ToSet(order[t]) \ ToSet(new) -> Null
             [] OTHER -> key[n]]
        BY <1>1
  <2>2. \A i \in 1 .. Len(order[from]) : from_(new[i]) = i
        BY <1>3
  <2> HIDE DEF from_
  <2>3. ASSUME NEW i \in 1 .. Len(order[from])
        PROVE  key'[new[i]] = key[order[from][i]]
    <3>1. new[i] \in Nodes /\ new[i] \in ToSet(new) /\ from_(new[i]) = i
          BY <1>3, <2>2
    <3>2. QED BY <2>1, <3>1
  <2>4. QED BY <2>3
<1>6. /\ \A n \in ToSet(order[t]) \ ToSet(new) : key'[n] = Null
      /\ \A n \in Nodes : n \notin ToSet(new) \cup ToSet(order[t]) => key'[n] = key[n]
  <2>1. \A n \in ToSet(order[t]) : n \in Nodes
        BY <1>2, Elements DEF TypeOK
  <2>2. QED BY <1>1, <2>1
<1>7. \A n \in ToSet(order[from]) : key'[n] # Null /\ (from \notin husks' => key'[n] = key[n])
      BY <1>4, <1>6
<1>8. key' \in [Nodes -> Keys \cup {MovedFrom, Null}]
  <2>1. ASSUME NEW n \in Nodes PROVE key'[n] \in Keys \cup {MovedFrom, Null}
    <3>1. CASE n \in ToSet(new)
      <4>1. PICK i \in 1 .. Len(order[from]) : new[i] = n
            BY <1>3, <3>1
      <4>2. order[from][i] \in Nodes
            BY <1>2
      <4>3. QED BY <1>2, <1>5, <4>1, <4>2 DEF TypeOK
    <3>2. CASE n \in ToSet(order[t]) \ ToSet(new)
          BY <1>6, <3>2
    <3>3. CASE n \notin ToSet(new) \cup ToSet(order[t])
          BY <1>2, <1>6, <3>3 DEF TypeOK
    <3>4. QED BY <3>1, <3>2, <3>3
  <2>2. \E f : key' = [n \in Nodes |-> f[n]]
    <3> DEFINE f == key'
    <3>1. key' = [n \in Nodes |-> f[n]]
          BY <1>1
    <3>2. QED BY <3>1
  <2>3. QED BY <2>1, <2>2
<1>9. husks' \subseteq Tables /\ husks \ {t} \subseteq husks'
      BY <1>2 DEF TypeOK
<1>10. \A n \in Nodes : n \notin ToSet(new) \cup ToSet(order[t]) \cup ToSet(order[from]) => key'[n] = key[n]
      BY <1>6
<1>11. Duplicated(t, from, new)
  <2>1. ASSUME NEW u \in Tables \ {t, from}, NEW n \in ToSet(order[u])
        PROVE  key'[n] = key[n]
    <3>1. n \in Nodes
          BY <1>2, Elements DEF TypeOK
    <3>2. n \notin ToSet(new)
          BY <1>3, <2>1
    <3>3. n \notin ToSet(order[t]) /\ n \notin ToSet(order[from])
          BY <1>2, <2>1 DEF Owned
    <3>4. QED BY <1>6, <3>1, <3>2, <3>3
  <2>2. ASSUME handle # Null PROVE key'[handle] = key[handle]
    <3>1. handle \in Nodes /\ handle \notin ToSet(order[t]) /\ handle \notin ToSet(order[from])
          BY <1>2, <2>2 DEF Owned, TypeOK
    <3>2. handle \notin ToSet(new)
          BY <1>3
    <3>3. QED BY <1>6, <3>1, <3>2
  <2>3. QED BY <1>1, <1>5, <2>1, <2>2 DEF Duplicated, Copied
<1>12. Inv'
       BY <1>1, <1>2, <1>5, <1>6, <1>7, <1>8, <1>9, <1>10, CopiedInv
<1>13. QED BY <1>2, <1>7, <1>11, <1>12

(* move_values_from(): as a copy, but that the source's values are gone.   *)
LEMMA MoveValuesInv ==
    ASSUME HashTableAssumption, Inv, NEW t \in Tables, NEW from \in Tables, MoveValues(t, from)
    PROVE  /\ Inv' /\ \E new \in FreshNodes(t, from) : Duplicated(t, from, new)
           /\ \A n \in ToSet(order[from]) : key'[n] = MovedFrom
<1>1. PICK new \in FreshNodes(t, from) :
         /\ Copied(t, from, new)
         /\ key' = [n \in Nodes |->
               CASE n \in ToSet(new) -> key[order[from][CHOOSE i \in DOMAIN new : new[i] = n]]
                 [] n \in ToSet(order[t]) \ ToSet(new) -> Null
                 [] n \in ToSet(order[from]) -> MovedFrom
                 [] OTHER -> key[n]]
      BY DEF MoveValues
<1>2. /\ Assigned(t, from) /\ husks' = (husks \ {t}) \cup {from} /\ TypeOK /\ Owned /\ t # from
      /\ from \in husks' /\ order[from] \in Seq(Nodes) /\ NullAssumption
      BY DEF MoveValues, Assigned, Inv, TypeOK, HashTableAssumption
<1>3. /\ DOMAIN new = 1 .. Len(order[from])
      /\ \A i \in 1 .. Len(order[from]) :
            /\ (CHOOSE j \in DOMAIN new : new[j] = new[i]) = i
            /\ new[i] \in Nodes /\ new[i] \in ToSet(new) /\ new[i] # handle
            /\ \A u \in Tables \ {t} : new[i] \notin ToSet(order[u])
      /\ \A n \in ToSet(new) : \E i \in 1 .. Len(order[from]) : new[i] = n
      BY <1>2, Fresh
<1>4. \A n \in ToSet(order[from]) :
         n \in Nodes /\ n \notin ToSet(new) /\ n \notin ToSet(order[t])
  <2>1. \A n \in ToSet(order[from]) : n \in Nodes
        BY <1>2, Elements
  <2>2. \A n \in ToSet(order[from]) : n \notin ToSet(new)
        BY <1>2, <1>3
  <2>3. QED BY <1>2, <2>1, <2>2 DEF Owned
<1>5. \A i \in 1 .. Len(order[from]) : key'[new[i]] = key[order[from][i]]
  <2> DEFINE from_(n) == CHOOSE j \in DOMAIN new : new[j] = n
  <2>1. key' = [n \in Nodes |->
           CASE n \in ToSet(new) -> key[order[from][from_(n)]]
             [] n \in ToSet(order[t]) \ ToSet(new) -> Null
             [] n \in ToSet(order[from]) -> MovedFrom
             [] OTHER -> key[n]]
        BY <1>1
  <2>2. \A i \in 1 .. Len(order[from]) : from_(new[i]) = i
        BY <1>3
  <2> HIDE DEF from_
  <2>3. ASSUME NEW i \in 1 .. Len(order[from])
        PROVE  key'[new[i]] = key[order[from][i]]
    <3>1. /\ new[i] \in Nodes /\ new[i] \in ToSet(new) /\ from_(new[i]) = i
          /\ new[i] \notin ToSet(order[from])
          BY <1>2, <1>3, <2>2
    <3>2. QED BY <2>1, <3>1
  <2>4. QED BY <2>3
<1>6. /\ \A n \in ToSet(order[t]) \ ToSet(new) : key'[n] = Null
      /\ \A n \in ToSet(order[from]) : key'[n] = MovedFrom
      /\ \A n \in Nodes : n \notin ToSet(new) \cup ToSet(order[t]) \cup ToSet(order[from]) => key'[n] = key[n]
  <2>1. \A n \in ToSet(order[t]) : n \in Nodes
        BY <1>2, Elements DEF TypeOK
  <2>2. ASSUME NEW n \in ToSet(order[t]) \ ToSet(new) PROVE key'[n] = Null
    <3>1. n \in Nodes /\ n \notin ToSet(new) /\ n \notin ToSet(order[from])
          BY <1>4, <2>1, <2>2
    <3>2. QED BY <1>1, <2>2, <3>1
  <2>3. ASSUME NEW n \in ToSet(order[from]) PROVE key'[n] = MovedFrom
    <3>1. n \in Nodes /\ n \notin ToSet(new) /\ n \notin ToSet(order[t])
          BY <1>4
    <3>2. QED BY <1>1, <3>1
  <2>4. ASSUME NEW n \in Nodes, n \notin ToSet(new) \cup ToSet(order[t]) \cup ToSet(order[from])
        PROVE  key'[n] = key[n]
    <3>1. n \notin ToSet(new) /\ n \notin ToSet(order[t]) \ ToSet(new) /\ n \notin ToSet(order[from])
          BY <2>4
    <3>2. QED BY <1>1, <3>1
  <2>5. QED BY <2>2, <2>3, <2>4
<1>7. \A n \in ToSet(order[from]) : key'[n] # Null /\ (from \notin husks' => key'[n] = key[n])
      BY <1>2, <1>6 DEF NullAssumption
<1>8. key' \in [Nodes -> Keys \cup {MovedFrom, Null}]
  <2>1. ASSUME NEW n \in Nodes PROVE key'[n] \in Keys \cup {MovedFrom, Null}
    <3>1. CASE n \in ToSet(new)
      <4>1. PICK i \in 1 .. Len(order[from]) : new[i] = n
            BY <1>3, <3>1
      <4>2. order[from][i] \in Nodes
            BY <1>2
      <4>3. QED BY <1>2, <1>5, <4>1, <4>2 DEF TypeOK
    <3>2. CASE n \in ToSet(order[t]) \ ToSet(new)
          BY <1>6, <3>2
    <3>3. CASE n \in ToSet(order[from])
          BY <1>6, <3>3
    <3>4. CASE n \notin ToSet(new) \cup ToSet(order[t]) \cup ToSet(order[from])
          BY <1>2, <1>6, <3>4 DEF TypeOK
    <3>5. QED BY <3>1, <3>2, <3>3, <3>4
  <2>2. \E f : key' = [n \in Nodes |-> f[n]]
    <3> DEFINE f == key'
    <3>1. key' = [n \in Nodes |-> f[n]]
          BY <1>1
    <3>2. QED BY <3>1
  <2>3. QED BY <2>1, <2>2
<1>9. husks' \subseteq Tables /\ husks \ {t} \subseteq husks'
      BY <1>2 DEF TypeOK
<1>10. Duplicated(t, from, new)
  <2>1. ASSUME NEW u \in Tables \ {t, from}, NEW n \in ToSet(order[u])
        PROVE  key'[n] = key[n]
    <3>1. n \in Nodes
          BY <1>2, Elements DEF TypeOK
    <3>2. n \notin ToSet(new)
          BY <1>3, <2>1
    <3>3. n \notin ToSet(order[t]) /\ n \notin ToSet(order[from])
          BY <1>2, <2>1 DEF Owned
    <3>4. QED BY <1>6, <3>1, <3>2, <3>3
  <2>2. ASSUME handle # Null PROVE key'[handle] = key[handle]
    <3>1. handle \in Nodes /\ handle \notin ToSet(order[t]) /\ handle \notin ToSet(order[from])
          BY <1>2, <2>2 DEF Owned, TypeOK
    <3>2. handle \notin ToSet(new)
          BY <1>3
    <3>3. QED BY <1>6, <3>1, <3>2
  <2>3. QED BY <1>1, <1>5, <2>1, <2>2 DEF Duplicated, Copied
<1>11. Inv'
       BY <1>1, <1>2, <1>5, <1>6, <1>7, <1>8, <1>9, CopiedInv
<1>12. QED BY <1>6, <1>10, <1>11

(* The same, cut short: t is left empty, and the source with moved-from    *)
(* values up to where the exception came.                                  *)
LEMMA MoveValuesFailsInv ==
    ASSUME HashTableAssumption, Inv, NEW t \in Tables, NEW from \in Tables, MoveValuesFails(t, from)
    PROVE  /\ Inv' /\ order' = [order EXCEPT ![t] = <<>>]
           /\ \A n \in ToSet(order[from]) : key'[n] \in {key[n], MovedFrom}
           /\ \A u \in Tables \ {t, from} : \A n \in ToSet(order[u]) : key'[n] = key[n]
<1> DEFINE gone == ToSet(order[t])
<1>1. PICK moved \in 1 .. Len(order[from]) :
         key' = [n \in Nodes |->
            CASE n \in gone -> Null
              [] n \in ToSet(SubSeq(order[from], 1, moved)) -> MovedFrom
              [] OTHER -> key[n]]
      BY DEF MoveValuesFails
<1>2. /\ TypeOK /\ Owned /\ t # from /\ NullAssumption
      /\ merging = NoMerge /\ merging' = merging /\ unique' = unique /\ handle' = handle
      /\ hasher' = [hasher EXCEPT ![t] = hasher[from]] /\ load' = [load EXCEPT ![t] = load[from]]
      /\ order' = [order EXCEPT ![t] = <<>>] /\ buckets' = [buckets EXCEPT ![t] = <<>>]
      /\ cached' = Uncached(gone) /\ husks' = (husks \ {t}) \cup {from}
      BY DEF Inv, MoveValuesFails, Assigned, HashTableAssumption
<1>3. \A u \in Tables : \A n \in ToSet(order[u]) : n \in Nodes
      BY <1>2, Elements DEF TypeOK
<1>4. \A u \in Tables \ {t} : \A n \in ToSet(order[u]) : n \notin gone
      BY <1>2 DEF Owned
<1>5. /\ \A n \in gone : key'[n] = Null
      /\ \A n \in Nodes \ gone : \/ key'[n] = key[n]
                                 \/ key'[n] = MovedFrom /\ n \in ToSet(order[from])
  <2>0. \A n \in ToSet(SubSeq(order[from], 1, moved)) : n \in ToSet(order[from])
    <3>1. order[from] \in Seq(Nodes)
          BY <1>2 DEF TypeOK
    <3>2. /\ SubSeq(order[from], 1, moved) \in Seq(Nodes)
          /\ Len(SubSeq(order[from], 1, moved)) = moved
          /\ \A i \in 1 .. moved : SubSeq(order[from], 1, moved)[i] = order[from][i]
          BY <3>1
    <3>3. \A i \in 1 .. moved : order[from][i] \in ToSet(order[from])
          BY <3>1, Index
    <3> HIDE DEF gone
    <3>4. QED BY <3>2, <3>3 DEF ToSet
  <2>1. \A n \in gone : n \in Nodes
        BY <1>3
  <2>2. ASSUME NEW n \in gone PROVE key'[n] = Null
    <3> DEFINE prefix == ToSet(SubSeq(order[from], 1, moved))
    <3>1. key' = [m \in Nodes |->
             CASE m \in gone -> Null [] m \in prefix -> MovedFrom [] OTHER -> key[m]]
          BY <1>1
    <3>2. n \notin prefix
      <4>1. \A m \in prefix : m \in ToSet(order[from])
            BY <2>0
      <4>2. QED BY <1>2, <1>4, <2>2, <4>1
    <3> HIDE DEF prefix
    <3>3. QED BY <2>1, <2>2, <3>1, <3>2
  <2>3. QED BY <1>1, <2>0, <2>2
<1>6. \A n \in Nodes \ gone : cached'[n] = cached[n]
      BY <1>2 DEF Uncached
<1>7. Became(t, <<>>, <<>>)
  <2>1. <<>> \in Seq(Nodes) /\ <<>> \in Seq(Seq(Nodes)) /\ Len(<<>>) \in BucketCounts \cup {0}
        OBVIOUS
  <2>2. Linked(<<>>, <<>>, cached') /\ Keyed(<<>>, <<>>, cached', key', hasher'[t], unique[t])
    <3>1. \A b \in 1 .. Len(<<>>) : <<>>[b] = <<>>
          OBVIOUS
    <3>2. QED BY <2>1, <3>1, EmptyTable
  <2>3. \A u \in Tables \ {t} : \A n \in ToSet(order[u]) : cached'[n] = cached[n]
        BY <1>3, <1>4, <1>6
  <2>4. \A u \in Tables \ {t} : u \notin husks' => \A n \in ToSet(order[u]) : key'[n] = key[n]
    <3>1. SUFFICES ASSUME NEW u \in Tables \ {t}, u \notin husks', NEW n \in ToSet(order[u])
                   PROVE  key'[n] = key[n]
          OBVIOUS
    <3>2. u # from /\ n \notin ToSet(order[from])
          BY <1>2, <3>1 DEF Owned
    <3>3. QED BY <1>3, <1>4, <1>5, <3>2
  <2>5. husks \ {t} \subseteq husks' /\ \A u \in Tables \ {t} : hasher'[u] = hasher[u]
        BY <1>2 DEF TypeOK
  <2>6. QED BY <1>2, <2>1, <2>2, <2>3, <2>4, <2>5, TableChanges
<1>8. /\ order' \in [Tables -> Seq(Nodes)] /\ buckets' \in [Tables -> Seq(Seq(Nodes))]
      /\ \A u \in Tables : Count(u)' \in BucketCounts \cup {0}
      /\ \A u \in Tables : TableInv(u)'
      /\ ToSet(order'[t]) = {} /\ \A u \in Tables \ {t} : order'[u] = order[u]
      BY <1>7, EmptyList DEF Became
<1>9. TypeOK'
  <2>1. key' \in [Nodes -> Keys \cup {MovedFrom, Null}] /\ cached' \in [Nodes -> Nat]
        BY <1>1, <1>2 DEF TypeOK, Uncached
  <2>2. QED BY <1>2, <1>8, <2>1 DEF TypeOK
<1>10. Owned'
  <2>1. ASSUME NEW v \in Tables, NEW n \in ToSet(order'[v])
        PROVE  v # t /\ n \in ToSet(order[v])
        BY <1>8, <2>1
  <2>2. ASSUME NEW v \in Tables, NEW n \in ToSet(order'[v])
        PROVE  key'[n] # Null /\ n # handle'
    <3>1. n \in Nodes \ gone /\ key[n] # Null /\ n # handle
          BY <1>2, <1>3, <1>4, <2>1, <2>2 DEF Owned
    <3>2. QED BY <1>2, <1>5, <3>1 DEF NullAssumption
  <2>3. handle' # Null => key'[handle'] \in Keys
    <3>1. SUFFICES ASSUME handle # Null PROVE key'[handle] \in Keys
          BY <1>2
    <3>2. handle \in Nodes /\ key[handle] \in Keys /\ \A u \in Tables : handle \notin ToSet(order[u])
          BY <1>2, <3>1 DEF Owned, TypeOK
    <3>3. QED BY <1>5, <3>2
  <2>4. ASSUME NEW n \in Nodes, key'[n] # Null, n # handle'
        PROVE  \E v \in Tables : n \in ToSet(order'[v])
    <3>1. n \notin gone
          BY <1>5, <2>4
    <3>2. CASE n \in ToSet(order[from])
          BY <1>2, <1>8, <3>2
    <3>3. CASE n \notin ToSet(order[from])
      <4>1. PICK u \in Tables : n \in ToSet(order[u])
            BY <1>2, <1>5, <2>4, <3>1, <3>3 DEF Owned
      <4>2. QED BY <1>8, <3>1, <4>1
    <3>4. QED BY <3>2, <3>3
  <2>5. \A v, w \in Tables : \A n \in ToSet(order'[v]) : n \in ToSet(order'[w]) => v = w
        BY <1>2, <2>1 DEF Owned
  <2>6. QED BY <2>2, <2>3, <2>4, <2>5 DEF Owned
<1>11. Inv'
       BY <1>2, <1>8, <1>9, <1>10 DEF Inv, MergeInv
<1>12. \A n \in ToSet(order[from]) : key'[n] \in {key[n], MovedFrom}
       BY <1>2, <1>3, <1>4, <1>5
<1>13. ASSUME NEW u \in Tables \ {t, from}, NEW n \in ToSet(order[u])
       PROVE  key'[n] = key[n]
  <2>1. n \notin ToSet(order[from])
        BY <1>2, <1>13 DEF Owned
  <2>2. QED BY <1>3, <1>4, <1>5, <1>13, <2>1
<1>14. QED BY <1>2, <1>11, <1>12, <1>13

-----------------------------------------------------------------------------
LEMMA NextInv ==
    ASSUME HashTableAssumption, Inv, [Next]_vars
    PROVE  Inv'
<1>1. CASE UNCHANGED vars
  <2>1. /\ UNCHANGED <<unique, hasher, load, order, buckets, key, cached, handle, merging, husks>>
        BY <1>1 DEF vars, elements
  <2>2. ASSUME NEW t \in Tables PROVE TableInv(t)'
        BY <2>1 DEF Inv, TableInv, Sound
  <2>3. TypeOK' /\ Owned' /\ MergeInv'
        BY <2>1 DEF Inv, TypeOK, Owned, MergeInv, Count
  <2>4. QED BY <2>2, <2>3 DEF Inv
<1>2. ASSUME NEW t \in Tables, NEW k \in Keys, Insert(t, k) \/ EraseKey(t, k)
      PROVE  Inv'
      BY <1>2, InsertInv, EraseKeyInv
<1>3. ASSUME NEW t \in Tables, NEW n \in Nodes, Erase(t, n) \/ Extract(t, n)
      PROVE  Inv'
      BY <1>3, EraseInv, ExtractInv
<1>4. ASSUME NEW t \in Tables, Clear(t) \/ InsertNode(t)
      PROVE  Inv'
      BY <1>4, ClearInv, InsertNodeInv
<1>5. ASSUME NEW t \in Tables, NEW request \in Requests, Rehash(t, request)
      PROVE  Inv'
      BY <1>5, RehashInv
<1>6. ASSUME NEW t \in Tables, NEW l \in LoadFactors, max_load_factor(t, l)
      PROVE  Inv'
      BY <1>6, LoadFactorInv
<1>7. ASSUME NEW k \in Keys, Rekey(k)
      PROVE  Inv'
      BY <1>7, RekeyInv
<1>8. CASE DropNode
      BY <1>8, DropNodeInv
<1>9. CASE MergeNode
      BY <1>9, MergeNodeInv
<1>10. CASE MergeThrows
      BY <1>10, MergeThrowsInv
<1>11. ASSUME NEW t \in Tables, NEW u \in Tables, MergeBegins(t, u) \/ Swap(t, u)
       PROVE  Inv'
       BY <1>11, MergeBeginsInv, SwapInv
<1>12. ASSUME NEW t \in Tables, NEW u \in Tables, CopyAssign(t, u) \/ CopyFails(t, u)
       PROVE  Inv'
       BY <1>12, CopyAssignInv, CopyFailsInv
<1>13. ASSUME NEW t \in Tables, NEW u \in Tables,
              MoveAssign(t, u) \/ MoveValues(t, u) \/ MoveValuesFails(t, u)
       PROVE  Inv'
       BY <1>13, MoveAssignInv, MoveValuesInv, MoveValuesFailsInv
<1>14. QED BY <1>1, <1>2, <1>3, <1>4, <1>5, <1>6, <1>7, <1>8, <1>9, <1>10, <1>11, <1>12, <1>13 DEF Next

LEMMA Validated ==
    ASSUME HashTableAssumption, Inv
    PROVE  TablesValidate
<1>1. TypeOK /\ Owned /\ NullAssumption /\ \A t \in Tables : TableInv(t)
      BY DEF Inv, HashTableAssumption
<1>2. Validates
  <2>1. ASSUME NEW t \in Tables
        PROVE  /\ Count(t) = 0 => order[t] = <<>>
               /\ \A b \in 1 .. Count(t) :
                     /\ IsInjective(buckets[t][b])
                     /\ ToSet(buckets[t][b]) =
                           {n \in ToSet(order[t]) : bucket_for_hash(cached[n], Count(t)) = b}
               /\ Sound(t) => \A n \in ToSet(order[t]) : cached[n] = Hash(hasher[t], key[n])
        BY <1>1 DEF TableInv, Linked, Keyed, Count
  <2>2. QED BY <2>1 DEF Validates
<1>3. OneOwner
  <2>1. \A t \in Tables : IsInjective(order[t])
        BY <1>1 DEF TableInv, Linked
  <2>2. ASSUME NEW n \in Nodes
        PROVE  LET owners == {t \in Tables : n \in ToSet(order[t])}
               IN  CASE key[n] = Null -> owners = {} /\ handle # n
                     [] handle = n    -> owners = {}
                     [] OTHER         -> \E t \in Tables : owners = {t}
    <3> DEFINE owners == {t \in Tables : n \in ToSet(order[t])}
    <3>1. CASE key[n] = Null
      <4>1. owners = {} /\ handle # n
            BY <1>1, <3>1, Unowned
      <4>2. QED BY <3>1, <4>1
    <3>2. CASE handle = n
      <4>1. owners = {}
            BY <1>1, <3>2 DEF Owned
      <4>2. key[n] # Null
            BY <1>1, <3>2 DEF Owned, NullAssumption
      <4>3. QED BY <3>2, <4>1, <4>2
    <3>3. CASE key[n] # Null /\ handle # n
      <4>1. PICK t \in Tables : n \in ToSet(order[t])
            BY <1>1, <3>3 DEF Owned
      <4>2. owners = {t}
            BY <1>1, <4>1 DEF Owned
      <4>3. QED BY <3>3, <4>2
    <3>4. QED BY <3>1, <3>2, <3>3
  <2>3. QED BY <2>1, <2>2 DEF OneOwner
<1>4. QED BY <1>1, <1>2, <1>3 DEF TablesValidate

LEMMA Assumptions == HashTableAssumption
BY NullAssumption, HashAssumption, PolicyAssumption, FloatAssumption, SizeAssumption
DEF HashTableAssumption

LEMMA Invariant == Spec => []Inv
<1>1. Init => Inv
      BY InitInv, Assumptions
<1>2. Inv /\ [Next]_vars => Inv'
      BY NextInv, Assumptions
<1>3. QED BY <1>1, <1>2, PTL DEF Spec

(* However many tables insert, erase, rehash, merge, exchange nodes, are   *)
(* assigned to and throw: each table's list and buckets hold the same      *)
(* nodes, no cached hash is stale, and every node has one owner.           *)
THEOREM HashTablesValidate == Spec => []TablesValidate
<1>1. Inv => TablesValidate
      BY Validated, Assumptions
<1>2. QED BY <1>1, Invariant, PTL

(* ... equal_range() finds the elements with an equivalent key, all of     *)
(* them and no others, ...                                                 *)
THEOREM HashLookupIsExact == Spec => []LookupIsExact
<1>1. Inv => LookupIsExact
      BY RangeIsExact, Assumptions DEF LookupIsExact, Held
<1>2. QED BY <1>1, Invariant, PTL

(* How rounded products compare: a, b and f are the floats of n, c, l * b. *)
LEMMA Products ==
    ASSUME NEW k \in Nat, NEW x \in Int, NEW y \in Int, x <= y
    PROVE  k * x <= k * y /\ k * x \in Int /\ k * y \in Int
OBVIOUS

LEMMA RoundedUpwards ==
    ASSUME NEW P \in Nat \ {0}, NEW U \in Nat, NEW l \in Nat, NEW n \in Nat, NEW c \in Nat,
           NEW a \in Nat, NEW b \in Nat, NEW f \in Nat,
           P * a <= (P + 1) * n, P * b >= (P - 1) * c, P * f >= (P - 1) * (l * b), U * a > f
    PROVE  U * n * (P * (P + 1)) > l * c * ((P - 1) * (P - 1))
<1>1. U * P \in Nat /\ P * P \in Nat \ {0} /\ (P - 1) * l \in Nat
      OBVIOUS
<1>2. (U * P) * (P * a) <= (U * P) * ((P + 1) * n)
      BY <1>1, Products
<1>3. (P * P) * (f + 1) <= (P * P) * (U * a)
      BY <1>1, Products
<1>4. P * ((P - 1) * (l * b)) <= P * (P * f)
      BY <1>1, Products
<1>5. ((P - 1) * l) * ((P - 1) * c) <= ((P - 1) * l) * (P * b)
      BY <1>1, Products
<1>6. (U * P) * (P * a) = (P * P) * (U * a) /\ (U * P) * ((P + 1) * n) = U * n * (P * (P + 1))
      OBVIOUS
<1>7. (P * P) * (f + 1) = P * (P * f) + P * P
      OBVIOUS
<1>8. /\ P * ((P - 1) * (l * b)) = ((P - 1) * l) * (P * b)
      /\ ((P - 1) * l) * ((P - 1) * c) = l * c * ((P - 1) * (P - 1))
      OBVIOUS
<1> DEFINE n2 == U * n * (P * (P + 1))
           a2 == (P * P) * (U * a)
           f2 == P * (P * f)
           b2 == ((P - 1) * l) * (P * b)
           c2 == l * c * ((P - 1) * (P - 1))
<1>9. n2 \in Int /\ a2 \in Int /\ f2 \in Int /\ b2 \in Int /\ c2 \in Int /\ P * P > 0
      OBVIOUS
<1>10. a2 <= n2 /\ f2 + P * P <= a2 /\ b2 <= f2 /\ c2 <= b2
       BY <1>2, <1>3, <1>4, <1>5, <1>6, <1>7, <1>8
<1> HIDE DEF n2, a2, f2, b2, c2
<1>11. n2 > c2
       BY <1>1, <1>9, <1>10
<1>12. QED BY <1>11 DEF n2, c2

LEMMA RoundedDownwards ==
    ASSUME NEW P \in Nat \ {0}, NEW U \in Nat, NEW l \in Nat, NEW n \in Nat, NEW c \in Nat,
           NEW a \in Nat, NEW b \in Nat, NEW f \in Nat,
           P * a >= (P - 1) * n, P * b <= (P + 1) * c, P * f <= (P + 1) * (l * b), U * a <= f
    PROVE  U * n * (P * (P - 1)) <= l * c * ((P + 1) * (P + 1))
<1>1. U * P \in Nat /\ P * P \in Nat \ {0} /\ (P + 1) * l \in Nat
      OBVIOUS
<1>2. (U * P) * ((P - 1) * n) <= (U * P) * (P * a)
      BY <1>1, Products
<1>3. (P * P) * (U * a) <= (P * P) * f
      BY <1>1, Products
<1>4. P * (P * f) <= P * ((P + 1) * (l * b))
      BY <1>1, Products
<1>5. ((P + 1) * l) * (P * b) <= ((P + 1) * l) * ((P + 1) * c)
      BY <1>1, Products
<1>6. (U * P) * (P * a) = (P * P) * (U * a) /\ (U * P) * ((P - 1) * n) = U * n * (P * (P - 1))
      OBVIOUS
<1>7. (P * P) * f = P * (P * f)
      OBVIOUS
<1>8. /\ P * ((P + 1) * (l * b)) = ((P + 1) * l) * (P * b)
      /\ ((P + 1) * l) * ((P + 1) * c) = l * c * ((P + 1) * (P + 1))
      OBVIOUS
<1> DEFINE n2 == U * n * (P * (P - 1))
           a2 == (P * P) * (U * a)
           f2 == P * (P * f)
           b2 == ((P + 1) * l) * (P * b)
           c2 == l * c * ((P + 1) * (P + 1))
<1>9. n2 \in Int /\ a2 \in Int /\ f2 \in Int /\ b2 \in Int /\ c2 \in Int
      OBVIOUS
<1>10. n2 <= a2 /\ a2 <= f2 /\ f2 <= b2 /\ b2 <= c2
       BY <1>2, <1>3, <1>4, <1>5, <1>6, <1>7, <1>8
<1> HIDE DEF n2, a2, f2, b2, c2
<1>11. n2 <= c2
       BY <1>9, <1>10
<1>12. QED BY <1>11 DEF n2, c2

(* What the floats tell of the load is true up to three roundings, and     *)
(* exactly so if they are exact.                                           *)
LEMMA Tolerance ==
    ASSUME NEW l \in LoadFactors, NEW n \in 0 .. MaxNumber, NEW c \in BucketCounts \cup {0},
           BucketCounts # {}
    PROVE  /\ exceeds_load(n, c, l) => MayExceed(n, c, l)
           /\ ~exceeds_load(n, c, l) => MayFit(n, c, l)
           /\ Exact(n, c, l) => (exceeds_load(n, c, l) <=> Unit * n > l * c)
<1> DEFINE a == Float(n)
           b == Float(c)
           f == Float(l * b)
<1>1. PICK d \in BucketCounts : c \in 0 .. d
  <2>1. CASE c = 0
    <3>1. PICK d \in BucketCounts : TRUE
          OBVIOUS
    <3>2. 0 \in 0 .. d
          BY Policy
    <3>3. QED BY <2>1, <3>2
  <2>2. CASE c \in BucketCounts
    <3>1. c \in 0 .. c
          BY <2>2, Policy
    <3>2. QED BY <2>2, <3>1
  <2>3. QED BY <2>1, <2>2
<1>2. c \in Nat /\ c \in 0 .. MaxNumber
  <2>1. d \in 1 .. MaxNumber /\ MaxNumber \in Nat
        BY PolicyAssumption
  <2>2. QED BY <1>1, <2>1
<1>3. l * b \in 0 .. MaxNumber /\ b \in Nat /\ f \in Nat
      BY <1>1, Limits
<1>4. n \in Nat /\ a \in Nat /\ Unit \in Nat /\ l \in Nat /\ Precision \in Nat \ {0}
      BY Policy, FloatAssumption
<1>5. \A x \in 0 .. MaxNumber : /\ Precision * Float(x) <= (Precision + 1) * x
                                /\ Precision * Float(x) >= (Precision - 1) * x
      BY FloatAssumption, Zenon
<1>6. /\ Precision * a <= (Precision + 1) * n /\ Precision * a >= (Precision - 1) * n
      /\ Precision * b <= (Precision + 1) * c /\ Precision * b >= (Precision - 1) * c
      /\ Precision * f <= (Precision + 1) * (l * b) /\ Precision * f >= (Precision - 1) * (l * b)
      BY <1>2, <1>3, <1>5, Zenon
<1>7. exceeds_load(n, c, l) <=> Unit * a > f
      BY DEF exceeds_load
<1>8. Exact(n, c, l) => (exceeds_load(n, c, l) <=> Unit * n > l * c)
      BY DEF exceeds_load, Exact
<1> HIDE DEF a, b, f
<1>9. exceeds_load(n, c, l) => MayExceed(n, c, l)
      BY <1>2, <1>3, <1>4, <1>6, <1>7, RoundedUpwards, Zenon DEF MayExceed
<1>10. ~exceeds_load(n, c, l) => MayFit(n, c, l)
  <2>1. Unit * a \in Nat
        BY <1>4
  <2>2. ~(Unit * a > f) => Unit * a <= f
        BY <1>3, <2>1
  <2>3. QED BY <1>2, <1>3, <1>4, <1>6, <1>7, <2>2, RoundedDownwards, Zenon DEF MayFit
<1>11. QED BY <1>8, <1>9, <1>10

(* ... and an insertion rebuilds the bucket array when the load would      *)
(* exceed its bound, only then, and so that it no longer does: up to the   *)
(* rounding of floats, and to the element where they are exact.            *)
THEOREM HashRehashOnlyWhenDue == Spec => RehashOnlyWhenDue
<1> DEFINE n(t) == Len(order[t]) + 1
<1>1. ASSUME Inv, NEW t \in Tables, Inserts(t)
      PROVE  Due(t)
  <2>1. ASSUME NEW k \in Keys, Insert(t, k) PROVE Due(t)
        BY <1>1, <2>1, InsertInv, Assumptions
  <2>2. CASE InsertNode(t)
        BY <1>1, <2>2, InsertNodeInv, Assumptions
  <2>3. CASE MergeNode /\ merging.into = t /\ order'[t] # order[t]
        BY <1>1, <2>3, MergeNodeInv, Assumptions
  <2>4. QED BY <1>1, <2>1, <2>2, <2>3 DEF Inserts
<1>2. ASSUME Inv, Inv', NEW t \in Tables, Due(t)
      PROVE  /\ Count(t) <= Count(t)'
             /\ Count(t) # 0 /\ Count(t) # Count(t)' => MayExceed(n(t), Count(t), load[t])
             /\ MayFit(n(t), Count(t)', load[t])
             /\ Count(t) # 0 /\ Count(t) # Count(t)' /\ Exact(n(t), Count(t), load[t])
                   => Unit * n(t) > load[t] * Count(t)
             /\ Exact(n(t), Count(t)', load[t]) => Unit * n(t) <= load[t] * Count(t)'
  <2> DEFINE l      == load[t]
             before == Count(t)
             after  == Count(t)'
  <2>1. /\ before \in BucketCounts \cup {0} /\ after \in BucketCounts \cup {0} /\ l \in LoadFactors
        BY <1>2 DEF Inv, TypeOK
  <2>2. n(t) \in 0 .. MaxNumber
    <3>1. order[t] \in Seq(Nodes) /\ IsInjective(order[t])
          BY <1>2 DEF Inv, TypeOK, TableInv, Linked
    <3>2. Len(order[t]) <= Cardinality(Nodes) /\ Cardinality(Nodes) \in Nat
          BY <3>1, Sizes, SizeAssumption
    <3>3. Cardinality(Nodes) < MaxNumber /\ MaxNumber \in Nat
          BY SizeAssumption, Policy
    <3>4. Len(order[t]) \in Nat
          BY <3>1
    <3>5. QED BY <3>2, <3>3, <3>4
  <2>3. Settles(n(t), l, before, after)
        BY <1>2 DEF Due
  <2> HIDE DEF n, l, before, after
  <2>4. before \in Nat /\ after \in Nat /\ l \in Nat /\ Unit \in Nat
        BY <2>1, Policy
  <2>5. BucketCounts # {}
    <3>1. 0 \in 0 .. Cardinality(Nodes)
          BY FS_CardinalityType, SizeAssumption
    <3>2. QED BY <2>1, <3>1, SizeAssumption, Zenon
  <2>6. /\ ~exceeds_load(n(t), after, l) /\ before <= after
        /\ before # 0 /\ before # after => exceeds_load(n(t), before, l)
        BY <2>3, <2>4 DEF Settles
  <2>7. /\ exceeds_load(n(t), before, l) => MayExceed(n(t), before, l)
        /\ ~exceeds_load(n(t), after, l) => MayFit(n(t), after, l)
        /\ Exact(n(t), before, l) => (exceeds_load(n(t), before, l) <=> Unit * n(t) > l * before)
        /\ Exact(n(t), after, l) => (exceeds_load(n(t), after, l) <=> Unit * n(t) > l * after)
        BY <2>1, <2>2, <2>5, Tolerance
  <2>8. Unit * n(t) \in Int /\ l * after \in Int
        BY <2>2, <2>4
  <2>9. Exact(n(t), after, l) => Unit * n(t) <= l * after
        BY <2>6, <2>7, <2>8
  <2>10. QED BY <2>6, <2>7, <2>9 DEF l, before, after
<1>3. Inv /\ Inv' /\ [Next]_vars => [\A t \in Tables : Inserts(t) =>
         LET needed == Len(order[t]) + 1
             before == Count(t)
             after  == Count(t)'
             l      == load[t]
         IN  /\ before <= after
             /\ before # 0 /\ before # after => MayExceed(needed, before, l)
             /\ MayFit(needed, after, l)
             /\ before # 0 /\ before # after /\ Exact(needed, before, l) => Unit * needed > l * before
             /\ Exact(needed, after, l) => Unit * needed <= l * after]_vars
      BY <1>1, <1>2
<1>4. QED BY <1>3, Invariant, PTL DEF Spec, RehashOnlyWhenDue

-----------------------------------------------------------------------------
(* The tables as bags of keys: a key counts as often as nodes hold it. *)
LEMMA Finite ==
    ASSUME SizeAssumption, NEW s \in Seq(Nodes), NEW f, NEW k
    PROVE  /\ IsFiniteSet({n \in ToSet(s) : f[n] = k})
           /\ Cardinality({n \in ToSet(s) : f[n] = k}) \in 0 .. Cardinality(Nodes)
<1>1. {n \in ToSet(s) : f[n] = k} \in SUBSET Nodes
      BY Elements
<1>2. IsFiniteSet(Nodes)
      BY DEF SizeAssumption
<1>3. /\ IsFiniteSet({n \in ToSet(s) : f[n] = k})
      /\ Cardinality({n \in ToSet(s) : f[n] = k}) <= Cardinality(Nodes)
      BY <1>1, <1>2, FS_Subset
<1>4. Cardinality(Nodes) \in Nat /\ Cardinality({n \in ToSet(s) : f[n] = k}) \in Nat
      BY <1>2, <1>3, FS_CardinalityType
<1>5. QED BY <1>3, <1>4

(* What is counted, now and after a step. *)
LEMMA Counts ==
    ASSUME SizeAssumption, TypeOK
    PROVE  /\ DOMAIN Counted = Tables
           /\ Counted \in [Tables -> [Keys -> 0 .. Cardinality(Nodes)]]
           /\ \A t \in Tables, k \in Keys :
                 IsFiniteSet(Held(t, k)) /\ Counted[t][k] = Cardinality(Held(t, k))
<1>1. ASSUME NEW t \in Tables, NEW k \in Keys
      PROVE  IsFiniteSet(Held(t, k)) /\ Cardinality(Held(t, k)) \in 0 .. Cardinality(Nodes)
  <2>1. order[t] \in Seq(Nodes)
        BY DEF TypeOK
  <2>2. QED BY <2>1, Finite DEF Held
<1>2. QED BY <1>1 DEF Counted

LEMMA CountsAfter ==
    ASSUME SizeAssumption, TypeOK'
    PROVE  /\ DOMAIN Counted' = Tables
           /\ Counted' \in [Tables -> [Keys -> 0 .. Cardinality(Nodes)]]
           /\ \A t \in Tables, k \in Keys : Counted'[t][k] = Cardinality(Held(t, k)')
<1>1. ASSUME NEW t \in Tables, NEW k \in Keys
      PROVE  Cardinality(Held(t, k)') \in 0 .. Cardinality(Nodes)
  <2>1. order'[t] \in Seq(Nodes)
        BY DEF TypeOK
  <2>2. QED BY <2>1, Finite DEF Held
<1>2. QED BY <1>1 DEF Counted

(* Two ways to count the same. *)
LEMMA SameCounts ==
    ASSUME SizeAssumption, TypeOK', NEW g \in [Tables -> [Keys -> Int]],
           \A t \in Tables, k \in Keys : Cardinality(Held(t, k)') = g[t][k]
    PROVE  Counted' = g
<1>1. ASSUME NEW t \in Tables PROVE Counted'[t] = g[t]
  <2>1. Counted'[t] \in [Keys -> 0 .. Cardinality(Nodes)] /\ g[t] \in [Keys -> Int]
        BY CountsAfter
  <2>2. \A k \in Keys : Counted'[t][k] = g[t][k]
        BY CountsAfter
  <2>3. QED BY <2>1, <2>2
<1>2. QED BY <1>1, CountsAfter

LEMMA Keeps ==
    ASSUME SizeAssumption, TypeOK, TypeOK', \A t \in Tables, k \in Keys : Held(t, k)' = Held(t, k)
    PROVE  Counted' = Counted
<1>1. Counted \in [Tables -> [Keys -> Int]]
      BY Counts
<1>2. \A t \in Tables, k \in Keys : Cardinality(Held(t, k)') = Counted[t][k]
      BY Counts
<1>3. QED BY <1>1, <1>2, SameCounts

LEMMA Adds ==
    ASSUME SizeAssumption, TypeOK, TypeOK', NEW t \in Tables, NEW k \in Keys, NEW n, n \notin Held(t, k),
           Held(t, k)' = Held(t, k) \cup {n},
           \A u \in Tables, j \in Keys : u # t \/ j # k => Held(u, j)' = Held(u, j)
    PROVE  Container!Add(t, k)
<1> DEFINE g == [Counted EXCEPT ![t][k] = @ + 1]
<1>1. g \in [Tables -> [Keys -> Int]]
      BY Counts
<1>2. ASSUME NEW u \in Tables, NEW j \in Keys
      PROVE  Cardinality(Held(u, j)') = g[u][j]
  <2>1. CASE u = t /\ j = k
    <3>1. Cardinality(Held(t, k)') = Cardinality(Held(t, k)) + 1
          BY Counts, FS_AddElement
    <3>2. g[t][k] = Counted[t][k] + 1
          BY Counts
    <3>3. QED BY <2>1, <3>1, <3>2, Counts
  <2>2. CASE u # t \/ j # k
    <3>1. g[u][j] = Counted[u][j]
          BY <2>2, Counts
    <3>2. QED BY <2>2, <3>1, Counts
  <2>3. QED BY <2>1, <2>2
<1> HIDE DEF g
<1>3. Counted' = g
      BY <1>1, <1>2, SameCounts
<1>4. QED BY <1>3 DEF g, Container!Add

LEMMA Takes ==
    ASSUME SizeAssumption, TypeOK, TypeOK', NEW t \in Tables, NEW k \in Keys, NEW n \in Held(t, k),
           Held(t, k)' = Held(t, k) \ {n},
           \A u \in Tables, j \in Keys : u # t \/ j # k => Held(u, j)' = Held(u, j)
    PROVE  Container!Take(t, k)
<1> DEFINE g == [Counted EXCEPT ![t][k] = @ - 1]
<1>1. g \in [Tables -> [Keys -> Int]]
      BY Counts
<1>2. ASSUME NEW u \in Tables, NEW j \in Keys
      PROVE  Cardinality(Held(u, j)') = g[u][j]
  <2>1. CASE u = t /\ j = k
    <3>1. Cardinality(Held(t, k)') = Cardinality(Held(t, k)) - 1
          BY Counts, FS_RemoveElement
    <3>2. g[t][k] = Counted[t][k] - 1
          BY Counts
    <3>3. QED BY <2>1, <3>1, <3>2, Counts
  <2>2. CASE u # t \/ j # k
    <3>1. g[u][j] = Counted[u][j]
          BY <2>2, Counts
    <3>2. QED BY <2>2, <3>1, Counts
  <2>3. QED BY <2>1, <2>2
<1>3. Counted[t][k] > 0
  <2>1. Cardinality(Held(t, k)) # 0
        BY Counts, FS_EmptySet
  <2>2. QED BY <2>1, Counts
<1> HIDE DEF g
<1>4. Counted' = g
      BY <1>1, <1>2, SameCounts
<1>5. QED BY <1>3, <1>4 DEF g, Container!Take

(* A unique table that admits a key has no node with it. *)
LEMMA Absent ==
    ASSUME HashTableAssumption, Inv, NEW t \in Tables, Sound(t), NEW k \in Keys,
           unique[t] => find_node(t, Hash(hasher[t], k), k) = Null
    PROVE  Container!Admits(t, k)
<1>1. SUFFICES ASSUME unique[t] PROVE Counted[t][k] = 0
      BY DEF Container!Admits
<1>2. equal_range(t, k) = {}
      BY <1>1 DEF equal_range
<1>3. Held(t, k) = {}
      BY <1>2, RangeIsExact DEF Held
<1>4. QED BY <1>3, Counts, FS_EmptySet DEF Inv, HashTableAssumption

(* A sequence without repetitions has as many elements of a key as places  *)
(* that hold the key.                                                      *)
Having(s, f, k)   == {n \in ToSet(s) : f[n] = k}
PlacesOf(s, f, k) == {i \in 1 .. Len(s) : f[s[i]] = k}

LEMMA PlacesCounted ==
    ASSUME NEW s \in Seq(Nodes), IsInjective(s), NEW f, NEW k
    PROVE  Cardinality(Having(s, f, k)) = Cardinality(PlacesOf(s, f, k))
<1> DEFINE I == {i \in 1 .. Len(s) : f[s[i]] = k}
           T == {n \in ToSet(s) : f[n] = k}
           M == [i \in I |-> s[i]]
<1>0. \A n \in ToSet(s) : \E i \in 1 .. Len(s) : s[i] = n
      BY Elements
<1>1. IsFiniteSet(I)
  <2>1. IsFiniteSet(1 .. Len(s))
        BY FS_Interval
  <2>2. I \in SUBSET (1 .. Len(s))
        OBVIOUS
  <2>3. QED BY <2>1, <2>2, FS_Subset
<1>2. M \in [I -> T]
      BY Index
<1>3. IsInjective(M)
      BY DEF IsInjective
<1>4. \A n \in T : \E i \in I : M[i] = n
  <2>1. ASSUME NEW n \in T PROVE \E i \in I : M[i] = n
    <3>0. n \in ToSet(s)
          BY <2>1
    <3>1. PICK i \in 1 .. Len(s) : s[i] = n
          BY <3>0, <1>0
    <3>2. i \in I
          BY <2>1, <3>1
    <3>3. QED BY <3>1, <3>2
  <2>2. QED BY <2>1
<1> HIDE DEF I, T, M
<1>5. M \in Bijection(I, T)
      BY <1>2, <1>3, <1>4 DEF Bijection, Injection, Surjection
<1>6. Cardinality(T) = Cardinality(I)
      BY <1>1, <1>5, FS_Bijection DEF ExistsBijection
<1>7. QED BY <1>6 DEF I, T, Having, PlacesOf

(* The i-th node of new has under g the key the i-th of s has under f. *)
CopyOf(new, g, s, f) ==
    /\ s \in Seq(Nodes) /\ new \in Seq(Nodes) /\ IsInjective(s) /\ IsInjective(new)
    /\ Len(new) = Len(s) /\ \A i \in 1 .. Len(s) : g[new[i]] = f[s[i]]

LEMMA CopyCounts ==
    ASSUME NEW s, NEW new, NEW f, NEW g, CopyOf(new, g, s, f), NEW k
    PROVE  Cardinality(Having(new, g, k)) = Cardinality(Having(s, f, k))
<1>1. PlacesOf(new, g, k) = PlacesOf(s, f, k)
      BY DEF PlacesOf, CopyOf
<1>2. QED BY <1>1, PlacesCounted DEF CopyOf

LEMMA SameCarried ==
    ASSUME handle' = handle, handle # Null => key'[handle] = key[handle]
    PROVE  Carried' = Carried
BY DEF Carried

LEMMA Comes ==
    ASSUME HashTableAssumption, Inv, Inv', NEW t \in Tables, NEW k \in Keys, NEW n \in Nodes,
           \A u \in Tables : n \notin ToSet(order[u]), Gained(t, n),
           key'[n] = k, \A m \in Nodes \ {n} : key'[m] = key[m]
    PROVE  Container!Add(t, k)
<1>1. SizeAssumption /\ TypeOK /\ TypeOK'
      BY DEF Inv, HashTableAssumption
<1>2. \A u \in Tables : \A m \in ToSet(order[u]) : m \in Nodes \ {n}
      BY <1>1, Elements DEF TypeOK
<1>3. \A u \in Tables : \A m \in ToSet(order[u]) : key'[m] = key[m]
      BY <1>2
<1>4. n \notin Held(t, k) /\ Held(t, k)' = Held(t, k) \cup {n}
  <2>1. ToSet(order'[t]) = ToSet(order[t]) \cup {n}
        BY DEF Gained
  <2>2. \A m : m \in Held(t, k)' <=> m \in Held(t, k) \cup {n}
        BY <1>3, <2>1 DEF Held
  <2>3. QED BY <2>2 DEF Held
<1>5. ASSUME NEW u \in Tables, NEW j \in Keys, u # t \/ j # k
      PROVE  Held(u, j)' = Held(u, j)
  <2>1. CASE u = t
    <3>1. ToSet(order'[t]) = ToSet(order[t]) \cup {n} /\ j # k
          BY <1>5, <2>1 DEF Gained
    <3>2. \A m : m \in Held(t, j)' <=> m \in Held(t, j)
          BY <1>3, <3>1 DEF Held
    <3>3. QED BY <2>1, <3>2 DEF Held
  <2>2. CASE u # t
    <3>1. order'[u] = order[u]
          BY <2>2 DEF Gained
    <3>2. QED BY <1>3, <3>1 DEF Held
  <2>3. QED BY <2>1, <2>2
<1>6. QED BY <1>1, <1>4, <1>5, Adds

LEMMA Goes ==
    ASSUME HashTableAssumption, Inv, Inv', NEW t \in Tables, NEW n \in ToSet(order[t]), NEW k \in Keys,
           key[n] = k, ToSet(order'[t]) = ToSet(order[t]) \ {n}, \A u \in Tables \ {t} : order'[u] = order[u],
           \A m \in Nodes \ {n} : key'[m] = key[m]
    PROVE  Container!Take(t, k)
<1>1. SizeAssumption /\ TypeOK /\ TypeOK' /\ Owned
      BY DEF Inv, HashTableAssumption
<1>2. \A u \in Tables : \A m \in ToSet(order[u]) : m # n => key'[m] = key[m]
      BY <1>1, Elements DEF TypeOK
<1>3. n \in Held(t, k) /\ Held(t, k)' = Held(t, k) \ {n}
  <2>1. \A m : m \in Held(t, k)' <=> m \in Held(t, k) \ {n}
        BY <1>2 DEF Held
  <2>2. QED BY <2>1 DEF Held
<1>4. ASSUME NEW u \in Tables, NEW j \in Keys, u # t \/ j # k
      PROVE  Held(u, j)' = Held(u, j)
  <2>1. CASE u = t
    <3>1. \A m : m \in Held(t, j)' <=> m \in Held(t, j)
          BY <1>2, <1>4, <2>1 DEF Held
    <3>2. QED BY <2>1, <3>1 DEF Held
  <2>2. CASE u # t
    <3>1. order'[u] = order[u] /\ n \notin ToSet(order[u])
          BY <1>1, <2>2 DEF Owned
    <3>2. QED BY <1>2, <3>1 DEF Held
  <2>3. QED BY <2>1, <2>2
<1>5. QED BY <1>1, <1>3, <1>4, Takes

(* One table's counts become g. *)
LEMMA Replaces ==
    ASSUME SizeAssumption, TypeOK, TypeOK', NEW t \in Tables, NEW g \in [Keys -> Int],
           \A k \in Keys : Cardinality(Held(t, k)') = g[k],
           \A u \in Tables \ {t} : \A k \in Keys : Held(u, k)' = Held(u, k)
    PROVE  Counted' = [Counted EXCEPT ![t] = g]
<1> DEFINE h == [Counted EXCEPT ![t] = g]
<1>1. h \in [Tables -> [Keys -> Int]] /\ h[t] = g /\ \A u \in Tables \ {t} : h[u] = Counted[u]
      BY Counts
<1> HIDE DEF h
<1>2. ASSUME NEW u \in Tables, NEW k \in Keys PROVE Cardinality(Held(u, k)') = h[u][k]
  <2>1. CASE u = t
        BY <1>1, <2>1
  <2>2. CASE u # t
        BY <1>1, <2>2, Counts
  <2>3. QED BY <2>1, <2>2
<1>3. Counted' = h
      BY <1>1, <1>2, SameCounts
<1>4. QED BY <1>3 DEF h

LEMMA Untouched ==
    ASSUME NEW u \in Tables, order'[u] = order[u], \A n \in ToSet(order[u]) : key'[n] = key[n]
    PROVE  \A k \in Keys : Held(u, k)' = Held(u, k)
BY DEF Held

(* The steps of the tables as steps of the bags. *)
LEMMA Loses ==
    ASSUME HashTableAssumption, Inv, NEW t \in Tables, NEW n \in ToSet(order[t]),
           order' = UnlinkedOrder(t, n)
    PROVE  /\ ToSet(order'[t]) = ToSet(order[t]) \ {n}
           /\ \A u \in Tables \ {t} : order'[u] = order[u]
<1>1. PICK r \in Seq(Nodes) : order' = [order EXCEPT ![t] = r] /\ ToSet(r) = ToSet(order[t]) \ {n}
      BY Unlinking DEF HashTableAssumption
<1>2. order \in [Tables -> Seq(Nodes)]
      BY DEF Inv, TypeOK
<1>3. QED BY <1>1, <1>2

LEMMA InsertIs ==
    ASSUME HashTableAssumption, Inv, NEW t \in Tables, NEW k \in Keys, Insert(t, k)
    PROVE  Container!Insert(t, k)
<1>1. PICK n \in Free : Gained(t, n) /\ key' = [key EXCEPT ![n] = k]
      BY InsertInv
<1>2. Inv' /\ TypeOK /\ Owned /\ NullAssumption /\ Sound(t) /\ n \in Nodes /\ key[n] = Null
      BY InsertInv DEF Insert, Idle, Sound, Inv, HashTableAssumption, Free
<1>3. n # handle /\ \A u \in Tables : n \notin ToSet(order[u])
      BY <1>2, Unowned
<1>4. key'[n] = k /\ \A m \in Nodes \ {n} : key'[m] = key[m]
      BY <1>1, <1>2 DEF TypeOK
<1>5. Container!Add(t, k)
      BY <1>1, <1>2, <1>3, <1>4, Comes
<1>6. Container!Admits(t, k)
      BY <1>2, Absent DEF Insert, Link
<1>7. unique' = unique /\ handle' = handle
      BY DEF Insert, Same
<1>8. Carried' = Carried
      BY <1>2, <1>3, <1>4, <1>7, SameCarried DEF TypeOK
<1>9. QED BY <1>5, <1>6, <1>7, <1>8 DEF Container!Insert

LEMMA InsertNodeIs ==
    ASSUME HashTableAssumption, Inv, NEW t \in Tables, InsertNode(t)
    PROVE  Container!InsertHandle(t)
<1>1. /\ Inv' /\ Gained(t, handle) /\ TypeOK /\ Owned /\ NullAssumption /\ Sound(t)
      /\ handle # Null /\ handle' = Null /\ unique' = unique /\ key' = key
      BY InsertNodeInv DEF InsertNode, Idle, Same, Sound, Inv, HashTableAssumption
<1>2. handle \in Nodes /\ key[handle] \in Keys /\ Carried = key[handle] /\ Carried # Null
      BY <1>1 DEF TypeOK, Owned, NullAssumption, Carried
<1>3. \A u \in Tables : handle \notin ToSet(order[u])
      BY <1>1, <1>2, Unowned
<1>4. Container!Add(t, key[handle])
      BY <1>1, <1>2, <1>3, Comes
<1>5. Container!Admits(t, key[handle])
      BY <1>1, <1>2, Absent DEF InsertNode, Link
<1>6. Carried' = Null
      BY <1>1 DEF Carried
<1>7. QED BY <1>1, <1>2, <1>4, <1>5, <1>6 DEF Container!InsertHandle

LEMMA EraseIs ==
    ASSUME HashTableAssumption, Inv, NEW t \in Tables, NEW n \in Nodes, Erase(t, n)
    PROVE  \E k \in Keys : Container!EraseOne(t, k)
<1>1. /\ Inv' /\ TypeOK /\ Owned /\ TableInv(t) /\ Sound(t) /\ n \in ToSet(order[t])
      /\ order' = UnlinkedOrder(t, n) /\ key' = Destroyed({n}) /\ unique' = unique /\ handle' = handle
      BY EraseInv DEF Erase, Idle, Same, Sound, Inv
<1>2. key[n] \in Keys /\ n # handle
      BY <1>1 DEF TableInv, Keyed, Owned
<1>3. \A m \in Nodes \ {n} : key'[m] = key[m]
      BY <1>1 DEF Destroyed
<1>4. Container!Take(t, key[n])
      BY <1>1, <1>2, <1>3, Loses, Goes, ZenonT(40)
<1>5. Carried' = Carried
      BY <1>1, <1>2, <1>3, SameCarried DEF TypeOK
<1>6. QED BY <1>1, <1>2, <1>4, <1>5 DEF Container!EraseOne

LEMMA ExtractIs ==
    ASSUME HashTableAssumption, Inv, NEW t \in Tables, NEW n \in Nodes, Extract(t, n)
    PROVE  \E k \in Keys : Container!Extract(t, k)
<1>1. /\ Inv' /\ TypeOK /\ Owned /\ TableInv(t) /\ NullAssumption /\ Sound(t) /\ n \in ToSet(order[t])
      /\ order' = UnlinkedOrder(t, n) /\ key' = key /\ unique' = unique /\ handle = Null /\ handle' = n
      BY ExtractInv DEF Extract, Idle, Same, Sound, Inv, HashTableAssumption
<1>2. key[n] \in Keys /\ n # Null
      BY <1>1 DEF TableInv, Keyed, NullAssumption
<1>3. Container!Take(t, key[n])
      BY <1>1, <1>2, Loses, Goes
<1>4. Carried = Null /\ Carried' = key[n]
      BY <1>1, <1>2 DEF Carried
<1>5. QED BY <1>1, <1>2, <1>3, <1>4 DEF Container!Extract

LEMMA MergeNodeIs ==
    ASSUME HashTableAssumption, Inv, MergeNode
    PROVE  \/ UNCHANGED Container!vars
           \/ \E t, u \in Tables, k \in Keys : t # u /\ Container!Transfer(t, u, k)
<1> DEFINE t == merging.into
           u == merging.from
           n == merging.node
<1>1. /\ Inv' /\ SizeAssumption /\ TypeOK /\ TypeOK' /\ Owned /\ MergeInv /\ merging # NoMerge
      /\ UNCHANGED elements \/ Transferred(n, t, u)
      /\ unique' = unique /\ handle' = handle /\ key' = key
      BY MergeNodeInv DEF Inv, MergeNode, HashTableAssumption, elements
<1>2. Carried' = Carried
      BY <1>1, SameCarried
<1>3. CASE UNCHANGED elements
  <2>1. Counted' = Counted
        BY <1>3 DEF Counted, Held, elements
  <2>2. QED BY <1>1, <1>2, <2>1 DEF Container!vars
<1>4. CASE ~ UNCHANGED elements
  <2> DEFINE k == key[n]
  <2>1. /\ t # u /\ t \in Tables /\ u \in Tables /\ n \in ToSet(order[u]) /\ n \notin ToSet(order[t])
        /\ ToSet(order'[t]) = ToSet(order[t]) \cup {n}
        /\ ToSet(order'[u]) = ToSet(order[u]) \ {n}
        /\ \A v \in Tables \ {t, u} : order'[v] = order[v]
        BY <1>1, <1>4 DEF Transferred
  <2>2. Sound(t) /\ Sound(u) /\ TableInv(u)
        BY <1>1, <2>1 DEF MergeInv, Sound, Inv
  <2>3. k \in Keys /\ key'[n] = k
        BY <1>1, <2>1, <2>2 DEF TableInv, Keyed
  <2>4. unique[t] => find_node(t, Hash(hasher[t], k), k) = Null
        BY <1>1, <1>4 DEF MergeNode, Link
  <2> HIDE DEF t, u, n, k
  <2>5. Container!Admits(t, k)
        BY <2>1, <2>2, <2>3, <2>4, Absent
  <2>6. PICK j \in Keys : j = k
        BY <2>3
  <2>7. key[n] = j /\ key'[n] = j
        BY <2>3, <2>6 DEF k
  <2>8. PICK x, v, w : x = n /\ v = t /\ w = u
        OBVIOUS
  <2> DEFINE h == [Counted EXCEPT ![w][j] = @ - 1, ![v][j] = @ + 1]
  <2>9. /\ v # w /\ v \in Tables /\ w \in Tables /\ x \in ToSet(order[w]) /\ x \notin ToSet(order[v])
        /\ ToSet(order'[v]) = ToSet(order[v]) \cup {x}
        /\ ToSet(order'[w]) = ToSet(order[w]) \ {x}
        /\ \A y \in Tables \ {v, w} : order'[y] = order[y]
        /\ key[x] = j /\ key' = key
        BY <1>1, <2>1, <2>7, <2>8
  <2>10. /\ h \in [Tables -> [Keys -> Int]]
         /\ h[w][j] = Counted[w][j] - 1 /\ h[v][j] = Counted[v][j] + 1
         /\ \A y \in Tables, i \in Keys : y \notin {v, w} \/ i # j => h[y][i] = Counted[y][i]
         BY <1>1, <2>9, Counts
  <2> HIDE DEF h
  <2>11. ASSUME NEW y \in Tables, NEW i \in Keys PROVE Cardinality(Held(y, i)') = h[y][i]
    <3>1. CASE y = w /\ i = j
      <4>0. IsFiniteSet(Held(w, j))
            BY <1>1, <2>9, Counts
      <4>1. \A m : m \in Held(w, j)' <=> m \in Held(w, j) \ {x}
            BY <2>9 DEF Held
      <4>2. Held(w, j)' = Held(w, j) \ {x} /\ x \in Held(w, j)
            BY <2>9, <4>1 DEF Held
      <4>3. Cardinality(Held(w, j)') = Cardinality(Held(w, j)) - 1
            BY <4>0, <4>2, FS_RemoveElement
      <4>4. QED BY <1>1, <2>9, <2>10, <3>1, <4>3, Counts
    <3>2. CASE y = v /\ i = j
      <4>0. IsFiniteSet(Held(v, j))
            BY <1>1, <2>9, Counts
      <4>1. \A m : m \in Held(v, j)' <=> m \in Held(v, j) \cup {x}
            BY <2>9 DEF Held
      <4>2. Held(v, j)' = Held(v, j) \cup {x} /\ x \notin Held(v, j)
            BY <2>9, <4>1 DEF Held
      <4>3. Cardinality(Held(v, j)') = Cardinality(Held(v, j)) + 1
            BY <4>0, <4>2, FS_AddElement
      <4>4. QED BY <1>1, <2>9, <2>10, <3>2, <4>3, Counts
    <3>3. CASE y \notin {v, w} \/ i # j
      <4>1. \A m : m \in Held(y, i)' <=> m \in Held(y, i)
        <5>1. CASE y = w
              BY <2>9, <3>3, <5>1 DEF Held
        <5>2. CASE y = v
              BY <2>9, <3>3, <5>2 DEF Held
        <5>3. CASE y \notin {v, w}
              BY <2>9, <5>3 DEF Held
        <5>4. QED BY <5>1, <5>2, <5>3
      <4>2. Held(y, i)' = Held(y, i)
            BY <4>1 DEF Held
      <4>3. QED BY <1>1, <2>10, <3>3, <4>2, Counts
    <3>4. QED BY <3>1, <3>2, <3>3
  <2>12. Counted' = h
         BY <1>1, <2>10, <2>11, SameCounts
  <2>13. Counted[w][j] > 0
    <3>1. Held(w, j) # {}
          BY <2>9 DEF Held
    <3>2. Cardinality(Held(w, j)) # 0
          BY <1>1, <2>9, <3>1, Counts, FS_EmptySet
    <3>3. QED BY <1>1, <2>9, <3>2, Counts
  <2>14. Container!Transfer(v, w, j)
    <3>1. Container!Admits(v, j)
          BY <2>5, <2>6, <2>8
    <3>2. QED BY <1>1, <1>2, <2>12, <2>13, <3>1 DEF h, Container!Transfer
  <2>15. QED BY <2>9, <2>14
<1>5. QED BY <1>3, <1>4

LEMMA NothingIs ==
    Container!Nothing \in [Keys -> Int] /\ \A k \in Keys : Container!Nothing[k] = 0
BY DEF Container!Nothing

(* A table that has lost its elements. *)
LEMMA Empties ==
    ASSUME HashTableAssumption, Inv, Inv', NEW t \in Tables, ToSet(order'[t]) = {},
           \A u \in Tables \ {t} : order'[u] = order[u],
           \A u \in Tables \ {t} : \A n \in ToSet(order[u]) : key'[n] = key[n]
    PROVE  Counted' = [Counted EXCEPT ![t] = Container!Nothing]
<1>1. SizeAssumption /\ TypeOK /\ TypeOK'
      BY DEF Inv, HashTableAssumption
<1>2. ASSUME NEW k \in Keys PROVE Cardinality(Held(t, k)') = Container!Nothing[k]
  <2>1. Held(t, k)' = {}
        BY DEF Held
  <2>2. QED BY <2>1, NothingIs, FS_EmptySet
<1>3. \A u \in Tables \ {t} : \A k \in Keys : Held(u, k)' = Held(u, k)
      BY Untouched
<1>4. QED BY <1>1, <1>2, <1>3, NothingIs, Replaces

LEMMA EraseKeyIs ==
    ASSUME HashTableAssumption, Inv, NEW t \in Tables, NEW k \in Keys, EraseKey(t, k)
    PROVE  Container!EraseKey(t, k)
<1>1. /\ Inv' /\ TypeOK /\ TypeOK' /\ Owned /\ SizeAssumption /\ Sound(t)
      /\ key' = Destroyed(equal_range(t, k)) /\ unique' = unique /\ handle' = handle
      /\ ToSet(order'[t]) = ToSet(order[t]) \ equal_range(t, k)
      /\ \A u \in Tables \ {t} : order'[u] = order[u]
      BY EraseKeyInv DEF EraseKey, Idle, Same, Sound, Inv, HashTableAssumption
<1>2. equal_range(t, k) = Held(t, k)
      BY <1>1, RangeIsExact DEF Held
<1> DEFINE gone == equal_range(t, k)
<1>3. gone \subseteq ToSet(order[t]) /\ \A n \in gone : key[n] = k
      BY <1>2 DEF Held
<1> HIDE DEF gone
<1>4. \A u \in Tables : \A n \in ToSet(order[u]) : n \in Nodes /\ (u # t => n \notin gone)
      BY <1>1, <1>3, Elements DEF TypeOK, Owned
<1>5. \A n \in Nodes \ gone : key'[n] = key[n]
      BY <1>1 DEF Destroyed, gone
<1>6. \A u \in Tables \ {t} : \A j \in Keys : Held(u, j)' = Held(u, j)
      BY <1>1, <1>4, <1>5, Untouched
<1> DEFINE g == [Counted[t] EXCEPT ![k] = 0]
<1>7. g \in [Keys -> Int] /\ g[k] = 0 /\ \A j \in Keys \ {k} : g[j] = Counted[t][j]
      BY <1>1, Counts
<1> HIDE DEF g
<1>8. ASSUME NEW j \in Keys PROVE Cardinality(Held(t, j)') = g[j]
  <2>1. \A m : m \in ToSet(order'[t]) <=> m \in ToSet(order[t]) \ gone
        BY <1>1 DEF gone
  <2>2. \A m \in ToSet(order[t]) \ gone : key'[m] = key[m]
        BY <1>4, <1>5
  <2>3. CASE j = k
    <3>1. \A m : m \in Held(t, k) <=> m \in gone
          BY <1>2 DEF gone
    <3>2. Held(t, j)' = {}
      <4>1. ASSUME NEW m \in Held(t, k)' PROVE FALSE
        <5>1. m \in ToSet(order'[t]) /\ key'[m] = k
              BY <4>1 DEF Held
        <5>2. m \in ToSet(order[t]) /\ m \notin gone /\ key[m] = k
              BY <2>1, <2>2, <5>1
        <5>3. QED BY <3>1, <5>2 DEF Held
      <4>2. QED BY <2>3, <4>1
    <3>3. QED BY <1>7, <2>3, <3>2, FS_EmptySet
  <2>4. CASE j # k
    <3>1. \A m : m \in Held(t, j)' <=> m \in Held(t, j)
          BY <1>3, <2>1, <2>2, <2>4 DEF Held
    <3>2. Held(t, j)' = Held(t, j)
          BY <3>1 DEF Held
    <3>3. QED BY <1>1, <1>7, <2>4, <3>2, Counts
  <2>5. QED BY <2>3, <2>4
<1>9. Counted' = [Counted EXCEPT ![t] = g]
      BY <1>1, <1>6, <1>7, <1>8, Replaces
<1>10. Counted' = [Counted EXCEPT ![t][k] = 0]
       BY <1>9 DEF g
<1>11. Carried' = Carried
  <2>1. handle # Null => handle \in Nodes /\ handle \notin gone
        BY <1>1, <1>3 DEF Owned, TypeOK
  <2>2. QED BY <1>1, <1>5, <2>1, SameCarried
<1>12. QED BY <1>1, <1>10, <1>11 DEF Container!EraseKey

LEMMA ClearIs ==
    ASSUME HashTableAssumption, Inv, NEW t \in Tables,
           Clear(t) \/ \E from \in Tables : CopyFails(t, from)
    PROVE  Container!Clear(t)
<1>1. /\ Inv' /\ order' = [order EXCEPT ![t] = <<>>] /\ key' = Destroyed(ToSet(order[t]))
      /\ unique' = unique /\ handle' = handle
      BY ClearInv, CopyFailsInv DEF Clear, CopyFails, Assigned
<1>2. TypeOK /\ Owned /\ \A u \in Tables : \A n \in ToSet(order[u]) : n \in Nodes
      BY Elements DEF Inv, TypeOK
<1>3. ToSet(order'[t]) = {} /\ \A u \in Tables \ {t} : order'[u] = order[u]
      BY <1>1, <1>2, EmptyList DEF TypeOK
<1>4. \A n \in Nodes : n \notin ToSet(order[t]) => key'[n] = key[n]
      BY <1>1 DEF Destroyed
<1>5. \A u \in Tables \ {t} : \A n \in ToSet(order[u]) : key'[n] = key[n]
      BY <1>2, <1>4 DEF Owned
<1>6. Counted' = [Counted EXCEPT ![t] = Container!Nothing]
      BY <1>1, <1>3, <1>5, Empties
<1>7. Carried' = Carried
  <2>1. handle # Null => handle \in Nodes /\ handle \notin ToSet(order[t])
        BY <1>2 DEF Owned, TypeOK
  <2>2. QED BY <1>1, <1>4, <2>1, SameCarried
<1>8. QED BY <1>1, <1>6, <1>7 DEF Container!Clear

LEMMA RekeyIs ==
    ASSUME HashTableAssumption, Inv, NEW k \in Keys, Rekey(k)
    PROVE  Container!Rekey(k)
<1>1. /\ Inv' /\ TypeOK /\ TypeOK' /\ Owned /\ SizeAssumption /\ NullAssumption /\ handle # Null
      /\ key' = [key EXCEPT ![handle] = k] /\ unique' = unique /\ handle' = handle /\ order' = order
      BY RekeyInv DEF Rekey, Same, Inv, HashTableAssumption
<1>2. handle \in Nodes /\ key[handle] \in Keys /\ key'[handle] = k
      BY <1>1 DEF TypeOK, Owned
<1>3. \A u \in Tables : \A n \in ToSet(order[u]) : key'[n] = key[n]
      BY <1>1, Elements DEF TypeOK, Owned
<1>4. \A u \in Tables : \A j \in Keys : Held(u, j)' = Held(u, j)
      BY <1>1, <1>3, Untouched
<1>5. Counted' = Counted
      BY <1>1, <1>4, Keeps
<1>6. Carried # Null /\ Carried' = k
      BY <1>1, <1>2 DEF Carried, NullAssumption
<1>7. QED BY <1>1, <1>5, <1>6 DEF Container!Rekey

LEMMA DropNodeIs ==
    ASSUME HashTableAssumption, Inv, DropNode
    PROVE  Container!Drop
<1>1. /\ Inv' /\ TypeOK /\ TypeOK' /\ Owned /\ SizeAssumption /\ handle' = Null /\ order' = order
      /\ key' = Destroyed({handle}) /\ unique' = unique
      BY DropNodeInv DEF DropNode, Same, Inv, HashTableAssumption
<1>2. \A u \in Tables : \A n \in ToSet(order[u]) : n \in Nodes /\ n # handle
      BY <1>1, Elements DEF TypeOK, Owned
<1>3. \A u \in Tables : \A n \in ToSet(order[u]) : key'[n] = key[n]
      BY <1>1, <1>2 DEF Destroyed
<1>4. \A u \in Tables : \A j \in Keys : Held(u, j)' = Held(u, j)
      BY <1>1, <1>3, Untouched
<1>5. Counted' = Counted
      BY <1>1, <1>4, Keeps
<1>6. Carried' = Null
      BY <1>1 DEF Carried
<1>7. QED BY <1>1, <1>5, <1>6 DEF Container!Drop

LEMMA SwapIs ==
    ASSUME HashTableAssumption, Inv, NEW t \in Tables, NEW u \in Tables, Swap(t, u)
    PROVE  t # u /\ Container!Swap(t, u)
<1>1. /\ Inv' /\ TypeOK /\ TypeOK' /\ SizeAssumption /\ t # u /\ unique[t] = unique[u]
      /\ order' = Transposed(order, t, u) /\ key' = key /\ unique' = unique /\ handle' = handle
      BY SwapInv DEF Swap, Inv, HashTableAssumption
<1> DEFINE g == [Counted EXCEPT ![t] = Counted[u], ![u] = Counted[t]]
<1>2. /\ order'[t] = order[u] /\ order'[u] = order[t]
      /\ \A v \in Tables \ {t, u} : order'[v] = order[v]
      BY <1>1 DEF Transposed, TypeOK
<1>3. /\ g \in [Tables -> [Keys -> Int]] /\ g[t] = Counted[u] /\ g[u] = Counted[t]
      /\ \A v \in Tables \ {t, u} : g[v] = Counted[v]
      BY <1>1, Counts
<1> HIDE DEF g
<1>4. ASSUME NEW v \in Tables, NEW k \in Keys PROVE Cardinality(Held(v, k)') = g[v][k]
  <2>1. CASE v = t
    <3>1. Held(t, k)' = Held(u, k)
          BY <1>1, <1>2 DEF Held
    <3>2. QED BY <1>1, <1>3, <2>1, <3>1, Counts
  <2>2. CASE v = u
    <3>1. Held(u, k)' = Held(t, k)
          BY <1>1, <1>2 DEF Held
    <3>2. QED BY <1>1, <1>3, <2>2, <3>1, Counts
  <2>3. CASE v \notin {t, u}
    <3>1. Held(v, k)' = Held(v, k)
          BY <1>1, <1>2, <2>3 DEF Held
    <3>2. QED BY <1>1, <1>3, <2>3, <3>1, Counts
  <2>4. QED BY <2>1, <2>2, <2>3
<1>5. Counted' = g
      BY <1>1, <1>3, <1>4, SameCounts
<1>6. Carried' = Carried
      BY <1>1, SameCarried
<1>7. QED BY <1>1, <1>5, <1>6 DEF g, Container!Swap

(* What a copy holds is what its source held. *)
LEMMA CopiesCounted ==
    ASSUME HashTableAssumption, Inv, Inv', NEW t \in Tables, NEW from \in Tables,
           NEW new \in FreshNodes(t, from), Duplicated(t, from, new)
    PROVE  \A k \in Keys : Cardinality(Held(t, k)') = Counted[from][k]
<1>1. NullAssumption /\ SizeAssumption /\ TypeOK /\ Owned /\ order[from] \in Seq(Nodes)
      BY DEF Inv, HashTableAssumption, TypeOK
<1>2. IsInjective(order[from])
      BY DEF Inv, TableInv, Linked
<1>3. /\ DOMAIN new = 1 .. Len(order[from]) /\ \A i \in 1 .. Len(order[from]) : new[i] \in Nodes
      BY <1>1, Fresh
<1>4. new \in [1 .. Len(order[from]) -> Free \cup ToSet(order[t])] /\ IsInjective(new)
      BY DEF FreshNodes
<1>5. new \in [1 .. Len(order[from]) -> Nodes]
      BY <1>3, <1>4
<1>6. new \in Seq(Nodes) /\ Len(new) = Len(order[from])
      BY <1>1, <1>5
<1>7. order'[t] = new /\ \A i \in 1 .. Len(order[from]) : key'[new[i]] = key[order[from][i]]
      BY <1>1 DEF Duplicated, TypeOK
<1>8. ASSUME NEW k \in Keys PROVE Cardinality(Held(t, k)') = Counted[from][k]
  <2>1. Cardinality(Having(new, key', k)) = Cardinality(Having(order[from], key, k))
    <3>1. CopyOf(new, key', order[from], key)
          BY <1>1, <1>2, <1>4, <1>6, <1>7 DEF CopyOf
    <3>2. QED BY <3>1, CopyCounts
  <2>2. Held(t, k)' = Having(new, key', k) /\ Held(from, k) = Having(order[from], key, k)
        BY <1>7 DEF Held, Having
  <2>3. QED BY <1>1, <2>1, <2>2, Counts
<1>9. QED BY <1>8

LEMMA CopyAssignIs ==
    ASSUME HashTableAssumption, Inv, NEW t \in Tables, NEW from \in Tables, CopyAssign(t, from)
    PROVE  t # from /\ Container!Copy(t, from)
<1>1. PICK new \in FreshNodes(t, from) : Duplicated(t, from, new)
      BY CopyAssignInv
<1>2. /\ Inv' /\ TypeOK /\ TypeOK' /\ SizeAssumption /\ NullAssumption /\ Assigned(t, from)
      /\ \A n \in ToSet(order[from]) : key'[n] = key[n]
      BY CopyAssignInv DEF CopyAssign, Inv, HashTableAssumption
<1>3. \A u \in Tables \ {t} : order'[u] = order[u] /\ \A n \in ToSet(order[u]) : key'[n] = key[n]
  <2>1. \A u \in Tables \ {t, from} : \A n \in ToSet(order[u]) : key'[n] = key[n]
        BY <1>1 DEF Duplicated
  <2>2. \A u \in Tables \ {t} : order'[u] = order[u]
        BY <1>1, <1>2 DEF Duplicated, TypeOK
  <2>3. QED BY <1>2, <2>1, <2>2
<1>4. \A u \in Tables \ {t} : \A k \in Keys : Held(u, k)' = Held(u, k)
      BY <1>3, Untouched
<1>5. Counted[from] \in [Keys -> Int] /\ \A k \in Keys : Cardinality(Held(t, k)') = Counted[from][k]
      BY <1>1, <1>2, Counts, CopiesCounted
<1>6. Counted' = [Counted EXCEPT ![t] = Counted[from]]
      BY <1>2, <1>4, <1>5, Replaces
<1>7. unique' = unique /\ unique[t] = unique[from] /\ t # from /\ handle' = handle
      BY <1>2 DEF Assigned
<1>8. Carried' = Carried
      BY <1>1, <1>7, SameCarried DEF Duplicated
<1>9. QED BY <1>6, <1>7, <1>8 DEF Container!Copy

(* A move leaves the source without values. *)
LEMMA Moves ==
    ASSUME HashTableAssumption, Inv, Inv', NEW t \in Tables, NEW from \in Tables, Assigned(t, from),
           \A k \in Keys : Cardinality(Held(t, k)') = Counted[from][k] /\ Held(from, k)' = {},
           \A u \in Tables \ {t, from} : \A k \in Keys : Held(u, k)' = Held(u, k),
           handle # Null => key'[handle] = key[handle]
    PROVE  t # from /\ Container!Move(t, from)
<1>1. /\ TypeOK /\ TypeOK' /\ SizeAssumption
      /\ unique' = unique /\ unique[t] = unique[from] /\ t # from /\ handle' = handle
      BY DEF Assigned, Inv, HashTableAssumption
<1> DEFINE g == [Counted EXCEPT ![t] = Counted[from], ![from] = Container!Nothing]
<1>2. /\ g \in [Tables -> [Keys -> Int]] /\ g[t] = Counted[from] /\ g[from] = Container!Nothing
      /\ \A u \in Tables \ {t, from} : g[u] = Counted[u]
      BY <1>1, Counts, NothingIs
<1> HIDE DEF g
<1>3. ASSUME NEW u \in Tables, NEW k \in Keys PROVE Cardinality(Held(u, k)') = g[u][k]
  <2>1. CASE u = t
        BY <1>2, <2>1
  <2>2. CASE u = from
        BY <1>2, <2>2, NothingIs, FS_EmptySet
  <2>3. CASE u \notin {t, from}
        BY <1>1, <1>2, <2>3, Counts
  <2>4. QED BY <2>1, <2>2, <2>3
<1>4. Counted' = g
      BY <1>1, <1>2, <1>3, SameCounts
<1>5. Carried' = Carried
      BY <1>1, SameCarried
<1>6. QED BY <1>1, <1>4, <1>5 DEF g, Container!Move

LEMMA MoveAssignIs ==
    ASSUME HashTableAssumption, Inv, NEW t \in Tables, NEW from \in Tables, MoveAssign(t, from)
    PROVE  t # from /\ Container!Move(t, from)
<1>1. /\ Inv' /\ Assigned(t, from) /\ t # from /\ TypeOK /\ Owned /\ SizeAssumption
      /\ order' = [order EXCEPT ![t] = order[from], ![from] = <<>>] /\ key' = Destroyed(ToSet(order[t]))
      BY MoveAssignInv DEF MoveAssign, Assigned, Inv, HashTableAssumption
<1>2. /\ order'[t] = order[from] /\ ToSet(order'[from]) = {}
      /\ \A u \in Tables \ {t, from} : order'[u] = order[u]
      BY <1>1, EmptyList DEF TypeOK
<1>3. \A n \in Nodes : n \notin ToSet(order[t]) => key'[n] = key[n]
      BY <1>1 DEF Destroyed
<1>4. \A u \in Tables \ {t} : \A n \in ToSet(order[u]) : key'[n] = key[n]
  <2>1. \A u \in Tables : \A n \in ToSet(order[u]) : n \in Nodes
        BY <1>1, Elements DEF TypeOK
  <2>2. QED BY <1>1, <1>3, <2>1 DEF Owned
<1>5. ASSUME NEW k \in Keys
      PROVE  Cardinality(Held(t, k)') = Counted[from][k] /\ Held(from, k)' = {}
  <2>1. Held(t, k)' = Held(from, k)
        BY <1>1, <1>2, <1>4 DEF Held
  <2>2. Held(from, k)' = {}
        BY <1>2 DEF Held
  <2>3. QED BY <1>1, <2>1, <2>2, Counts
<1>6. \A u \in Tables \ {t, from} : \A k \in Keys : Held(u, k)' = Held(u, k)
      BY <1>2, <1>4, Untouched
<1>7. handle # Null => key'[handle] = key[handle]
      BY <1>1, <1>3 DEF Owned, TypeOK
<1>8. QED BY <1>1, <1>5, <1>6, <1>7, Moves

LEMMA MoveValuesIs ==
    ASSUME HashTableAssumption, Inv, NEW t \in Tables, NEW from \in Tables, MoveValues(t, from)
    PROVE  t # from /\ Container!Move(t, from)
<1>1. PICK new \in FreshNodes(t, from) : Duplicated(t, from, new)
      BY MoveValuesInv
<1>2. /\ Inv' /\ TypeOK /\ NullAssumption /\ Assigned(t, from) /\ t # from
      /\ \A n \in ToSet(order[from]) : key'[n] = MovedFrom
      BY MoveValuesInv DEF MoveValues, Assigned, Inv, HashTableAssumption
<1>3. /\ \A u \in Tables \ {t} : order'[u] = order[u]
      /\ \A u \in Tables \ {t, from} : \A n \in ToSet(order[u]) : key'[n] = key[n]
      /\ handle # Null => key'[handle] = key[handle]
      BY <1>1, <1>2 DEF Duplicated, TypeOK
<1>4. ASSUME NEW k \in Keys
      PROVE  Cardinality(Held(t, k)') = Counted[from][k] /\ Held(from, k)' = {}
  <2>1. Held(from, k)' = {}
        BY <1>2, <1>3 DEF Held, NullAssumption
  <2>2. QED BY <1>1, <1>2, <2>1, CopiesCounted
<1>5. \A u \in Tables \ {t, from} : \A k \in Keys : Held(u, k)' = Held(u, k)
      BY <1>3, Untouched
<1>6. QED BY <1>2, <1>3, <1>4, <1>5, Moves

LEMMA MoveValuesFailsIs ==
    ASSUME HashTableAssumption, Inv, NEW t \in Tables, NEW from \in Tables, MoveValuesFails(t, from)
    PROVE  t # from /\ Container!MoveFails(t, from)
<1>1. /\ Inv' /\ TypeOK /\ TypeOK' /\ Owned /\ SizeAssumption /\ NullAssumption
      /\ unique' = unique /\ unique[t] = unique[from] /\ t # from /\ handle' = handle
      /\ order' = [order EXCEPT ![t] = <<>>]
      /\ \A n \in ToSet(order[from]) : key'[n] \in {key[n], MovedFrom}
      /\ \A u \in Tables \ {t, from} : \A n \in ToSet(order[u]) : key'[n] = key[n]
      BY MoveValuesFailsInv DEF MoveValuesFails, Assigned, Inv, HashTableAssumption
<1>2. ToSet(order'[t]) = {} /\ \A u \in Tables \ {t} : order'[u] = order[u]
      BY <1>1, EmptyList DEF TypeOK
<1>3. Counted' \in [Tables -> [Keys -> 0 .. Cardinality(Nodes)]]
      BY <1>1, CountsAfter
<1>4. ASSUME NEW k \in Keys PROVE Counted'[t][k] + Counted'[from][k] <= Counted[from][k]
  <2>1. Held(t, k)' = {}
        BY <1>2 DEF Held
  <2>2. \A m : m \in Held(from, k)' => m \in Held(from, k)
        BY <1>1, <1>2 DEF Held, NullAssumption
  <2>3. IsFiniteSet(Held(from, k)) /\ Held(from, k)' \in SUBSET Held(from, k)
        BY <1>1, <2>2, Counts
  <2>4. Cardinality(Held(from, k)') <= Cardinality(Held(from, k))
        BY <2>3, FS_Subset
  <2>5. Counted'[t][k] = 0 /\ Counted'[from][k] <= Counted[from][k]
    <3>1. /\ Counted'[t][k] = Cardinality(Held(t, k)')
          /\ Counted'[from][k] = Cardinality(Held(from, k)')
          /\ Counted[from][k] = Cardinality(Held(from, k))
          BY <1>1, Counts, CountsAfter
    <3>2. Cardinality(Held(t, k)') = 0
          BY <2>1, FS_EmptySet
    <3>3. QED BY <2>4, <3>1, <3>2
  <2>6. Counted'[from][k] \in Int /\ Counted[from][k] \in Int
        BY <1>1, <1>3, Counts
  <2>7. QED BY <2>5, <2>6
<1>5. ASSUME NEW u \in Tables \ {t, from} PROVE Counted'[u] = Counted[u]
  <2>1. \A k \in Keys : Held(u, k)' = Held(u, k)
        BY <1>1, <1>2, Untouched
  <2>2. \A k \in Keys : Counted'[u][k] = Counted[u][k]
        BY <1>1, <2>1, Counts, CountsAfter
  <2>3. Counted'[u] \in [Keys -> 0 .. Cardinality(Nodes)] /\ Counted[u] \in [Keys -> 0 .. Cardinality(Nodes)]
        BY <1>1, <1>3, Counts
  <2>4. QED BY <2>2, <2>3
<1>6. handle # Null => key'[handle] = key[handle]
  <2>1. SUFFICES ASSUME handle # Null PROVE key'[handle] = key[handle]
        OBVIOUS
  <2>2. PICK moved \in 1 .. Len(order[from]) :
           key' = [n \in Nodes |->
              CASE n \in ToSet(order[t]) -> Null
                [] n \in ToSet(SubSeq(order[from], 1, moved)) -> MovedFrom
                [] OTHER -> key[n]]
        BY DEF MoveValuesFails
  <2> DEFINE prefix == ToSet(SubSeq(order[from], 1, moved))
  <2>3. key' = [n \in Nodes |->
           CASE n \in ToSet(order[t]) -> Null [] n \in prefix -> MovedFrom [] OTHER -> key[n]]
        BY <2>2
  <2>4. key'[handle] \in Keys /\ handle \in Nodes /\ handle \notin ToSet(order[t])
        BY <1>1, <2>1 DEF Inv, Owned, TypeOK
  <2> HIDE DEF prefix
  <2>5. CASE handle \in prefix
    <3>1. key'[handle] = MovedFrom
          BY <2>3, <2>4, <2>5
    <3>2. QED BY <1>1, <2>4, <3>1 DEF NullAssumption
  <2>6. CASE handle \notin prefix
        BY <2>3, <2>4, <2>6
  <2>7. QED BY <2>5, <2>6
<1>7. Carried' = Carried
      BY <1>1, <1>6, SameCarried
<1>8. QED BY <1>1, <1>3, <1>4, <1>5, <1>7 DEF Container!MoveFails

LEMMA StepIs ==
    ASSUME HashTableAssumption, Inv, [Next]_vars
    PROVE  [Container!Next]_(Container!vars)
<1>1. ASSUME order' = order, key' = key, handle' = handle, unique' = unique
      PROVE  UNCHANGED Container!vars
  <2>1. Counted' = Counted /\ Carried' = Carried
        BY <1>1 DEF Counted, Held, Carried
  <2>2. QED BY <1>1, <2>1 DEF Container!vars
<1>2. CASE UNCHANGED vars
      BY <1>1, <1>2 DEF vars, elements
<1>3. ASSUME NEW t \in Tables, NEW k \in Keys, Insert(t, k) \/ EraseKey(t, k)
      PROVE  Container!Next
      BY <1>3, InsertIs, EraseKeyIs DEF Container!Next
<1>4. ASSUME NEW t \in Tables, NEW n \in Nodes, Erase(t, n) \/ Extract(t, n)
      PROVE  Container!Next
  <2>1. \E k \in Keys : Container!EraseOne(t, k) \/ Container!Extract(t, k)
        BY <1>4, EraseIs, ExtractIs
  <2>2. QED BY <2>1 DEF Container!Next
<1>5. ASSUME NEW t \in Tables, Clear(t) \/ InsertNode(t)
      PROVE  Container!Next
      BY <1>5, ClearIs, InsertNodeIs DEF Container!Next
<1>6. ASSUME NEW t \in Tables, NEW request \in Requests, Rehash(t, request)
      PROVE  UNCHANGED Container!vars
      BY <1>1, <1>6 DEF Rehash, Same
<1>7. ASSUME NEW t \in Tables, NEW l \in LoadFactors, max_load_factor(t, l)
      PROVE  UNCHANGED Container!vars
      BY <1>1, <1>7 DEF max_load_factor, elements
<1>8. ASSUME NEW k \in Keys, Rekey(k)
      PROVE  Container!Next
      BY <1>8, RekeyIs DEF Container!Next
<1>9. CASE DropNode
      BY <1>9, DropNodeIs DEF Container!Next
<1>10. CASE MergeNode
  <2>1. CASE UNCHANGED Container!vars
        BY <2>1
  <2>2. CASE \E t, u \in Tables, k \in Keys : t # u /\ Container!Transfer(t, u, k)
        BY <2>2 DEF Container!Next
  <2>3. QED BY <1>10, <2>1, <2>2, MergeNodeIs
<1>11. CASE MergeThrows
       BY <1>1, <1>11 DEF MergeThrows, elements
<1>12. ASSUME NEW t \in Tables, NEW u \in Tables, MergeBegins(t, u)
       PROVE  UNCHANGED Container!vars
       BY <1>1, <1>12 DEF MergeBegins, elements
<1>13. ASSUME NEW t \in Tables, NEW u \in Tables, Swap(t, u)
       PROVE  Container!Next
       BY <1>13, SwapIs DEF Container!Next
<1>14. ASSUME NEW t \in Tables, NEW u \in Tables, CopyAssign(t, u)
       PROVE  Container!Next
       BY <1>14, CopyAssignIs DEF Container!Next
<1>15. ASSUME NEW t \in Tables, NEW u \in Tables, CopyFails(t, u)
       PROVE  Container!Next
       BY <1>15, ClearIs DEF Container!Next
<1>16. ASSUME NEW t \in Tables, NEW u \in Tables, MoveAssign(t, u) \/ MoveValues(t, u)
       PROVE  Container!Next
  <2>1. t # u /\ Container!Move(t, u)
        BY <1>16, MoveAssignIs, MoveValuesIs
  <2>2. QED BY <2>1 DEF Container!Next
<1>17. ASSUME NEW t \in Tables, NEW u \in Tables, MoveValuesFails(t, u)
       PROVE  Container!Next
       BY <1>17, MoveValuesFailsIs DEF Container!Next
<1>18. QED BY <1>2, <1>3, <1>4, <1>5, <1>6, <1>7, <1>8, <1>9, <1>10, <1>11, <1>12,
              <1>13, <1>14, <1>15, <1>16, <1>17 DEF Next

LEMMA StartIs ==
    ASSUME HashTableAssumption, Init
    PROVE  Container!Init
<1>1. Inv
      BY InitInv
<1>2. ASSUME NEW t \in Tables, NEW k \in Keys PROVE Counted[t][k] = 0
  <2>1. Held(t, k) = {}
        BY EmptyList DEF Init, Held
  <2>2. QED BY <1>1, <2>1, Counts, FS_EmptySet DEF Inv, HashTableAssumption
<1>3. Counted = [t \in Tables |-> Container!Nothing]
  <2>1. Counted \in [Tables -> [Keys -> 0 .. Cardinality(Nodes)]]
        BY <1>1, Counts DEF Inv, HashTableAssumption
  <2>2. ASSUME NEW t \in Tables PROVE Counted[t] = Container!Nothing
    <3>1. Counted[t] \in [Keys -> 0 .. Cardinality(Nodes)]
          BY <2>1
    <3>2. QED BY <1>2, <3>1 DEF Container!Nothing
  <2>3. QED BY <2>1, <2>2
<1>4. unique \in [Tables -> BOOLEAN] /\ Carried = Null
      BY DEF Init, Carried
<1>5. QED BY <1>3, <1>4 DEF Container!Init

(* The tables are bags of keys, those of unique keys sets, whatever        *)
(* collides, rehashes, is merged, moved or thrown: every step is one of    *)
(* the bag's or changes nothing that a client can count.                   *)
THEOREM HashTableIsContainer == Spec => ContainerSpec
<1>1. Init => Container!Init
      BY StartIs, Assumptions
<1>2. Inv /\ [Next]_vars => [Container!Next]_(Container!vars)
      BY StepIs, Assumptions
<1>3. QED BY <1>1, <1>2, Invariant, PTL DEF Spec, ContainerSpec, Container!Spec

=============================================================================
