---------------------- MODULE OpenAddressingSetProofs -----------------------
(* Theorems about OpenAddressingSet for any keys, hashes and requests, any *)
(* bound on the size and every probing policy.                             *)
EXTENDS OpenAddressingSet, FiniteSetTheorems, WellFoundedInduction, TLAPS

-----------------------------------------------------------------------------
(* The least element of a set of numbers. *)
Below == {p \in Nat \X Nat : p[1] < p[2]}

LEMMA Least ==
    ASSUME NEW T, T \subseteq Nat, T # {}
    PROVE  Min(T) \in T /\ \A x \in T : Min(T) <= x
<1>1. OpToRel(<, Nat) = Below
      BY DEF OpToRel, Below
<1>2. IsWellFoundedOn(Below, Nat)
      BY <1>1, NatLessThanWellFounded
<1>3. PICK m \in T : \A x \in T : ~(<<x, m>> \in Below)
      BY <1>2, WFMin
<1>4. ASSUME NEW x \in T PROVE m <= x
  <2>1. x \in Nat /\ m \in Nat
        OBVIOUS
  <2>2. <<x, m>> \in Nat \X Nat
        BY <2>1
  <2>3. ~(x < m)
        BY <1>3, <2>2 DEF Below
  <2>4. QED BY <2>1, <2>3
<1>5. QED BY <1>4 DEF Min

-----------------------------------------------------------------------------
(* Divisibility, and the powers of two.                                    *)
Divides(n, x) == \E q \in Int : x = q * n

LEMMA Modulo ==
    ASSUME NEW n \in Nat \ {0}, NEW x \in Int
    PROVE  /\ x % n \in 0 .. n - 1
           /\ x % n = 0 <=> Divides(n, x)
<1> DEFINE q == x \div n
           r == x % n
<1>1. x = q * n + r /\ q \in Int /\ r \in 0 .. n - 1
      OBVIOUS
<1>2. ASSUME NEW p \in Int PROVE (p * n) % n = 0
      OBVIOUS
<1> HIDE DEF q, r
<1>3. r = 0 => Divides(n, x)
      BY <1>1 DEF Divides
<1>4. Divides(n, x) => x % n = 0
      BY <1>2 DEF Divides
<1>5. QED BY <1>1, <1>3, <1>4 DEF r

LEMMA SameRest ==
    ASSUME NEW n \in Nat \ {0}, NEW x \in Int, NEW y \in Int, x % n = y % n
    PROVE  Divides(n, x - y)
<1> DEFINE p == x \div n
           q == y \div n
           r == x % n
<1>1. /\ x = p * n + r /\ p \in Int /\ r \in Int
      /\ y = q * n + (y % n) /\ q \in Int
      OBVIOUS
<1>2. y = q * n + r
      BY <1>1
<1> HIDE DEF p, q, r
<1>3. x - y = (p - q) * n
      BY <1>1, <1>2
<1>4. p - q \in Int
      BY <1>1
<1>5. QED BY <1>3, <1>4 DEF Divides

LEMMA Small ==
    ASSUME NEW n \in Nat \ {0}, NEW x \in Nat, Divides(n, x), x < n
    PROVE  x = 0
<1>1. PICK q \in Int : x = q * n
      BY DEF Divides
<1>2. ~(q >= 1)
  <2>1. SUFFICES ASSUME q >= 1 PROVE FALSE
        OBVIOUS
  <2>2. (q - 1) * n >= 0 /\ q * n = (q - 1) * n + n
        BY <2>1
  <2>3. QED BY <1>1, <2>2
<1>3. ~(q <= 0 - 1)
  <2>1. SUFFICES ASSUME q <= 0 - 1 PROVE FALSE
        OBVIOUS
  <2>2. (0 - 1 - q) * n >= 0 /\ q * n = 0 - n - ((0 - 1 - q) * n)
        BY <2>1
  <2>3. QED BY <1>1, <2>2
<1>4. q = 0
      BY <1>2, <1>3
<1>5. QED BY <1>1, <1>4

Even(x) == x % 2 = 0

LEMMA Parity ==
    ASSUME NEW x \in Int
    PROVE  /\ Even(x) => \E y \in Int : x = 2 * y
           /\ ~Even(x) => \E y \in Int : x = 2 * y + 1
<1>1. x = 2 * (x \div 2) + (x % 2) /\ x \div 2 \in Int /\ x % 2 \in {0, 1}
      OBVIOUS
<1>2. QED BY <1>1 DEF Even

LEMMA EvenDouble ==
    \A y \in Int : Even(2 * y) /\ ~Even(2 * y + 1)
BY DEF Even

(* Half of a power of two is one. *)
LEMMA Half ==
    ASSUME NEW n \in Nat, n >= 2, PowerOfTwo(n)
    PROVE  \E m \in Nat \ {0} : n = 2 * m /\ m < n /\ PowerOfTwo(m)
<1>1. n % n = 0 /\ n \in 2 .. n
      OBVIOUS
<1>2. Even(n)
      BY <1>1 DEF PowerOfTwo, Even
<1>3. PICK m \in Int : n = 2 * m
      BY <1>2, Parity
<1>4. m \in Nat \ {0} /\ m < n
      BY <1>3
<1>5. ASSUME NEW d \in 2 .. m, m % d = 0 PROVE d % 2 = 0
  <2>1. d \in Nat \ {0} /\ d \in 2 .. n
        BY <1>3, <1>4
  <2>2. PICK q \in Int : m = q * d
        BY <1>4, <1>5, <2>1, Modulo DEF Divides
  <2>3. n = (2 * q) * d
        BY <1>3, <2>1, <2>2
  <2>4. Divides(d, n)
        BY <2>2, <2>3 DEF Divides
  <2>5. n % d = 0
        BY <2>1, <2>4, Modulo
  <2>6. QED BY <2>1, <2>5 DEF PowerOfTwo
<1>6. QED BY <1>3, <1>4, <1>5 DEF PowerOfTwo

LEMMA Twice ==
    ASSUME NEW n \in Nat \ {0}, PowerOfTwo(n)
    PROVE  PowerOfTwo(2 * n)
<1>1. SUFFICES ASSUME NEW d \in 2 .. 2 * n, (2 * n) % d = 0, ~Even(d)
               PROVE  FALSE
      BY DEF PowerOfTwo, Even
<1>2. PICK q \in Int : 2 * n = q * d
  <2>1. d \in Nat \ {0} /\ 2 * n \in Int
        OBVIOUS
  <2>2. Divides(d, 2 * n)
        BY <1>1, <2>1, Modulo
  <2>3. QED BY <2>2 DEF Divides
<1>3. PICK e \in Int : d = 2 * e + 1
      BY <1>1, Parity
<1>4. q * d = 2 * (q * e) + q /\ q * e \in Int
      BY <1>3
<1>5. q = 2 * (n - q * e)
      BY <1>2, <1>4
<1>6. PICK p \in Int : q = 2 * p
  <2>1. n - q * e \in Int
        BY <1>4
  <2>2. QED BY <1>5, <2>1
<1>7. q * d = 2 * (p * d) /\ p * d \in Int
      BY <1>6
<1>8. n = p * d
      BY <1>2, <1>7
<1>9. d \in 2 .. n
  <2>1. ~(p <= 0)
    <3>1. SUFFICES ASSUME p <= 0 PROVE FALSE
          OBVIOUS
    <3>2. (0 - p) * d >= 0 /\ p * d = 0 - ((0 - p) * d)
          BY <3>1
    <3>3. QED BY <1>8, <3>2
  <2>2. (p - 1) * d >= 0 /\ p * d = (p - 1) * d + d
        BY <2>1
  <2>3. QED BY <1>8, <2>2
<1>10. n % d = 0
  <2>1. Divides(d, n) /\ d \in Nat \ {0}
        BY <1>8, <1>9 DEF Divides
  <2>2. QED BY <2>1, Modulo
<1>11. QED BY <1>1, <1>9, <1>10 DEF PowerOfTwo, Even

(* An odd factor has no part in a power of two. *)
OddIsPrime(n) ==
    \A a, b \in Int : ~Even(a) /\ Divides(n, a * b) => Divides(n, b)

LEMMA OddFactor ==
    ASSUME NEW n \in Nat \ {0}, PowerOfTwo(n)
    PROVE  OddIsPrime(n)
<1> DEFINE Bad == {m \in Nat \ {0} : PowerOfTwo(m) /\ ~OddIsPrime(m)}
<1>1. SUFFICES ASSUME Bad # {} PROVE FALSE
      OBVIOUS
<1>2. PICK m \in Bad : \A x \in Bad : m <= x
  <2>1. Bad \subseteq Nat
        OBVIOUS
  <2> HIDE DEF Bad
  <2>2. QED BY <1>1, <2>1, Least
<1>3. m \in Nat \ {0} /\ PowerOfTwo(m)
      OBVIOUS
<1>4. PICK a \in Int, b \in Int : ~Even(a) /\ Divides(m, a * b) /\ ~Divides(m, b)
      BY <1>2 DEF OddIsPrime
<1>5. m # 1
  <2>1. b = b * 1
        OBVIOUS
  <2>2. QED BY <1>4, <2>1 DEF Divides
<1>6. PICK h \in Nat \ {0} : m = 2 * h /\ h < m /\ PowerOfTwo(h)
      BY <1>3, <1>5, Half
<1>7. OddIsPrime(h)
  <2>1. h \notin Bad
        BY <1>2, <1>3, <1>6
  <2>2. QED BY <1>6, <2>1
<1>8. PICK q \in Int : a * b = q * m
      BY <1>4 DEF Divides
<1>9. PICK e \in Int : a = 2 * e + 1
      BY <1>4, Parity
<1>10. a * b = 2 * (e * b) + b /\ e * b \in Int /\ q * m = 2 * (q * h) /\ q * h \in Int
      BY <1>6, <1>9
<1>11. PICK c \in Int : b = 2 * c
  <2>1. b = 2 * (q * h - e * b)
        BY <1>8, <1>10
  <2>2. q * h - e * b \in Int
        BY <1>10
  <2>3. QED BY <2>1, <2>2
<1>12. a * b = 2 * (a * c) /\ a * c \in Int
      BY <1>11
<1>13. a * c = q * h
      BY <1>8, <1>10, <1>12
<1>14. PICK r \in Int : c = r * h
  <2>1. Divides(h, a * c)
        BY <1>13 DEF Divides
  <2>2. QED BY <1>4, <1>7, <2>1 DEF OddIsPrime, Divides
<1>15. b = r * m
      BY <1>6, <1>11, <1>14
<1>16. QED BY <1>4, <1>15 DEF Divides

-----------------------------------------------------------------------------
(* A probe sequence visits every slot.                                     *)
Sequence(n, k) == [probe \in 0 .. n - 1 |-> probe_index(Hash(k), probe, n)]

Policies == {"linear", "quadratic", "double"}

LEMMA Linear ==
    ASSUME NEW n \in Nat \ {0}, PowerOfTwo(n), NEW d \in 1 .. n - 1
    PROVE  /\ ~Divides(n, d)
           /\ \A step \in Int : ~Even(step) => ~Divides(n, step * d)
<1>1. ~Divides(n, d)
      BY Small
<1>2. QED BY <1>1, OddFactor DEF OddIsPrime

LEMMA Triangular ==
    ASSUME NEW n \in Nat \ {0}, PowerOfTwo(n), NEW p \in 0 .. n - 1, NEW q \in 0 .. n - 1, p < q
    PROVE  ~Divides(n, ((q * (q + 1)) \div 2) - ((p * (p + 1)) \div 2))
<1> DEFINE tri(x) == (x * (x + 1)) \div 2
           a == q - p
           b == q + p + 1
<1>1. ASSUME NEW x \in Nat PROVE tri(x) \in Int /\ 2 * tri(x) = x * (x + 1)
  <2>1. \E y \in Int : x * (x + 1) = 2 * y
    <3>1. CASE Even(x)
      <4>1. PICK y \in Int : x = 2 * y
            BY <3>1, Parity
      <4>2. x * (x + 1) = 2 * (y * (x + 1)) /\ y * (x + 1) \in Int
            BY <4>1
      <4>3. QED BY <4>2
    <3>2. CASE ~Even(x)
      <4>1. PICK y \in Int : x = 2 * y + 1
            BY <3>2, Parity
      <4>2. x * (x + 1) = 2 * (x * (y + 1)) /\ x * (y + 1) \in Int
            BY <4>1
      <4>3. QED BY <4>2
    <3>3. QED BY <3>1, <3>2
  <2>2. PICK y \in Int : x * (x + 1) = 2 * y
        BY <2>1
  <2>3. (2 * y) \div 2 = y
        OBVIOUS
  <2>4. QED BY <2>2, <2>3
<1>2. 2 * tri(q) - 2 * tri(p) = a * b
  <2>1. 2 * tri(q) = q * (q + 1) /\ 2 * tri(p) = p * (p + 1)
        BY <1>1
  <2>2. q * (q + 1) - p * (p + 1) = (q - p) * (q + p + 1)
        OBVIOUS
  <2>3. QED BY <2>1, <2>2
<1>3. SUFFICES ASSUME Divides(n, tri(q) - tri(p)) PROVE FALSE
      OBVIOUS
<1>4. PICK c \in Int : tri(q) - tri(p) = c * n
      BY <1>3 DEF Divides
<1>5. tri(q) \in Int /\ tri(p) \in Int
      BY <1>1
<1> HIDE DEF tri
<1>6. a * b = c * (2 * n) /\ b * a = c * (2 * n)
  <2>1. c * (2 * n) = 2 * (c * n) /\ c * n \in Int
        OBVIOUS
  <2>2. a * b = b * a
        OBVIOUS
  <2> HIDE DEF a, b
  <2>3. QED BY <1>2, <1>4, <1>5, <2>1, <2>2
<1>7. Divides(2 * n, a * b) /\ Divides(2 * n, b * a)
      BY <1>6 DEF Divides
<1>8. 2 * n \in Nat \ {0} /\ OddIsPrime(2 * n)
      BY Twice, OddFactor
<1>9. /\ a \in Nat \ {0} /\ a < 2 * n /\ ~Divides(2 * n, a)
      /\ b \in Nat \ {0} /\ b < 2 * n /\ ~Divides(2 * n, b)
  <2>1. a \in Nat \ {0} /\ a < 2 * n /\ b \in Nat \ {0} /\ b < 2 * n
        OBVIOUS
  <2> HIDE DEF a, b
  <2>2. QED BY <1>8, <2>1, Small
<1>10. ~Even(a) \/ ~Even(b)
  <2>1. b = a + 2 * p + 1
        OBVIOUS
  <2>2. QED BY <1>9, <2>1 DEF Even
<1> HIDE DEF a, b
<1>11. QED BY <1>7, <1>8, <1>9, <1>10 DEF OddIsPrime

LEMMA Counts ==
    ASSUME SetAssumption
    PROVE  \A n \in SlotCounts :
              n \in Nat /\ n >= 4 /\ n <= MaxSlots /\ n >= min_bucket_count /\ PowerOfTwo(n)
BY DEF SetAssumption, SlotCounts

LEMMA Apart ==
    ASSUME SetAssumption, probing \in Policies, NEW n \in SlotCounts, NEW h \in Nat,
           NEW p \in 0 .. n - 1, NEW q \in 0 .. n - 1, p < q
    PROVE  /\ offset(h, p) \in Int /\ offset(h, q) \in Int
           /\ ~Divides(n, offset(h, q) - offset(h, p))
<1>1. n \in Nat \ {0} /\ PowerOfTwo(n)
      BY Counts
<1>2. CASE probing = "linear"
  <2>1. \A x : offset(h, x) = x
        BY <1>2 DEF offset
  <2>2. ~Divides(n, q - p)
        BY <1>1, Linear
  <2>3. QED BY <2>1, <2>2
<1>3. CASE probing = "quadratic"
  <2>1. \A x : offset(h, x) = (x * (x + 1)) \div 2
        BY <1>3 DEF offset
  <2>2. \A x \in Nat : (x * (x + 1)) \div 2 \in Int
        OBVIOUS
  <2>3. ~Divides(n, ((q * (q + 1)) \div 2) - ((p * (p + 1)) \div 2))
        BY <1>1, Triangular
  <2>4. p \in Nat /\ q \in Nat
        OBVIOUS
  <2>5. QED BY <2>1, <2>2, <2>3, <2>4
<1>4. CASE probing = "double"
  <2> DEFINE high == h \div HalfWidth
             step == IF high % 2 = 0 THEN high + 1 ELSE high
  <2>1. high \in Int
        BY DEF SetAssumption
  <2>2. \A x : offset(h, x) = x * step
        BY <1>4 DEF offset
  <2> HIDE DEF high
  <2>3. step \in Int /\ ~Even(step)
        BY <2>1 DEF Even
  <2> HIDE DEF step
  <2>4. ~Divides(n, step * (q - p))
    <3>1. q - p \in 1 .. n - 1
          BY <1>1
    <3>2. QED BY <1>1, <2>3, <3>1, Linear
  <2>5. q * step - p * step = step * (q - p) /\ q * step \in Int /\ p * step \in Int
        BY <2>3
  <2>6. QED BY <2>2, <2>4, <2>5
<1>5. QED BY <1>2, <1>3, <1>4 DEF Policies

LEMMA Probing ==
    ASSUME SetAssumption, probing \in Policies, NEW n \in SlotCounts, NEW k \in Keys
    PROVE  /\ Sequence(n, k) \in [0 .. n - 1 -> 0 .. n - 1]
           /\ \A i \in 0 .. n - 1 : \E p \in 0 .. n - 1 : Sequence(n, k)[p] = i
<1> DEFINE f == Sequence(n, k)
           N == 0 .. n - 1
<1>1. n \in Nat \ {0} /\ n >= 4 /\ Hash(k) \in Nat
      BY Counts DEF SetAssumption
<1>2. \A p \in N : f[p] = (Hash(k) + offset(Hash(k), p)) % n
      BY DEF Sequence, probe_index
<1>3. \A p \in N : offset(Hash(k), p) \in Int
  <2>1. SUFFICES ASSUME NEW p \in N PROVE offset(Hash(k), p) \in Int
        OBVIOUS
  <2>2. CASE p = 0
    <3>1. 1 \in N /\ 0 < 1 /\ 0 \in N
          BY <1>1
    <3>2. QED BY <1>1, <2>2, <3>1, Apart
  <2>3. CASE p # 0
    <3>1. 0 < p /\ 0 \in N
          BY <1>1, <2>3
    <3>2. QED BY <1>1, <3>1, Apart
  <2>4. QED BY <2>2, <2>3
<1>4. \A p \in N : f[p] \in N
  <2>1. SUFFICES ASSUME NEW p \in N PROVE f[p] \in N
        OBVIOUS
  <2>2. Hash(k) + offset(Hash(k), p) \in Int
        BY <1>1, <1>3
  <2>3. QED BY <1>1, <1>2, <2>2, Modulo
<1>5. f \in [N -> N]
      BY <1>4 DEF Sequence
<1>6. \A p, q \in N : p < q => f[p] # f[q]
  <2>1. SUFFICES ASSUME NEW p \in N, NEW q \in N, p < q, f[p] = f[q]
                 PROVE  FALSE
        OBVIOUS
  <2> DEFINE x == Hash(k) + offset(Hash(k), q)
             y == Hash(k) + offset(Hash(k), p)
  <2>2. x \in Int /\ y \in Int /\ x - y = offset(Hash(k), q) - offset(Hash(k), p)
        BY <1>1, <1>3
  <2>3. x % n = y % n
        BY <1>2, <2>1
  <2> HIDE DEF x, y
  <2>4. Divides(n, x - y)
        BY <1>1, <2>2, <2>3, SameRest
  <2>5. QED BY <1>1, <2>1, <2>2, <2>4, Apart
<1>7. \A p, q \in N : f[p] = f[q] => p = q
  <2>1. SUFFICES ASSUME NEW p \in N, NEW q \in N, f[p] = f[q], p # q
                 PROVE  FALSE
        OBVIOUS
  <2>2. p < q \/ q < p
        BY <1>1, <2>1
  <2>3. QED BY <1>6, <2>1, <2>2
<1>8. f \in Injection(N, N)
      BY <1>5, <1>7 DEF Injection, IsInjective
<1>9. IsFiniteSet(N)
      BY <1>1, FS_Interval
<1>10. f \in Surjection(N, N)
  <2> HIDE DEF f, N
  <2>1. QED BY <1>8, <1>9, FS_Injection
<1>11. QED BY <1>5, <1>10 DEF Surjection

-----------------------------------------------------------------------------
(* Tables of slots.  A key reaches a slot if no probe meets an empty slot  *)
(* on the way there; in a sound table every key is there once and reaches  *)
(* its slot.                                                               *)
Table(s, n) == n \in SlotCounts /\ s \in [0 .. n - 1 -> Keys \cup {Empty, Tombstone}]

Reaches(s, n, k, i) ==
    \E p \in 0 .. n - 1 :
        /\ Sequence(n, k)[p] = i
        /\ \A q \in 0 .. n - 1 : q < p => s[Sequence(n, k)[q]] # Empty

Sound(s, n) ==
    /\ Table(s, n)
    /\ \A i \in 0 .. n - 1 : s[i] \in Keys => Reaches(s, n, s[i], i)
    /\ \A i, j \in 0 .. n - 1 : s[i] \in Keys /\ s[i] = s[j] => i = j

Full(s)   == {i \in DOMAIN s : s[i] \in Keys}
KeysOf(s) == {s[i] : i \in Full(s)}

LEMMA TableSize ==
    ASSUME SetAssumption, NEW n, NEW s, Table(s, n)
    PROVE  /\ n \in Nat /\ n >= 4 /\ DOMAIN s = 0 .. n - 1
           /\ Cardinality(DOMAIN s) = n /\ IsFiniteSet(DOMAIN s)
           /\ \A k : Probes(s, k) = Sequence(n, k)
<1>1. n \in Nat /\ n >= 4 /\ DOMAIN s = 0 .. n - 1
      BY Counts DEF Table
<1>2. Cardinality(0 .. n - 1) = n /\ IsFiniteSet(0 .. n - 1)
      BY <1>1, FS_Interval
<1>3. QED BY <1>1, <1>2 DEF Probes, Sequence

(* The first hit is reached. *)
LEMMA MetIsReached ==
    ASSUME SetAssumption, probing \in Policies, NEW n, NEW s, Table(s, n), NEW k \in Keys,
           NEW values, Empty \in values, Hits(s, k, values) # {}
    PROVE  /\ Met(s, k, values) \in 0 .. n - 1
           /\ s[Met(s, k, values)] \in values
           /\ Reaches(s, n, k, Met(s, k, values))
<1> DEFINE f == Sequence(n, k)
           H == Hits(s, k, values)
           p == Min(H)
<1>1. n \in Nat /\ DOMAIN s = 0 .. n - 1 /\ Probes(s, k) = f
      BY TableSize
<1>2. H = {q \in 0 .. n - 1 : s[f[q]] \in values}
      BY <1>1 DEF Hits
<1>3. p \in H /\ \A q \in H : p <= q
  <2>1. H \subseteq Nat /\ H # {}
        BY <1>1, <1>2
  <2> HIDE DEF H
  <2>2. QED BY <2>1, Least
<1>4. Met(s, k, values) = f[p]
      BY <1>1 DEF Met
<1>5. f \in [0 .. n - 1 -> 0 .. n - 1]
      BY Probing DEF Table
<1> HIDE DEF p, H, f
<1>6. p \in 0 .. n - 1 /\ s[f[p]] \in values
      BY <1>2, <1>3
<1>7. \A q \in 0 .. n - 1 : q < p => s[f[q]] # Empty
  <2>1. SUFFICES ASSUME NEW q \in 0 .. n - 1, q < p, s[f[q]] = Empty PROVE FALSE
        OBVIOUS
  <2>2. q \in H
        BY <1>2, <2>1
  <2>3. p <= q
        BY <1>3, <2>2
  <2>4. QED BY <1>1, <1>6, <2>1, <2>3
<1>8. Reaches(s, n, k, f[p])
      BY <1>6, <1>7 DEF Reaches, f
<1>9. QED BY <1>4, <1>5, <1>6, <1>8

(* With an empty slot every search ends. *)
LEMMA EmptyIsHit ==
    ASSUME SetAssumption, probing \in Policies, NEW n, NEW s, Table(s, n), NEW k \in Keys,
           NEW i \in 0 .. n - 1, s[i] = Empty, NEW values, Empty \in values
    PROVE  Hits(s, k, values) # {}
<1>1. DOMAIN s = 0 .. n - 1 /\ Probes(s, k) = Sequence(n, k)
      BY TableSize
<1>2. PICK p \in 0 .. n - 1 : Sequence(n, k)[p] = i
      BY Probing DEF Table
<1>3. QED BY <1>1, <1>2 DEF Hits

(* A key is found if it is in a slot it reaches. *)
LEMMA FindsReached ==
    ASSUME SetAssumption, probing \in Policies, NEW n, NEW s, Table(s, n), NEW k \in Keys
    PROVE  /\ Finds(s, k) <=> \E i \in 0 .. n - 1 : s[i] = k /\ Reaches(s, n, k, i)
           /\ Finds(s, k) => /\ Met(s, k, {Empty, k}) \in 0 .. n - 1
                             /\ s[Met(s, k, {Empty, k})] = k
                             /\ Reaches(s, n, k, Met(s, k, {Empty, k}))
<1> DEFINE f == Sequence(n, k)
           H == Hits(s, k, {Empty, k})
           p == Min(H)
<1>1. n \in Nat /\ DOMAIN s = 0 .. n - 1 /\ Probes(s, k) = f
      BY TableSize
<1>2. Finds(s, k) => /\ Met(s, k, {Empty, k}) \in 0 .. n - 1
                     /\ s[Met(s, k, {Empty, k})] = k
                     /\ Reaches(s, n, k, Met(s, k, {Empty, k}))
      BY MetIsReached DEF Finds
<1>3. ASSUME NEW i \in 0 .. n - 1, s[i] = k, Reaches(s, n, k, i)
      PROVE  Finds(s, k)
  <2>1. PICK r \in 0 .. n - 1 : f[r] = i /\ \A q \in 0 .. n - 1 : q < r => s[f[q]] # Empty
        BY <1>3 DEF Reaches
  <2>2. H = {q \in 0 .. n - 1 : s[f[q]] \in {Empty, k}}
        BY <1>1 DEF Hits
  <2>3. r \in H
        BY <1>3, <2>1, <2>2
  <2>4. p \in H /\ p <= r
    <3>1. H \subseteq 0 .. n - 1
          BY <2>2
    <3> HIDE DEF H
    <3>2. H \subseteq Nat
          BY <1>1, <3>1
    <3>3. QED BY <2>3, <3>2, Least
  <2>5. Met(s, k, {Empty, k}) = f[p]
        BY <1>1 DEF Met
  <2> HIDE DEF p, H, f
  <2>6. s[f[p]] = k
    <3>1. p \in 0 .. n - 1 /\ s[f[p]] \in {Empty, k}
          BY <2>2, <2>4
    <3>2. CASE p = r
          BY <1>3, <2>1, <3>2
    <3>3. CASE p # r
      <4>1. p < r
            BY <1>1, <2>4, <3>1, <3>3
      <4>2. QED BY <2>1, <3>1, <4>1
    <3>4. QED BY <3>2, <3>3
  <2>7. QED BY <2>3, <2>5, <2>6 DEF Finds, H
<1>4. QED BY <1>2, <1>3

-----------------------------------------------------------------------------
(* What becomes of a sound table when one slot changes.                    *)
Stale(s) == {i \in DOMAIN s : s[i] = Tombstone}

LEMMA StillReaches ==
    ASSUME SetAssumption, probing \in Policies, NEW n \in SlotCounts, NEW k \in Keys,
           NEW s, NEW t, \A x \in 0 .. n - 1 : s[x] # Empty => t[x] # Empty,
           NEW i, Reaches(s, n, k, i)
    PROVE  Reaches(t, n, k, i)
<1>1. PICK p \in 0 .. n - 1 :
         /\ Sequence(n, k)[p] = i
         /\ \A q \in 0 .. n - 1 : q < p => s[Sequence(n, k)[q]] # Empty
      BY DEF Reaches
<1>2. \A q \in 0 .. n - 1 : Sequence(n, k)[q] \in 0 .. n - 1
      BY Probing
<1>3. \A q \in 0 .. n - 1 : q < p => t[Sequence(n, k)[q]] # Empty
      BY <1>1, <1>2
<1>4. QED BY <1>1, <1>3 DEF Reaches

Written(s, at, v) == [s EXCEPT ![at] = v]

LEMMA Put ==
    ASSUME SetAssumption, probing \in Policies, NEW n, NEW s, Sound(s, n), NEW k \in Keys,
           k \notin KeysOf(s),
           NEW at \in 0 .. n - 1, s[at] = Empty \/ s[at] = Tombstone, Reaches(s, n, k, at)
    PROVE  /\ Sound(Written(s, at, k), n)
           /\ at \notin Full(s) /\ Full(Written(s, at, k)) = Full(s) \cup {at}
           /\ KeysOf(Written(s, at, k)) = KeysOf(s) \cup {k}
           /\ Stale(Written(s, at, k)) = Stale(s) \ {at}
<1> DEFINE t == Written(s, at, k)
<1>1. Table(s, n) /\ n \in SlotCounts /\ DOMAIN s = 0 .. n - 1
      BY TableSize DEF Sound, Table
<1>2. t \in [0 .. n - 1 -> Keys \cup {Empty, Tombstone}] /\ DOMAIN t = 0 .. n - 1
      BY <1>1 DEF Table, Written
<1>3. t[at] = k /\ \A i \in 0 .. n - 1 : i # at => t[i] = s[i]
      BY <1>1 DEF Written
<1>4. /\ k # Empty /\ k # Tombstone /\ s[at] \notin Keys
      /\ \A i \in 0 .. n - 1 : s[i] # k
      BY <1>1 DEF SetAssumption, KeysOf, Full
<1> HIDE DEF t
<1>5. Table(t, n)
      BY <1>1, <1>2 DEF Table
<1>6. \A x \in 0 .. n - 1 : s[x] # Empty => t[x] # Empty
      BY <1>3, <1>4
<1>7. ASSUME NEW i \in 0 .. n - 1, t[i] \in Keys PROVE Reaches(t, n, t[i], i)
  <2>1. CASE i = at
        BY <1>1, <1>3, <1>6, <2>1, StillReaches
  <2>2. CASE i # at
    <3>1. t[i] = s[i] /\ Reaches(s, n, s[i], i)
          BY <1>3, <1>7, <2>2 DEF Sound
    <3>2. QED BY <1>1, <1>6, <1>7, <3>1, StillReaches
  <2>3. QED BY <2>1, <2>2
<1>8. ASSUME NEW i \in 0 .. n - 1, NEW j \in 0 .. n - 1, t[i] \in Keys, t[i] = t[j] PROVE i = j
      BY <1>3, <1>4, <1>8 DEF Sound
<1>9. Sound(t, n)
      BY <1>5, <1>7, <1>8 DEF Sound
<1>10. at \notin Full(s) /\ Full(t) = Full(s) \cup {at}
      BY <1>1, <1>2, <1>3, <1>4 DEF Full
<1>11. KeysOf(t) = KeysOf(s) \cup {k}
  <2>1. \A i \in Full(s) : t[i] = s[i]
        BY <1>1, <1>3, <1>10 DEF Full
  <2>2. \A x : x \in KeysOf(t) => x \in KeysOf(s) \cup {k}
        BY <1>3, <1>10, <2>1 DEF KeysOf
  <2>3. \A x : x \in KeysOf(s) \cup {k} => x \in KeysOf(t)
        BY <1>3, <1>10, <2>1 DEF KeysOf
  <2>4. QED BY <2>2, <2>3
<1>12. Stale(t) = Stale(s) \ {at}
      BY <1>1, <1>2, <1>3, <1>4 DEF Stale
<1>13. QED BY <1>9, <1>10, <1>11, <1>12 DEF t

LEMMA Bury ==
    ASSUME SetAssumption, probing \in Policies, NEW n, NEW s, Sound(s, n),
           NEW at \in 0 .. n - 1, s[at] \in Keys
    PROVE  /\ Sound(Written(s, at, Tombstone), n)
           /\ at \in Full(s) /\ Full(Written(s, at, Tombstone)) = Full(s) \ {at}
           /\ KeysOf(Written(s, at, Tombstone)) = KeysOf(s) \ {s[at]}
           /\ at \notin Stale(s) /\ Stale(Written(s, at, Tombstone)) = Stale(s) \cup {at}
<1> DEFINE t == Written(s, at, Tombstone)
<1>1. Table(s, n) /\ n \in SlotCounts /\ DOMAIN s = 0 .. n - 1
      BY TableSize DEF Sound, Table
<1>2. t \in [0 .. n - 1 -> Keys \cup {Empty, Tombstone}] /\ DOMAIN t = 0 .. n - 1
      BY <1>1 DEF Table, Written
<1>3. t[at] = Tombstone /\ \A i \in 0 .. n - 1 : i # at => t[i] = s[i]
      BY <1>1 DEF Written
<1>4. Tombstone # Empty /\ Tombstone \notin Keys
      BY DEF SetAssumption
<1> HIDE DEF t
<1>5. Table(t, n)
      BY <1>1, <1>2 DEF Table
<1>6. \A x \in 0 .. n - 1 : s[x] # Empty => t[x] # Empty
      BY <1>3, <1>4
<1>7. ASSUME NEW i \in 0 .. n - 1, t[i] \in Keys PROVE Reaches(t, n, t[i], i)
  <2>1. t[i] = s[i] /\ Reaches(s, n, s[i], i)
        BY <1>3, <1>4, <1>7 DEF Sound
  <2>2. QED BY <1>1, <1>6, <1>7, <2>1, StillReaches
<1>8. ASSUME NEW i \in 0 .. n - 1, NEW j \in 0 .. n - 1, t[i] \in Keys, t[i] = t[j] PROVE i = j
      BY <1>3, <1>4, <1>8 DEF Sound
<1>9. Sound(t, n)
      BY <1>5, <1>7, <1>8 DEF Sound
<1>10. at \in Full(s) /\ Full(t) = Full(s) \ {at}
      BY <1>1, <1>2, <1>3, <1>4 DEF Full
<1>11. KeysOf(t) = KeysOf(s) \ {s[at]}
  <2>1. \A i \in Full(t) : t[i] = s[i]
        BY <1>1, <1>3, <1>10 DEF Full
  <2>2. \A i \in Full(s) : s[i] = s[at] => i = at
        BY <1>1 DEF Full, Sound
  <2>3. QED BY <1>10, <2>1, <2>2 DEF KeysOf
<1>12. at \notin Stale(s) /\ Stale(t) = Stale(s) \cup {at}
      BY <1>1, <1>2, <1>3, <1>4 DEF Stale
<1>13. QED BY <1>9, <1>10, <1>11, <1>12 DEF t

LEMMA NewTable ==
    ASSUME SetAssumption, NEW n \in SlotCounts
    PROVE  /\ Sound(EmptySlots(n), n)
           /\ Full(EmptySlots(n)) = {} /\ KeysOf(EmptySlots(n)) = {} /\ Stale(EmptySlots(n)) = {}
           /\ \A i \in 0 .. n - 1 : EmptySlots(n)[i] = Empty
<1>1. DOMAIN EmptySlots(n) = 0 .. n - 1 /\ \A i \in 0 .. n - 1 : EmptySlots(n)[i] = Empty
      BY DEF EmptySlots
<1>2. Table(EmptySlots(n), n)
      BY DEF Table, EmptySlots
<1>3. Empty \notin Keys /\ Empty # Tombstone
      BY DEF SetAssumption
<1>4. QED BY <1>1, <1>2, <1>3 DEF Sound, Full, KeysOf, Stale

(* A table has as many keys as full slots, and an empty slot if those and  *)
(* the tombstones do not fill it.                                          *)
LEMMA KeysCounted ==
    ASSUME SetAssumption, NEW n, NEW s, Sound(s, n)
    PROVE  /\ Cardinality(KeysOf(s)) = Cardinality(Full(s)) /\ Cardinality(Full(s)) \in Nat
           /\ Cardinality(Full(s)) <= Cardinality(Keys) /\ Cardinality(Keys) \in Nat
           /\ Cardinality(Stale(s)) \in Nat
           /\ IsFiniteSet(Full(s)) /\ IsFiniteSet(Stale(s)) /\ IsFiniteSet(KeysOf(s))
<1>1. DOMAIN s = 0 .. n - 1 /\ IsFiniteSet(DOMAIN s)
      BY TableSize DEF Sound
<1>2. IsFiniteSet(Full(s)) /\ IsFiniteSet(Stale(s))
      BY <1>1, FS_Subset DEF Full, Stale
<1>3. KeysOf(s) \subseteq Keys
      BY DEF KeysOf, Full
<1> DEFINE f == [i \in Full(s) |-> s[i]]
<1>4. f \in Bijection(Full(s), KeysOf(s))
  <2>1. f \in [Full(s) -> KeysOf(s)]
        BY DEF KeysOf
  <2>2. \A i, j \in Full(s) : f[i] = f[j] => i = j
        BY <1>1 DEF Full, Sound
  <2>3. \A k \in KeysOf(s) : \E i \in Full(s) : f[i] = k
        BY DEF KeysOf
  <2> HIDE DEF f
  <2>4. f \in Injection(Full(s), KeysOf(s)) /\ f \in Surjection(Full(s), KeysOf(s))
        BY <2>1, <2>2, <2>3 DEF Injection, IsInjective, Surjection
  <2>5. QED BY <2>4 DEF Bijection
<1>5. IsFiniteSet(KeysOf(s)) /\ Cardinality(KeysOf(s)) = Cardinality(Full(s))
      BY <1>2, <1>4, FS_Bijection DEF ExistsBijection
<1>6. Cardinality(KeysOf(s)) <= Cardinality(Keys)
      BY <1>3, FS_Subset DEF SetAssumption
<1>7. QED BY <1>2, <1>5, <1>6, FS_CardinalityType DEF SetAssumption

LEMMA HasEmpty ==
    ASSUME SetAssumption, NEW n, NEW s, Table(s, n),
           Cardinality(Full(s)) + Cardinality(Stale(s)) < n
    PROVE  \E i \in 0 .. n - 1 : s[i] = Empty
<1>1. DOMAIN s = 0 .. n - 1 /\ Cardinality(DOMAIN s) = n /\ IsFiniteSet(DOMAIN s) /\ n \in Nat
      BY TableSize
<1>2. IsFiniteSet(Full(s)) /\ IsFiniteSet(Stale(s))
      BY <1>1, FS_Subset DEF Full, Stale
<1>3. Cardinality(Full(s) \cup Stale(s)) =
         Cardinality(Full(s)) + Cardinality(Stale(s)) - Cardinality(Full(s) \cap Stale(s))
      BY <1>2, FS_Union
<1>4. /\ Cardinality(Full(s)) \in Nat /\ Cardinality(Stale(s)) \in Nat
      /\ Cardinality(Full(s) \cap Stale(s)) \in Nat
      BY <1>2, FS_CardinalityType, FS_Intersection
<1>5. Full(s) \cup Stale(s) # DOMAIN s
  <2> DEFINE used == Full(s) \cup Stale(s)
  <2>1. Cardinality(used) < n
        BY <1>1, <1>3, <1>4
  <2> HIDE DEF used
  <2>2. used # DOMAIN s
        BY <1>1, <2>1
  <2>3. QED BY <2>2 DEF used
<1>6. PICK i \in DOMAIN s : i \notin Full(s) /\ i \notin Stale(s)
      BY <1>5 DEF Full, Stale
<1>7. QED BY <1>1, <1>6 DEF Table, Full, Stale

-----------------------------------------------------------------------------
(* Rehashing: the steps of the recursion, and what the keys of the first   *)
(* slots make of the new table.                                            *)
Steps(F, s, n, m) ==
    F = [i \in 0 .. m |-> IF i = 0 THEN EmptySlots(n)
                         ELSE IF s[i - 1] \in Keys THEN insert_existing(F[i - 1], s[i - 1])
                         ELSE F[i - 1]]

LEMMA StepsExist ==
    ASSUME NEW s, NEW n, NEW last \in Nat
    PROVE  \E F : Steps(F, s, n, last)
<1> DEFINE Bad == {m \in 0 .. last : \A F : ~Steps(F, s, n, m)}
<1>1. SUFFICES ASSUME Bad # {} PROVE FALSE
  <2>1. last \in 0 .. last
        OBVIOUS
  <2>2. QED BY <2>1
<1>2. PICK m \in Bad : \A x \in Bad : m <= x
  <2>1. Bad \subseteq Nat
        OBVIOUS
  <2> HIDE DEF Bad
  <2>2. QED BY <1>1, <2>1, Least
<1>3. m \in Nat /\ m <= last /\ \A F : ~Steps(F, s, n, m)
      OBVIOUS
<1>4. m # 0
  <2>1. Steps([i \in 0 .. 0 |-> EmptySlots(n)], s, n, 0)
        BY DEF Steps
  <2>2. QED BY <1>3, <2>1
<1>5. m - 1 \notin Bad /\ m - 1 \in 0 .. last
  <2>1. m - 1 \in 0 .. last /\ ~(m <= m - 1)
        BY <1>3, <1>4
  <2>2. QED BY <1>2, <2>1
<1>6. PICK F : Steps(F, s, n, m - 1)
      BY <1>5
<1> DEFINE top == IF s[m - 1] \in Keys THEN insert_existing(F[m - 1], s[m - 1]) ELSE F[m - 1]
           G   == [i \in 0 .. m |-> IF i = m THEN top ELSE F[i]]
<1>7. Steps(G, s, n, m)
  <2>1. ASSUME NEW i \in 0 .. m
        PROVE  G[i] = IF i = 0 THEN EmptySlots(n)
                      ELSE IF s[i - 1] \in Keys THEN insert_existing(G[i - 1], s[i - 1])
                      ELSE G[i - 1]
    <3>1. CASE i = m
      <4>1. G[m] = top /\ G[m - 1] = F[m - 1]
            BY <1>3, <1>4
      <4>2. QED BY <1>3, <1>4, <3>1, <4>1
    <3>2. CASE i # m
      <4>1. i \in 0 .. m - 1 /\ i - 1 # m
            BY <1>3, <3>2
      <4>2. F[i] = IF i = 0 THEN EmptySlots(n)
                   ELSE IF s[i - 1] \in Keys THEN insert_existing(F[i - 1], s[i - 1])
                   ELSE F[i - 1]
            BY <1>6, <4>1 DEF Steps
      <4>3. i # 0 => G[i - 1] = F[i - 1]
            BY <1>3, <4>1
      <4>4. QED BY <3>2, <4>1, <4>2, <4>3
    <3>3. QED BY <3>1, <3>2
  <2>2. QED BY <2>1, Zenon DEF Steps
<1>8. QED BY <1>3, <1>7

Distinct(s) == \A i, j \in DOMAIN s : s[i] \in Keys /\ s[i] = s[j] => i = j

FirstKeys(s, m) == {s[i] : i \in {x \in 0 .. m - 1 : s[x] \in Keys}}

(* A key that is not in a table without tombstones, and with room, is put  *)
(* where its probe sequence first meets an empty slot.                     *)
LEMMA InsertExisting ==
    ASSUME SetAssumption, probing \in Policies, NEW n, NEW s, Sound(s, n), Stale(s) = {},
           NEW k \in Keys, k \notin KeysOf(s), Cardinality(KeysOf(s)) < n
    PROVE  LET t == insert_existing(s, k)
           IN  Sound(t, n) /\ Stale(t) = {} /\ KeysOf(t) = KeysOf(s) \cup {k}
<1>1. Table(s, n) /\ n \in Nat /\ DOMAIN s = 0 .. n - 1
      BY TableSize DEF Sound
<1>2. PICK i \in 0 .. n - 1 : s[i] = Empty
  <2>1. Cardinality(Full(s)) + Cardinality(Stale(s)) < n
        BY KeysCounted, FS_EmptySet
  <2>2. QED BY <1>1, <2>1, HasEmpty
<1> DEFINE at == Met(s, k, {Empty})
<1>3. at \in 0 .. n - 1 /\ s[at] = Empty /\ Reaches(s, n, k, at)
  <2>1. Hits(s, k, {Empty}) # {}
        BY <1>1, <1>2, EmptyIsHit
  <2>2. at \in 0 .. n - 1 /\ s[at] \in {Empty} /\ Reaches(s, n, k, at)
        BY <1>1, <2>1, MetIsReached
  <2>3. QED BY <2>2
<1> HIDE DEF at
<1>4. /\ Sound(Written(s, at, k), n) /\ KeysOf(Written(s, at, k)) = KeysOf(s) \cup {k}
      /\ Stale(Written(s, at, k)) = Stale(s) \ {at}
      BY <1>3, Put
<1>5. insert_existing(s, k) = Written(s, at, k)
      BY DEF insert_existing, at, Written
<1>6. QED BY <1>4, <1>5

(* Rehashing keeps the keys of a table and forgets its tombstones.         *)
LEMMA RehashedKeeps ==
    ASSUME SetAssumption, probing \in Policies, NEW n \in SlotCounts, NEW m \in Nat,
           NEW s, DOMAIN s = 0 .. m - 1, Distinct(s), IsFiniteSet(KeysOf(s)),
           Cardinality(KeysOf(s)) < n
    PROVE  LET t == Rehashed(s, n)
           IN  Sound(t, n) /\ Stale(t) = {} /\ KeysOf(t) = KeysOf(s)
<1> DEFINE F == CHOOSE F : Steps(F, s, n, m)
<1>1. Rehashed(s, n) = F[m]
  <2>1. Cardinality(DOMAIN s) = m
        BY FS_Interval
  <2>2. QED BY <2>1 DEF Rehashed, Steps
<1>2. Steps(F, s, n, m)
      BY StepsExist
<1> HIDE DEF F
<1> DEFINE Good(i) == Sound(F[i], n) /\ Stale(F[i]) = {} /\ KeysOf(F[i]) = FirstKeys(s, i)
           Bad     == {i \in 0 .. m : ~Good(i)}
<1>3. FirstKeys(s, m) = KeysOf(s)
      BY DEF FirstKeys, KeysOf, Full
<1>4. SUFFICES ASSUME Bad # {} PROVE FALSE
  <2>1. m \in 0 .. m
        OBVIOUS
  <2>2. QED BY <1>1, <1>3, <2>1
<1>5. PICK i \in Bad : \A x \in Bad : i <= x
  <2>1. Bad \subseteq Nat
        OBVIOUS
  <2> HIDE DEF Bad
  <2>2. QED BY <1>4, <2>1, Least
<1>6. i \in Nat /\ i <= m /\ ~Good(i)
      OBVIOUS
<1>7. i # 0
  <2>1. F[0] = EmptySlots(n)
        BY <1>2 DEF Steps
  <2>2. FirstKeys(s, 0) = {}
        BY DEF FirstKeys
  <2>3. Good(0)
        BY <2>1, <2>2, NewTable
  <2>4. QED BY <1>6, <2>3
<1>8. i - 1 \in 0 .. m - 1 /\ Good(i - 1)
  <2>1. i - 1 \in 0 .. m /\ i - 1 \in 0 .. m - 1 /\ ~(i <= i - 1)
        BY <1>6, <1>7
  <2>2. i - 1 \notin Bad
        BY <1>5, <2>1
  <2>3. QED BY <2>1, <2>2
<1>9. F[i] = IF s[i - 1] \in Keys THEN insert_existing(F[i - 1], s[i - 1]) ELSE F[i - 1]
      BY <1>2, <1>6, <1>7 DEF Steps
<1> DEFINE k == s[i - 1]
<1>10. FirstKeys(s, i) = FirstKeys(s, i - 1) \cup (IF k \in Keys THEN {k} ELSE {})
  <2>1. 0 .. i - 1 = (0 .. (i - 1) - 1) \cup {i - 1}
        BY <1>6, <1>7
  <2>2. QED BY <2>1 DEF FirstKeys
<1>11. CASE k \notin Keys
  <2>1. Good(i)
        BY <1>8, <1>9, <1>10, <1>11
  <2>2. QED BY <1>6, <2>1
<1>12. CASE k \in Keys
  <2>1. k \notin FirstKeys(s, i - 1)
    <3>1. SUFFICES ASSUME NEW x \in 0 .. (i - 1) - 1, s[x] = k PROVE FALSE
          BY DEF FirstKeys
    <3>2. x \in DOMAIN s /\ i - 1 \in DOMAIN s /\ x # i - 1
          BY <1>6, <1>8
    <3>3. QED BY <1>12, <3>1, <3>2 DEF Distinct
  <2>2. Cardinality(KeysOf(F[i - 1])) < n
    <3>1. FirstKeys(s, i - 1) \subseteq KeysOf(s)
          BY <1>6, <1>8 DEF FirstKeys, KeysOf, Full
    <3>2. Cardinality(FirstKeys(s, i - 1)) <= Cardinality(KeysOf(s))
          BY <3>1, FS_Subset
    <3>3. n \in Nat /\ Cardinality(KeysOf(s)) \in Nat /\ Cardinality(FirstKeys(s, i - 1)) \in Nat
          BY <3>1, Counts, FS_Subset, FS_CardinalityType
    <3>4. QED BY <1>8, <3>2, <3>3
  <2> HIDE DEF k
  <2>3. LET t == insert_existing(F[i - 1], k)
        IN  Sound(t, n) /\ Stale(t) = {} /\ KeysOf(t) = KeysOf(F[i - 1]) \cup {k}
        BY <1>8, <1>12, <2>1, <2>2, InsertExisting
  <2>4. F[i] = insert_existing(F[i - 1], k)
        BY <1>9, <1>12 DEF k
  <2>5. Good(i)
        BY <1>8, <1>10, <1>12, <2>3, <2>4
  <2>6. QED BY <1>6, <2>5
<1>13. QED BY <1>11, <1>12

-----------------------------------------------------------------------------
(* Sizes: what is required leaves a slot empty, and there is such a size.  *)
LEMMA Fits ==
    ASSUME SetAssumption, NEW n \in SlotCounts, NEW count \in 0 .. MaxNumber, NEW l \in LoadFactors,
           ~exceeds_load(count, n, l)
    PROVE  count < n
<1> DEFINE f == Float(count)
<1>1. /\ n \in Nat /\ n >= 4 /\ l \in 1 .. 14 /\ count \in Nat
      /\ Precision \in Nat /\ Precision >= 16
      /\ f \in Nat /\ Precision * f >= (Precision - 1) * count
      BY Counts DEF SetAssumption
<1>2. 16 * f <= l * n /\ l * n \in Nat
      BY <1>1 DEF exceeds_load
<1>3. (14 - l) * n >= 0 /\ l * n = 14 * n - (14 - l) * n
      BY <1>1
<1>4. 8 * f <= 7 * n
      BY <1>1, <1>2, <1>3
<1> HIDE DEF f
<1>5. Precision * (7 * n - 8 * f) >= 0
      BY <1>1, <1>4
<1>6. Precision * (8 * f) >= (Precision - 1) * (8 * count)
  <2>1. Precision * (8 * f) = 8 * (Precision * f)
        BY <1>1
  <2>2. (Precision - 1) * (8 * count) = 8 * ((Precision - 1) * count)
        BY <1>1
  <2>3. Precision * f \in Int /\ (Precision - 1) * count \in Int
        BY <1>1
  <2>4. QED BY <1>1, <2>1, <2>2, <2>3
<1>7. ASSUME count >= n PROVE FALSE
  <2>1. (Precision - 1) * (8 * (count - n)) >= 0
        BY <1>1, <1>7
  <2>2. (Precision - 8) * n > 0
        BY <1>1
  <2>3. (Precision - 1) * (8 * n) <= Precision * (7 * n)
    <3>1. (Precision - 1) * (8 * (count - n)) = (Precision - 1) * (8 * count) - (Precision - 1) * (8 * n)
          BY <1>1
    <3>2. Precision * (7 * n - 8 * f) = Precision * (7 * n) - Precision * (8 * f)
          BY <1>1
    <3>3. /\ (Precision - 1) * (8 * count) \in Int /\ (Precision - 1) * (8 * n) \in Int
          /\ Precision * (7 * n) \in Int /\ Precision * (8 * f) \in Int
          BY <1>1
    <3>4. QED BY <1>5, <1>6, <2>1, <3>1, <3>2, <3>3
  <2>4. (Precision - 1) * (8 * n) - Precision * (7 * n) = (Precision - 8) * n
        BY <1>1
  <2>5. QED BY <1>1, <2>2, <2>3, <2>4
<1>8. QED BY <1>1, <1>7

LEMMA Growth ==
    ASSUME SetAssumption, GrowthAssumption
    PROVE  \E big \in SlotCounts :
              /\ \A r \in Requests : r <= big
              /\ \A l \in LoadFactors, count \in 0 .. Cardinality(Keys) + 1 :
                    LET r == required_bucket_count(count, l)
                    IN  /\ r \in SlotCounts /\ r <= big
                        /\ \A n \in SlotCounts : n >= r => count < n
                        /\ \A requested \in Nat : requested <= big =>
                              LET n == next_bucket_count(requested, count, l)
                              IN  n \in SlotCounts /\ n >= r /\ n >= requested
<1>1. PICK big \in SlotCounts : /\ \A l \in LoadFactors : ~exceeds_load(Cardinality(Keys) + 1, big, l)
                               /\ \A r \in Requests : r <= big
      BY DEF GrowthAssumption
<1>2. Cardinality(Keys) \in Nat
      BY FS_CardinalityType DEF SetAssumption
<1>3. SlotCounts \subseteq Nat
      BY Counts
<1>4. SUFFICES ASSUME NEW l \in LoadFactors, NEW count \in 0 .. Cardinality(Keys) + 1
               PROVE  LET r == required_bucket_count(count, l)
                      IN  /\ r \in SlotCounts /\ r <= big
                          /\ \A n \in SlotCounts : n >= r => count < n
                          /\ \A requested \in Nat : requested <= big =>
                                LET n == next_bucket_count(requested, count, l)
                                IN  n \in SlotCounts /\ n >= r /\ n >= requested
      BY <1>1
<1> DEFINE R == {n \in SlotCounts : ~exceeds_load(count, n, l)}
           r == Min(R)
<1>5. count \in Nat /\ l \in Nat /\ big \in Nat
      BY <1>2, <1>3 DEF SetAssumption
<1>6. big \in R
  <2>1. Cardinality(Keys) + 1 \in 0 .. MaxNumber /\ count \in 0 .. Cardinality(Keys) + 1
        BY <1>2 DEF SetAssumption
  <2>2. /\ Float(Cardinality(Keys) + 1) \in Nat /\ Float(count) \in Nat
        /\ Float(count) <= Float(Cardinality(Keys) + 1)
        BY <1>2, <2>1 DEF SetAssumption
  <2>3. 16 * Float(Cardinality(Keys) + 1) <= l * big /\ l * big \in Nat
        BY <1>1, <1>5, <2>2 DEF exceeds_load
  <2>4. QED BY <1>5, <2>2, <2>3 DEF exceeds_load
<1>7. required_bucket_count(count, l) = r
      BY DEF required_bucket_count
<1>8. r \in R /\ r <= big
  <2>1. R \subseteq Nat
        BY <1>3
  <2> HIDE DEF R
  <2>2. QED BY <1>6, <2>1, Least
<1>9. r \in SlotCounts /\ count < r /\ r \in Nat
  <2>1. r \in SlotCounts /\ ~exceeds_load(count, r, l) /\ count \in 0 .. MaxNumber
        BY <1>2, <1>8 DEF SetAssumption
  <2> HIDE DEF r
  <2>2. QED BY <1>3, <1>5, <2>1, Fits
<1> HIDE DEF R, r
<1>10. ASSUME NEW n \in SlotCounts, n >= r PROVE count < n
      BY <1>3, <1>5, <1>9, <1>10
<1>11. ASSUME NEW requested \in Nat, requested <= big
       PROVE  LET n == next_bucket_count(requested, count, l)
              IN  n \in SlotCounts /\ n >= r /\ n >= requested
  <2> DEFINE N == {n \in SlotCounts : n >= requested /\ n >= r}
  <2>1. big \in N
        BY <1>5, <1>8, <1>9, <1>11
  <2>2. N \subseteq Nat
        BY <1>3
  <2>3. Min(N) \in N
    <3> HIDE DEF N
    <3>1. QED BY <2>1, <2>2, Least
  <2>4. next_bucket_count(requested, count, l) = Min(N)
        BY <1>7 DEF next_bucket_count
  <2>5. QED BY <2>3, <2>4
<1>12. QED BY <1>7, <1>8, <1>9, <1>10, <1>11

-----------------------------------------------------------------------------
(* The inductive invariant: there is no table yet, or a sound one with an  *)
(* empty slot beside the keys and the tombstones, and the counters count.  *)
Open(s, n) == Sound(s, n) /\ Cardinality(Full(s)) + Cardinality(Stale(s)) < n

Inv ==
    /\ probing \in Policies /\ load \in LoadFactors
    /\ slots = EmptySlots(0) \/ \E n \in SlotCounts : Open(slots, n)
    /\ size = Cardinality(Full(slots))
    /\ tombstones = Cardinality(Stale(slots))

LEMMA Still ==
    ASSUME probing' = probing
    PROVE  \A s, n : Open(s, n)' <=> Open(s, n)
BY DEF Open, Sound, Table, Reaches, Sequence, probe_index, offset, Full, Stale

LEMMA NoSlots ==
    /\ DOMAIN EmptySlots(0) = {} /\ Cardinality(DOMAIN EmptySlots(0)) = 0
    /\ Full(EmptySlots(0)) = {} /\ KeysOf(EmptySlots(0)) = {} /\ Stale(EmptySlots(0)) = {}
    /\ Cardinality({}) = 0 /\ Distinct(EmptySlots(0))
<1>1. DOMAIN EmptySlots(0) = {}
      BY DEF EmptySlots
<1>2. QED BY <1>1, FS_EmptySet DEF Full, KeysOf, Stale, Distinct

LEMMA Facts ==
    ASSUME SetAssumption, Inv
    PROVE  /\ bucket_count \in Nat /\ DOMAIN slots = 0 .. bucket_count - 1
           /\ Distinct(slots)
           /\ IsFiniteSet(KeysOf(slots)) /\ Cardinality(KeysOf(slots)) = size
           /\ Occupied = Full(slots) /\ Tombstones(slots) = Cardinality(Stale(slots))
           /\ size = Cardinality(Full(slots)) /\ tombstones = Cardinality(Stale(slots))
           /\ size \in Nat /\ tombstones \in Nat
           /\ Cardinality(Keys) \in Nat /\ size \in 0 .. Cardinality(Keys)
           /\ bucket_count = 0 => slots = EmptySlots(0)
           /\ bucket_count # 0 => bucket_count \in SlotCounts /\ Open(slots, bucket_count)
<1>1. Cardinality(Keys) \in Nat
      BY FS_CardinalityType DEF SetAssumption
<1>2. Occupied = Full(slots) /\ Tombstones(slots) = Cardinality(Stale(slots))
      BY DEF Occupied, Full, Tombstones, Stale
<1>3. size = Cardinality(Full(slots)) /\ tombstones = Cardinality(Stale(slots))
      BY DEF Inv
<1>4. CASE slots = EmptySlots(0)
  <2>1. DOMAIN slots = {} /\ bucket_count = 0
        BY <1>4, NoSlots DEF bucket_count
  <2>2. Full(slots) = {} /\ KeysOf(slots) = {} /\ Stale(slots) = {} /\ Distinct(slots)
        BY <1>4, NoSlots
  <2>3. size = 0 /\ tombstones = 0 /\ IsFiniteSet({}) /\ Cardinality({}) = 0
        BY <1>3, <2>2, FS_EmptySet
  <2>4. bucket_count \in Nat /\ DOMAIN slots = 0 .. bucket_count - 1
        BY <2>1
  <2>5. size \in Nat /\ tombstones \in Nat /\ size \in 0 .. Cardinality(Keys)
        BY <1>1, <2>3
  <2>6. IsFiniteSet(KeysOf(slots)) /\ Cardinality(KeysOf(slots)) = size
        BY <2>2, <2>3
  <2>7. QED BY <1>1, <1>2, <1>3, <1>4, <2>1, <2>2, <2>4, <2>5, <2>6, Zenon
<1>5. CASE \E n \in SlotCounts : Open(slots, n)
  <2>1. PICK n \in SlotCounts : Open(slots, n)
        BY <1>5
  <2>2. Sound(slots, n) /\ Table(slots, n)
        BY <2>1 DEF Open, Sound
  <2>3. n \in Nat /\ n >= 4 /\ DOMAIN slots = 0 .. n - 1 /\ bucket_count = n
        BY <2>2, TableSize DEF bucket_count
  <2>4. Distinct(slots)
        BY <2>2, <2>3 DEF Distinct, Sound
  <2>5. /\ IsFiniteSet(KeysOf(slots)) /\ Cardinality(KeysOf(slots)) = Cardinality(Full(slots))
        /\ Cardinality(Full(slots)) \in Nat /\ Cardinality(Full(slots)) <= Cardinality(Keys)
        /\ Cardinality(Stale(slots)) \in Nat
        BY <2>2, KeysCounted
  <2>6. size \in Nat /\ tombstones \in Nat /\ size \in 0 .. Cardinality(Keys)
        BY <1>1, <1>3, <2>5
  <2>7. QED BY <1>1, <1>2, <1>3, <2>1, <2>3, <2>4, <2>5, <2>6
<1>6. QED BY <1>4, <1>5 DEF Inv

(* Rehashing into n slots, which are more than there are keys. *)
LEMMA Rehashing ==
    ASSUME SetAssumption, Inv, NEW n \in SlotCounts, size < n
    PROVE  LET t == Rehashed(slots, n)
           IN  /\ Open(t, n) /\ KeysOf(t) = KeysOf(slots)
               /\ Cardinality(Full(t)) = size /\ Stale(t) = {} /\ Cardinality(Stale(t)) = 0
<1> DEFINE t == Rehashed(slots, n)
<1>1. Sound(t, n) /\ Stale(t) = {} /\ KeysOf(t) = KeysOf(slots)
  <2>1. /\ bucket_count \in Nat /\ DOMAIN slots = 0 .. bucket_count - 1
        /\ Distinct(slots) /\ IsFiniteSet(KeysOf(slots)) /\ Cardinality(KeysOf(slots)) = size
        BY Facts, Zenon
  <2>2. probing \in Policies
        BY DEF Inv
  <2>3. QED BY <2>1, <2>2, RehashedKeeps
<1> HIDE DEF t
<1>2. Cardinality(Full(t)) = size
      BY <1>1, Facts, KeysCounted
<1>3. Cardinality(Stale(t)) = 0
      BY <1>1, FS_EmptySet
<1>4. size \in Nat
      BY Facts
<1>5. Open(t, n)
      BY <1>1, <1>2, <1>3, <1>4 DEF Open
<1>6. QED BY <1>1, <1>2, <1>3, <1>5 DEF t

(* The table an insertion works on has room for one more key. *)
Tombs == IF bucket_count = 0 \/ Crowded THEN 0 ELSE tombstones

LEMMA RoomForOne ==
    ASSUME SetAssumption, GrowthAssumption, Inv
    PROVE  \E n \in SlotCounts :
              /\ Sound(Roomy, n) /\ KeysOf(Roomy) = KeysOf(slots)
              /\ Cardinality(Full(Roomy)) = size /\ Cardinality(Stale(Roomy)) = Tombs
              /\ size + Tombs + 1 < n /\ Tombs \in Nat
<1>1. /\ size \in Nat /\ tombstones \in Nat /\ size \in 0 .. Cardinality(Keys)
      /\ Cardinality(Keys) \in Nat /\ load \in LoadFactors
      BY Facts DEF Inv
<1>2. size \in 0 .. Cardinality(Keys) + 1 /\ size + 1 \in 0 .. Cardinality(Keys) + 1
      BY <1>1
<1>3. PICK big \in SlotCounts :
         \A l \in LoadFactors, count \in 0 .. Cardinality(Keys) + 1 :
            LET r == required_bucket_count(count, l)
            IN  /\ r \in SlotCounts /\ r <= big
                /\ \A n \in SlotCounts : n >= r => count < n
                /\ \A requested \in Nat : requested <= big =>
                      LET n == next_bucket_count(requested, count, l)
                      IN  n \in SlotCounts /\ n >= r /\ n >= requested
      BY Growth
<1>4. big \in Nat /\ big >= min_bucket_count /\ min_bucket_count \in Nat
      BY Counts DEF SetAssumption
<1>5. CASE bucket_count = 0
  <2> DEFINE n == next_bucket_count(min_bucket_count, size, load)
  <2>1. n \in SlotCounts
        BY <1>1, <1>2, <1>3, <1>4
  <2> HIDE DEF n
  <2>2. Roomy = EmptySlots(n) /\ Tombs = 0
        BY <1>5 DEF Roomy, Tombs, n
  <2>3. KeysOf(slots) = {} /\ size = 0
        BY <1>5, Facts, NoSlots
  <2>4. n \in Nat /\ n >= 4
        BY <2>1, Counts
  <2>5. /\ Sound(EmptySlots(n), n) /\ Full(EmptySlots(n)) = {} /\ KeysOf(EmptySlots(n)) = {}
        /\ Stale(EmptySlots(n)) = {} /\ Cardinality({}) = 0
        BY <2>1, NewTable, NoSlots
  <2>6. QED BY <2>1, <2>2, <2>3, <2>4, <2>5
<1>6. CASE bucket_count # 0 /\ Crowded
  <2> DEFINE q == required_bucket_count(size + 1, load)
             n == next_bucket_count(q, size, load)
  <2>1. q \in SlotCounts /\ q <= big /\ \A m \in SlotCounts : m >= q => size + 1 < m
        BY <1>1, <1>2, <1>3
  <2>2. q \in Nat
        BY <2>1, Counts
  <2> HIDE DEF q
  <2>3. n \in SlotCounts
        BY <1>1, <1>2, <1>3, <2>1, <2>2
  <2>4. n >= q
        BY <1>1, <1>2, <1>3, <2>1, <2>2
  <2> HIDE DEF n
  <2>5. size + 1 < n /\ n \in Nat
        BY <2>1, <2>3, <2>4, Counts
  <2>6. Roomy = Rehashed(slots, n) /\ Tombs = 0
        BY <1>6 DEF Roomy, Tombs, n, q
  <2>7. size < n
        BY <1>1, <2>5
  <2>8. LET t == Rehashed(slots, n)
        IN  /\ Open(t, n) /\ KeysOf(t) = KeysOf(slots)
            /\ Cardinality(Full(t)) = size /\ Cardinality(Stale(t)) = 0
        BY <2>3, <2>7, Rehashing
  <2>9. QED BY <1>1, <2>3, <2>5, <2>6, <2>8 DEF Open
<1>7. CASE bucket_count # 0 /\ ~Crowded
  <2>1. Roomy = slots /\ Tombs = tombstones
        BY <1>7 DEF Roomy, Tombs
  <2>2. bucket_count \in SlotCounts /\ Open(slots, bucket_count)
        BY <1>7, Facts
  <2>3. ~exceeds_load(size + tombstones + 1, bucket_count, load)
        BY <1>7 DEF Crowded
  <2>4. size + tombstones + 1 < bucket_count
    <3>1. size + tombstones < bucket_count /\ size \in Nat /\ tombstones \in Nat
          BY <2>2, Facts DEF Open
    <3>2. bucket_count \in Nat /\ bucket_count <= MaxSlots /\ MaxSlots <= MaxNumber
          /\ MaxSlots \in Nat /\ MaxNumber \in Nat
          BY <2>2, Counts DEF SetAssumption
    <3> HIDE DEF bucket_count
    <3>3. size + tombstones + 1 \in 0 .. MaxNumber
          BY <3>1, <3>2
    <3>4. load \in LoadFactors
          BY DEF Inv
    <3>5. QED BY <2>2, <2>3, <3>3, <3>4, Fits
  <2>5. QED BY <1>1, <2>1, <2>2, <2>4, Facts DEF Open
<1>8. QED BY <1>5, <1>6, <1>7

-----------------------------------------------------------------------------
(* What the operations do to the keys.                                     *)
LEMMA InsertSteps ==
    ASSUME SetAssumption, GrowthAssumption, Inv, NEW k \in Keys, Insert(k)
    PROVE  Inv' /\ KeysOf(slots') = KeysOf(slots) \cup {k}
<1>1. PICK n \in SlotCounts :
              /\ Sound(Roomy, n) /\ KeysOf(Roomy) = KeysOf(slots)
              /\ Cardinality(Full(Roomy)) = size /\ Cardinality(Stale(Roomy)) = Tombs
              /\ size + Tombs + 1 < n /\ Tombs \in Nat
      BY RoomForOne
<1> DEFINE at == Target(Roomy, k)
           t  == Written(Roomy, at, k)
<1>2. /\ probing \in Policies /\ load \in LoadFactors /\ probing' = probing /\ load' = load
      /\ size \in Nat
      BY Facts DEF Inv, Insert
<1>3. Table(Roomy, n) /\ n \in Nat
      BY <1>1, TableSize DEF Sound
<1>4. CASE Finds(Roomy, k) /\ slots' = Roomy /\ tombstones' = Tombs /\ size' = size
  <2>1. k \in KeysOf(Roomy)
    <3>1. \E i \in 0 .. n - 1 : Roomy[i] = k /\ Reaches(Roomy, n, k, i)
          BY <1>2, <1>3, <1>4, FindsReached
    <3>2. DOMAIN Roomy = 0 .. n - 1
          BY <1>3, TableSize
    <3>3. QED BY <3>1, <3>2 DEF KeysOf, Full
  <2>2. Open(slots', n)
        BY <1>1, <1>2, <1>3, <1>4 DEF Open
  <2>3. Open(slots, n)'
        BY <1>2, <2>2, Still
  <2>4. Inv'
        BY <1>1, <1>2, <1>4, <2>3 DEF Inv, Full, Stale
  <2>5. QED BY <1>1, <1>4, <2>1, <2>4
<1>5. CASE /\ ~Finds(Roomy, k) /\ slots' = t /\ size' = size + 1
           /\ tombstones' = IF Roomy[at] = Tombstone THEN Tombs - 1 ELSE Tombs
  <2>1. k \notin KeysOf(Roomy)
    <3>1. SUFFICES ASSUME k \in KeysOf(Roomy) PROVE FALSE
          OBVIOUS
    <3>2. PICK i \in 0 .. n - 1 : Roomy[i] = k
          BY <1>3, <3>1, TableSize DEF KeysOf, Full
    <3>3. Reaches(Roomy, n, k, i)
          BY <1>1, <3>2 DEF Sound
    <3>4. QED BY <1>2, <1>3, <1>5, <3>2, <3>3, FindsReached
  <2>2. at \in 0 .. n - 1 /\ Roomy[at] \in {Empty, Tombstone} /\ Reaches(Roomy, n, k, at)
    <3>1. PICK i \in 0 .. n - 1 : Roomy[i] = Empty
          BY <1>1, <1>2, <1>3, HasEmpty
    <3>2. Hits(Roomy, k, {Empty, Tombstone}) # {}
          BY <1>2, <1>3, <3>1, EmptyIsHit
    <3>3. QED BY <1>2, <1>3, <3>2, MetIsReached DEF Target
  <2>3. Roomy[at] = Empty \/ Roomy[at] = Tombstone
        BY <2>2
  <2> HIDE DEF at
  <2>4. /\ Sound(t, n) /\ at \notin Full(Roomy) /\ Full(t) = Full(Roomy) \cup {at}
        /\ KeysOf(t) = KeysOf(Roomy) \cup {k} /\ Stale(t) = Stale(Roomy) \ {at}
        BY <1>1, <1>2, <2>1, <2>2, <2>3, Put
  <2> HIDE DEF t
  <2>5. Cardinality(Full(t)) = size'
    <3>1. IsFiniteSet(Full(Roomy))
          BY <1>1, KeysCounted
    <3>2. Cardinality(Full(t)) = Cardinality(Full(Roomy)) + 1
          BY <2>4, <3>1, FS_AddElement
    <3>3. QED BY <1>1, <1>5, <3>2
  <2>6. Cardinality(Stale(t)) = tombstones' /\ tombstones' <= Tombs /\ tombstones' \in Nat
    <3>1. at \in Stale(Roomy) <=> Roomy[at] = Tombstone
          BY <1>3, <2>2, TableSize DEF Stale
    <3>2. IsFiniteSet(Stale(Roomy)) /\ IsFiniteSet(Stale(t))
          BY <1>1, <2>4, KeysCounted
    <3>3. Cardinality(Stale(t)) = tombstones'
          BY <1>1, <1>5, <2>4, <3>1, <3>2, FS_RemoveElement
    <3>4. Cardinality(Stale(t)) \in Nat
          BY <3>2, FS_CardinalityType
    <3>5. QED BY <1>1, <1>5, <3>3, <3>4
  <2>7. Open(t, n)
        BY <1>1, <1>2, <1>3, <1>5, <2>4, <2>5, <2>6 DEF Open
  <2>8. Open(slots, n)'
        BY <1>2, <1>5, <2>7, Still
  <2>9. Inv'
        BY <1>2, <1>5, <2>5, <2>6, <2>8 DEF Inv, Full, Stale
  <2>10. QED BY <1>1, <1>5, <2>4, <2>9
<1>6. QED BY <1>4, <1>5 DEF Insert, Tombs, Written

LEMMA EraseSteps ==
    ASSUME SetAssumption, Inv, NEW k \in Keys, Erase(k)
    PROVE  Inv' /\ k \in KeysOf(slots) /\ KeysOf(slots') = KeysOf(slots) \ {k}
<1> DEFINE at == Found(k)
           t  == Written(slots, at, Tombstone)
<1>1. /\ probing \in Policies /\ load \in LoadFactors /\ probing' = probing /\ load' = load
      /\ slots' = t /\ size' = size - 1 /\ tombstones' = tombstones + 1 /\ Finds(slots, k)
      BY DEF Inv, Erase, Written
<1>2. /\ size = Cardinality(Full(slots)) /\ tombstones = Cardinality(Stale(slots))
      /\ size \in Nat /\ tombstones \in Nat
      BY Facts
<1>3. bucket_count # 0
  <2>1. SUFFICES ASSUME bucket_count = 0 PROVE FALSE
        OBVIOUS
  <2>2. DOMAIN slots = {}
        BY <2>1, Facts, NoSlots
  <2>3. QED BY <1>1, <2>2 DEF Finds, Hits
<1>4. PICK n \in SlotCounts : Open(slots, n) /\ Sound(slots, n) /\ Table(slots, n)
      BY <1>3, Facts DEF Open, Sound
<1>5. at \in 0 .. n - 1 /\ slots[at] = k
      BY <1>1, <1>4, FindsReached DEF Found
<1>6. n \in Nat
      BY Counts
<1> HIDE DEF at
<1>7. /\ Sound(t, n) /\ at \in Full(slots) /\ Full(t) = Full(slots) \ {at}
      /\ KeysOf(t) = KeysOf(slots) \ {k} /\ at \notin Stale(slots)
      /\ Stale(t) = Stale(slots) \cup {at}
      BY <1>1, <1>4, <1>5, Bury
<1> HIDE DEF t
<1>8. IsFiniteSet(Full(slots)) /\ IsFiniteSet(Stale(slots))
      BY <1>4, KeysCounted
<1>9. Cardinality(Full(t)) = size'
      BY <1>1, <1>2, <1>7, <1>8, FS_RemoveElement, ZenonT(60)
<1>10. Cardinality(Stale(t)) = tombstones'
      BY <1>1, <1>2, <1>7, <1>8, FS_AddElement
<1>11. Open(t, n)
      BY <1>1, <1>2, <1>4, <1>6, <1>7, <1>9, <1>10 DEF Open
<1>12. Open(slots, n)'
      BY <1>1, <1>11, Still
<1>13. Inv'
      BY <1>1, <1>4, <1>9, <1>10, <1>12 DEF Inv, Full, Stale
<1>14. k \in KeysOf(slots)
      BY <1>5, <1>7 DEF KeysOf
<1>15. QED BY <1>1, <1>7, <1>13, <1>14

LEMMA ClearSteps ==
    ASSUME SetAssumption, Inv, Clear
    PROVE  Inv' /\ KeysOf(slots') = {}
<1>1. /\ probing \in Policies /\ load \in LoadFactors /\ probing' = probing /\ load' = load
      /\ slots' = EmptySlots(bucket_count) /\ size' = 0 /\ tombstones' = 0
      BY DEF Inv, Clear
<1>2. CASE bucket_count = 0
  <2>1. slots' = EmptySlots(0)
        BY <1>1, <1>2
  <2>2. Full(slots') = {} /\ Stale(slots') = {} /\ KeysOf(slots') = {} /\ Cardinality({}) = 0
        BY <2>1, NoSlots
  <2>3. Inv'
        BY <1>1, <2>1, <2>2 DEF Inv, Full, Stale, EmptySlots
  <2>4. QED BY <2>2, <2>3
<1>3. CASE bucket_count # 0
  <2>1. PICK n \in SlotCounts : n = bucket_count
        BY <1>3, Facts
  <2>2. slots' = EmptySlots(n) /\ n \in Nat /\ n >= 4
        BY <1>1, <2>1, Counts
  <2>3. /\ Sound(slots', n) /\ Full(slots') = {} /\ Stale(slots') = {} /\ KeysOf(slots') = {}
        /\ Cardinality({}) = 0
        BY <2>2, NewTable, NoSlots
  <2>4. Open(slots', n)
        BY <2>2, <2>3 DEF Open
  <2>5. Open(slots, n)'
        BY <1>1, <2>4, Still
  <2>6. Inv'
        BY <1>1, <2>3, <2>5 DEF Inv, Full, Stale
  <2>7. QED BY <2>3, <2>6
<1>4. QED BY <1>2, <1>3

(* The three that rehash for the load l. *)
LEMMA RehashSteps ==
    ASSUME SetAssumption, GrowthAssumption, Inv, NEW l \in LoadFactors, load' = l,
           probing' = probing, NEW requested \in Nat, RehashExact(requested, size, l),
           \/ requested \in Requests
           \/ \E count \in 0 .. Cardinality(Keys), f \in LoadFactors :
                 requested = required_bucket_count(count, f)
    PROVE  Inv' /\ KeysOf(slots') = KeysOf(slots)
<1> DEFINE n == next_bucket_count(requested, size, l)
<1>1. /\ size \in Nat /\ size \in 0 .. Cardinality(Keys) + 1 /\ Cardinality(Keys) \in Nat
      /\ Occupied = Full(slots) /\ size = Cardinality(Full(slots)) /\ probing \in Policies
  <2>1. /\ size \in Nat /\ size \in 0 .. Cardinality(Keys) /\ Cardinality(Keys) \in Nat
        /\ Occupied = Full(slots) /\ size = Cardinality(Full(slots))
        BY Facts, Zenon
  <2>2. QED BY <2>1 DEF Inv
<1>2. PICK big \in SlotCounts :
         /\ \A r \in Requests : r <= big
         /\ \A f \in LoadFactors, count \in 0 .. Cardinality(Keys) + 1 :
               LET r == required_bucket_count(count, f)
               IN  /\ r \in SlotCounts /\ r <= big
                   /\ \A m \in SlotCounts : m >= r => count < m
                   /\ \A q \in Nat : q <= big =>
                         LET m == next_bucket_count(q, count, f)
                         IN  m \in SlotCounts /\ m >= r /\ m >= q
      BY Growth
<1>3. requested <= big
  <2>1. \A count \in 0 .. Cardinality(Keys) : count \in 0 .. Cardinality(Keys) + 1
        BY <1>1
  <2>2. QED BY <1>2, <2>1
<1>4. n \in SlotCounts /\ size < n
      BY <1>1, <1>2, <1>3
<1>5. slots' = Rehashed(slots, n) /\ size' = size /\ tombstones' = 0
      BY <1>1 DEF RehashExact
<1> HIDE DEF n
<1>6. /\ Open(slots', n) /\ KeysOf(slots') = KeysOf(slots)
      /\ Cardinality(Full(slots')) = size /\ Cardinality(Stale(slots')) = 0
      BY <1>4, <1>5, Rehashing
<1>7. PICK m \in SlotCounts : m = n
      BY <1>4
<1>8. Open(slots, m)'
      BY <1>6, <1>7, Still
<1>9. Inv'
      BY <1>1, <1>5, <1>6, <1>8 DEF Inv, Full, Stale
<1>10. QED BY <1>6, <1>9

(* A step of the set. *)
LEMMA SetSteps ==
    ASSUME SetAssumption, GrowthAssumption, Inv, [Next]_vars
    PROVE  /\ Inv'
           /\ \/ KeysOf(slots') = KeysOf(slots) \/ KeysOf(slots') = {}
              \/ \E k \in Keys : KeysOf(slots') = KeysOf(slots) \cup {k}
              \/ \E k \in KeysOf(slots) : KeysOf(slots') = KeysOf(slots) \ {k}
<1>1. CASE UNCHANGED vars
  <2>1. /\ slots' = slots /\ size' = size /\ tombstones' = tombstones /\ load' = load
        /\ probing' = probing
        BY <1>1 DEF vars
  <2>2. \A n : Open(slots, n)' <=> Open(slots, n)
        BY <2>1, Still
  <2>3. Inv'
        BY <2>1, <2>2 DEF Inv, Full, Stale
  <2>4. QED BY <2>1, <2>3
<1>2. CASE \E k \in Keys : Insert(k)
      BY <1>2, InsertSteps
<1>3. CASE \E k \in Keys : Erase(k)
      BY <1>3, EraseSteps
<1>4. CASE Clear
      BY <1>4, ClearSteps
<1>5. ASSUME NEW r \in Nat, Rehash(r),
             \/ r \in Requests
             \/ \E count \in 0 .. Cardinality(Keys), f \in LoadFactors :
                   r = required_bucket_count(count, f)
      PROVE  Inv' /\ KeysOf(slots') = KeysOf(slots)
  <2>1. /\ RehashExact(r, size, load) /\ load' = load /\ probing' = probing
        /\ load \in LoadFactors
        BY <1>5 DEF Rehash, Inv
  <2>2. PICK l \in LoadFactors : l = load
        BY <2>1
  <2>3. QED BY <1>5, <2>1, <2>2, RehashSteps
<1>6. CASE \E r \in Requests : Rehash(r)
  <2>1. \A r \in Requests : r \in Nat
        BY DEF SetAssumption
  <2>2. QED BY <1>5, <1>6, <2>1
<1>7. \A count \in 0 .. Cardinality(Keys), f \in LoadFactors :
         required_bucket_count(count, f) \in Nat
  <2>1. Cardinality(Keys) \in Nat
        BY Facts
  <2>2. \A count \in 0 .. Cardinality(Keys) : count \in 0 .. Cardinality(Keys) + 1
        BY <2>1
  <2>3. \A n \in SlotCounts : n \in Nat
        BY Counts
  <2>4. QED BY <2>2, <2>3, Growth
<1>8. CASE \E count \in 0 .. Cardinality(Keys) : Reserve(count)
  <2>1. PICK count \in 0 .. Cardinality(Keys) : Rehash(required_bucket_count(count, load))
        BY <1>8 DEF Reserve
  <2>2. load \in LoadFactors
        BY DEF Inv
  <2>3. QED BY <1>5, <1>7, <2>1, <2>2
<1>9. CASE \E l \in LoadFactors : max_load_factor(l)
  <2>1. PICK l \in LoadFactors : max_load_factor(l)
        BY <1>9
  <2>2. load' = l /\ probing' = probing
        BY <2>1 DEF max_load_factor
  <2>3. CASE RehashExact(required_bucket_count(size, l), size, l)
    <3>1. size \in 0 .. Cardinality(Keys)
          BY Facts
    <3>2. required_bucket_count(size, l) \in Nat
          BY <1>7, <3>1
    <3>3. Inv' /\ KeysOf(slots') = KeysOf(slots)
          BY <2>2, <2>3, <3>1, <3>2, RehashSteps
    <3>4. QED BY <3>3
  <2>4. CASE UNCHANGED <<slots, size, tombstones>>
    <3>1. slots' = slots /\ size' = size /\ tombstones' = tombstones
          BY <2>4
    <3>2. \A n : Open(slots, n)' <=> Open(slots, n)
          BY <2>2, <3>1, Still
    <3>3. Inv'
          BY <2>2, <3>1, <3>2 DEF Inv, Full, Stale
    <3>4. QED BY <3>1, <3>3
  <2>5. QED BY <2>1, <2>3, <2>4 DEF max_load_factor
<1>10. QED BY <1>1, <1>2, <1>3, <1>4, <1>6, <1>8, <1>9 DEF Next

-----------------------------------------------------------------------------
LEMMA InitInv ==
    ASSUME SetAssumption, Init
    PROVE  Inv /\ KeysOf(slots) = {}
<1>1. slots = EmptySlots(0) /\ size = 0 /\ tombstones = 0 /\ load \in LoadFactors /\ probing \in Policies
      BY DEF SetAssumption, Init, Policies
<1>2. Full(slots) = {} /\ Stale(slots) = {} /\ KeysOf(slots) = {} /\ Cardinality({}) = 0
      BY <1>1, NoSlots
<1>3. QED BY <1>1, <1>2 DEF Inv

LEMMA Invariant ==
    ASSUME SetAssumption, GrowthAssumption
    PROVE  Spec => []Inv
<1>1. Init => Inv
      BY InitInv
<1>2. Inv /\ [Next]_vars => Inv'
      BY SetSteps
<1>3. QED BY <1>1, <1>2, PTL DEF Spec

LEMMA Consequences ==
    ASSUME SetAssumption, Inv
    PROVE  TypeOK /\ Validates /\ ProbesEnd
<1>1. /\ bucket_count \in Nat /\ DOMAIN slots = 0 .. bucket_count - 1 /\ Distinct(slots)
      /\ Occupied = Full(slots) /\ Tombstones(slots) = Cardinality(Stale(slots))
      /\ size = Cardinality(Full(slots)) /\ tombstones = Cardinality(Stale(slots))
      /\ size \in Nat /\ tombstones \in Nat
      /\ bucket_count = 0 => slots = EmptySlots(0)
      /\ bucket_count # 0 => bucket_count \in SlotCounts /\ Open(slots, bucket_count)
      BY Facts, Zenon
<1>2. probing \in Policies /\ load \in LoadFactors
      BY DEF Inv
<1>3. CASE bucket_count = 0
  <2>1. Full(slots) = {} /\ Stale(slots) = {} /\ DOMAIN slots = {} /\ Cardinality({}) = 0
        BY <1>1, <1>3, NoSlots
  <2>2. size = 0 /\ tombstones = 0 /\ size \in 0 .. bucket_count /\ tombstones \in 0 .. bucket_count
        BY <1>1, <1>3, <2>1
  <2>3. slots \in [0 .. bucket_count - 1 -> Keys \cup {Empty, Tombstone}]
        BY <1>1, <1>3 DEF EmptySlots
  <2>4. TypeOK
        BY <1>2, <1>3, <2>2, <2>3 DEF TypeOK, Policies
  <2>5. Validates
        BY <1>1, <2>1 DEF Validates
  <2>6. QED BY <1>3, <2>4, <2>5 DEF ProbesEnd
<1>4. CASE bucket_count # 0
  <2>1. PICK n \in SlotCounts : n = bucket_count /\ Open(slots, n)
        BY <1>1, <1>4
  <2>2. Sound(slots, n) /\ Table(slots, n) /\ size + tombstones < n /\ n \in Nat
        BY <1>1, <2>1 DEF Open, Sound
  <2>3. TypeOK
    <3>1. slots \in [0 .. bucket_count - 1 -> Keys \cup {Empty, Tombstone}]
          BY <2>1, <2>2 DEF Table
    <3>2. size \in 0 .. bucket_count /\ tombstones \in 0 .. bucket_count
          BY <1>1, <2>1, <2>2
    <3>3. QED BY <1>2, <2>1, <3>1, <3>2 DEF TypeOK, Policies
  <2>4. Validates
    <3>1. ASSUME NEW i \in Occupied PROVE Finds(slots, slots[i])
      <4>1. i \in 0 .. n - 1 /\ slots[i] \in Keys
            BY <1>1, <2>1, <3>1 DEF Full
      <4>2. Reaches(slots, n, slots[i], i)
            BY <2>2, <4>1 DEF Sound
      <4>3. QED BY <1>2, <2>2, <4>1, <4>2, FindsReached
    <3>2. \A i, j \in Occupied : slots[i] = slots[j] => i = j
          BY <1>1 DEF Distinct, Full
    <3>3. QED BY <1>1, <3>1, <3>2 DEF Validates
  <2>5. ProbesEnd
    <3>1. PICK i \in 0 .. n - 1 : slots[i] = Empty
          BY <1>1, <2>2, HasEmpty
    <3>2. ASSUME NEW k \in Keys PROVE Hits(slots, k, {Empty}) # {}
          BY <1>2, <2>2, <3>1, EmptyIsHit
    <3>3. QED BY <3>2 DEF ProbesEnd
  <2>6. QED BY <2>3, <2>4, <2>5
<1>5. QED BY <1>3, <1>4

(* Whatever collides, is erased, rehashed or probed for: every key is      *)
(* found from its hash, past the tombstones of others, once; the counters  *)
(* count; and every probe sequence ends at an empty slot, so that neither  *)
(* a search nor an insertion visits all slots in vain.                     *)
THEOREM SetSafety ==
    ASSUME SetAssumption, GrowthAssumption
    PROVE  Spec => [](TypeOK /\ Validates /\ ProbesEnd)
<1>1. Inv => TypeOK /\ Validates /\ ProbesEnd
      BY Consequences
<1>2. QED BY <1>1, Invariant, PTL

-----------------------------------------------------------------------------
(* For clients: a set of keys. *)
LEMMA Counts1 ==
    ASSUME NEW s, Distinct(s), NEW k \in Keys
    PROVE  Cardinality({i \in Full(s) : s[i] = k}) = IF k \in KeysOf(s) THEN 1 ELSE 0
<1> DEFINE I == {i \in Full(s) : s[i] = k}
<1>1. CASE k \in KeysOf(s)
  <2>1. PICK i \in Full(s) : s[i] = k
        BY <1>1 DEF KeysOf
  <2>2. I = {i}
        BY <2>1 DEF Full, Distinct
  <2>3. Cardinality(I) = 1
        BY <2>2, FS_Singleton
  <2>4. QED BY <1>1, <2>3
<1>2. CASE k \notin KeysOf(s)
  <2>1. I = {}
        BY <1>2 DEF KeysOf
  <2>2. QED BY <1>2, <2>1, FS_EmptySet
<1>3. QED BY <1>1, <1>2

Counting(keys) == [c \in {"set"} |-> [k \in Keys |-> IF k \in keys THEN 1 ELSE 0]]

LEMMA CountedIs ==
    ASSUME SetAssumption, Inv
    PROVE  Counted = Counting(KeysOf(slots))
<1>1. Occupied = Full(slots) /\ Distinct(slots)
      BY Facts
<1>2. ASSUME NEW k \in Keys
      PROVE  Cardinality({i \in Occupied : slots[i] = k}) = IF k \in KeysOf(slots) THEN 1 ELSE 0
      BY <1>1, Counts1
<1>3. QED BY <1>2 DEF Counted, Counting

LEMMA CountedThen ==
    ASSUME SetAssumption, Inv'
    PROVE  Counted' = Counting(KeysOf(slots'))
<1>1. Occupied' = Full(slots')
      BY DEF Occupied, Full
<1>2. Distinct(slots')
  <2>1. CASE slots' = EmptySlots(0)
        BY <2>1, NoSlots
  <2>2. CASE \E n \in SlotCounts : Open(slots, n)'
    <3>1. PICK n \in SlotCounts : Sound(slots, n)'
          BY <2>2 DEF Open
    <3>2. /\ slots' \in [0 .. n - 1 -> Keys \cup {Empty, Tombstone}]
          /\ \A i, j \in 0 .. n - 1 : slots'[i] \in Keys /\ slots'[i] = slots'[j] => i = j
          BY <3>1 DEF Sound, Table
    <3>3. QED BY <3>2 DEF Distinct
  <2>3. QED BY <2>1, <2>2 DEF Inv, EmptySlots
<1>3. ASSUME NEW k \in Keys
      PROVE  Cardinality({i \in Occupied' : slots'[i] = k}) = IF k \in KeysOf(slots') THEN 1 ELSE 0
      BY <1>1, <1>2, Counts1
<1>4. QED BY <1>3 DEF Counted, Counting

LEMMA StepIs ==
    ASSUME SetAssumption, GrowthAssumption, Inv, [Next]_vars
    PROVE  [Container!Next]_(Container!vars)
<1> DEFINE old == KeysOf(slots)
           new == KeysOf(slots')
<1>1. /\ Inv'
      /\ \/ new = old \/ new = {}
         \/ \E k \in Keys : new = old \cup {k}
         \/ \E k \in old : new = old \ {k}
      BY SetSteps
<1>2. Counted = Counting(old) /\ Counted' = Counting(new) /\ Unique' = Unique
      BY <1>1, CountedIs, CountedThen DEF Unique
<1>3. old \subseteq Keys
      BY DEF KeysOf, Full
<1> HIDE DEF old, new
<1>4. \A keys : /\ Counting(keys) \in [{"set"} -> [Keys -> {0, 1}]]
                /\ \A k \in Keys : Counting(keys)["set"][k] = IF k \in keys THEN 1 ELSE 0
      BY DEF Counting
<1>5. CASE new = old
      BY <1>2, <1>5 DEF Container!vars
<1>6. CASE new = {}
  <2>1. Counting({}) = [Counting(old) EXCEPT !["set"] = Container!Nothing]
        BY DEF Counting, Container!Nothing
  <2>2. Container!Clear("set")
        BY <1>2, <1>6, <2>1 DEF Container!Clear
  <2>3. QED BY <2>2 DEF Container!Next
<1>7. ASSUME NEW k \in Keys, new = old \cup {k}, k \notin old
      PROVE  Container!Insert("set", k)
  <2>1. Counting(new) = [Counting(old) EXCEPT !["set"][k] = @ + 1]
    <3>1. Counting(new)["set"] = [Counting(old)["set"] EXCEPT ![k] = @ + 1]
          BY <1>4, <1>7, SMTT(40)
    <3>2. QED BY <1>4, <3>1, SMTT(40)
  <2>2. Counted["set"][k] = 0
        BY <1>2, <1>4, <1>7
  <2>3. QED BY <1>2, <2>1, <2>2 DEF Container!Insert, Container!Admits, Container!Add
<1>8. ASSUME NEW k \in old, new = old \ {k}
      PROVE  Container!EraseOne("set", k)
  <2>1. k \in Keys
        BY <1>3
  <2>2. Counting(new) = [Counting(old) EXCEPT !["set"][k] = @ - 1]
    <3>1. Counting(new)["set"] = [Counting(old)["set"] EXCEPT ![k] = @ - 1]
          BY <1>4, <1>8, <2>1, SMTT(40)
    <3>2. QED BY <1>4, <3>1, SMTT(40)
  <2>3. Counted["set"][k] > 0
        BY <1>2, <1>4, <2>1
  <2>4. QED BY <1>2, <2>2, <2>3 DEF Container!EraseOne, Container!Take
<1>9. CASE \E k \in Keys : new = old \cup {k}
  <2>1. PICK k \in Keys : new = old \cup {k}
        BY <1>9
  <2>2. CASE k \in old
        BY <1>5, <2>1, <2>2
  <2>3. CASE k \notin old
    <3>1. Container!Insert("set", k)
          BY <1>7, <2>1, <2>3
    <3>2. QED BY <3>1 DEF Container!Next
  <2>4. QED BY <2>2, <2>3
<1>10. CASE \E k \in old : new = old \ {k}
  <2>1. PICK k \in old : Container!EraseOne("set", k)
        BY <1>8, <1>10
  <2>2. k \in Keys
        BY <1>3
  <2>3. QED BY <2>1, <2>2 DEF Container!Next
<1>11. QED BY <1>1, <1>5, <1>6, <1>9, <1>10

LEMMA StartIs ==
    ASSUME SetAssumption, Init
    PROVE  Container!Init
<1>1. Inv /\ KeysOf(slots) = {}
      BY InitInv
<1>2. Counted = Counting({})
      BY <1>1, CountedIs
<1>3. Counting({}) = [c \in {"set"} |-> Container!Nothing]
      BY DEF Counting, Container!Nothing
<1>4. Unique \in [{"set"} -> BOOLEAN]
      BY DEF Unique
<1>5. QED BY <1>2, <1>3, <1>4 DEF Container!Init

(* For its clients an open addressing set is a set: an insertion adds its  *)
(* key or finds it, an erasure removes its key, and nothing else, no       *)
(* rehash, tombstone or change of the load factor, shows.                  *)
THEOREM SetIsContainer ==
    ASSUME SetAssumption, GrowthAssumption
    PROVE  Spec => SetSpec
<1>1. Init => Container!Init
      BY StartIs
<1>2. Inv /\ [Next]_vars => [Container!Next]_(Container!vars)
      BY StepIs
<1>3. QED BY <1>1, <1>2, Invariant, PTL DEF Spec, SetSpec, Container!Spec

=============================================================================
