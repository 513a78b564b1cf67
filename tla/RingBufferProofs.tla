-------------------------- MODULE RingBufferProofs --------------------------
(* Theorems about RingBuffer for any number of buffers, every capacity and *)
(* either overflow policy.                                                 *)
EXTENDS RingBuffer, SequenceTheorems, TLAPS

(* The fields of one buffer. *)
Buffers == [data     : UNION {Storage(n) : n \in 0 .. MaxCapacity},
            begin    : 0 .. MaxCapacity,
            size     : 0 .. MaxCapacity,
            capacity : 0 .. MaxCapacity]

(* One buffer is as it should be: counted from begin_, its first size_     *)
(* slots hold elements and the others are raw.                             *)
Sound(rb) ==
    /\ rb \in Buffers
    /\ rb.data \in Storage(rb.capacity)
    /\ rb.size <= rb.capacity
    /\ rb.capacity > 0 => rb.begin < rb.capacity
    /\ \A i \in 0 .. rb.capacity - 1 :
          rb.data[At(rb, i)] \in IF i < rb.size THEN Values ELSE {NoElement}

-----------------------------------------------------------------------------
(* Modulo is one subtraction, or one addition, near the ends. *)
LEMMA Wrap ==
    \A c \in Nat \ {0}, x \in Int :
        /\ 0 <= x /\ x < c => x % c = x
        /\ c <= x /\ x < 2 * c => x % c = x - c
        /\ 0 - c <= x /\ x < 0 => x % c = x + c
OBVIOUS

(* A logical and a physical position name the same slot. *)
LEMMA Positions ==
    ASSUME NEW rb, rb.capacity \in Nat \ {0}, rb.begin \in 0 .. rb.capacity - 1
    PROVE  /\ \A i \in 0 .. rb.capacity - 1 :
                 At(rb, i) = IF rb.begin + i < rb.capacity THEN rb.begin + i
                             ELSE rb.begin + i - rb.capacity
           /\ \A p \in 0 .. rb.capacity - 1 :
                 Logical(rb, p) = IF p < rb.begin THEN p - rb.begin + rb.capacity
                                  ELSE p - rb.begin
           /\ \A i \in 0 .. rb.capacity - 1 :
                 At(rb, i) \in 0 .. rb.capacity - 1 /\ Logical(rb, At(rb, i)) = i
           /\ \A p \in 0 .. rb.capacity - 1 :
                 Logical(rb, p) \in 0 .. rb.capacity - 1 /\ At(rb, Logical(rb, p)) = p
<1> DEFINE c == rb.capacity
           b == rb.begin
<1>1. c \in Nat \ {0} /\ b \in 0 .. c - 1
      OBVIOUS
<1>2. \A i : At(rb, i) = (b + i) % c
      BY DEF At
<1>3. \A p : Logical(rb, p) = (p - b) % c
      BY DEF Logical
<1> HIDE DEF c, b
<1>4. ASSUME NEW i \in 0 .. c - 1
      PROVE  At(rb, i) = IF b + i < c THEN b + i ELSE b + i - c
  <2> DEFINE x == b + i
  <2>1. x \in Int /\ 0 <= x /\ x < 2 * c
        BY <1>1
  <2>2. x % c = IF x < c THEN x ELSE x - c
    <3> HIDE DEF x
    <3>1. CASE x < c
          BY <1>1, <2>1, <3>1, Wrap
    <3>2. CASE x >= c
          BY <1>1, <2>1, <3>2, Wrap
    <3>3. QED BY <1>1, <2>1, <3>1, <3>2
  <2>3. At(rb, i) = x % c
        BY <1>1, <1>2
  <2> HIDE DEF x
  <2>4. At(rb, i) = IF x < c THEN x ELSE x - c
        BY <2>2, <2>3, Zenon
  <2>5. QED BY <1>1, <2>4 DEF x
<1>5. ASSUME NEW p \in 0 .. c - 1
      PROVE  Logical(rb, p) = IF p < b THEN p - b + c ELSE p - b
      BY <1>1, <1>3, Wrap
<1>6. ASSUME NEW i \in 0 .. c - 1
      PROVE  At(rb, i) \in 0 .. c - 1 /\ Logical(rb, At(rb, i)) = i
      BY <1>1, <1>4, <1>5
<1>7. ASSUME NEW p \in 0 .. c - 1
      PROVE  Logical(rb, p) \in 0 .. c - 1 /\ At(rb, Logical(rb, p)) = p
      BY <1>1, <1>4, <1>5
<1>8. QED BY <1>4, <1>5, <1>6, <1>7 DEF c, b

(* Moving begin_ one slot on, or one back, renumbers the positions. *)
LEMMA Turned ==
    ASSUME NEW rb, rb.capacity \in Nat \ {0}, rb.begin \in 0 .. rb.capacity - 1,
           NEW tb, tb.capacity = rb.capacity
    PROVE  /\ Advanced(rb) \in 0 .. rb.capacity - 1 /\ Retreated(rb) \in 0 .. rb.capacity - 1
           /\ tb.begin = Advanced(rb) =>
                 \A i \in 0 .. rb.capacity - 1 :
                    At(tb, i) = IF i = rb.capacity - 1 THEN At(rb, 0) ELSE At(rb, i + 1)
           /\ tb.begin = Retreated(rb) =>
                 \A i \in 0 .. rb.capacity - 1 :
                    At(tb, i) = IF i = 0 THEN At(rb, rb.capacity - 1) ELSE At(rb, i - 1)
<1> DEFINE c == rb.capacity
           b == rb.begin
<1>1. c \in Nat \ {0} /\ b \in 0 .. c - 1
      OBVIOUS
<1>2. \A i \in 0 .. c - 1 : At(rb, i) = IF b + i < c THEN b + i ELSE b + i - c
      BY Positions
<1>3. Advanced(rb) = IF b = c - 1 THEN 0 ELSE b + 1
  <2> DEFINE x == b + 1
  <2>1. x \in Int /\ 0 <= x /\ x <= c
        BY <1>1
  <2>2. x % c = IF x = c THEN 0 ELSE x
    <3> HIDE DEF x
    <3>1. CASE x = c
          BY <1>1, <3>1, Wrap
    <3>2. CASE x < c
          BY <1>1, <2>1, <3>2, Wrap
    <3>3. QED BY <1>1, <2>1, <3>1, <3>2
  <2>3. QED BY <1>1, <2>2 DEF Advanced
<1>4. Retreated(rb) = IF b = 0 THEN c - 1 ELSE b - 1
      BY DEF Retreated
<1>5. ASSUME tb.begin \in 0 .. c - 1, NEW i \in 0 .. c - 1
      PROVE  At(tb, i) = IF tb.begin + i < c THEN tb.begin + i ELSE tb.begin + i - c
      BY <1>1, <1>5, Positions
<1>6. ASSUME tb.begin = Advanced(rb), NEW i \in 0 .. c - 1
      PROVE  At(tb, i) = IF i = c - 1 THEN At(rb, 0) ELSE At(rb, i + 1)
  <2> HIDE DEF c, b
  <2>1. tb.begin \in 0 .. c - 1
        BY <1>1, <1>3, <1>6
  <2>2. At(tb, i) = IF tb.begin + i < c THEN tb.begin + i ELSE tb.begin + i - c
        BY <1>5, <2>1
  <2>3. QED BY <1>1, <1>2, <1>3, <1>6, <2>2
<1>7. ASSUME tb.begin = Retreated(rb), NEW i \in 0 .. c - 1
      PROVE  At(tb, i) = IF i = 0 THEN At(rb, c - 1) ELSE At(rb, i - 1)
  <2> HIDE DEF c, b
  <2>1. tb.begin \in 0 .. c - 1
        BY <1>1, <1>4, <1>7
  <2>2. At(tb, i) = IF tb.begin + i < c THEN tb.begin + i ELSE tb.begin + i - c
        BY <1>5, <2>1
  <2>3. QED BY <1>1, <1>2, <1>4, <1>7, <2>2
<1>8. Advanced(rb) \in 0 .. c - 1 /\ Retreated(rb) \in 0 .. c - 1
      BY <1>1, <1>3, <1>4
<1>9. QED BY <1>6, <1>7, <1>8

-----------------------------------------------------------------------------
(* Soundness in terms of the window is what the run checks as Lifetimes. *)
LEMMA SoundLifetimes ==
    ASSUME NEW rb, Sound(rb)
    PROVE  \A p \in DOMAIN rb.data :
              rb.data[p] \in IF InWindow(rb, p) THEN Values ELSE {NoElement}
<1>1. rb.capacity \in Nat /\ DOMAIN rb.data = 0 .. rb.capacity - 1 /\ rb.begin \in Nat
      BY DEF Sound, Buffers, Storage
<1>2. ASSUME NEW p \in DOMAIN rb.data
      PROVE  rb.data[p] \in IF InWindow(rb, p) THEN Values ELSE {NoElement}
  <2>1. rb.capacity \in Nat \ {0} /\ rb.begin \in 0 .. rb.capacity - 1
        BY <1>1 DEF Sound
  <2>2. Logical(rb, p) \in 0 .. rb.capacity - 1 /\ At(rb, Logical(rb, p)) = p
        BY <1>1, <2>1, Positions
  <2>3. rb.data[At(rb, Logical(rb, p))] \in IF Logical(rb, p) < rb.size THEN Values ELSE {NoElement}
        BY <2>2 DEF Sound
  <2>4. QED BY <2>2, <2>3 DEF InWindow
<1>3. QED BY <1>2

(* The contents are the sequence whose elements the first slots hold. *)
LEMMA ContentsOf ==
    ASSUME NEW rb, Sound(rb)
    PROVE  /\ Contents(rb) \in Seq(Values) /\ Len(Contents(rb)) = rb.size
           /\ rb.size \in Nat
           /\ \A i \in 1 .. rb.size : Contents(rb)[i] = rb.data[At(rb, i - 1)]
<1>1. rb.size \in Nat /\ rb.capacity \in Nat /\ rb.size <= rb.capacity
      BY DEF Sound, Buffers
<1>2. \A i \in 1 .. rb.size : rb.data[At(rb, i - 1)] \in Values
  <2>1. ASSUME NEW i \in 1 .. rb.size PROVE rb.data[At(rb, i - 1)] \in Values
    <3>1. i - 1 \in 0 .. rb.capacity - 1 /\ i - 1 < rb.size
          BY <1>1
    <3>2. rb.data[At(rb, i - 1)] \in IF i - 1 < rb.size THEN Values ELSE {NoElement}
          BY <3>1 DEF Sound
    <3>3. QED BY <3>1, <3>2
  <2>2. QED BY <2>1
<1>3. QED BY <1>1, <1>2 DEF Contents

LEMMA ContentsAre ==
    ASSUME NEW rb, Sound(rb), NEW s \in Seq(Values), Len(s) = rb.size,
           \A i \in 1 .. rb.size : rb.data[At(rb, i - 1)] = s[i]
    PROVE  Contents(rb) = s
<1>1. /\ Contents(rb) \in Seq(Values) /\ Len(Contents(rb)) = Len(s)
      /\ \A i \in 1 .. Len(s) : Contents(rb)[i] = s[i]
      BY ContentsOf
<1>2. QED BY <1>1, SeqEqual

(* A buffer whose slots, counted from begin_, hold the sequence s, is sound *)
(* and has the contents s; and a sound one holds its contents so.          *)
LEMMA SoundContents ==
    ASSUME NEW tb \in Buffers, tb.data \in Storage(tb.capacity), tb.size <= tb.capacity,
           tb.capacity > 0 => tb.begin < tb.capacity,
           NEW s \in Seq(Values), Len(s) = tb.size,
           \A i \in 0 .. tb.capacity - 1 :
              tb.data[At(tb, i)] = IF i < tb.size THEN s[i + 1] ELSE NoElement
    PROVE  Sound(tb) /\ Contents(tb) = s
<1>1. tb.size \in Nat /\ tb.capacity \in Nat
      BY DEF Buffers
<1>2. \A i \in 1 .. tb.size : s[i] \in Values
      BY ElementOfSeq
<1>3. ASSUME NEW i \in 0 .. tb.capacity - 1
      PROVE  tb.data[At(tb, i)] \in IF i < tb.size THEN Values ELSE {NoElement}
  <2>1. CASE i < tb.size
    <3>1. i + 1 \in 1 .. tb.size
          BY <1>1, <2>1
    <3>2. QED BY <1>2, <2>1, <3>1
  <2>2. CASE ~ (i < tb.size)
        BY <2>2
  <2>3. QED BY <2>1, <2>2
<1>4. Sound(tb)
      BY <1>3 DEF Sound
<1>5. ASSUME NEW i \in 1 .. tb.size PROVE tb.data[At(tb, i - 1)] = s[i]
  <2>1. i - 1 \in 0 .. tb.capacity - 1 /\ i - 1 < tb.size /\ (i - 1) + 1 = i
        BY <1>1
  <2>2. tb.data[At(tb, i - 1)] = s[(i - 1) + 1]
        BY <2>1
  <2>3. QED BY <2>1, <2>2
<1>6. QED BY <1>4, <1>5, ContentsAre

LEMMA SlotsOf ==
    ASSUME NEW rb, Sound(rb)
    PROVE  /\ rb \in Buffers /\ rb.data \in Storage(rb.capacity)
           /\ rb.capacity \in Nat /\ rb.size \in 0 .. rb.capacity
           /\ rb.capacity \in 0 .. MaxCapacity /\ rb.begin \in 0 .. MaxCapacity
           /\ rb.capacity > 0 => rb.begin \in 0 .. rb.capacity - 1
           /\ \A i \in 0 .. rb.capacity - 1 :
                 rb.data[At(rb, i)] = IF i < rb.size THEN Contents(rb)[i + 1] ELSE NoElement
<1>1. /\ rb \in Buffers /\ rb.data \in Storage(rb.capacity) /\ rb.size <= rb.capacity
      /\ rb.capacity > 0 => rb.begin < rb.capacity
      BY DEF Sound
<1>2. /\ rb.capacity \in Nat /\ rb.size \in Nat /\ rb.begin \in Nat
      /\ rb.capacity \in 0 .. MaxCapacity /\ rb.begin \in 0 .. MaxCapacity
      BY <1>1 DEF Buffers
<1>3. ASSUME NEW i \in 0 .. rb.capacity - 1
      PROVE  rb.data[At(rb, i)] = IF i < rb.size THEN Contents(rb)[i + 1] ELSE NoElement
  <2>1. CASE i < rb.size
    <3>1. i + 1 \in 1 .. rb.size /\ (i + 1) - 1 = i
          BY <1>2, <2>1
    <3>2. Contents(rb)[i + 1] = rb.data[At(rb, (i + 1) - 1)]
          BY <3>1, ContentsOf
    <3>3. QED BY <2>1, <3>1, <3>2
  <2>2. CASE ~ (i < rb.size)
        BY <2>2 DEF Sound
  <2>3. QED BY <2>1, <2>2
<1>4. QED BY <1>1, <1>2, <1>3

(* Writing one slot leaves the others. *)
LEMMA PutSlot ==
    ASSUME NEW rb \in Buffers, rb.data \in Storage(rb.capacity),
           rb.capacity > 0, rb.begin < rb.capacity,
           NEW i \in 0 .. rb.capacity - 1, NEW v \in Values
    PROVE  LET tb == Put(rb, i, v)
           IN  /\ tb \in Buffers /\ tb.data \in Storage(rb.capacity)
               /\ tb.begin = rb.begin /\ tb.size = rb.size /\ tb.capacity = rb.capacity
               /\ \A j \in 0 .. rb.capacity - 1 :
                     tb.data[At(rb, j)] = IF j = i THEN v ELSE rb.data[At(rb, j)]
<1> DEFINE p == At(rb, i)
           d == [rb.data EXCEPT ![p] = v]
           tb == Put(rb, i, v)
<1>1. rb.capacity \in Nat \ {0} /\ rb.begin \in 0 .. rb.capacity - 1 /\ rb.capacity \in 0 .. MaxCapacity
      BY DEF Buffers
<1>2. p \in 0 .. rb.capacity - 1 /\ Logical(rb, p) = i
      BY <1>1, Positions
<1>3. \A j \in 0 .. rb.capacity - 1 : At(rb, j) \in 0 .. rb.capacity - 1 /\ (At(rb, j) = p => j = i)
      BY <1>1, <1>2, Positions
<1>4. tb = [rb EXCEPT !.data = d]
      BY DEF Put
<1>5. d \in Storage(rb.capacity)
      BY <1>2 DEF Storage
<1>6. \A j \in 0 .. rb.capacity - 1 : d[At(rb, j)] = IF j = i THEN v ELSE rb.data[At(rb, j)]
      BY <1>2, <1>3 DEF Storage
<1>7. d \in UNION {Storage(n) : n \in 0 .. MaxCapacity}
      BY <1>1, <1>5
<1> HIDE DEF d, tb
<1>8. /\ tb \in Buffers /\ tb.data = d
      /\ tb.begin = rb.begin /\ tb.size = rb.size /\ tb.capacity = rb.capacity
      BY <1>4, <1>7 DEF Buffers
<1>9. QED BY <1>5, <1>6, <1>8 DEF tb

LEMMA SameSlots ==
    ASSUME NEW rb, NEW tb, tb.begin = rb.begin, tb.capacity = rb.capacity
    PROVE  /\ \A i : At(tb, i) = At(rb, i)
           /\ \A p : Logical(tb, p) = Logical(rb, p)
BY DEF At, Logical

-----------------------------------------------------------------------------
(* The elements of the sequences that the operations make. *)
LEMMA Joined ==
    ASSUME NEW S, NEW p \in Seq(S), NEW q \in Seq(S)
    PROVE  /\ p \o q \in Seq(S) /\ Len(p \o q) = Len(p) + Len(q)
           /\ \A i \in 1 .. Len(p) + Len(q) :
                 (p \o q)[i] = IF i <= Len(p) THEN p[i] ELSE q[i - Len(p)]
<1>1. \A u, w \in Seq(S) :
         /\ u \o w \in Seq(S) /\ Len(u \o w) = Len(u) + Len(w)
         /\ \A i \in 1 .. Len(u) + Len(w) :
               (u \o w)[i] = IF i <= Len(u) THEN u[i] ELSE w[i - Len(u)]
      BY ConcatProperties, Zenon
<1>2. QED BY <1>1, Zenon

LEMMA Part ==
    ASSUME NEW S, NEW s \in Seq(S), NEW m \in 1 .. Len(s) + 1, NEW n \in m - 1 .. Len(s)
    PROVE  /\ SubSeq(s, m, n) \in Seq(S) /\ Len(SubSeq(s, m, n)) = n - m + 1
           /\ \A i \in 1 .. n - m + 1 : SubSeq(s, m, n)[i] = s[m + i - 1]
BY SubSeqProperties, ElementOfSeq

LEMMA Consed ==
    ASSUME NEW S, NEW s \in Seq(S), NEW v \in S
    PROVE  /\ Cons(v, s) \in Seq(S) /\ Len(Cons(v, s)) = Len(s) + 1
           /\ \A i \in 1 .. Len(s) + 1 : Cons(v, s)[i] = IF i = 1 THEN v ELSE s[i - 1]
<1> DEFINE h == <<v>>
           t == h \o s
<1>1. h \in Seq(S) /\ Len(h) = 1 /\ h[1] = v /\ Len(s) \in Nat
      OBVIOUS
<1>2. Cons(v, s) = t
      BY DEF Cons
<1> HIDE DEF h
<1>3. /\ t \in Seq(S) /\ Len(t) = Len(h) + Len(s)
      /\ \A i \in 1 .. Len(h) + Len(s) : t[i] = IF i <= Len(h) THEN h[i] ELSE s[i - Len(h)]
      BY <1>1, Joined
<1> HIDE DEF t
<1>4. QED BY <1>1, <1>2, <1>3

LEMMA ConsedFront ==
    ASSUME NEW S, NEW s \in Seq(S), Len(s) > 0, NEW v \in S
    PROVE  /\ Cons(v, Front(s)) \in Seq(S) /\ Len(Cons(v, Front(s))) = Len(s)
           /\ \A i \in 1 .. Len(s) : Cons(v, Front(s))[i] = IF i = 1 THEN v ELSE s[i - 1]
<1> DEFINE f == SubSeq(s, 1, Len(s) - 1)
           t == Cons(v, f)
<1>1. Len(s) \in Nat /\ Front(s) = f
      BY DEF Front
<1>2. /\ f \in Seq(S) /\ Len(f) = Len(s) - 1
      /\ \A i \in 1 .. Len(s) - 1 : f[i] = s[i]
  <2>1. 1 \in 1 .. Len(s) + 1 /\ Len(s) - 1 \in 1 - 1 .. Len(s)
        BY <1>1
  <2>2. /\ f \in Seq(S) /\ Len(f) = (Len(s) - 1) - 1 + 1
        /\ \A i \in 1 .. (Len(s) - 1) - 1 + 1 : f[i] = s[1 + i - 1]
        BY <2>1, Part
  <2> HIDE DEF f
  <2>3. (Len(s) - 1) - 1 + 1 = Len(s) - 1 /\ \A i \in 1 .. Len(s) - 1 : 1 + i - 1 = i
        BY <1>1
  <2>4. \A i \in 1 .. Len(s) - 1 : f[i] = s[i]
        BY <2>2, <2>3
  <2>5. QED BY <2>2, <2>3, <2>4
<1> HIDE DEF f
<1>3. /\ t \in Seq(S) /\ Len(t) = Len(f) + 1
      /\ \A i \in 1 .. Len(f) + 1 : t[i] = IF i = 1 THEN v ELSE f[i - 1]
      BY <1>2, Consed, ZenonT(120)
<1> HIDE DEF t
<1>4. ASSUME NEW i \in 1 .. Len(s) PROVE t[i] = IF i = 1 THEN v ELSE s[i - 1]
      BY <1>1, <1>2, <1>3
<1>5. QED BY <1>1, <1>2, <1>3, <1>4 DEF t

LEMMA Inserted ==
    ASSUME NEW S
    PROVE  \A s \in Seq(S), v \in S : \A k \in 1 .. Len(s) + 1 :
              /\ InsertAt(s, k, v) \in Seq(S) /\ Len(InsertAt(s, k, v)) = Len(s) + 1
              /\ \A i \in 1 .. Len(s) + 1 :
                    InsertAt(s, k, v)[i] = IF i < k THEN s[i] ELSE IF i = k THEN v ELSE s[i - 1]
<1> TAKE s \in Seq(S), v \in S
<1> TAKE k \in 1 .. Len(s) + 1
<1> DEFINE a == SubSeq(s, 1, k - 1)
           h == <<v>>
           b == SubSeq(s, k, Len(s))
           u == a \o h
           t == u \o b
<1>1. Len(s) \in Nat /\ h \in Seq(S) /\ Len(h) = 1 /\ h[1] = v
      OBVIOUS
<1>2. /\ a \in Seq(S) /\ Len(a) = k - 1 /\ \A i \in 1 .. k - 1 : a[i] = s[i]
  <2>1. 1 \in 1 .. Len(s) + 1 /\ k - 1 \in 1 - 1 .. Len(s)
        BY <1>1
  <2>2. /\ a \in Seq(S) /\ Len(a) = (k - 1) - 1 + 1
        /\ \A i \in 1 .. (k - 1) - 1 + 1 : a[i] = s[1 + i - 1]
        BY <2>1, Part
  <2> HIDE DEF a
  <2>3. (k - 1) - 1 + 1 = k - 1 /\ \A i \in 1 .. k - 1 : 1 + i - 1 = i
        BY <1>1
  <2>4. \A i \in 1 .. k - 1 : a[i] = s[i]
        BY <2>2, <2>3
  <2>5. QED BY <2>2, <2>3, <2>4
<1>3. /\ b \in Seq(S) /\ Len(b) = Len(s) - k + 1
      /\ \A i \in 1 .. Len(s) - k + 1 : b[i] = s[k + i - 1]
  <2>1. Len(s) \in k - 1 .. Len(s)
        BY <1>1
  <2>2. QED BY <2>1, Part
<1> HIDE DEF a, b, h
<1>4. /\ u \in Seq(S) /\ Len(u) = Len(a) + Len(h)
      /\ \A i \in 1 .. Len(a) + Len(h) : u[i] = IF i <= Len(a) THEN a[i] ELSE h[i - Len(a)]
      BY <1>1, <1>2, Joined
<1> HIDE DEF u
<1>5. /\ t \in Seq(S) /\ Len(t) = Len(u) + Len(b)
      /\ \A i \in 1 .. Len(u) + Len(b) : t[i] = IF i <= Len(u) THEN u[i] ELSE b[i - Len(u)]
  <2>1. u \in Seq(S)
        BY <1>4
  <2>2. b \in Seq(S)
        BY <1>3
  <2>3. QED BY <2>1, <2>2, Joined
<1>6. InsertAt(s, k, v) = t
      BY DEF InsertAt, t, u, a, b, h
<1> HIDE DEF t
<1>7. Len(u) = k /\ \A i \in 1 .. k : u[i] = IF i < k THEN s[i] ELSE v
      BY <1>1, <1>2, <1>4
<1>8. ASSUME NEW i \in 1 .. Len(s) + 1
      PROVE  t[i] = IF i < k THEN s[i] ELSE IF i = k THEN v ELSE s[i - 1]
  <2>1. CASE i <= k
        BY <1>1, <1>3, <1>5, <1>7, <2>1
  <2>2. CASE i > k
    <3>1. t[i] = b[i - k]
          BY <1>1, <1>3, <1>5, <1>7, <2>2
    <3>2. i - k \in 1 .. Len(s) - k + 1 /\ k + (i - k) - 1 = i - 1
          BY <1>1, <2>2
    <3>3. QED BY <1>3, <2>2, <3>1, <3>2
  <2>3. QED BY <2>1, <2>2
<1>9. QED BY <1>1, <1>3, <1>5, <1>6, <1>7, <1>8

LEMMA Removed ==
    ASSUME NEW S, NEW s \in Seq(S), NEW f \in 1 .. Len(s) + 1, NEW l \in f .. Len(s) + 1
    PROVE  LET t == SubSeq(s, 1, f - 1) \o SubSeq(s, l, Len(s))
           IN  /\ t \in Seq(S) /\ Len(t) = Len(s) - (l - f)
               /\ \A i \in 1 .. Len(s) - (l - f) :
                     t[i] = IF i < f THEN s[i] ELSE s[i + (l - f)]
<1> DEFINE a == SubSeq(s, 1, f - 1)
           b == SubSeq(s, l, Len(s))
           t == a \o b
<1>1. Len(s) \in Nat
      OBVIOUS
<1>2. /\ a \in Seq(S) /\ Len(a) = f - 1 /\ \A i \in 1 .. f - 1 : a[i] = s[i]
  <2>1. 1 \in 1 .. Len(s) + 1 /\ f - 1 \in 1 - 1 .. Len(s)
        BY <1>1
  <2>2. /\ a \in Seq(S) /\ Len(a) = (f - 1) - 1 + 1
        /\ \A i \in 1 .. (f - 1) - 1 + 1 : a[i] = s[1 + i - 1]
        BY <2>1, Part
  <2> HIDE DEF a
  <2>3. (f - 1) - 1 + 1 = f - 1 /\ \A i \in 1 .. f - 1 : 1 + i - 1 = i
        BY <1>1
  <2>4. \A i \in 1 .. f - 1 : a[i] = s[i]
        BY <2>2, <2>3
  <2>5. QED BY <2>2, <2>3, <2>4
<1>3. /\ b \in Seq(S) /\ Len(b) = Len(s) - l + 1
      /\ \A i \in 1 .. Len(s) - l + 1 : b[i] = s[l + i - 1]
  <2>1. l \in 1 .. Len(s) + 1 /\ Len(s) \in l - 1 .. Len(s)
        BY <1>1
  <2>2. QED BY <2>1, Part
<1> HIDE DEF a, b
<1>4. /\ t \in Seq(S) /\ Len(t) = Len(a) + Len(b)
      /\ \A i \in 1 .. Len(a) + Len(b) : t[i] = IF i <= Len(a) THEN a[i] ELSE b[i - Len(a)]
      BY <1>2, <1>3, Joined
<1> HIDE DEF t
<1>5. ASSUME NEW i \in 1 .. Len(s) - (l - f)
      PROVE  t[i] = IF i < f THEN s[i] ELSE s[i + (l - f)]
  <2>1. CASE i < f
    <3>1. i \in 1 .. Len(a) + Len(b) /\ i <= Len(a) /\ i \in 1 .. f - 1
          BY <1>1, <1>2, <1>3, <2>1
    <3>2. t[i] = a[i]
          BY <1>4, <3>1
    <3>3. QED BY <1>2, <2>1, <3>1, <3>2
  <2>2. CASE i >= f
    <3>1. i \in 1 .. Len(a) + Len(b) /\ ~ (i <= Len(a)) /\ Len(a) = f - 1
          BY <1>1, <1>2, <1>3, <2>2
    <3>2. t[i] = b[i - (f - 1)]
          BY <1>4, <3>1
    <3>3. i - (f - 1) \in 1 .. Len(s) - l + 1 /\ l + (i - (f - 1)) - 1 = i + (l - f)
          BY <1>1, <2>2
    <3>4. QED BY <1>3, <2>2, <3>2, <3>3
  <2>3. i \in Nat
        BY <1>1
  <2>4. QED BY <2>1, <2>2, <2>3
<1>6. t \in Seq(S) /\ Len(t) = Len(s) - (l - f)
      BY <1>1, <1>2, <1>3, <1>4
<1>7. QED BY <1>5, <1>6 DEF t, a, b

-----------------------------------------------------------------------------
(* Each modification of one buffer: it stays sound, keeps its capacity     *)
(* where it should, and its contents become those of a bounded sequence.   *)
LEMMA PushedBack ==
    ASSUME RingAssumption, NEW rb, Sound(rb), rb.size < rb.capacity, NEW v \in Values
    PROVE  LET tb == [Put(rb, rb.size, v) EXCEPT !.size = @ + 1]
           IN  /\ Sound(tb) /\ tb.capacity = rb.capacity
               /\ Contents(tb) = Append(Contents(rb), v)
<1> DEFINE n  == rb.size
           c  == rb.capacity
           s  == Contents(rb)
           wb == Put(rb, n, v)
           tb == [wb EXCEPT !.size = @ + 1]
           t  == Append(s, v)
<1>1. /\ rb \in Buffers /\ rb.data \in Storage(c) /\ c \in Nat \ {0} /\ n \in 0 .. c - 1
      /\ c \in 0 .. MaxCapacity /\ rb.begin \in 0 .. c - 1
      /\ \A i \in 0 .. c - 1 : rb.data[At(rb, i)] = IF i < n THEN s[i + 1] ELSE NoElement
      BY SlotsOf
<1>2. /\ wb \in Buffers /\ wb.data \in Storage(c)
      /\ wb.begin = rb.begin /\ wb.size = n /\ wb.capacity = c
      /\ \A j \in 0 .. c - 1 : wb.data[At(rb, j)] = IF j = n THEN v ELSE rb.data[At(rb, j)]
      BY <1>1, PutSlot
<1>3. s \in Seq(Values) /\ Len(s) = n
      BY ContentsOf
<1> HIDE DEF s, wb, n, c
<1>4. /\ t \in Seq(Values) /\ Len(t) = n + 1
      /\ \A i \in 1 .. n + 1 : t[i] = IF i = n + 1 THEN v ELSE s[i]
      BY <1>1, <1>3
<1>5. /\ tb \in Buffers /\ tb.data = wb.data
      /\ tb.begin = rb.begin /\ tb.size = n + 1 /\ tb.capacity = c
  <2>1. n + 1 \in 0 .. MaxCapacity /\ wb.size + 1 = n + 1
        BY <1>1, <1>2 DEF RingAssumption
  <2>2. tb = [wb EXCEPT !.size = n + 1]
        BY <2>1
  <2> HIDE DEF tb
  <2>3. QED BY <1>2, <2>1, <2>2 DEF Buffers
<1> HIDE DEF tb, t
<1>6. \A i : At(tb, i) = At(rb, i)
      BY <1>5, SameSlots DEF c
<1>7. ASSUME NEW i \in 0 .. c - 1
      PROVE  tb.data[At(tb, i)] = IF i < n + 1 THEN t[i + 1] ELSE NoElement
      BY <1>1, <1>2, <1>4, <1>5, <1>6
<1>8. Sound(tb) /\ Contents(tb) = t
  <2>1. /\ tb.data \in Storage(tb.capacity) /\ tb.size <= tb.capacity
        /\ tb.capacity > 0 => tb.begin < tb.capacity
        /\ Len(t) = tb.size
        /\ \A i \in 0 .. tb.capacity - 1 :
              tb.data[At(tb, i)] = IF i < tb.size THEN t[i + 1] ELSE NoElement
        BY <1>1, <1>2, <1>4, <1>5, <1>7
  <2>2. QED BY <1>4, <1>5, <2>1, SoundContents
<1>9. QED BY <1>5, <1>8 DEF tb, t, wb, s, n, c

LEMMA PushedBackFull ==
    ASSUME RingAssumption, NEW rb, Sound(rb), rb.size = rb.capacity, rb.capacity # 0, NEW v \in Values
    PROVE  LET tb == [Put(rb, 0, v) EXCEPT !.begin = Advanced(rb)]
           IN  /\ Sound(tb) /\ tb.capacity = rb.capacity
               /\ Contents(tb) = Append(Tail(Contents(rb)), v)
<1> DEFINE c  == rb.capacity
           s  == Contents(rb)
           wb == Put(rb, 0, v)
           tb == [wb EXCEPT !.begin = Advanced(rb)]
           t  == Append(Tail(s), v)
<1>1. /\ rb \in Buffers /\ rb.data \in Storage(c) /\ c \in Nat \ {0} /\ rb.size = c
      /\ c \in 0 .. MaxCapacity /\ rb.begin \in 0 .. c - 1
      /\ \A i \in 0 .. c - 1 : rb.data[At(rb, i)] = s[i + 1]
  <2>1. rb.size = c
        OBVIOUS
  <2>2. QED BY <2>1, SlotsOf
<1>2. /\ wb \in Buffers /\ wb.data \in Storage(c)
      /\ wb.begin = rb.begin /\ wb.size = c /\ wb.capacity = c
      /\ \A j \in 0 .. c - 1 : wb.data[At(rb, j)] = IF j = 0 THEN v ELSE rb.data[At(rb, j)]
      BY <1>1, PutSlot
<1>3. s \in Seq(Values) /\ Len(s) = c
      BY ContentsOf
<1>4. Advanced(rb) \in 0 .. c - 1
      BY <1>1, Turned
<1> HIDE DEF s, wb, c
<1>5. /\ t \in Seq(Values) /\ Len(t) = c
      /\ \A i \in 1 .. c : t[i] = IF i = c THEN v ELSE s[i + 1]
  <2>1. /\ Tail(s) \in Seq(Values) /\ Len(Tail(s)) = c - 1
        /\ \A i \in 1 .. c - 1 : Tail(s)[i] = s[i + 1]
        BY <1>1, <1>3
  <2> DEFINE u == Tail(s)
  <2> HIDE DEF u
  <2>2. QED BY <1>1, <2>1 DEF u
<1>6. /\ tb \in Buffers /\ tb.data = wb.data
      /\ tb.begin = Advanced(rb) /\ tb.size = c /\ tb.capacity = c
  <2>1. Advanced(rb) \in 0 .. MaxCapacity
        BY <1>1, <1>4 DEF RingAssumption
  <2>2. QED BY <1>2, <2>1 DEF Buffers
<1> HIDE DEF tb, t
<1>7. \A i \in 0 .. c - 1 : At(tb, i) = IF i = c - 1 THEN At(rb, 0) ELSE At(rb, i + 1)
      BY <1>1, <1>6, Turned DEF c
<1>8. ASSUME NEW i \in 0 .. c - 1
      PROVE  tb.data[At(tb, i)] = t[i + 1]
  <2>1. CASE i = c - 1
        BY <1>1, <1>2, <1>5, <1>6, <1>7, <2>1
  <2>2. CASE i # c - 1
    <3>1. i + 1 \in 0 .. c - 1 /\ i + 1 # 0
          BY <1>1, <2>2
    <3>2. wb.data[At(rb, i + 1)] = s[(i + 1) + 1]
          BY <1>1, <1>2, <3>1
    <3>3. t[i + 1] = s[(i + 1) + 1]
          BY <1>1, <1>5, <2>2
    <3>4. QED BY <1>6, <1>7, <2>2, <3>2, <3>3
  <2>3. QED BY <2>1, <2>2
<1>9. Sound(tb) /\ Contents(tb) = t
  <2>1. /\ tb.data \in Storage(tb.capacity) /\ tb.size <= tb.capacity
        /\ tb.capacity > 0 => tb.begin < tb.capacity
        /\ Len(t) = tb.size
        /\ \A i \in 0 .. tb.capacity - 1 :
              tb.data[At(tb, i)] = IF i < tb.size THEN t[i + 1] ELSE NoElement
        BY <1>1, <1>2, <1>4, <1>5, <1>6, <1>8
  <2>2. QED BY <1>5, <1>6, <2>1, SoundContents
<1>10. QED BY <1>6, <1>9 DEF tb, t, wb, s, c

LEMMA PushedFront ==
    ASSUME RingAssumption, NEW rb, Sound(rb), rb.size < rb.capacity, NEW v \in Values
    PROVE  LET back == [rb EXCEPT !.begin = Retreated(rb)]
               tb   == [Put(back, 0, v) EXCEPT !.size = @ + 1]
           IN  /\ Sound(tb) /\ tb.capacity = rb.capacity
               /\ Contents(tb) = Cons(v, Contents(rb))
<1> DEFINE n    == rb.size
           c    == rb.capacity
           s    == Contents(rb)
           back == [rb EXCEPT !.begin = Retreated(rb)]
           wb   == Put(back, 0, v)
           tb   == [wb EXCEPT !.size = @ + 1]
           t    == Cons(v, s)
<1>1. /\ rb \in Buffers /\ rb.data \in Storage(c) /\ c \in Nat \ {0} /\ n \in 0 .. c - 1
      /\ c \in 0 .. MaxCapacity /\ rb.begin \in 0 .. c - 1
      /\ \A i \in 0 .. c - 1 : rb.data[At(rb, i)] = IF i < n THEN s[i + 1] ELSE NoElement
      BY SlotsOf
<1>2. MaxCapacity \in Nat /\ Retreated(rb) \in 0 .. c - 1 /\ Retreated(rb) \in 0 .. MaxCapacity
      BY <1>1, Turned DEF RingAssumption
<1>3. /\ back \in Buffers /\ back.data = rb.data
      /\ back.begin = Retreated(rb) /\ back.size = n /\ back.capacity = c
      BY <1>1, <1>2 DEF Buffers
<1>4. \A i \in 0 .. c - 1 : At(back, i) = IF i = 0 THEN At(rb, c - 1) ELSE At(rb, i - 1)
      BY <1>1, <1>3, Turned
<1> HIDE DEF s, back, n, c
<1>5. /\ wb \in Buffers /\ wb.data \in Storage(c)
      /\ wb.begin = back.begin /\ wb.size = n /\ wb.capacity = c
      /\ \A j \in 0 .. c - 1 : wb.data[At(back, j)] = IF j = 0 THEN v ELSE back.data[At(back, j)]
      BY <1>1, <1>2, <1>3, PutSlot
<1>6. s \in Seq(Values) /\ Len(s) = n
      BY ContentsOf DEF s, n
<1>7. /\ t \in Seq(Values) /\ Len(t) = n + 1
      /\ \A i \in 1 .. n + 1 : t[i] = IF i = 1 THEN v ELSE s[i - 1]
      BY <1>6, Consed, ZenonT(120)
<1> HIDE DEF wb, t
<1>8. /\ tb \in Buffers /\ tb.data = wb.data
      /\ tb.begin = back.begin /\ tb.size = n + 1 /\ tb.capacity = c
  <2>1. n + 1 \in 0 .. MaxCapacity /\ wb.size + 1 = n + 1
        BY <1>1, <1>2, <1>5
  <2>2. tb = [wb EXCEPT !.size = n + 1]
        BY <2>1
  <2> HIDE DEF tb
  <2>3. QED BY <1>5, <2>1, <2>2 DEF Buffers
<1> HIDE DEF tb
<1>9. \A i : At(tb, i) = At(back, i)
      BY <1>3, <1>8, SameSlots
<1>10. ASSUME NEW i \in 0 .. c - 1
       PROVE  tb.data[At(tb, i)] = IF i < n + 1 THEN t[i + 1] ELSE NoElement
  <2>1. CASE i = 0
        BY <1>1, <1>5, <1>7, <1>8, <1>9, <2>1
  <2>2. CASE i # 0
    <3>1. i - 1 \in 0 .. c - 1 /\ (i - 1) + 1 = i
          BY <1>1, <2>2
    <3>2. tb.data[At(tb, i)] = rb.data[At(rb, i - 1)]
          BY <1>3, <1>4, <1>5, <1>8, <1>9, <2>2
    <3>3. rb.data[At(rb, i - 1)] = IF i - 1 < n THEN s[i] ELSE NoElement
          BY <1>1, <3>1
    <3>4. i < n + 1 => t[i + 1] = s[i]
          BY <1>1, <1>7, <2>2
    <3>5. i < n + 1 <=> i - 1 < n
          BY <1>1
    <3>6. QED BY <3>2, <3>3, <3>4, <3>5
  <2>3. QED BY <2>1, <2>2
<1>11. Sound(tb) /\ Contents(tb) = t
  <2>1. /\ tb.data \in Storage(tb.capacity) /\ tb.size <= tb.capacity
        /\ tb.capacity > 0 => tb.begin < tb.capacity
        /\ Len(t) = tb.size
        /\ \A i \in 0 .. tb.capacity - 1 :
              tb.data[At(tb, i)] = IF i < tb.size THEN t[i + 1] ELSE NoElement
        BY <1>1, <1>2, <1>3, <1>5, <1>7, <1>8, <1>10
  <2>2. QED BY <1>7, <1>8, <2>1, SoundContents
<1>12. QED BY <1>8, <1>11 DEF tb, t, wb, back, s, n, c

LEMMA PushedFrontFull ==
    ASSUME RingAssumption, NEW rb, Sound(rb), rb.size = rb.capacity, rb.capacity # 0,
           NEW v \in Values
    PROVE  LET back == [rb EXCEPT !.begin = Retreated(rb)]
               tb   == Put(back, 0, v)
           IN  /\ Sound(tb) /\ tb.capacity = rb.capacity
               /\ Contents(tb) = Cons(v, Front(Contents(rb)))
<1> DEFINE c    == rb.capacity
           s    == Contents(rb)
           back == [rb EXCEPT !.begin = Retreated(rb)]
           tb   == Put(back, 0, v)
           t    == Cons(v, Front(s))
<1>1. /\ rb \in Buffers /\ rb.data \in Storage(c) /\ c \in Nat \ {0} /\ rb.size = c
      /\ c \in 0 .. MaxCapacity /\ rb.begin \in 0 .. c - 1
      /\ \A i \in 0 .. c - 1 : rb.data[At(rb, i)] = s[i + 1]
  <2>1. rb.size = c
        OBVIOUS
  <2>2. QED BY <2>1, SlotsOf
<1>2. MaxCapacity \in Nat /\ Retreated(rb) \in 0 .. c - 1 /\ Retreated(rb) \in 0 .. MaxCapacity
      BY <1>1, Turned DEF RingAssumption
<1>3. /\ back \in Buffers /\ back.data = rb.data
      /\ back.begin = Retreated(rb) /\ back.size = c /\ back.capacity = c
      BY <1>1, <1>2 DEF Buffers
<1>4. \A i \in 0 .. c - 1 : At(back, i) = IF i = 0 THEN At(rb, c - 1) ELSE At(rb, i - 1)
      BY <1>1, <1>3, Turned
<1>5. s \in Seq(Values) /\ Len(s) = c
      BY <1>1, ContentsOf
<1> HIDE DEF s, back, c
<1>6. /\ tb \in Buffers /\ tb.data \in Storage(c)
      /\ tb.begin = back.begin /\ tb.size = c /\ tb.capacity = c
      /\ \A j \in 0 .. c - 1 : tb.data[At(back, j)] = IF j = 0 THEN v ELSE back.data[At(back, j)]
      BY <1>1, <1>2, <1>3, PutSlot
<1>7. /\ t \in Seq(Values) /\ Len(t) = c
      /\ \A i \in 1 .. c : t[i] = IF i = 1 THEN v ELSE s[i - 1]
  <2>1. Len(s) > 0
        BY <1>1, <1>5
  <2>2. /\ t \in Seq(Values) /\ Len(t) = Len(s)
        /\ \A i \in 1 .. Len(s) : t[i] = IF i = 1 THEN v ELSE s[i - 1]
    <3>1. \A u \in Seq(Values), w \in Values : Len(u) > 0 =>
             /\ Cons(w, Front(u)) \in Seq(Values) /\ Len(Cons(w, Front(u))) = Len(u)
             /\ \A i \in 1 .. Len(u) : Cons(w, Front(u))[i] = IF i = 1 THEN w ELSE u[i - 1]
          BY ConsedFront
    <3>2. s \in Seq(Values) /\ v \in Values
          BY <1>5
    <3>3. QED BY <2>1, <3>1, <3>2, Zenon
  <2> HIDE DEF t
  <2>3. QED BY <1>5, <2>2
<1> HIDE DEF tb, t
<1>8. \A i : At(tb, i) = At(back, i)
      BY <1>3, <1>6, SameSlots
<1>9. ASSUME NEW i \in 0 .. c - 1
      PROVE  tb.data[At(tb, i)] = t[i + 1]
  <2>1. CASE i = 0
        BY <1>1, <1>6, <1>7, <1>8, <2>1
  <2>2. CASE i # 0
    <3>1. i - 1 \in 0 .. c - 1 /\ (i - 1) + 1 = i /\ i + 1 \in 1 .. c /\ (i + 1) - 1 = i
          BY <1>1, <2>2
    <3>2. tb.data[At(tb, i)] = rb.data[At(rb, i - 1)]
          BY <1>3, <1>4, <1>6, <1>8, <2>2
    <3>3. rb.data[At(rb, i - 1)] = s[i] /\ t[i + 1] = s[i]
          BY <1>1, <1>7, <2>2, <3>1
    <3>4. QED BY <3>2, <3>3
  <2>3. QED BY <2>1, <2>2
<1>10. Sound(tb) /\ Contents(tb) = t
  <2>1. /\ tb.data \in Storage(tb.capacity) /\ tb.size <= tb.capacity
        /\ tb.capacity > 0 => tb.begin < tb.capacity
        /\ Len(t) = tb.size
        /\ \A i \in 0 .. tb.capacity - 1 :
              tb.data[At(tb, i)] = IF i < tb.size THEN t[i + 1] ELSE NoElement
        BY <1>1, <1>2, <1>3, <1>6, <1>7, <1>9
  <2>2. QED BY <1>6, <1>7, <2>1, SoundContents
<1>11. QED BY <1>6, <1>10 DEF tb, t, back, s, c

(* The buffers that emplace makes, and the one that erase makes. *)
Roomier(rb, offset, v) ==
    [[rb EXCEPT !.data = ShiftedIn(rb, offset, v)] EXCEPT !.size = @ + 1]
Shifted(rb, offset, v) ==
    [[rb EXCEPT !.data = ShiftedIn(rb, offset, v)] EXCEPT !.begin = Advanced(rb)]
Closed(rb, first, last) ==
    LET count == last - first
        down  == [p \in DOMAIN rb.data |->
                    LET i == Logical(rb, p)
                    IN  IF first <= i /\ i + count < rb.size
                        THEN rb.data[At(rb, i + count)] ELSE rb.data[p]]
    IN  [rb EXCEPT !.data = Destroy([rb EXCEPT !.data = down], rb.size - count .. rb.size - 1),
                   !.size = @ - count]

LEMMA Emplaced ==
    ASSUME RingAssumption, NEW rb, Sound(rb), rb.size < rb.capacity,
           NEW offset \in 0 .. rb.size, NEW v \in Values
    PROVE  LET tb == Roomier(rb, offset, v)
           IN  /\ Sound(tb) /\ tb.capacity = rb.capacity
               /\ Contents(tb) = InsertAt(Contents(rb), offset + 1, v)
<1> DEFINE n  == rb.size
           c  == rb.capacity
           s  == Contents(rb)
           d  == ShiftedIn(rb, offset, v)
           tb == [[rb EXCEPT !.data = d] EXCEPT !.size = @ + 1]
           t  == InsertAt(s, offset + 1, v)
<1>1. /\ rb \in Buffers /\ rb.data \in Storage(c) /\ c \in Nat \ {0} /\ n \in 0 .. c - 1
      /\ rb.begin \in 0 .. c - 1
      /\ \A i \in 0 .. c - 1 : rb.data[At(rb, i)] = IF i < n THEN s[i + 1] ELSE NoElement
      BY SlotsOf
<1>2. /\ \A i \in 0 .. c - 1 : At(rb, i) \in 0 .. c - 1 /\ Logical(rb, At(rb, i)) = i
      /\ \A p \in 0 .. c - 1 : Logical(rb, p) \in 0 .. c - 1
      BY <1>1, Positions
<1>3. s \in Seq(Values) /\ Len(s) = n
      BY ContentsOf
<1>4. d = [p \in 0 .. c - 1 |->
             CASE Logical(rb, p) = offset -> v
               [] offset < Logical(rb, p) /\ Logical(rb, p) <= n -> rb.data[At(rb, Logical(rb, p) - 1)]
               [] OTHER -> rb.data[p]]
  <2>1. rb.size # rb.capacity /\ DOMAIN rb.data = 0 .. c - 1
        BY <1>1 DEF Storage
  <2>2. QED BY <2>1 DEF ShiftedIn
<1> HIDE DEF s, d, n, c
<1>5. \A i \in 0 .. c - 1 :
         d[At(rb, i)] = IF i = offset THEN v
                        ELSE IF offset < i /\ i <= n THEN rb.data[At(rb, i - 1)]
                        ELSE rb.data[At(rb, i)]
      BY <1>2, <1>4
<1>6. d \in Storage(c)
  <2>1. ASSUME NEW p \in 0 .. c - 1
        PROVE  /\ rb.data[p] \in Values \cup {NoElement}
               /\ offset < Logical(rb, p) => rb.data[At(rb, Logical(rb, p) - 1)] \in Values \cup {NoElement}
    <3>1. offset < Logical(rb, p) => Logical(rb, p) - 1 \in 0 .. c - 1
          BY <1>1, <1>2 DEF n
    <3>2. QED BY <1>1, <1>2, <3>1 DEF Storage
  <2>2. QED BY <1>4, <2>1 DEF Storage
<1>7. /\ t \in Seq(Values) /\ Len(t) = n + 1
      /\ \A i \in 1 .. n + 1 : t[i] = IF i < offset + 1 THEN s[i]
                                      ELSE IF i = offset + 1 THEN v ELSE s[i - 1]
  <2>1. offset + 1 \in 1 .. Len(s) + 1
        BY <1>1, <1>3 DEF n
  <2>2. /\ t \in Seq(Values) /\ Len(t) = Len(s) + 1
        /\ \A i \in 1 .. Len(s) + 1 : t[i] = IF i < offset + 1 THEN s[i]
                                          ELSE IF i = offset + 1 THEN v ELSE s[i - 1]
    <3>1. \A q \in Seq(Values), w \in Values : \A k \in 1 .. Len(q) + 1 :
             /\ InsertAt(q, k, w) \in Seq(Values) /\ Len(InsertAt(q, k, w)) = Len(q) + 1
             /\ \A i \in 1 .. Len(q) + 1 :
                   InsertAt(q, k, w)[i] = IF i < k THEN q[i] ELSE IF i = k THEN w ELSE q[i - 1]
          BY Inserted
    <3>2. s \in Seq(Values) /\ v \in Values
          BY <1>3
    <3>3. \A k \in 1 .. Len(s) + 1 :
             /\ InsertAt(s, k, v) \in Seq(Values) /\ Len(InsertAt(s, k, v)) = Len(s) + 1
             /\ \A i \in 1 .. Len(s) + 1 :
                   InsertAt(s, k, v)[i] = IF i < k THEN s[i] ELSE IF i = k THEN v ELSE s[i - 1]
          BY <3>1, <3>2, Zenon
    <3>4. QED BY <2>1, <3>3, Zenon
  <2> HIDE DEF t
  <2>3. QED BY <1>3, <2>2
<1> HIDE DEF t
<1>8. tb = [rb EXCEPT !.data = d, !.begin = rb.begin, !.size = Len(t)]
      BY <1>1, <1>7 DEF Buffers, n
<1> HIDE DEF tb
<1>9. \A i : At(tb, i) = At(rb, i)
  <2>1. tb.begin = rb.begin /\ tb.capacity = rb.capacity
        BY <1>1, <1>8 DEF Buffers
  <2>2. QED BY <2>1, SameSlots
<1>10. ASSUME NEW i \in 0 .. c - 1
       PROVE  d[At(tb, i)] = IF i < Len(t) THEN t[i + 1] ELSE NoElement
  <2>1. offset \in 0 .. n /\ n \in 0 .. c - 1 /\ c \in Nat
        BY <1>1 DEF n
  <2>2. CASE i < offset
        BY <1>1, <1>5, <1>7, <1>9, <2>1, <2>2, SMTT(40)
  <2>3. CASE i = offset
        BY <1>5, <1>7, <1>9, <2>1, <2>3
  <2>4. CASE offset < i /\ i <= n
    <3>1. i - 1 \in 0 .. c - 1 /\ i - 1 < n /\ (i - 1) + 1 = i
          BY <2>1, <2>4
    <3>2. d[At(tb, i)] = s[i]
          BY <1>1, <1>5, <1>9, <2>4, <3>1
    <3>3. i < Len(t) /\ t[i + 1] = s[i]
          BY <1>7, <2>1, <2>4
    <3>4. QED BY <3>2, <3>3
  <2>5. CASE i > n
        BY <1>1, <1>5, <1>7, <1>9, <2>1, <2>5
  <2>6. QED BY <2>1, <2>2, <2>3, <2>4, <2>5
<1>11. Sound(tb) /\ tb.capacity = rb.capacity /\ Contents(tb) = t
  <2>1. /\ rb.capacity # 0 /\ rb.begin < rb.capacity /\ Len(t) <= rb.capacity
        /\ rb \in Buffers /\ d \in Storage(rb.capacity) /\ rb.begin \in 0 .. rb.capacity - 1
        /\ \A i \in 0 .. rb.capacity - 1 : d[At(tb, i)] = IF i < Len(t) THEN t[i + 1] ELSE NoElement
        BY <1>1, <1>6, <1>7, <1>10 DEF c
  <2>2. Len(t) \in 0 .. MaxCapacity /\ rb.begin \in 0 .. MaxCapacity
        BY <1>7, <2>1 DEF RingAssumption, Buffers
  <2>3. /\ tb \in Buffers /\ tb.data = d /\ tb.begin = rb.begin /\ tb.size = Len(t)
        /\ tb.capacity = rb.capacity
    <3>1. d \in UNION {Storage(k) : k \in 0 .. MaxCapacity}
          BY <2>1 DEF Buffers
    <3>2. QED BY <1>8, <2>1, <2>2, <3>1 DEF Buffers
  <2>4. Sound(tb) /\ Contents(tb) = t
        BY <1>7, <2>1, <2>3, SoundContents
  <2>5. QED BY <2>3, <2>4
<1>12. QED BY <1>11 DEF tb, t, d, s, Roomier

LEMMA EmplacedFull ==
    ASSUME RingAssumption, NEW rb, Sound(rb), rb.size = rb.capacity,
           NEW offset \in 1 .. rb.size, NEW v \in Values
    PROVE  LET tb == Shifted(rb, offset, v)
           IN  /\ Sound(tb) /\ tb.capacity = rb.capacity
               /\ Contents(tb) = Tail(InsertAt(Contents(rb), offset + 1, v))
<1> DEFINE c  == rb.capacity
           s  == Contents(rb)
           d  == ShiftedIn(rb, offset, v)
           tb == [[rb EXCEPT !.data = d] EXCEPT !.begin = Advanced(rb)]
           u  == InsertAt(s, offset + 1, v)
           t  == Tail(u)
<1>0. rb.size = c /\ c \in Nat \ {0} /\ offset \in 1 .. c
      BY SlotsOf
<1>1. /\ rb \in Buffers /\ rb.data \in Storage(c) /\ rb.begin \in 0 .. c - 1
      /\ \A i \in 0 .. c - 1 : rb.data[At(rb, i)] = s[i + 1]
      BY <1>0, SlotsOf
<1>2. /\ \A i \in 0 .. c - 1 : At(rb, i) \in 0 .. c - 1 /\ Logical(rb, At(rb, i)) = i
      /\ \A p \in 0 .. c - 1 : Logical(rb, p) \in 0 .. c - 1
      BY <1>0, <1>1, Positions
<1>3. s \in Seq(Values) /\ Len(s) = c
      BY <1>0, ContentsOf
<1> DEFINE In(p) == IF Logical(rb, p) = 0 THEN c ELSE Logical(rb, p)
<1>4. d = [p \in 0 .. c - 1 |->
             CASE In(p) = offset -> v
               [] offset < In(p) /\ In(p) <= c -> rb.data[At(rb, In(p) - 1)]
               [] OTHER -> rb.data[p]]
  <2>1. DOMAIN rb.data = 0 .. c - 1
        BY <1>1 DEF Storage
  <2>2. QED BY <1>0, <2>1 DEF ShiftedIn
<1>5. \A p \in 0 .. c - 1 : In(p) \in 1 .. c
      BY <1>0, <1>2
<1> HIDE DEF s, d, c
<1>6. ASSUME NEW i \in 0 .. c - 1, NEW k \in 1 .. c, i = IF k = c THEN 0 ELSE k
      PROVE  d[At(rb, i)] = IF k = offset THEN v
                            ELSE IF offset < k THEN rb.data[At(rb, k - 1)]
                            ELSE rb.data[At(rb, i)]
  <2>1. In(At(rb, i)) = k
        BY <1>0, <1>2, <1>6
  <2> HIDE DEF In
  <2>2. QED BY <1>0, <1>2, <1>4, <2>1
<1>7. d \in Storage(c)
  <2>1. ASSUME NEW p \in 0 .. c - 1
        PROVE  rb.data[p] \in Values \cup {NoElement} /\ rb.data[At(rb, In(p) - 1)] \in Values \cup {NoElement}
    <3>1. In(p) - 1 \in 0 .. c - 1
          BY <1>0, <1>5
    <3>2. QED BY <1>1, <1>2, <3>1 DEF Storage
  <2> HIDE DEF In
  <2>2. QED BY <1>4, <2>1 DEF Storage
<1>8. /\ u \in Seq(Values) /\ Len(u) = c + 1
      /\ \A i \in 1 .. c + 1 : u[i] = IF i < offset + 1 THEN s[i]
                                      ELSE IF i = offset + 1 THEN v ELSE s[i - 1]
  <2>1. offset + 1 \in 1 .. Len(s) + 1
        BY <1>0, <1>3
  <2>2. /\ u \in Seq(Values) /\ Len(u) = Len(s) + 1
        /\ \A i \in 1 .. Len(s) + 1 : u[i] = IF i < offset + 1 THEN s[i]
                                          ELSE IF i = offset + 1 THEN v ELSE s[i - 1]
    <3>1. \A q \in Seq(Values), w \in Values : \A k \in 1 .. Len(q) + 1 :
             /\ InsertAt(q, k, w) \in Seq(Values) /\ Len(InsertAt(q, k, w)) = Len(q) + 1
             /\ \A i \in 1 .. Len(q) + 1 :
                   InsertAt(q, k, w)[i] = IF i < k THEN q[i] ELSE IF i = k THEN w ELSE q[i - 1]
          BY Inserted
    <3>2. s \in Seq(Values) /\ v \in Values
          BY <1>3
    <3>3. QED BY <2>1, <3>1, <3>2, ZenonT(120)
  <2> HIDE DEF u
  <2>3. QED BY <1>3, <2>2
<1> HIDE DEF u, In
<1>9. t \in Seq(Values) /\ Len(t) = c /\ \A i \in 1 .. c : t[i] = u[i + 1]
  <2>1. u # <<>>
        BY <1>0, <1>8
  <2>2. t \in Seq(Values) /\ Len(t) = Len(u) - 1 /\ \A i \in 1 .. Len(t) : t[i] = u[i + 1]
        BY <1>8, <2>1, HeadTailProperties
  <2> HIDE DEF t
  <2>3. QED BY <1>0, <1>8, <2>2
<1> HIDE DEF t
<1>10. Advanced(rb) \in 0 .. c - 1
       BY <1>0, <1>1, Turned DEF c
<1>11. tb = [rb EXCEPT !.data = d, !.begin = Advanced(rb), !.size = Len(t)]
       BY <1>0, <1>1, <1>9 DEF Buffers
<1> HIDE DEF tb
<1>12. tb.begin = Advanced(rb) /\ tb.capacity = rb.capacity
       BY <1>1, <1>11 DEF Buffers
<1>13. \A i \in 0 .. c - 1 : At(tb, i) = IF i = c - 1 THEN At(rb, 0) ELSE At(rb, i + 1)
       BY <1>0, <1>1, <1>12, Turned DEF c
<1>14. ASSUME NEW i \in 0 .. c - 1
       PROVE  d[At(tb, i)] = t[i + 1]
  <2> DEFINE k == i + 1
             j == IF k = c THEN 0 ELSE k
  <2>1. k \in 1 .. c /\ j \in 0 .. c - 1 /\ k - 1 = i /\ i + 1 \in 1 .. c
        BY <1>0
  <2>2. d[At(tb, i)] = d[At(rb, j)]
        BY <1>0, <1>13
  <2>3. d[At(rb, j)] = IF k = offset THEN v
                       ELSE IF offset < k THEN rb.data[At(rb, k - 1)] ELSE rb.data[At(rb, j)]
        BY <1>6, <2>1
  <2>4. t[i + 1] = u[i + 2] /\ i + 2 \in 1 .. c + 1
        BY <1>0, <1>9, <2>1
  <2>5. CASE k = offset
        BY <1>0, <1>8, <2>1, <2>2, <2>3, <2>4, <2>5
  <2>6. CASE offset < k
    <3>1. u[i + 2] = s[i + 1]
          BY <1>0, <1>8, <2>4, <2>6
    <3>2. d[At(rb, j)] = s[i + 1]
          BY <1>0, <1>1, <2>1, <2>3, <2>6
    <3>3. QED BY <2>2, <2>4, <3>1, <3>2
  <2>7. CASE k < offset
    <3>1. u[i + 2] = s[i + 2]
          BY <1>0, <1>8, <2>4, <2>7
    <3>2. j = i + 1 /\ i + 1 \in 0 .. c - 1
          BY <1>0, <2>7
    <3>3. rb.data[At(rb, i + 1)] = s[i + 2]
          BY <1>0, <1>1, <3>2
    <3>4. d[At(rb, j)] = s[i + 2]
          BY <1>0, <2>1, <2>3, <2>7, <3>2, <3>3
    <3>5. QED BY <2>2, <2>4, <3>1, <3>4
  <2>8. QED BY <1>0, <2>5, <2>6, <2>7
<1>15. Sound(tb) /\ tb.capacity = rb.capacity /\ Contents(tb) = t
  <2>1. /\ rb.capacity # 0 /\ rb.begin < rb.capacity /\ Len(t) <= rb.capacity
        /\ \A i \in 0 .. rb.capacity - 1 : d[At(tb, i)] = IF i < Len(t) THEN t[i + 1] ELSE NoElement
        /\ rb \in Buffers /\ d \in Storage(rb.capacity)
        /\ Advanced(rb) \in 0 .. rb.capacity - 1
    <3>1. rb.capacity # 0 /\ rb.begin < rb.capacity /\ Len(t) <= rb.capacity
          BY <1>0, <1>1, <1>9 DEF c
    <3>2. \A i \in 0 .. rb.capacity - 1 : d[At(tb, i)] = IF i < Len(t) THEN t[i + 1] ELSE NoElement
      <4>1. c = rb.capacity /\ c \in Nat /\ Len(t) = c
            BY <1>1, <1>9 DEF c
      <4>2. \A i \in 0 .. c - 1 : i < Len(t)
            BY <4>1
      <4>3. QED BY <1>14, <4>1, <4>2
    <3>3. rb \in Buffers /\ d \in Storage(rb.capacity)
          BY <1>0, <1>1, <1>7 DEF c
    <3>4. Advanced(rb) \in 0 .. rb.capacity - 1
          BY <1>0, <1>1, <1>10 DEF c
    <3>5. QED BY <3>1, <3>2, <3>3, <3>4, Zenon
  <2>2. Len(t) \in 0 .. MaxCapacity /\ Advanced(rb) \in 0 .. MaxCapacity
        BY <1>0, <1>9, <2>1 DEF RingAssumption, Buffers
  <2>3. /\ tb \in Buffers /\ tb.data = d /\ tb.begin = Advanced(rb) /\ tb.size = Len(t)
        /\ tb.capacity = rb.capacity
    <3>1. d \in UNION {Storage(k) : k \in 0 .. MaxCapacity}
          BY <2>1 DEF Buffers
    <3>2. QED BY <1>11, <2>1, <2>2, <3>1 DEF Buffers
  <2>4. Sound(tb) /\ Contents(tb) = t
    <3>1. /\ tb.data \in Storage(tb.capacity) /\ tb.size <= tb.capacity
          /\ tb.capacity > 0 => tb.begin < tb.capacity
          /\ Len(t) = tb.size
          /\ \A i \in 0 .. tb.capacity - 1 :
                tb.data[At(tb, i)] = IF i < tb.size THEN t[i + 1] ELSE NoElement
          BY <2>1, <2>3 DEF Buffers
    <3>2. QED BY <1>9, <2>3, <3>1, SoundContents
  <2>5. QED BY <2>3, <2>4
<1>16. QED BY <1>15 DEF tb, t, u, d, s, Shifted

(* destroy_at on some positions leaves the others. *)
LEMMA Destroyed ==
    ASSUME NEW rb, rb.capacity \in Nat \ {0}, rb.begin \in 0 .. rb.capacity - 1,
           rb.data \in Storage(rb.capacity), NEW gone
    PROVE  /\ Destroy(rb, gone) \in Storage(rb.capacity)
           /\ \A i \in 0 .. rb.capacity - 1 :
                 Destroy(rb, gone)[At(rb, i)] = IF i \in gone THEN NoElement ELSE rb.data[At(rb, i)]
<1>1. \A i \in 0 .. rb.capacity - 1 :
         At(rb, i) \in 0 .. rb.capacity - 1 /\ Logical(rb, At(rb, i)) = i
      BY Positions
<1>2. QED BY <1>1 DEF Destroy, Storage

LEMMA PoppedBack ==
    ASSUME RingAssumption, NEW rb, Sound(rb), rb.size > 0
    PROVE  LET tb == [rb EXCEPT !.data = Destroy(rb, {rb.size - 1}), !.size = @ - 1]
               s  == Contents(rb)
           IN  /\ Sound(tb) /\ tb.capacity = rb.capacity
               /\ Contents(tb) = SubSeq(s, 1, Len(s) - 1) \o SubSeq(s, Len(s) + 1, Len(s))
<1> DEFINE n  == rb.size
           c  == rb.capacity
           s  == Contents(rb)
           d  == Destroy(rb, {n - 1})
           tb == [rb EXCEPT !.data = d, !.size = @ - 1]
           t  == SubSeq(s, 1, Len(s) - 1) \o SubSeq(s, Len(s) + 1, Len(s))
<1>1. /\ rb \in Buffers /\ rb.data \in Storage(c) /\ c \in Nat \ {0} /\ n \in 1 .. c
      /\ c \in 0 .. MaxCapacity /\ rb.begin \in 0 .. c - 1
      /\ \A i \in 0 .. c - 1 : rb.data[At(rb, i)] = IF i < n THEN s[i + 1] ELSE NoElement
      BY SlotsOf
<1>2. /\ d \in Storage(c)
      /\ \A i \in 0 .. c - 1 : d[At(rb, i)] = IF i = n - 1 THEN NoElement ELSE rb.data[At(rb, i)]
      BY <1>1, Destroyed
<1>3. s \in Seq(Values) /\ Len(s) = n
      BY ContentsOf
<1> HIDE DEF s, d, n, c
<1>4. /\ t \in Seq(Values) /\ Len(t) = n - 1
      /\ \A i \in 1 .. n - 1 : t[i] = s[i]
  <2>1. Len(s) \in 1 .. Len(s) + 1 /\ Len(s) + 1 \in Len(s) .. Len(s) + 1
        BY <1>1, <1>3
  <2>2. /\ t \in Seq(Values) /\ Len(t) = Len(s) - ((Len(s) + 1) - Len(s))
        /\ \A i \in 1 .. Len(s) - ((Len(s) + 1) - Len(s)) :
              t[i] = IF i < Len(s) THEN s[i] ELSE s[i + ((Len(s) + 1) - Len(s))]
        BY <1>3, <2>1, Removed
  <2> HIDE DEF t
  <2>3. QED BY <1>1, <1>3, <2>2
<1> HIDE DEF t
<1>5. /\ tb \in Buffers /\ tb.data = d
      /\ tb.begin = rb.begin /\ tb.size = n - 1 /\ tb.capacity = c
  <2>1. n - 1 \in 0 .. MaxCapacity /\ d \in UNION {Storage(k) : k \in 0 .. MaxCapacity}
        BY <1>1, <1>2 DEF RingAssumption
  <2>2. QED BY <1>1, <2>1 DEF Buffers, n, c
<1> HIDE DEF tb
<1>6. \A i : At(tb, i) = At(rb, i)
      BY <1>5, SameSlots DEF c
<1>7. /\ tb.data \in Storage(tb.capacity) /\ tb.size <= tb.capacity
      /\ tb.capacity > 0 => tb.begin < tb.capacity
      /\ Len(t) = tb.size
      /\ \A i \in 0 .. tb.capacity - 1 :
            tb.data[At(tb, i)] = IF i < tb.size THEN t[i + 1] ELSE NoElement
      BY <1>1, <1>2, <1>4, <1>5, <1>6
<1>8. Sound(tb) /\ Contents(tb) = t
      BY <1>4, <1>5, <1>7, SoundContents
<1>9. QED BY <1>5, <1>8 DEF tb, t, d, s, n, c

LEMMA PoppedFront ==
    ASSUME RingAssumption, NEW rb, Sound(rb), rb.size > 0
    PROVE  LET tb == [rb EXCEPT !.data = Destroy(rb, {0}), !.begin = Advanced(rb), !.size = @ - 1]
               s  == Contents(rb)
           IN  /\ Sound(tb) /\ tb.capacity = rb.capacity
               /\ Contents(tb) = SubSeq(s, 1, 0) \o SubSeq(s, 2, Len(s))
<1> DEFINE n  == rb.size
           c  == rb.capacity
           s  == Contents(rb)
           d  == Destroy(rb, {0})
           tb == [rb EXCEPT !.data = d, !.begin = Advanced(rb), !.size = @ - 1]
           t  == SubSeq(s, 1, 0) \o SubSeq(s, 2, Len(s))
<1>1. /\ rb \in Buffers /\ rb.data \in Storage(c) /\ c \in Nat \ {0} /\ n \in 1 .. c
      /\ c \in 0 .. MaxCapacity /\ rb.begin \in 0 .. c - 1
      /\ \A i \in 0 .. c - 1 : rb.data[At(rb, i)] = IF i < n THEN s[i + 1] ELSE NoElement
      BY SlotsOf
<1>2. /\ d \in Storage(c)
      /\ \A i \in 0 .. c - 1 : d[At(rb, i)] = IF i = 0 THEN NoElement ELSE rb.data[At(rb, i)]
      BY <1>1, Destroyed
<1>3. s \in Seq(Values) /\ Len(s) = n
      BY ContentsOf
<1>4. Advanced(rb) \in 0 .. c - 1
      BY <1>1, Turned
<1> HIDE DEF s, d, n, c
<1>5. /\ t \in Seq(Values) /\ Len(t) = n - 1
      /\ \A i \in 1 .. n - 1 : t[i] = s[i + 1]
  <2>1. 1 \in 1 .. Len(s) + 1 /\ 2 \in 1 .. Len(s) + 1 /\ 1 - 1 = 0
        BY <1>1, <1>3
  <2>2. /\ t \in Seq(Values) /\ Len(t) = Len(s) - (2 - 1)
        /\ \A i \in 1 .. Len(s) - (2 - 1) :
              t[i] = IF i < 1 THEN s[i] ELSE s[i + (2 - 1)]
    <3>1. \A l \in 1 .. Len(s) + 1 :
             /\ SubSeq(s, 1, 1 - 1) \o SubSeq(s, l, Len(s)) \in Seq(Values)
             /\ Len(SubSeq(s, 1, 1 - 1) \o SubSeq(s, l, Len(s))) = Len(s) - (l - 1)
             /\ \A i \in 1 .. Len(s) - (l - 1) :
                   (SubSeq(s, 1, 1 - 1) \o SubSeq(s, l, Len(s)))[i]
                       = IF i < 1 THEN s[i] ELSE s[i + (l - 1)]
          BY <1>3, <2>1, Removed
    <3>2. QED BY <2>1, <3>1
  <2> HIDE DEF t
  <2>3. QED BY <1>1, <1>3, <2>2
<1> HIDE DEF t
<1>6. /\ tb \in Buffers /\ tb.data = d
      /\ tb.begin = Advanced(rb) /\ tb.size = n - 1 /\ tb.capacity = c
  <2>1. /\ n - 1 \in 0 .. MaxCapacity /\ Advanced(rb) \in 0 .. MaxCapacity
        /\ d \in UNION {Storage(k) : k \in 0 .. MaxCapacity}
        BY <1>1, <1>2, <1>4 DEF RingAssumption
  <2>2. QED BY <1>1, <2>1 DEF Buffers, n, c
<1> HIDE DEF tb
<1>7. \A i \in 0 .. c - 1 : At(tb, i) = IF i = c - 1 THEN At(rb, 0) ELSE At(rb, i + 1)
      BY <1>1, <1>6, Turned DEF c
<1>8. ASSUME NEW i \in 0 .. c - 1
      PROVE  d[At(tb, i)] = IF i < n - 1 THEN t[i + 1] ELSE NoElement
  <2>1. CASE i = c - 1
        BY <1>1, <1>2, <1>7, <2>1
  <2>2. CASE i # c - 1
    <3>1. i + 1 \in 0 .. c - 1 /\ i + 1 # 0
          BY <1>1, <2>2
    <3>2. d[At(tb, i)] = IF i + 1 < n THEN s[(i + 1) + 1] ELSE NoElement
          BY <1>1, <1>2, <1>7, <2>2, <3>1
    <3>3. i < n - 1 => t[i + 1] = s[(i + 1) + 1]
          BY <1>1, <1>5, <2>2
    <3>4. i < n - 1 <=> i + 1 < n
          BY <1>1
    <3>5. QED BY <3>2, <3>3, <3>4
  <2>3. QED BY <2>1, <2>2
<1>9. /\ tb.data \in Storage(tb.capacity) /\ tb.size <= tb.capacity
      /\ tb.capacity > 0 => tb.begin < tb.capacity
      /\ Len(t) = tb.size
      /\ \A i \in 0 .. tb.capacity - 1 :
            tb.data[At(tb, i)] = IF i < tb.size THEN t[i + 1] ELSE NoElement
      BY <1>1, <1>2, <1>4, <1>5, <1>6, <1>8
<1>10. Sound(tb) /\ Contents(tb) = t
       BY <1>5, <1>6, <1>9, SoundContents
<1>11. QED BY <1>6, <1>10 DEF tb, t, d, s, n, c

(* erase in the middle: the positions behind `last` come down to `first`. *)
LEMMA Erased ==
    ASSUME RingAssumption, NEW rb, Sound(rb), NEW first \in Nat, NEW last \in Nat,
           first < last, last <= rb.size
    PROVE  LET tb == Closed(rb, first, last)
               s  == Contents(rb)
           IN  /\ Sound(tb) /\ tb.capacity = rb.capacity
               /\ Contents(tb) = SubSeq(s, 1, first) \o SubSeq(s, last + 1, Len(s))
<1> DEFINE n     == rb.size
           c     == rb.capacity
           s     == Contents(rb)
           count == last - first
           down  == [p \in DOMAIN rb.data |->
                        LET i == Logical(rb, p)
                        IN  IF first <= i /\ i + count < rb.size
                            THEN rb.data[At(rb, i + count)] ELSE rb.data[p]]
           wb    == [rb EXCEPT !.data = down]
           d     == Destroy(wb, n - count .. n - 1)
           tb    == [rb EXCEPT !.data = d, !.size = @ - count]
           t     == SubSeq(s, 1, first) \o SubSeq(s, last + 1, Len(s))
<1>1. /\ rb \in Buffers /\ rb.data \in Storage(c) /\ c \in Nat \ {0} /\ n \in 1 .. c
      /\ c \in 0 .. MaxCapacity /\ rb.begin \in 0 .. c - 1
      /\ \A i \in 0 .. c - 1 : rb.data[At(rb, i)] = IF i < n THEN s[i + 1] ELSE NoElement
      BY SlotsOf
<1>2. count \in 1 .. n /\ first + count = last /\ first \in 0 .. n - count
      BY <1>1
<1>3. s \in Seq(Values) /\ Len(s) = n
      BY ContentsOf
<1>4. /\ \A i \in 0 .. c - 1 : At(rb, i) \in 0 .. c - 1 /\ Logical(rb, At(rb, i)) = i
      /\ \A p \in 0 .. c - 1 : Logical(rb, p) \in 0 .. c - 1
      BY <1>1, Positions
<1>5. down = [p \in 0 .. c - 1 |-> IF first <= Logical(rb, p) /\ Logical(rb, p) + count < n
                                   THEN rb.data[At(rb, Logical(rb, p) + count)] ELSE rb.data[p]]
      BY <1>1 DEF Storage
<1> HIDE DEF s, n, c, count, down
<1>6. \A i \in 0 .. c - 1 : down[At(rb, i)] = IF first <= i /\ i + count < n
                                              THEN rb.data[At(rb, i + count)] ELSE rb.data[At(rb, i)]
      BY <1>4, <1>5
<1>7. down \in Storage(c)
  <2>1. ASSUME NEW p \in 0 .. c - 1
        PROVE  /\ rb.data[p] \in Values \cup {NoElement}
               /\ Logical(rb, p) + count < n => rb.data[At(rb, Logical(rb, p) + count)] \in Values \cup {NoElement}
    <3>1. Logical(rb, p) + count < n => Logical(rb, p) + count \in 0 .. c - 1
          BY <1>1, <1>2, <1>4
    <3>2. QED BY <1>1, <1>4, <3>1 DEF Storage
  <2>2. QED BY <1>5, <2>1 DEF Storage
<1>8. wb.data = down /\ wb.begin = rb.begin /\ wb.capacity = c
      BY <1>1 DEF Buffers, c
<1> HIDE DEF wb
<1>9. /\ d \in Storage(c)
      /\ \A i \in 0 .. c - 1 : d[At(rb, i)] = IF i \in n - count .. n - 1 THEN NoElement ELSE down[At(rb, i)]
  <2>1. /\ d \in Storage(wb.capacity)
        /\ \A i \in 0 .. wb.capacity - 1 :
              d[At(wb, i)] = IF i \in n - count .. n - 1 THEN NoElement ELSE wb.data[At(wb, i)]
    <3>1. wb.capacity \in Nat \ {0} /\ wb.begin \in 0 .. wb.capacity - 1 /\ wb.data \in Storage(wb.capacity)
          BY <1>1, <1>7, <1>8
    <3>2. \A gone :
             /\ Destroy(wb, gone) \in Storage(wb.capacity)
             /\ \A i \in 0 .. wb.capacity - 1 :
                   Destroy(wb, gone)[At(wb, i)] = IF i \in gone THEN NoElement ELSE wb.data[At(wb, i)]
          BY <3>1, Destroyed
    <3>3. QED BY <3>2, Zenon
  <2>2. \A i : At(wb, i) = At(rb, i)
        BY <1>8, SameSlots DEF c
  <2>3. QED BY <1>8, <2>1, <2>2
<1> HIDE DEF d
<1>10. /\ t \in Seq(Values) /\ Len(t) = n - count
       /\ \A i \in 1 .. n - count : t[i] = IF i <= first THEN s[i] ELSE s[i + count]
  <2> DEFINE f == first + 1
             l == last + 1
  <2>1. /\ f \in 1 .. Len(s) + 1 /\ l \in f .. Len(s) + 1
        /\ f - 1 = first /\ l - f = count
        BY <1>1, <1>2, <1>3 DEF count
  <2> HIDE DEF f
  <2>2. LET r == SubSeq(s, 1, f - 1) \o SubSeq(s, l, Len(s))
        IN  /\ r \in Seq(Values) /\ Len(r) = Len(s) - (l - f)
            /\ \A i \in 1 .. Len(s) - (l - f) : r[i] = IF i < f THEN s[i] ELSE s[i + (l - f)]
        BY <1>3, <2>1, Removed
  <2>3. t = SubSeq(s, 1, f - 1) \o SubSeq(s, l, Len(s))
        BY <2>1
  <2> HIDE DEF t, l
  <2>4. /\ t \in Seq(Values) /\ Len(t) = Len(s) - (l - f)
        /\ \A i \in 1 .. Len(s) - (l - f) : t[i] = IF i < f THEN s[i] ELSE s[i + (l - f)]
        BY <2>2, <2>3
  <2>5. QED BY <1>1, <1>2, <1>3, <2>1, <2>4 DEF f
<1> HIDE DEF t
<1>11. /\ tb \in Buffers /\ tb.data = d
       /\ tb.begin = rb.begin /\ tb.size = n - count /\ tb.capacity = c
  <2>1. n - count \in 0 .. MaxCapacity /\ d \in UNION {Storage(k) : k \in 0 .. MaxCapacity}
        BY <1>1, <1>2, <1>9 DEF RingAssumption
  <2>2. QED BY <1>1, <2>1 DEF Buffers, n, c
<1> HIDE DEF tb
<1>12. \A i : At(tb, i) = At(rb, i)
       BY <1>11, SameSlots DEF c
<1>13. ASSUME NEW i \in 0 .. c - 1
       PROVE  d[At(rb, i)] = IF i < n - count THEN t[i + 1] ELSE NoElement
  <2>1. CASE i >= n
        BY <1>1, <1>2, <1>6, <1>9, <2>1
  <2>2. CASE n - count <= i /\ i < n
        BY <1>1, <1>2, <1>9, <2>2
  <2>3. CASE i < n - count /\ first <= i
    <3>1. i + count \in 0 .. c - 1 /\ i + count < n /\ ~ (i \in n - count .. n - 1)
          BY <1>1, <1>2, <2>3
    <3>2. d[At(rb, i)] = s[(i + count) + 1]
          BY <1>1, <1>6, <1>9, <2>3, <3>1
    <3>3. t[i + 1] = s[(i + 1) + count] /\ (i + 1) + count = (i + count) + 1
          BY <1>1, <1>2, <1>10, <2>3, SMTT(40)
    <3>4. QED BY <2>3, <3>2, <3>3
  <2>4. CASE i < n - count /\ i < first
        BY <1>1, <1>2, <1>6, <1>9, <1>10, <2>4
  <2>5. QED BY <1>1, <1>2, <2>1, <2>2, <2>3, <2>4
<1>14. /\ tb.data \in Storage(tb.capacity) /\ tb.size <= tb.capacity
       /\ tb.capacity > 0 => tb.begin < tb.capacity
       /\ Len(t) = tb.size
       /\ \A i \in 0 .. tb.capacity - 1 :
             tb.data[At(tb, i)] = IF i < tb.size THEN t[i + 1] ELSE NoElement
       BY <1>1, <1>2, <1>9, <1>10, <1>11, <1>12, <1>13
<1>15. Sound(tb) /\ Contents(tb) = t
       BY <1>10, <1>11, <1>14, SoundContents
<1>16. QED BY <1>11, <1>15, ZenonT(60) DEF tb, t, d, wb, down, count, s, n, c, Closed

(* Slot p of a buffer that begins at slot 0 is its position p. *)
LEMMA FromZero ==
    ASSUME NEW tb, tb.begin = 0, tb.capacity \in Nat
    PROVE  \A i \in 0 .. tb.capacity - 1 : At(tb, i) = i
<1>1. ASSUME NEW i \in 0 .. tb.capacity - 1 PROVE At(tb, i) = i
  <2>1. tb.capacity \in Nat \ {0} /\ 0 + i = i /\ i \in Int /\ 0 <= i /\ i < tb.capacity
        OBVIOUS
  <2>2. QED BY <2>1, Wrap DEF At
<1>2. QED BY <1>1

LEMMA UnrolledTo ==
    ASSUME RingAssumption, NEW rb, Sound(rb), NEW cap \in 0 .. MaxCapacity,
           NEW k \in 0 .. rb.size, k <= cap
    PROVE  LET tb == Unrolled(rb, k, cap)
           IN  /\ Sound(tb) /\ tb.capacity = cap /\ tb.size = k
               /\ Contents(tb) = SubSeq(Contents(rb), 1, k)
<1> DEFINE n  == rb.size
           c  == rb.capacity
           s  == Contents(rb)
           d  == [p \in 0 .. cap - 1 |-> IF p < k THEN rb.data[At(rb, p)] ELSE NoElement]
           tb == Unrolled(rb, k, cap)
           t  == SubSeq(s, 1, k)
<1>1. /\ c \in Nat /\ n \in 0 .. c /\ c \in 0 .. MaxCapacity
      /\ \A i \in 0 .. c - 1 : rb.data[At(rb, i)] = IF i < n THEN s[i + 1] ELSE NoElement
      BY SlotsOf
<1>2. s \in Seq(Values) /\ Len(s) = n /\ k \in Nat /\ cap \in Nat
      BY <1>1, ContentsOf DEF RingAssumption
<1>3. tb = [data |-> d, begin |-> 0, size |-> k, capacity |-> cap]
      BY DEF Unrolled
<1> HIDE DEF s, tb, n, c
<1>4. t \in Seq(Values) /\ Len(t) = k /\ \A i \in 1 .. k : t[i] = s[i]
  <2>1. 1 \in 1 .. Len(s) + 1 /\ k \in 1 - 1 .. Len(s)
        BY <1>1, <1>2 DEF n
  <2>2. /\ t \in Seq(Values) /\ Len(t) = k - 1 + 1
        /\ \A i \in 1 .. k - 1 + 1 : t[i] = s[1 + i - 1]
        BY <1>2, <2>1, Part
  <2> HIDE DEF t
  <2>3. QED BY <1>2, <2>2
<1> HIDE DEF t
<1>5. \A p \in 0 .. cap - 1 : d[p] = IF p < k THEN t[p + 1] ELSE NoElement
  <2>1. ASSUME NEW p \in 0 .. cap - 1, p < k PROVE rb.data[At(rb, p)] = t[p + 1]
        BY <1>1, <1>2, <1>4, <2>1 DEF n
  <2>2. QED BY <2>1
<1>6. d \in Storage(cap)
  <2>1. ASSUME NEW p \in 0 .. cap - 1 PROVE d[p] \in Values \cup {NoElement}
    <3>1. p < k => p + 1 \in 1 .. Len(t)
          BY <1>2, <1>4
    <3>2. p < k => t[p + 1] \in Values
          BY <1>4, <3>1, ElementOfSeq
    <3> HIDE DEF d
    <3>3. QED BY <1>5, <3>2
  <2>2. QED BY <2>1 DEF Storage
<1> HIDE DEF d
<1>7. /\ tb \in Buffers /\ tb.data = d
      /\ tb.begin = 0 /\ tb.size = k /\ tb.capacity = cap
  <2>1. 0 \in 0 .. MaxCapacity /\ k \in 0 .. MaxCapacity /\ d \in UNION {Storage(j) : j \in 0 .. MaxCapacity}
        BY <1>2, <1>6 DEF RingAssumption
  <2>2. QED BY <1>3, <2>1 DEF Buffers
<1>8. \A i \in 0 .. cap - 1 : At(tb, i) = i
      BY <1>2, <1>7, FromZero
<1>9. /\ tb.data \in Storage(tb.capacity) /\ tb.size <= tb.capacity
      /\ tb.capacity > 0 => tb.begin < tb.capacity
      /\ Len(t) = tb.size
      /\ \A i \in 0 .. tb.capacity - 1 :
            tb.data[At(tb, i)] = IF i < tb.size THEN t[i + 1] ELSE NoElement
      BY <1>2, <1>4, <1>5, <1>6, <1>7, <1>8
<1>10. Sound(tb) /\ Contents(tb) = t
       BY <1>4, <1>7, <1>9, SoundContents
<1>11. QED BY <1>7, <1>10 DEF tb, t, s

LEMMA Shrunk ==
    ASSUME RingAssumption, NEW rb, Sound(rb), NEW k \in 0 .. rb.size
    PROVE  LET tb == [rb EXCEPT !.data = Destroy(rb, k .. rb.size - 1), !.size = k]
           IN  /\ Sound(tb) /\ tb.capacity = rb.capacity
               /\ Contents(tb) = SubSeq(Contents(rb), 1, k)
<1> DEFINE n  == rb.size
           c  == rb.capacity
           s  == Contents(rb)
           d  == Destroy(rb, k .. n - 1)
           tb == [rb EXCEPT !.data = d, !.size = k]
           t  == SubSeq(s, 1, k)
<1>1. /\ rb \in Buffers /\ rb.data \in Storage(c) /\ c \in Nat /\ n \in 0 .. c
      /\ c \in 0 .. MaxCapacity /\ (c > 0 => rb.begin \in 0 .. c - 1)
      /\ \A i \in 0 .. c - 1 : rb.data[At(rb, i)] = IF i < n THEN s[i + 1] ELSE NoElement
      /\ k \in 0 .. n
      BY SlotsOf
<1>2. /\ d \in Storage(c)
      /\ \A i \in 0 .. c - 1 : d[At(rb, i)] = IF i \in k .. n - 1 THEN NoElement ELSE rb.data[At(rb, i)]
  <2>1. CASE c > 0
        BY <1>1, <2>1, Destroyed
  <2>2. CASE c = 0
    <3>1. d = [p \in 0 .. c - 1 |-> IF Logical(rb, p) \in k .. n - 1 THEN NoElement ELSE rb.data[p]]
          BY <1>1 DEF Destroy, Storage
    <3>2. 0 .. c - 1 = {}
          BY <2>2
    <3> HIDE DEF d
    <3>3. QED BY <3>1, <3>2 DEF Storage
  <2>3. QED BY <1>1, <2>1, <2>2
<1>3. s \in Seq(Values) /\ Len(s) = n
      BY ContentsOf
<1> HIDE DEF s, d, n, c
<1>4. t \in Seq(Values) /\ Len(t) = k /\ \A i \in 1 .. k : t[i] = s[i]
  <2>1. 1 \in 1 .. Len(s) + 1 /\ k \in 1 - 1 .. Len(s)
        BY <1>1, <1>3
  <2>2. /\ t \in Seq(Values) /\ Len(t) = k - 1 + 1
        /\ \A i \in 1 .. k - 1 + 1 : t[i] = s[1 + i - 1]
        BY <1>3, <2>1, Part
  <2> HIDE DEF t
  <2>3. QED BY <1>1, <2>2
<1> HIDE DEF t
<1>5. /\ tb \in Buffers /\ tb.data = d
      /\ tb.begin = rb.begin /\ tb.size = k /\ tb.capacity = c
  <2>1. k \in 0 .. MaxCapacity /\ d \in UNION {Storage(j) : j \in 0 .. MaxCapacity}
        BY <1>1, <1>2 DEF RingAssumption
  <2>2. QED BY <1>1, <2>1 DEF Buffers, c
<1> HIDE DEF tb
<1>6. \A i : At(tb, i) = At(rb, i)
      BY <1>5, SameSlots DEF c
<1>7. /\ tb.data \in Storage(tb.capacity) /\ tb.size <= tb.capacity
      /\ tb.capacity > 0 => tb.begin < tb.capacity
      /\ Len(t) = tb.size
      /\ \A i \in 0 .. tb.capacity - 1 :
            tb.data[At(tb, i)] = IF i < tb.size THEN t[i + 1] ELSE NoElement
      BY <1>1, <1>2, <1>4, <1>5, <1>6
<1>8. Sound(tb) /\ Contents(tb) = t
      BY <1>4, <1>5, <1>7, SoundContents
<1>9. QED BY <1>5, <1>8 DEF tb, t, d, s, n, c

(* resize() into storage that is large enough. *)
LEMMA Grown ==
    ASSUME RingAssumption, NEW rb, Sound(rb), NEW k \in Nat, rb.size < k, k <= rb.capacity,
           NEW v \in Values
    PROVE  LET grown == [p \in DOMAIN rb.data |->
                            IF Logical(rb, p) \in rb.size .. k - 1 THEN v ELSE rb.data[p]]
               tb    == [rb EXCEPT !.data = grown, !.size = k]
           IN  /\ Sound(tb) /\ tb.capacity = rb.capacity
               /\ Contents(tb) = Contents(rb) \o [i \in 1 .. k - rb.size |-> v]
<1> DEFINE n  == rb.size
           c  == rb.capacity
           s  == Contents(rb)
           d  == [p \in DOMAIN rb.data |-> IF Logical(rb, p) \in rb.size .. k - 1 THEN v ELSE rb.data[p]]
           tb == [rb EXCEPT !.data = d, !.size = k]
           w  == [i \in 1 .. k - n |-> v]
           t  == s \o w
<1>1. /\ rb \in Buffers /\ rb.data \in Storage(c) /\ c \in Nat \ {0} /\ n \in 0 .. k - 1
      /\ c \in 0 .. MaxCapacity /\ rb.begin \in 0 .. c - 1 /\ k \in 1 .. c
      /\ \A i \in 0 .. c - 1 : rb.data[At(rb, i)] = IF i < n THEN s[i + 1] ELSE NoElement
      BY SlotsOf
<1>2. \A i \in 0 .. c - 1 : At(rb, i) \in 0 .. c - 1 /\ Logical(rb, At(rb, i)) = i
      BY <1>1, Positions
<1>3. d = [p \in 0 .. c - 1 |-> IF Logical(rb, p) \in n .. k - 1 THEN v ELSE rb.data[p]]
      BY <1>1 DEF Storage
<1>4. s \in Seq(Values) /\ Len(s) = n
      BY ContentsOf
<1>5. w \in Seq(Values) /\ Len(w) = k - n /\ \A i \in 1 .. k - n : w[i] = v
  <2>1. k - n \in Nat /\ \A i \in 1 .. k - n : v \in Values
        BY <1>1
  <2>2. w \in [1 .. k - n -> Values]
        BY <2>1
  <2>3. DOMAIN w = 1 .. k - n
        OBVIOUS
  <2> HIDE DEF w, n
  <2>4. w \in Seq(Values) /\ Len(w) = k - n
        BY <2>1, <2>2, <2>3
  <2>5. \A i \in 1 .. k - n : w[i] = v
        BY DEF w
  <2>6. QED BY <2>4, <2>5
<1> HIDE DEF s, d, n, c, w
<1>6. /\ t \in Seq(Values) /\ Len(t) = k
      /\ \A i \in 1 .. k : t[i] = IF i <= n THEN s[i] ELSE v
  <2>1. /\ t \in Seq(Values) /\ Len(t) = Len(s) + Len(w)
        /\ \A i \in 1 .. Len(s) + Len(w) : t[i] = IF i <= Len(s) THEN s[i] ELSE w[i - Len(s)]
        BY <1>4, <1>5, Joined
  <2> HIDE DEF t
  <2>2. Len(s) + Len(w) = k
        BY <1>1, <1>4, <1>5
  <2>3. ASSUME NEW i \in 1 .. k PROVE t[i] = IF i <= n THEN s[i] ELSE v
    <3>1. ~ (i <= n) => i - n \in 1 .. k - n
          BY <1>1
    <3>2. QED BY <1>4, <1>5, <2>1, <2>2, <3>1
  <2>4. QED BY <2>1, <2>2, <2>3
<1> HIDE DEF t
<1>7. /\ d \in Storage(c)
      /\ \A i \in 0 .. c - 1 : d[At(rb, i)] = IF i \in n .. k - 1 THEN v ELSE rb.data[At(rb, i)]
      BY <1>1, <1>2, <1>3 DEF Storage
<1>8. /\ tb \in Buffers /\ tb.data = d
      /\ tb.begin = rb.begin /\ tb.size = k /\ tb.capacity = c
  <2>1. k \in 0 .. MaxCapacity /\ d \in UNION {Storage(j) : j \in 0 .. MaxCapacity}
        BY <1>1, <1>7 DEF RingAssumption
  <2>2. QED BY <1>1, <2>1 DEF Buffers, c
<1> HIDE DEF tb
<1>9. \A i : At(tb, i) = At(rb, i)
      BY <1>8, SameSlots DEF c
<1>10. ASSUME NEW i \in 0 .. c - 1
       PROVE  d[At(rb, i)] = IF i < k THEN t[i + 1] ELSE NoElement
  <2>1. CASE i < n
        BY <1>1, <1>6, <1>7, <2>1
  <2>2. CASE n <= i /\ i < k
        BY <1>1, <1>6, <1>7, <2>2
  <2>3. CASE k <= i
        BY <1>1, <1>7, <2>3
  <2>4. QED BY <1>1, <2>1, <2>2, <2>3
<1>11. /\ tb.data \in Storage(tb.capacity) /\ tb.size <= tb.capacity
       /\ tb.capacity > 0 => tb.begin < tb.capacity
       /\ Len(t) = tb.size
       /\ \A i \in 0 .. tb.capacity - 1 :
             tb.data[At(tb, i)] = IF i < tb.size THEN t[i + 1] ELSE NoElement
       BY <1>1, <1>6, <1>7, <1>8, <1>9, <1>10
<1>12. Sound(tb) /\ Contents(tb) = t
       BY <1>6, <1>8, <1>11, SoundContents
<1>13. QED BY <1>8, <1>12 DEF tb, t, d, w, s, n, c

(* A buffer without elements, with or without storage. *)
LEMMA WithoutElements ==
    ASSUME RingAssumption, NEW cap \in 0 .. MaxCapacity, NEW tb \in Buffers,
           tb.data = RawStorage(cap), tb.capacity = cap, tb.size = 0,
           cap > 0 => tb.begin = 0
    PROVE  Sound(tb) /\ Contents(tb) = <<>>
<1>1. cap \in Nat /\ <<>> \in Seq(Values) /\ Len(<<>>) = 0
      BY DEF RingAssumption
<1>2. tb.data \in Storage(tb.capacity)
      BY DEF RawStorage, Storage
<1>3. ASSUME NEW i \in 0 .. tb.capacity - 1
      PROVE  tb.data[At(tb, i)] = IF i < tb.size THEN <<>>[i + 1] ELSE NoElement
  <2>1. tb.begin = 0 /\ tb.capacity \in Nat
        BY <1>1
  <2>2. At(tb, i) = i
        BY <2>1, FromZero
  <2>3. QED BY <1>1, <2>2 DEF RawStorage
<1>4. /\ tb.size <= tb.capacity /\ Len(<<>>) = tb.size
      /\ tb.capacity > 0 => tb.begin < tb.capacity
      BY <1>1
<1>5. QED BY <1>1, <1>2, <1>3, <1>4, SoundContents

LEMMA FilledBuffer ==
    ASSUME RingAssumption, NEW n \in 0 .. MaxCapacity, NEW v \in Values
    PROVE  LET tb == Filled(v, n)
           IN  Sound(tb) /\ tb.capacity = n /\ Contents(tb) = [i \in 1 .. n |-> v]
<1> DEFINE d  == [p \in 0 .. n - 1 |-> v]
           tb == Filled(v, n)
           t  == [i \in 1 .. n |-> v]
<1>1. n \in Nat /\ t \in Seq(Values) /\ Len(t) = n /\ \A i \in 1 .. n : t[i] = v
      BY DEF RingAssumption
<1>2. tb = [data |-> d, begin |-> 0, size |-> n, capacity |-> n]
      BY DEF Filled
<1>3. d \in Storage(n) /\ \A p \in 0 .. n - 1 : d[p] = v
      BY DEF Storage
<1> HIDE DEF d, t, tb
<1>4. /\ tb \in Buffers /\ tb.data = d
      /\ tb.begin = 0 /\ tb.size = n /\ tb.capacity = n
  <2>1. 0 \in 0 .. MaxCapacity /\ d \in UNION {Storage(j) : j \in 0 .. MaxCapacity}
        BY <1>3 DEF RingAssumption
  <2>2. QED BY <1>2, <2>1 DEF Buffers
<1>5. \A i \in 0 .. n - 1 : At(tb, i) = i
      BY <1>1, <1>4, FromZero
<1>6. /\ tb.data \in Storage(tb.capacity) /\ tb.size <= tb.capacity
      /\ tb.capacity > 0 => tb.begin < tb.capacity
      /\ Len(t) = tb.size
      /\ \A i \in 0 .. tb.capacity - 1 :
            tb.data[At(tb, i)] = IF i < tb.size THEN t[i + 1] ELSE NoElement
      BY <1>1, <1>3, <1>4, <1>5
<1>7. Sound(tb) /\ Contents(tb) = t
      BY <1>1, <1>4, <1>6, SoundContents
<1>8. QED BY <1>4, <1>7 DEF t, tb

-----------------------------------------------------------------------------
(* The inductive invariant. *)
Inv ==
    /\ policy \in Policies
    /\ buf \in [Objects -> Buffers]
    /\ \A o \in Objects : Sound(buf[o])
    /\ dropped \in [Objects -> 0 .. MaxDrops]
    /\ undefined = FALSE

(* What is known of one buffer and its sequence. *)
LEMMA OneOf ==
    ASSUME Inv, NEW o \in Objects
    PROVE  /\ Sound(buf[o]) /\ buf[o] \in Buffers
           /\ buf[o].size \in 0 .. buf[o].capacity /\ buf[o].capacity \in Nat
           /\ buf[o].capacity \in 0 .. MaxCapacity
           /\ Contained[o] = Contents(buf[o]) /\ Capacities[o] = buf[o].capacity
           /\ Contained[o] \in Seq(Values) /\ Len(Contained[o]) = buf[o].size
<1>1. Sound(buf[o]) /\ buf[o] \in Buffers
      BY DEF Inv
<1>2. buf[o].size \in 0 .. buf[o].capacity /\ buf[o].capacity \in Nat /\ buf[o].capacity \in 0 .. MaxCapacity
      BY <1>1, SlotsOf
<1>3. Contained[o] = Contents(buf[o]) /\ Capacities[o] = buf[o].capacity
      BY DEF Contained, Capacities
<1>4. QED BY <1>1, <1>2, <1>3, ContentsOf

(* One buffer becomes another sound one: one sequence changes. *)
LEMMA Became ==
    ASSUME Inv, NEW o \in Objects, NEW rb, Sound(rb), Become(o, rb),
           policy' = policy, undefined' = FALSE, dropped' \in [Objects -> 0 .. MaxDrops]
    PROVE  /\ Inv'
           /\ Contained' = [Contained EXCEPT ![o] = Contents(rb)]
           /\ Capacities' = [Capacities EXCEPT ![o] = rb.capacity]
<1>1. buf \in [Objects -> Buffers] /\ rb \in Buffers /\ buf' = [buf EXCEPT ![o] = rb]
      BY DEF Inv, Sound, Become
<1>2. \A x \in Objects : buf'[x] = IF x = o THEN rb ELSE buf[x]
      BY <1>1
<1>3. Inv'
  <2>1. buf' \in [Objects -> Buffers]
        BY <1>1
  <2>2. ASSUME NEW x \in Objects PROVE Sound(buf'[x])
        BY <1>2 DEF Inv
  <2>3. QED BY <2>1, <2>2 DEF Inv
<1>4. Contained' = [x \in Objects |-> Contents(buf'[x])] /\ Capacities' = [x \in Objects |-> buf'[x].capacity]
      BY DEF Contained, Capacities
<1>5. Contained' = [Contained EXCEPT ![o] = Contents(rb)]
      BY <1>2, <1>4 DEF Contained
<1>6. Capacities' = [Capacities EXCEPT ![o] = rb.capacity]
      BY <1>2, <1>4 DEF Capacities
<1>7. QED BY <1>3, <1>5, <1>6

(* ... of the same capacity, and nothing is dropped. *)
LEMMA BecameQuietly ==
    ASSUME Inv, NEW o \in Objects, NEW rb, Sound(rb), Become(o, rb), Quiet
    PROVE  /\ Inv' /\ policy' = policy /\ dropped' = dropped
           /\ Contained' = [Contained EXCEPT ![o] = Contents(rb)]
           /\ Capacities' = [Capacities EXCEPT ![o] = rb.capacity]
           /\ rb.capacity = buf[o].capacity => Capacities' = Capacities
<1>1. policy' = policy /\ undefined' = FALSE /\ dropped' \in [Objects -> 0 .. MaxDrops] /\ dropped' = dropped
      BY DEF Quiet, Inv
<1>2. /\ Inv'
      /\ Contained' = [Contained EXCEPT ![o] = Contents(rb)]
      /\ Capacities' = [Capacities EXCEPT ![o] = rb.capacity]
      BY <1>1, Became
<1>3. rb.capacity = buf[o].capacity => Capacities' = Capacities
      BY <1>2 DEF Capacities
<1>4. QED BY <1>1, <1>2, <1>3

(* A refusal is counted. *)
LEMMA Rejected ==
    ASSUME RingAssumption, Inv, NEW o \in Objects, Reject(o)
    PROVE  /\ Inv' /\ policy' = policy /\ policy = "reject"
           /\ dropped' = [dropped EXCEPT ![o] = @ + 1]
           /\ Contained' = Contained /\ Capacities' = Capacities
<1>1. dropped' \in [Objects -> 0 .. MaxDrops]
      BY DEF Reject, Inv, RingAssumption
<1>2. buf' = buf /\ policy' = policy /\ undefined' = undefined
      BY DEF Reject
<1>3. Inv'
      BY <1>1, <1>2 DEF Inv
<1>4. Contained' = Contained /\ Capacities' = Capacities
      BY <1>2 DEF Contained, Capacities
<1>5. QED BY <1>2, <1>3, <1>4 DEF Reject

-----------------------------------------------------------------------------
(* Each operation keeps the invariant and is an operation on sequences. *)
LEMMA PushesBack ==
    ASSUME RingAssumption, Inv, NEW o \in Objects, NEW v \in Values, PushBack(o, v)
    PROVE  Inv' /\ Deque!PushBack(o, v)
<1> DEFINE rb == buf[o]
           s  == Contained[o]
<1>1. /\ Sound(rb) /\ rb.size \in 0 .. rb.capacity /\ rb.capacity \in Nat
      /\ s = Contents(rb) /\ Capacities[o] = rb.capacity
      /\ s \in Seq(Values) /\ Len(s) = rb.size
      BY OneOf
<1>2. Deque!Full(o) <=> ~ Free(o)
      BY <1>1 DEF Deque!Full, Free
<1>3. CASE Free(o) /\ Become(o, [Put(rb, rb.size, v) EXCEPT !.size = @ + 1]) /\ Quiet
  <2> DEFINE tb == [Put(rb, rb.size, v) EXCEPT !.size = @ + 1]
  <2>1. Sound(tb) /\ tb.capacity = rb.capacity /\ Contents(tb) = Append(s, v)
        BY <1>1, <1>3, PushedBack DEF Free
  <2>2. Become(o, tb) /\ Quiet
        BY <1>3
  <2> HIDE DEF tb
  <2>3. /\ Inv' /\ policy' = policy /\ dropped' = dropped /\ Capacities' = Capacities
        /\ Contained' = [Contained EXCEPT ![o] = Append(s, v)]
        BY <2>1, <2>2, BecameQuietly
  <2>4. QED BY <1>2, <1>3, <2>3 DEF Deque!PushBack, Deque!Add, Deque!Become
<1>4. CASE /\ ~ Free(o) /\ policy = "overwrite" /\ rb.capacity # 0
           /\ Become(o, [Put(rb, 0, v) EXCEPT !.begin = Advanced(rb)])
           /\ Quiet
  <2> DEFINE tb == [Put(rb, 0, v) EXCEPT !.begin = Advanced(rb)]
  <2>1. rb.size = rb.capacity
        BY <1>1, <1>4 DEF Free
  <2>2. Sound(tb) /\ tb.capacity = rb.capacity /\ Contents(tb) = Append(Tail(s), v)
        BY <1>1, <1>4, <2>1, PushedBackFull
  <2>3. Become(o, tb) /\ Quiet
        BY <1>4
  <2> HIDE DEF tb
  <2>4. /\ Inv' /\ policy' = policy /\ dropped' = dropped /\ Capacities' = Capacities
        /\ Contained' = [Contained EXCEPT ![o] = Append(Tail(s), v)]
        BY <2>2, <2>3, BecameQuietly
  <2>5. s # <<>>
        BY <1>1, <1>4, <2>1
  <2>6. QED BY <1>2, <1>4, <2>4, <2>5 DEF Deque!PushBack, Deque!Add, Deque!Become
<1>5. CASE ~ Free(o) /\ Reject(o)
  <2>1. /\ Inv' /\ policy' = policy /\ policy = "reject" /\ dropped' = [dropped EXCEPT ![o] = @ + 1]
        /\ Contained' = Contained /\ Capacities' = Capacities
        BY <1>5, Rejected
  <2>2. QED BY <1>2, <1>5, <2>1 DEF Deque!PushBack, Deque!Add
<1>6. QED BY <1>3, <1>4, <1>5 DEF PushBack

LEMMA PushesFront ==
    ASSUME RingAssumption, Inv, NEW o \in Objects, NEW v \in Values, PushFront(o, v)
    PROVE  Inv' /\ Deque!PushFront(o, v)
<1> DEFINE rb   == buf[o]
           s    == Contained[o]
           back == [rb EXCEPT !.begin = Retreated(rb)]
<1>1. /\ Sound(rb) /\ rb.size \in 0 .. rb.capacity /\ rb.capacity \in Nat
      /\ s = Contents(rb) /\ Capacities[o] = rb.capacity
      /\ s \in Seq(Values) /\ Len(s) = rb.size
      BY OneOf
<1>2. Deque!Full(o) <=> ~ Free(o)
      BY <1>1 DEF Deque!Full, Free
<1>3. CASE Free(o) /\ Become(o, [Put(back, 0, v) EXCEPT !.size = @ + 1]) /\ Quiet
  <2> DEFINE tb == [Put(back, 0, v) EXCEPT !.size = @ + 1]
  <2>1. Sound(tb) /\ tb.capacity = rb.capacity /\ Contents(tb) = Cons(v, s)
        BY <1>1, <1>3, PushedFront DEF Free
  <2>2. Become(o, tb) /\ Quiet
        BY <1>3
  <2> HIDE DEF tb
  <2>3. /\ Inv' /\ policy' = policy /\ dropped' = dropped /\ Capacities' = Capacities
        /\ Contained' = [Contained EXCEPT ![o] = Cons(v, s)]
        BY <2>1, <2>2, BecameQuietly
  <2>4. QED BY <1>2, <1>3, <2>3
            DEF Deque!PushFront, Deque!Add, Deque!Become, Deque!Cons, Cons
<1>4. CASE /\ ~ Free(o) /\ policy = "overwrite" /\ rb.capacity # 0
           /\ Become(o, Put(back, 0, v))
           /\ Quiet
  <2> DEFINE tb == Put(back, 0, v)
  <2>1. rb.size = rb.capacity
        BY <1>1, <1>4 DEF Free
  <2>2. Sound(tb) /\ tb.capacity = rb.capacity /\ Contents(tb) = Cons(v, Front(s))
        BY <1>1, <1>4, <2>1, PushedFrontFull
  <2>3. Become(o, tb) /\ Quiet
        BY <1>4
  <2> HIDE DEF tb
  <2>4. /\ Inv' /\ policy' = policy /\ dropped' = dropped /\ Capacities' = Capacities
        /\ Contained' = [Contained EXCEPT ![o] = Cons(v, Front(s))]
        BY <2>2, <2>3, BecameQuietly
  <2>5. s # <<>>
        BY <1>1, <1>4, <2>1
  <2>6. QED BY <1>2, <1>4, <2>4, <2>5
            DEF Deque!PushFront, Deque!Add, Deque!Become, Deque!Cons, Cons, Deque!Front, Front
<1>5. CASE ~ Free(o) /\ Reject(o)
  <2>1. /\ Inv' /\ policy' = policy /\ policy = "reject" /\ dropped' = [dropped EXCEPT ![o] = @ + 1]
        /\ Contained' = Contained /\ Capacities' = Capacities
        BY <1>5, Rejected
  <2>2. QED BY <1>2, <1>5, <2>1 DEF Deque!PushFront, Deque!Add
<1>6. QED BY <1>3, <1>4, <1>5 DEF PushFront

LEMMA Emplaces ==
    ASSUME RingAssumption, Inv, NEW o \in Objects, NEW offset \in 0 .. buf[o].size,
           NEW v \in Values, Emplace(o, offset, v)
    PROVE  Inv' /\ Deque!Insert(o, offset + 1, v)
<1> DEFINE rb == buf[o]
           s  == Contained[o]
           shifted == [rb EXCEPT !.data = ShiftedIn(rb, offset, v)]
           u  == InsertAt(s, offset + 1, v)
<1>1. /\ Sound(rb) /\ rb.size \in 0 .. rb.capacity /\ rb.capacity \in Nat
      /\ s = Contents(rb) /\ Capacities[o] = rb.capacity
      /\ s \in Seq(Values) /\ Len(s) = rb.size
      BY OneOf
<1>2. (Deque!Full(o) <=> ~ Free(o)) /\ Deque!InsertAt(s, offset + 1, v) = u
      BY <1>1 DEF Deque!Full, Free, InsertAt, Deque!InsertAt
<1>3. CASE Free(o) /\ Become(o, [shifted EXCEPT !.size = @ + 1]) /\ Quiet
  <2> DEFINE tb == Roomier(rb, offset, v)
  <2>1. Sound(tb) /\ tb.capacity = rb.capacity /\ Contents(tb) = u
        BY <1>1, <1>3, Emplaced DEF Free
  <2>2. Become(o, tb) /\ Quiet
        BY <1>3 DEF Roomier
  <2> HIDE DEF tb, u
  <2>3. /\ Inv' /\ policy' = policy /\ dropped' = dropped /\ Capacities' = Capacities
        /\ Contained' = [Contained EXCEPT ![o] = u]
        BY <2>1, <2>2, BecameQuietly
  <2>4. QED BY <1>2, <1>3, <2>3 DEF Deque!Insert, Deque!Add, Deque!Become
<1>4. CASE /\ ~ Free(o) /\ policy = "overwrite" /\ offset # 0
           /\ Become(o, [shifted EXCEPT !.begin = Advanced(rb)])
           /\ Quiet
  <2> DEFINE tb == Shifted(rb, offset, v)
  <2>1. rb.size = rb.capacity /\ offset \in 1 .. rb.size /\ offset + 1 # 1
        BY <1>1, <1>4 DEF Free
  <2>2. Sound(tb) /\ tb.capacity = rb.capacity /\ Contents(tb) = Tail(u)
        BY <1>1, <2>1, EmplacedFull
  <2>3. Become(o, tb) /\ Quiet
        BY <1>4 DEF Shifted
  <2> HIDE DEF tb, u
  <2>4. /\ Inv' /\ policy' = policy /\ dropped' = dropped /\ Capacities' = Capacities
        /\ Contained' = [Contained EXCEPT ![o] = Tail(u)]
        BY <2>2, <2>3, BecameQuietly
  <2>5. QED BY <1>2, <1>4, <2>1, <2>4 DEF Deque!Insert, Deque!Add, Deque!Become
<1>5. CASE ~ Free(o) /\ Reject(o)
  <2>1. /\ Inv' /\ policy' = policy /\ policy = "reject" /\ dropped' = [dropped EXCEPT ![o] = @ + 1]
        /\ Contained' = Contained /\ Capacities' = Capacities
        BY <1>5, Rejected
  <2>2. QED BY <1>2, <1>5, <2>1 DEF Deque!Insert, Deque!Add
<1>6. QED BY <1>3, <1>4, <1>5 DEF Emplace

(* Removal is Deque!Erase of some positions. *)
LEMMA Removes ==
    ASSUME RingAssumption, Inv, NEW o \in Objects,
           PopBack(o) \/ PopFront(o) \/ Clear(o)
             \/ \E first, last \in 0 .. buf[o].size : Erase(o, first, last)
    PROVE  /\ Inv'
           /\ \E i, j \in 1 .. Len(Contained[o]) + 1 : i <= j /\ Deque!Erase(o, i, j)
<1> DEFINE rb == buf[o]
           s  == Contained[o]
<1>1. /\ Sound(rb) /\ rb.size \in 0 .. rb.capacity /\ rb.capacity \in Nat
      /\ rb \in Buffers /\ rb.capacity \in 0 .. MaxCapacity
      /\ s = Contents(rb) /\ Capacities[o] = rb.capacity
      /\ s \in Seq(Values) /\ Len(s) = rb.size
      BY OneOf
<1>2. ASSUME NEW i \in 1 .. Len(s) + 1, NEW j \in 1 .. Len(s) + 1, i <= j,
             NEW tb, Sound(tb), tb.capacity = rb.capacity, Become(o, tb), Quiet,
             Contents(tb) = SubSeq(s, 1, i - 1) \o SubSeq(s, j, Len(s))
      PROVE  Inv' /\ Deque!Erase(o, i, j)
  <2>1. /\ Inv' /\ policy' = policy /\ dropped' = dropped /\ Capacities' = Capacities
        /\ Contained' = [Contained EXCEPT ![o] = Contents(tb)]
        BY <1>2, BecameQuietly
  <2>2. QED BY <1>2, <2>1 DEF Deque!Erase, Deque!Become
<1>3. CASE PopBack(o)
  <2> DEFINE tb == [rb EXCEPT !.data = Destroy(rb, {rb.size - 1}), !.size = @ - 1]
             n  == Len(s)
  <2>1. rb.size > 0 /\ Become(o, tb) /\ Quiet
        BY <1>3 DEF PopBack
  <2>2. /\ Sound(tb) /\ tb.capacity = rb.capacity
        /\ Contents(tb) = SubSeq(s, 1, n - 1) \o SubSeq(s, n + 1, n)
        BY <1>1, <2>1, PoppedBack
  <2>3. n \in 1 .. n + 1 /\ n + 1 \in 1 .. n + 1 /\ n <= n + 1
        BY <1>1, <2>1
  <2> HIDE DEF tb
  <2>4. Inv' /\ Deque!Erase(o, n, n + 1)
        BY <1>2, <2>1, <2>2, <2>3
  <2>5. QED BY <2>3, <2>4
<1>4. CASE PopFront(o)
  <2> DEFINE tb == [rb EXCEPT !.data = Destroy(rb, {0}), !.begin = Advanced(rb), !.size = @ - 1]
  <2>1. rb.size > 0 /\ Become(o, tb) /\ Quiet
        BY <1>4 DEF PopFront
  <2>2. /\ Sound(tb) /\ tb.capacity = rb.capacity
        /\ Contents(tb) = SubSeq(s, 1, 0) \o SubSeq(s, 2, Len(s))
        BY <1>1, <2>1, PoppedFront
  <2>3. 1 \in 1 .. Len(s) + 1 /\ 2 \in 1 .. Len(s) + 1 /\ 1 <= 2 /\ 1 - 1 = 0
        BY <1>1, <2>1
  <2> HIDE DEF tb
  <2>4. Inv' /\ Deque!Erase(o, 1, 2)
        BY <1>2, <2>1, <2>2, <2>3
  <2>5. QED BY <2>3, <2>4
<1>5. CASE Clear(o)
  <2> DEFINE tb == [rb EXCEPT !.data = RawStorage(rb.capacity), !.begin = 0, !.size = 0]
             n  == Len(s)
  <2>1. Become(o, tb) /\ Quiet
        BY <1>5 DEF Clear
  <2>2. tb \in Buffers /\ tb.data = RawStorage(rb.capacity) /\ tb.begin = 0 /\ tb.size = 0 /\ tb.capacity = rb.capacity
    <3>1. RawStorage(rb.capacity) \in Storage(rb.capacity)
          BY DEF RawStorage, Storage
    <3>2. RawStorage(rb.capacity) \in UNION {Storage(k) : k \in 0 .. MaxCapacity}
          BY <1>1, <3>1
    <3>3. 0 \in 0 .. MaxCapacity
          BY DEF RingAssumption
    <3>4. QED BY <1>1, <3>2, <3>3 DEF Buffers
  <2> HIDE DEF tb
  <2>3. Sound(tb) /\ Contents(tb) = <<>>
        BY <1>1, <2>2, WithoutElements
  <2>4. SubSeq(s, 1, 1 - 1) \o SubSeq(s, n + 1, n) = <<>>
    <3>1. SubSeq(s, 1, 1 - 1) = <<>> /\ SubSeq(s, n + 1, n) = <<>>
          BY <1>1, SubSeqEmpty
    <3>2. QED BY <3>1
  <2>5. 1 \in 1 .. n + 1 /\ n + 1 \in 1 .. n + 1 /\ 1 <= n + 1
        BY <1>1
  <2>6. Inv' /\ Deque!Erase(o, 1, n + 1)
        BY <1>2, <2>1, <2>2, <2>3, <2>4, <2>5
  <2>7. QED BY <2>5, <2>6
<1>6. ASSUME NEW first \in 0 .. rb.size, NEW last \in 0 .. rb.size, Erase(o, first, last)
      PROVE  Inv' /\ \E i, j \in 1 .. Len(s) + 1 : i <= j /\ Deque!Erase(o, i, j)
  <2> DEFINE tb == Closed(rb, first, last)
             i  == first + 1
             j  == last + 1
  <2>1. first < last /\ last <= rb.size /\ Become(o, tb) /\ Quiet
        BY <1>6 DEF Erase, Closed
  <2>2. first \in Nat /\ last \in Nat
        BY <1>1
  <2>3. /\ Sound(tb) /\ tb.capacity = rb.capacity
        /\ Contents(tb) = SubSeq(s, 1, first) \o SubSeq(s, last + 1, Len(s))
    <3>1. \A f, l \in Nat : f < l /\ l <= rb.size =>
             /\ Sound(Closed(rb, f, l)) /\ Closed(rb, f, l).capacity = rb.capacity
             /\ Contents(Closed(rb, f, l))
                   = SubSeq(Contents(rb), 1, f) \o SubSeq(Contents(rb), l + 1, Len(Contents(rb)))
          BY <1>1, Erased
    <3>2. QED BY <1>1, <2>1, <2>2, <3>1, Zenon
  <2> HIDE DEF tb
  <2>4. i \in 1 .. Len(s) + 1 /\ j \in 1 .. Len(s) + 1 /\ i <= j /\ i - 1 = first
        BY <1>1, <2>1, <2>2
  <2> HIDE DEF i
  <2>5. Inv' /\ Deque!Erase(o, i, j)
        BY <1>2, <2>1, <2>3, <2>4
  <2>6. QED BY <2>4, <2>5, SMTT(40)
<1>7. QED BY <1>3, <1>4, <1>5, <1>6

(* set_capacity and resize *)
LEMMA Reshapes ==
    ASSUME RingAssumption, Inv, NEW o \in Objects,
           \/ \E n \in 0 .. MaxCapacity : SetCapacity(o, n)
           \/ \E n \in 0 .. MaxCapacity, v \in Values : Resize(o, n, v)
    PROVE  /\ Inv'
           /\ \E cap, n \in 0 .. MaxCapacity, v \in Values : Deque!Reshape(o, cap, n, v)
<1> DEFINE rb == buf[o]
           s  == Contained[o]
<1>1. /\ Sound(rb) /\ rb.size \in 0 .. rb.capacity /\ rb.capacity \in Nat
      /\ rb \in Buffers /\ rb.capacity \in 0 .. MaxCapacity
      /\ s = Contents(rb) /\ Capacities[o] = rb.capacity
      /\ s \in Seq(Values) /\ Len(s) = rb.size
      /\ MaxCapacity \in Nat /\ Values # {}
      BY OneOf DEF RingAssumption
<1>2. ASSUME NEW cap \in 0 .. MaxCapacity, NEW n \in 0 .. MaxCapacity, NEW v \in Values, n <= cap,
             NEW tb, Sound(tb), tb.capacity = cap, Become(o, tb), Quiet,
             Contents(tb) = IF n <= Len(s) THEN SubSeq(s, 1, n)
                            ELSE s \o [i \in 1 .. n - Len(s) |-> v]
      PROVE  Inv' /\ Deque!Reshape(o, cap, n, v)
  <2>1. /\ Inv' /\ policy' = policy /\ dropped' = dropped
        /\ Capacities' = [Capacities EXCEPT ![o] = cap]
        /\ Contained' = [Contained EXCEPT ![o] = Contents(tb)]
        BY <1>2, BecameQuietly
  <2>2. QED BY <1>2, <2>1 DEF Deque!Reshape, Deque!Become, Deque!Filled
<1>3. ASSUME NEW cap \in 0 .. MaxCapacity
      PROVE  LET m == IF rb.size < cap THEN rb.size ELSE cap
             IN  /\ m \in 0 .. rb.size /\ m \in 0 .. MaxCapacity /\ m <= cap
                 /\ Sound(Resized(rb, cap)) /\ Resized(rb, cap).capacity = cap
                 /\ Resized(rb, cap).size = m
                 /\ Contents(Resized(rb, cap)) = SubSeq(s, 1, m)
  <2> DEFINE m == IF rb.size < cap THEN rb.size ELSE cap
  <2>1. m \in 0 .. rb.size /\ m \in 0 .. MaxCapacity /\ m <= cap
        BY <1>1
  <2>2. Resized(rb, cap) = Unrolled(rb, m, cap)
        BY DEF Resized
  <2> HIDE DEF m
  <2>3. /\ Sound(Unrolled(rb, m, cap)) /\ Unrolled(rb, m, cap).capacity = cap
        /\ Unrolled(rb, m, cap).size = m
        /\ Contents(Unrolled(rb, m, cap)) = SubSeq(s, 1, m)
    <3>1. \A r : Sound(r) => \A c \in 0 .. MaxCapacity, k \in 0 .. r.size : k <= c =>
             /\ Sound(Unrolled(r, k, c)) /\ Unrolled(r, k, c).capacity = c
             /\ Unrolled(r, k, c).size = k
             /\ Contents(Unrolled(r, k, c)) = SubSeq(Contents(r), 1, k)
          BY UnrolledTo
    <3>2. Sound(rb)
          BY <1>1
    <3> HIDE DEF rb
    <3>3. /\ Sound(Unrolled(rb, m, cap)) /\ Unrolled(rb, m, cap).capacity = cap
          /\ Unrolled(rb, m, cap).size = m
          /\ Contents(Unrolled(rb, m, cap)) = SubSeq(Contents(rb), 1, m)
          BY <2>1, <3>1, <3>2, ZenonT(120)
    <3>4. QED BY <1>1, <3>3
  <2>4. QED BY <2>1, <2>2, <2>3 DEF m
<1>4. ASSUME NEW cap \in 0 .. MaxCapacity, SetCapacity(o, cap)
      PROVE  Inv' /\ \E n \in 0 .. MaxCapacity, v \in Values : Deque!Reshape(o, cap, n, v)
  <2> DEFINE m == IF rb.size < cap THEN rb.size ELSE cap
             tb == Resized(rb, cap)
  <2>1. /\ m \in 0 .. rb.size /\ m \in 0 .. MaxCapacity /\ m <= cap
        /\ Sound(tb) /\ tb.capacity = cap /\ Contents(tb) = SubSeq(s, 1, m)
        BY <1>3
  <2>2. Become(o, tb) /\ Quiet
        BY <1>4 DEF SetCapacity
  <2>3. PICK v \in Values : TRUE
        BY <1>1
  <2> HIDE DEF m, tb
  <2>4. m <= Len(s)
        BY <1>1, <2>1
  <2>5. Inv' /\ Deque!Reshape(o, cap, m, v)
        BY <1>2, <2>1, <2>2, <2>4
  <2>6. QED BY <2>1, <2>5
<1>5. ASSUME NEW n \in 0 .. MaxCapacity, NEW v \in Values, Resize(o, n, v)
      PROVE  Inv' /\ \E cap \in 0 .. MaxCapacity : Deque!Reshape(o, cap, n, v)
  <2>1. CASE n <= rb.size
    <3> DEFINE tb == [rb EXCEPT !.data = Destroy(rb, n .. rb.size - 1), !.size = n]
    <3>1. Become(o, tb) /\ Quiet /\ n \in 0 .. rb.size
      <4>1. Become(o, tb) /\ Quiet
            BY <1>5, <2>1, Zenon DEF Resize
      <4>2. n \in 0 .. rb.size
            BY <1>1, <2>1
      <4>3. QED BY <4>1, <4>2
    <3>2. Sound(tb) /\ tb.capacity = rb.capacity /\ Contents(tb) = SubSeq(s, 1, n)
          BY <1>1, <3>1, Shrunk
    <3> HIDE DEF tb
    <3>3. n <= rb.capacity /\ n <= Len(s)
          BY <1>1, <2>1
    <3>4. Inv' /\ Deque!Reshape(o, rb.capacity, n, v)
          BY <1>1, <1>2, <3>1, <3>2, <3>3
    <3>5. QED BY <1>1, <3>4
  <2>2. CASE ~ (n <= rb.size)
    <3> DEFINE room  == IF n > rb.capacity THEN Resized(rb, n) ELSE rb
               cap   == room.capacity
               grown == [p \in DOMAIN room.data |->
                            IF Logical(room, p) \in rb.size .. n - 1 THEN v ELSE room.data[p]]
               tb    == [room EXCEPT !.data = grown, !.size = n]
    <3>1. Become(o, tb) /\ Quiet
          BY <1>5, <2>2, ZenonT(60) DEF Resize
    <3>2. /\ Sound(room) /\ Contents(room) = s /\ room.size = rb.size
          /\ room.capacity \in 0 .. MaxCapacity /\ n <= room.capacity
      <4>1. CASE n > rb.capacity
        <5>1. rb.size < n
              BY <1>1, <2>2
        <5>2. /\ Sound(Resized(rb, n)) /\ Resized(rb, n).capacity = n
              /\ Resized(rb, n).size = rb.size
              /\ Contents(Resized(rb, n)) = SubSeq(s, 1, rb.size)
              BY <1>3, <5>1
        <5>3. SubSeq(s, 1, rb.size) = s
              BY <1>1, SubSeqFull
        <5>4. QED BY <1>1, <4>1, <5>2, <5>3, SMTT(40)
      <4>2. CASE ~ (n > rb.capacity)
            BY <1>1, <4>2
      <4>3. QED BY <4>1, <4>2
    <3> HIDE DEF room
    <3>3. n \in Nat /\ room.size < n
          BY <1>1, <2>2, <3>2
    <3>4. /\ Sound(tb) /\ tb.capacity = room.capacity
          /\ Contents(tb) = Contents(room) \o [i \in 1 .. n - room.size |-> v]
      <4>1. tb = [room EXCEPT !.data = [p \in DOMAIN room.data |->
                                           IF Logical(room, p) \in room.size .. n - 1 THEN v ELSE room.data[p]],
                              !.size = n]
            BY <3>2
      <4> HIDE DEF tb
      <4>2. QED BY <3>2, <3>3, <4>1, Grown
    <3> HIDE DEF tb
    <3>5. Contents(tb) = IF n <= Len(s) THEN SubSeq(s, 1, n) ELSE s \o [i \in 1 .. n - Len(s) |-> v]
          BY <1>1, <2>2, <3>2, <3>4
    <3>6. Inv' /\ Deque!Reshape(o, cap, n, v)
          BY <1>2, <3>1, <3>2, <3>4, <3>5
    <3>7. QED BY <3>2, <3>6
  <2>3. QED BY <2>1, <2>2
<1>6. QED BY <1>4, <1>5

(* A function changed at two places. *)
Updated(f, a, u, b, w) == [f EXCEPT ![a] = u, ![b] = w]

LEMMA TwoUpdates ==
    ASSUME NEW S, NEW f, f = [x \in S |-> f[x]], NEW a \in S, NEW b \in S, a # b, NEW u, NEW w
    PROVE  [x \in S |-> IF x = b THEN w ELSE IF x = a THEN u ELSE f[x]] = Updated(f, a, u, b, w)
BY DEF Updated

(* Two buffers become sound ones. *)

LEMMA BothBecame ==
    ASSUME Inv, NEW o \in Objects, NEW p \in Objects, o # p,
           policy' = policy, undefined' = FALSE, dropped' \in [Objects -> 0 .. MaxDrops]
    PROVE  \A ro, rp : Sound(ro) /\ Sound(rp) /\ buf' = Updated(buf, o, ro, p, rp) =>
              /\ Inv'
              /\ Contained' = Updated(Contained, o, Contents(ro), p, Contents(rp))
              /\ Capacities' = Updated(Capacities, o, ro.capacity, p, rp.capacity)
<1> SUFFICES ASSUME NEW ro, NEW rp, Sound(ro), Sound(rp), buf' = Updated(buf, o, ro, p, rp)
             PROVE  /\ Inv'
                    /\ Contained' = Updated(Contained, o, Contents(ro), p, Contents(rp))
                    /\ Capacities' = Updated(Capacities, o, ro.capacity, p, rp.capacity)
    OBVIOUS
<1>1. /\ buf \in [Objects -> Buffers] /\ ro \in Buffers /\ rp \in Buffers
      /\ buf' = [buf EXCEPT ![o] = ro, ![p] = rp]
      BY DEF Inv, Sound, Updated
<1>2. \A x \in Objects : buf'[x] = IF x = p THEN rp ELSE IF x = o THEN ro ELSE buf[x]
      BY <1>1
<1>3. Inv'
  <2>1. buf' \in [Objects -> Buffers]
        BY <1>1
  <2>2. ASSUME NEW x \in Objects PROVE Sound(buf'[x])
        BY <1>2 DEF Inv
  <2>3. QED BY <2>1, <2>2 DEF Inv
<1>4. Contained' = [x \in Objects |-> Contents(buf'[x])] /\ Capacities' = [x \in Objects |-> buf'[x].capacity]
      BY DEF Contained, Capacities
<1>5. Contained' = Updated(Contained, o, Contents(ro), p, Contents(rp))
  <2>1. Contained' = [x \in Objects |-> IF x = p THEN Contents(rp) ELSE IF x = o THEN Contents(ro)
                                        ELSE Contained[x]]
    <3>1. \A x \in Objects : Contents(buf'[x]) = IF x = p THEN Contents(rp) ELSE IF x = o THEN Contents(ro)
                                                 ELSE Contained[x]
          BY <1>2 DEF Contained
    <3>2. QED BY <1>4, <3>1
  <2>2. Contained = [x \in Objects |-> Contained[x]]
        BY DEF Contained
  <2>3. QED BY <2>1, <2>2, TwoUpdates
<1>6. Capacities' = Updated(Capacities, o, ro.capacity, p, rp.capacity)
  <2>1. Capacities' = [x \in Objects |-> IF x = p THEN rp.capacity ELSE IF x = o THEN ro.capacity
                                         ELSE Capacities[x]]
    <3>1. \A x \in Objects : buf'[x].capacity = IF x = p THEN rp.capacity ELSE IF x = o THEN ro.capacity
                                                ELSE Capacities[x]
          BY <1>2 DEF Capacities
    <3>2. QED BY <1>4, <3>1
  <2>2. Capacities = [x \in Objects |-> Capacities[x]]
        BY DEF Capacities
  <2>3. QED BY <2>1, <2>2, TwoUpdates
<1>7. QED BY <1>3, <1>5, <1>6

(* Nothing undefined happens to a buffer without elements, or to one that  *)
(* is sound, and a stripped buffer without elements is sound.              *)
LEMMA Stripped ==
    ASSUME RingAssumption, NEW rb, Sound(rb)
    PROVE  /\ ~ DestroyIsUndefined(rb)
           /\ rb.size = 0 => /\ ~ DestroyIsUndefined(Bare(rb)) /\ Sound(Bare(rb))
                             /\ Contents(Bare(rb)) = <<>> /\ Bare(rb).capacity = 0
<1>1. rb \in Buffers /\ rb.size \in 0 .. rb.capacity /\ rb.capacity \in Nat
      BY SlotsOf
<1>2. ~ DestroyIsUndefined(rb)
      BY <1>1 DEF DestroyIsUndefined
<1>3. ASSUME rb.size = 0
      PROVE  /\ ~ DestroyIsUndefined(Bare(rb)) /\ Sound(Bare(rb))
             /\ Contents(Bare(rb)) = <<>> /\ Bare(rb).capacity = 0
  <2> DEFINE tb == Bare(rb)
  <2>1. 0 \in 0 .. MaxCapacity /\ RawStorage(0) \in Storage(0)
        BY DEF RingAssumption, RawStorage, Storage
  <2>2. RawStorage(0) \in UNION {Storage(k) : k \in 0 .. MaxCapacity}
        BY <2>1
  <2>3. tb \in Buffers /\ tb.data = RawStorage(0) /\ tb.capacity = 0 /\ tb.size = 0
        BY <1>1, <1>3, <2>1, <2>2 DEF Bare, Buffers
  <2>4. ~ DestroyIsUndefined(tb)
        BY <2>3 DEF DestroyIsUndefined
  <2> HIDE DEF tb
  <2>5. Sound(tb) /\ Contents(tb) = <<>>
        BY <2>1, <2>3, WithoutElements
  <2>6. QED BY <2>3, <2>4, <2>5 DEF tb
<1>4. QED BY <1>2, <1>3

LEMMA EmptyBuffer ==
    ASSUME RingAssumption
    PROVE  Sound(Empty) /\ Contents(Empty) = <<>> /\ Empty.capacity = 0
<1>1. 0 \in 0 .. MaxCapacity /\ RawStorage(0) \in Storage(0)
      BY DEF RingAssumption, RawStorage, Storage
<1>2. RawStorage(0) \in UNION {Storage(k) : k \in 0 .. MaxCapacity}
      BY <1>1
<1>3. /\ Empty \in Buffers /\ Empty.data = RawStorage(0) /\ Empty.capacity = 0
      /\ Empty.size = 0 /\ Empty.begin = 0
      BY <1>1, <1>2 DEF Empty, Buffers
<1>4. QED BY <1>1, <1>3, WithoutElements

LEMMA Takes ==
    ASSUME RingAssumption, ~ AssignOntoElements, Inv, NEW o \in Objects,
           NEW temporary, Sound(temporary), NEW drops \in 0 .. MaxDrops,
           TakeFrom(o, temporary, drops)
    PROVE  Inv' /\ Deque!Assign(o, Contents(temporary), temporary.capacity, drops)
<1>1. Sound(buf[o]) /\ buf[o].size = 0
      BY OneOf DEF TakeFrom
<1>2. ~ DestroyIsUndefined(Bare(buf[o]))
      BY <1>1, Stripped
<1>3. /\ policy' = policy /\ undefined' = FALSE /\ Become(o, temporary)
      /\ dropped' = [dropped EXCEPT ![o] = drops]
      BY <1>2 DEF TakeFrom, DestroyIsUndefined
<1>4. dropped' \in [Objects -> 0 .. MaxDrops]
      BY <1>3 DEF Inv
<1>5. /\ Inv'
      /\ Contained' = [Contained EXCEPT ![o] = Contents(temporary)]
      /\ Capacities' = [Capacities EXCEPT ![o] = temporary.capacity]
      BY <1>3, <1>4, Became
<1>6. QED BY <1>3, <1>5 DEF Deque!Assign, Deque!Become

LEMMA Assigns ==
    ASSUME RingAssumption, ~ AssignOntoElements, Inv, NEW o \in Objects,
           NEW v \in Values, NEW n \in 0 .. MaxCapacity, Assign(o, v, n)
    PROVE  Inv' /\ Deque!Assign(o, Deque!Filled(v, n), n, 0)
<1> DEFINE temporary == IF n = 0 THEN Empty ELSE Filled(v, n)
<1>1. Sound(temporary) /\ Contents(temporary) = [i \in 1 .. n |-> v] /\ temporary.capacity = n
  <2>1. CASE n = 0
    <3>1. Sound(Empty) /\ Contents(Empty) = <<>> /\ Empty.capacity = 0
          BY EmptyBuffer
    <3>2. [i \in 1 .. n |-> v] = <<>>
          BY <2>1
    <3>3. QED BY <2>1, <3>1, <3>2
  <2>2. CASE n # 0
    <3>1. Sound(Filled(v, n)) /\ Filled(v, n).capacity = n /\ Contents(Filled(v, n)) = [i \in 1 .. n |-> v]
          BY FilledBuffer
    <3>2. QED BY <2>2, <3>1
  <2>3. QED BY <2>1, <2>2
<1>2. TakeFrom(o, temporary, 0) /\ 0 \in 0 .. MaxDrops
      BY DEF Assign, RingAssumption
<1> HIDE DEF temporary
<1>3. Inv' /\ Deque!Assign(o, Contents(temporary), temporary.capacity, 0)
      BY <1>1, <1>2, Takes
<1>4. QED BY <1>1, <1>3 DEF Deque!Filled

LEMMA Copies ==
    ASSUME RingAssumption, ~ AssignOntoElements, Inv, NEW o \in Objects,
           NEW p \in Objects, CopyAssign(o, p)
    PROVE  Inv' /\ Deque!Assign(o, Contained[p], Capacities[p], dropped[p])
<1> DEFINE rb        == buf[p]
           temporary == Unrolled(rb, rb.size, rb.capacity)
<1>1. /\ Sound(rb) /\ rb.size \in 0 .. rb.capacity /\ rb.capacity \in Nat
      /\ rb.capacity \in 0 .. MaxCapacity
      /\ Contained[p] = Contents(rb) /\ Capacities[p] = rb.capacity
      /\ Contained[p] \in Seq(Values) /\ Len(Contained[p]) = rb.size
      BY OneOf
<1>2. /\ Sound(temporary) /\ temporary.capacity = rb.capacity
      /\ Contents(temporary) = SubSeq(Contents(rb), 1, rb.size)
  <2>1. rb.size \in 0 .. rb.size /\ rb.size <= rb.capacity
        BY <1>1
  <2>2. \A r : Sound(r) => \A c \in 0 .. MaxCapacity, k \in 0 .. r.size : k <= c =>
             /\ Sound(Unrolled(r, k, c)) /\ Unrolled(r, k, c).capacity = c
             /\ Unrolled(r, k, c).size = k
             /\ Contents(Unrolled(r, k, c)) = SubSeq(Contents(r), 1, k)
        BY UnrolledTo
  <2>3. Sound(rb) /\ rb.capacity \in 0 .. MaxCapacity
        BY <1>1
  <2> HIDE DEF rb
  <2>4. QED BY <2>1, <2>2, <2>3, ZenonT(90)
<1>3. SubSeq(Contained[p], 1, rb.size) = Contained[p]
      BY <1>1, SubSeqFull
<1>4. TakeFrom(o, temporary, dropped[p]) /\ dropped[p] \in 0 .. MaxDrops
      BY DEF CopyAssign, Inv
<1> HIDE DEF temporary
<1>5. Inv' /\ Deque!Assign(o, Contents(temporary), temporary.capacity, dropped[p])
      BY <1>2, <1>4, Takes
<1>6. Contents(temporary) = Contained[p] /\ temporary.capacity = Capacities[p]
      BY <1>1, <1>2, <1>3
<1>7. QED BY <1>5, <1>6

(* Moves and exchanges of two different buffers *)
LEMMA Trades ==
    ASSUME RingAssumption, ~ AssignOntoElements, Inv,
           NEW o \in Objects, NEW p \in Objects, o # p
    PROVE  /\ MoveAssign(o, p)    => Inv' /\ Deque!Move(o, p, dropped[o])
           /\ Swap(o, p)          => Inv' /\ Deque!Exchange(o, p)
           /\ ReplaceByMove(o, p) => Inv' /\ Deque!Move(o, p, 0)
<1>1. /\ Sound(buf[o]) /\ Contained[o] = Contents(buf[o]) /\ Capacities[o] = buf[o].capacity
      /\ Sound(buf[p]) /\ Contained[p] = Contents(buf[p]) /\ Capacities[p] = buf[p].capacity
      /\ dropped \in [Objects -> 0 .. MaxDrops] /\ 0 \in 0 .. MaxDrops /\ undefined = FALSE
  <2>1. Sound(buf[o]) /\ Contained[o] = Contents(buf[o]) /\ Capacities[o] = buf[o].capacity
        BY OneOf
  <2>2. Sound(buf[p]) /\ Contained[p] = Contents(buf[p]) /\ Capacities[p] = buf[p].capacity
        BY OneOf
  <2>3. QED BY <2>1, <2>2 DEF Inv, RingAssumption
<1> DEFINE Both(ro, rp) ==
              /\ Inv'
              /\ Contained' = [Contained EXCEPT ![o] = Contents(ro), ![p] = Contents(rp)]
              /\ Capacities' = [Capacities EXCEPT ![o] = ro.capacity, ![p] = rp.capacity]
<1>0. ASSUME NEW ro, Sound(ro), NEW rp, Sound(rp), buf' = Updated(buf, o, ro, p, rp),
             policy' = policy, undefined' = FALSE, dropped' \in [Objects -> 0 .. MaxDrops]
      PROVE  Both(ro, rp)
  <2>1. /\ Inv'
        /\ Contained' = Updated(Contained, o, Contents(ro), p, Contents(rp))
        /\ Capacities' = Updated(Capacities, o, ro.capacity, p, rp.capacity)
        BY <1>0, BothBecame
  <2>2. QED BY <2>1 DEF Updated
<1> HIDE DEF Both
<1>2. ASSUME MoveAssign(o, p)
      PROVE  Inv' /\ Deque!Move(o, p, dropped[o])
  <2>1. /\ buf' = [buf EXCEPT ![o] = buf[p], ![p] = Bare(buf[o])] /\ buf[o].size = 0
        /\ dropped' = [dropped EXCEPT ![o] = dropped[p], ![p] = dropped[o]]
        /\ policy' = policy /\ undefined' = FALSE
        BY <1>1, <1>2 DEF MoveAssign
  <2>2. Sound(Bare(buf[o])) /\ Contents(Bare(buf[o])) = <<>> /\ Bare(buf[o]).capacity = 0
        BY <1>1, <2>1, Stripped
  <2>3. dropped' \in [Objects -> 0 .. MaxDrops]
        BY <1>1, <2>1
  <2>4. /\ Inv'
        /\ Contained' = [Contained EXCEPT ![o] = Contained[p], ![p] = <<>>]
        /\ Capacities' = [Capacities EXCEPT ![o] = Capacities[p], ![p] = 0]
    <3>1. Both(buf[p], Bare(buf[o]))
          BY <1>0, <1>1, <2>1, <2>2, <2>3 DEF Updated
    <3>2. QED BY <1>1, <2>2, <3>1 DEF Both
  <2>5. Deque!Move(o, p, dropped[o])
        BY <2>1, <2>4 DEF Deque!Move
  <2>6. QED BY <2>4, <2>5
<1>3. ASSUME Swap(o, p)
      PROVE  Inv' /\ Deque!Exchange(o, p)
  <2>1. /\ buf' = [buf EXCEPT ![o] = buf[p], ![p] = buf[o]]
        /\ dropped' = [dropped EXCEPT ![o] = dropped[p], ![p] = dropped[o]]
        /\ policy' = policy /\ undefined' = FALSE
        BY <1>1, <1>3 DEF Swap
  <2>2. dropped' \in [Objects -> 0 .. MaxDrops]
        BY <1>1, <2>1
  <2>3. /\ Inv'
        /\ Contained' = [Contained EXCEPT ![o] = Contained[p], ![p] = Contained[o]]
        /\ Capacities' = [Capacities EXCEPT ![o] = Capacities[p], ![p] = Capacities[o]]
    <3>1. Both(buf[p], buf[o])
          BY <1>0, <1>1, <2>1, <2>2 DEF Updated
    <3>2. QED BY <1>1, <3>1 DEF Both
  <2>4. Deque!Exchange(o, p)
        BY <2>1, <2>3 DEF Deque!Exchange
  <2>5. QED BY <2>3, <2>4
<1>4. ASSUME ReplaceByMove(o, p)
      PROVE  Inv' /\ Deque!Move(o, p, 0)
  <2>1. ~ DestroyIsUndefined(buf[o])
        BY <1>1, Stripped
  <2>2. /\ buf' = [buf EXCEPT ![o] = buf[p], ![p] = Empty]
        /\ dropped' = [dropped EXCEPT ![o] = dropped[p], ![p] = 0]
        /\ policy' = policy /\ undefined' = FALSE
        BY <1>4, <2>1 DEF ReplaceByMove, DestroyIsUndefined
  <2>3. Sound(Empty) /\ Contents(Empty) = <<>> /\ Empty.capacity = 0
        BY EmptyBuffer
  <2>4. dropped' \in [Objects -> 0 .. MaxDrops]
        BY <1>1, <2>2
  <2>5. /\ Inv'
        /\ Contained' = [Contained EXCEPT ![o] = Contained[p], ![p] = <<>>]
        /\ Capacities' = [Capacities EXCEPT ![o] = Capacities[p], ![p] = 0]
    <3>1. Both(buf[p], Empty)
          BY <1>0, <1>1, <2>2, <2>3, <2>4 DEF Updated
    <3>2. QED BY <1>1, <2>3, <3>1 DEF Both
  <2>6. Deque!Move(o, p, 0)
        BY <2>2, <2>5 DEF Deque!Move
  <2>7. QED BY <2>5, <2>6
<1>5. QED BY <1>2, <1>3, <1>4

LEMMA Resets ==
    ASSUME RingAssumption, Inv, NEW o \in Objects, ResetDroppedCount(o)
    PROVE  Inv' /\ Deque!ResetDrops(o)
<1>1. /\ dropped' = [dropped EXCEPT ![o] = 0] /\ buf' = buf /\ policy' = policy
      /\ undefined' = undefined /\ 0 \in 0 .. MaxDrops
      BY DEF ResetDroppedCount, RingAssumption
<1>2. Inv'
      BY <1>1 DEF Inv
<1>3. Contained' = Contained /\ Capacities' = Capacities
      BY <1>1 DEF Contained, Capacities
<1>4. QED BY <1>1, <1>2, <1>3 DEF Deque!ResetDrops

-----------------------------------------------------------------------------
LEMMA Starts ==
    ASSUME RingAssumption, Init
    PROVE  Inv /\ Deque!Init
<1>1. Sound(Empty) /\ Contents(Empty) = <<>> /\ Empty.capacity = 0 /\ Empty \in Buffers
      BY EmptyBuffer DEF Sound
<1>2. Inv
      BY <1>1 DEF Init, Inv, RingAssumption
<1>3. Contained = [o \in Objects |-> <<>>] /\ Capacities = [o \in Objects |-> 0]
      BY <1>1 DEF Init, Contained, Capacities
<1>4. QED BY <1>2, <1>3 DEF Init, Deque!Init

LEMMA Steps ==
    ASSUME RingAssumption, ~ AssignOntoElements, Inv, [Next]_vars
    PROVE  Inv' /\ [Deque!Next]_(Deque!vars)
<1>1. ASSUME NEW o \in Objects, Modify(o)
      PROVE  Inv' /\ Deque!Next
  <2>1. ASSUME NEW v \in Values, PushBack(o, v) PROVE Inv' /\ Deque!Next
    <3>1. Inv' /\ Deque!PushBack(o, v)  BY <2>1, PushesBack
    <3>2. QED BY <3>1 DEF Deque!Next
  <2>2. ASSUME NEW v \in Values, PushFront(o, v) PROVE Inv' /\ Deque!Next
    <3>1. Inv' /\ Deque!PushFront(o, v)  BY <2>2, PushesFront
    <3>2. QED BY <3>1 DEF Deque!Next
  <2>3. ASSUME NEW v \in Values, NEW offset \in 0 .. buf[o].size, Emplace(o, offset, v)
        PROVE  Inv' /\ Deque!Next
    <3>1. Inv' /\ Deque!Insert(o, offset + 1, v)
          BY <2>3, Emplaces
    <3>2. offset + 1 \in 1 .. Len(Contained[o]) + 1
          BY OneOf
    <3>3. QED BY <3>1, <3>2 DEF Deque!Next
  <2>4. CASE PopBack(o) \/ PopFront(o) \/ Clear(o)
               \/ \E first, last \in 0 .. buf[o].size : Erase(o, first, last)
    <3>1. Inv' /\ \E i, j \in 1 .. Len(Contained[o]) + 1 : i <= j /\ Deque!Erase(o, i, j)
          BY <2>4, Removes
    <3>2. QED BY <3>1 DEF Deque!Next
  <2>5. CASE \/ \E n \in 0 .. MaxCapacity : SetCapacity(o, n)
             \/ \E n \in 0 .. MaxCapacity, v \in Values : Resize(o, n, v)
    <3>1. Inv' /\ \E cap, n \in 0 .. MaxCapacity, v \in Values : Deque!Reshape(o, cap, n, v)
          BY <2>5, Reshapes
    <3>2. QED BY <3>1 DEF Deque!Next
  <2>6. CASE ResetDroppedCount(o)
    <3>1. Inv' /\ Deque!ResetDrops(o)  BY <2>6, Resets
    <3>2. QED BY <3>1 DEF Deque!Next
  <2>7. QED BY <1>1, <2>1, <2>2, <2>3, <2>4, <2>5, <2>6 DEF Modify
<1>2. ASSUME NEW o \in Objects, Transfer(o)
      PROVE  Inv' /\ Deque!Next
  <2>1. ASSUME NEW v \in Values, NEW n \in 0 .. MaxCapacity, Assign(o, v, n)
        PROVE  Inv' /\ Deque!Next
    <3>1. Inv' /\ Deque!Assign(o, Deque!Filled(v, n), n, 0)  BY <2>1, Assigns
    <3>2. QED BY <3>1 DEF Deque!Next
  <2>2. ASSUME NEW p \in Objects \ {o}, CopyAssign(o, p)
        PROVE  Inv' /\ Deque!Next
    <3>1. Inv' /\ Deque!Assign(o, Contained[p], Capacities[p], dropped[p])  BY <2>2, Copies
    <3>2. QED BY <3>1 DEF Deque!Next
  <2>3. ASSUME NEW p \in Objects \ {o}, MoveAssign(o, p) \/ Swap(o, p) \/ ReplaceByMove(o, p)
        PROVE  Inv' /\ Deque!Next
    <3>1. Inv' /\ (Deque!Move(o, p, dropped[o]) \/ Deque!Exchange(o, p) \/ Deque!Move(o, p, 0))
          BY <2>3, Trades
    <3>2. QED BY <3>1 DEF Deque!Next
  <2>4. QED BY <1>2, <2>1, <2>2, <2>3 DEF Transfer
<1>3. CASE UNCHANGED vars
  <2>1. Inv'
        BY <1>3 DEF Inv, vars
  <2>2. UNCHANGED Deque!vars
        BY <1>3 DEF Deque!vars, vars, Contained, Capacities
  <2>3. QED BY <2>1, <2>2
<1>4. QED BY <1>1, <1>2, <1>3 DEF Next

LEMMA Implied ==
    ASSUME Inv
    PROVE  RingIsSafe
<1>1. ASSUME NEW o \in Objects
      PROVE  /\ buf[o].capacity \in 0 .. MaxCapacity
             /\ buf[o].data \in Storage(buf[o].capacity)
             /\ buf[o].begin \in 0 .. MaxCapacity
             /\ buf[o].size \in 0 .. MaxCapacity
             /\ buf[o].size <= buf[o].capacity
             /\ \A p \in DOMAIN buf[o].data :
                   buf[o].data[p] \in IF InWindow(buf[o], p) THEN Values ELSE {NoElement}
  <2>1. Sound(buf[o])
        BY DEF Inv
  <2>2. QED BY <2>1, SoundLifetimes DEF Sound, Buffers
<1>2. QED BY <1>1 DEF RingIsSafe, TypeOK, Lifetimes, NeverUndefined, Inv

(* No ring buffer loses an element, destroys one twice or takes an index   *)
(* modulo zero, for any number of buffers of any capacity, under either    *)
(* policy, if its clients assign only to buffers without elements.         *)
THEOREM RingSafety ==
    ASSUME RingAssumption, ~ AssignOntoElements
    PROVE  Spec => []RingIsSafe
<1>1. Init => Inv
      BY Starts
<1>2. Inv /\ [Next]_vars => Inv'
      BY Steps
<1>3. Inv => RingIsSafe
      BY Implied
<1>4. QED BY <1>1, <1>2, <1>3, PTL DEF Spec

(* ... and is a bounded sequence, wherever its first slot is: pushes,      *)
(* insertions, removals, changes of capacity, moves and exchanges do to    *)
(* the elements what they do to a sequence's.                              *)
THEOREM RingIsDeque ==
    ASSUME RingAssumption, ~ AssignOntoElements
    PROVE  Spec => DequeSpec
<1>1. Init => Inv /\ Deque!Init
      BY Starts
<1>2. Inv /\ [Next]_vars => Inv' /\ [Deque!Next]_(Deque!vars)
      BY Steps
<1>3. QED BY <1>1, <1>2, PTL DEF Spec, DequeSpec, Deque!Spec

=============================================================================
