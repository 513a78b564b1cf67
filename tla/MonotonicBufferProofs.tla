----------------------- MODULE MonotonicBufferProofs -----------------------
(* Theorems about MonotonicBuffer for every width of sizes and addresses,  *)
(* every header, and whatever regions upstream returns.                    *)
EXTENDS MonotonicBuffer, SequenceTheorems, TLAPS

(* Rounding down to a multiple. *)
LEMMA Multiple == \A q \in Nat, a \in Nat \ {0} : (a * q) % a = 0
OBVIOUS

LEMMA RoundedDown ==
    ASSUME NEW s \in Nat, NEW a \in Nat \ {0}
    PROVE  /\ (s - (s % a)) % a = 0
           /\ s % a \in 0 .. a - 1 /\ s % a <= s
           /\ s < a => s % a = s
<1> DEFINE q == s \div a
<1>1. s = a * q + (s % a) /\ q \in Nat /\ s % a \in 0 .. a - 1
      OBVIOUS
<1> HIDE DEF q
<1>2. a * q \in Nat
      BY <1>1
<1>3. s - (s % a) = a * q /\ s % a <= s
      BY <1>1, <1>2
<1>4. (a * q) % a = 0
      BY <1>1, Multiple
<1>5. s < a => s % a = s
      OBVIOUS
<1>6. QED BY <1>1, <1>3, <1>4, <1>5

(* align_up either rounds up, or wraps around the address space and gives  *)
(* the null address.                                                       *)
LEMMA AlignUp ==
    ASSUME MaxSize \in Nat \ {0}, NEW value \in 0 .. MaxSize, NEW alignment \in 1 .. MaxSize
    PROVE  LET p == align_up(value, alignment)
           IN  IF value + alignment - 1 <= MaxSize
               THEN p \in value .. value + alignment - 1 /\ p % alignment = 0
               ELSE p = NullAddress
<1> DEFINE top == value + alignment - 1
           sum == top % (MaxSize + 1)
<1>1. top \in Nat /\ top <= 2 * MaxSize /\ alignment \in Nat \ {0} /\ MaxSize + 1 \in Nat \ {0}
      OBVIOUS
<1>2. CASE top <= MaxSize
  <2>1. sum = top
        BY <1>1, <1>2
  <2>2. align_up(value, alignment) = top - (top % alignment)
        BY <2>1 DEF align_up
  <2>3. top % alignment \in 0 .. alignment - 1 /\ (top - (top % alignment)) % alignment = 0
        BY <1>1, RoundedDown
  <2> HIDE DEF sum
  <2>4. top - (top % alignment) \in value .. value + alignment - 1
        BY <2>3
  <2>5. QED BY <1>2, <2>2, <2>3, <2>4
<1>3. CASE top > MaxSize
  <2>1. sum = top - (MaxSize + 1)
        BY <1>1, <1>3
  <2>2. sum \in Nat /\ sum < alignment
        BY <1>1, <1>3, <2>1
  <2>3. sum % alignment = sum
        BY <1>1, <2>2, RoundedDown
  <2>4. QED BY <1>3, <2>2, <2>3 DEF align_up, NullAddress
<1>4. QED BY <1>1, <1>2, <1>3

(* Where a request is served nothing has wrapped: the block is aligned and *)
(* inside the room it is taken from.                                       *)
LEMMA Served ==
    ASSUME MaxSize \in Nat \ {0}, NEW bytes \in Nat, NEW alignment \in 1 .. MaxSize,
           NEW from \in 0 .. MaxSize, NEW room \in Nat,
           Serves(bytes, alignment, from, room)
    PROVE  LET p == align_up(from, alignment)
           IN  /\ p \in Nat \ {0} /\ p % alignment = 0
               /\ from <= p /\ p + bytes <= from + room
<1> DEFINE p == align_up(from, alignment)
<1>1. p # NullAddress /\ Fits(bytes, alignment, from, room)
      BY DEF Serves
<1>2. p \in from .. from + alignment - 1 /\ p % alignment = 0
      BY <1>1, AlignUp
<1> HIDE DEF p
<1>3. p - from \in Nat /\ p - from < MaxSize + 1 /\ MaxSize + 1 \in Nat \ {0}
      BY <1>2
<1>4. (p - from) % (MaxSize + 1) = p - from
      BY <1>3, RoundedDown
<1>5. p - from <= room /\ bytes <= room - (p - from)
      BY <1>1, <1>4 DEF Fits, p
<1>6. QED BY <1>1, <1>2, <1>5 DEF NullAddress, p

(* The slack in a chunk's size is enough for aligning the payload. *)
LEMMA NewServes ==
    ASSUME BufferAssumption, TypeOK, NEW bytes \in Sizes, NEW alignment \in Alignments,
           NEW base \in 1 .. MaxSize, base + ChunkSize(bytes, alignment) <= MaxSize
    PROVE  LET size == ChunkSize(bytes, alignment)
           IN  /\ size \in HeaderSize .. MaxSize
               /\ Serves(bytes, alignment, base + HeaderSize, size - HeaderSize)
<1> DEFINE size == ChunkSize(bytes, alignment)
           from == base + HeaderSize
           p    == align_up(from, alignment)
<1>1. /\ MaxSize \in Nat \ {0} /\ HeaderSize \in 1 .. MaxSize /\ HeaderAlign \in 1 .. MaxSize
      /\ alignment \in 1 .. MaxSize /\ bytes \in 0 .. MaxSize /\ nextSize \in 1 .. MaxSize
      BY DEF BufferAssumption, TypeOK
<1>2. size \in Nat /\ size >= HeaderSize + alignment - 1 + bytes /\ size >= HeaderSize
      BY <1>1 DEF ChunkSize, ChunkAlign, Payload, LargerOf
<1> HIDE DEF size
<1>3. from \in 0 .. MaxSize /\ from + alignment - 1 + bytes <= MaxSize
      BY <1>1, <1>2 DEF size
<1> HIDE DEF from
<1>4. p \in from .. from + alignment - 1
      BY <1>1, <1>3, AlignUp
<1> HIDE DEF p
<1>5. (p - from) % (MaxSize + 1) = p - from
  <2>1. p - from \in Nat /\ p - from < MaxSize + 1 /\ MaxSize + 1 \in Nat \ {0}
        BY <1>1, <1>3, <1>4
  <2>2. QED BY <2>1, RoundedDown
<1>6. Fits(bytes, alignment, from, size - HeaderSize)
      BY <1>1, <1>2, <1>3, <1>4, <1>5 DEF Fits, p
<1>7. p # NullAddress
      BY <1>1, <1>3, <1>4 DEF NullAddress, from
<1>8. size <= MaxSize
      BY <1>1, <1>2 DEF size
<1>9. QED BY <1>1, <1>2, <1>6, <1>7, <1>8 DEF Serves, size, from, p

-----------------------------------------------------------------------------
(* A region kept from upstream has room for its header and ends inside the *)
(* address space; so does the buffer a client lent.                        *)
ExtentsSound ==
    /\ initial.base \in 0 .. MaxSize /\ initial.size \in 0 .. MaxSize
    /\ initial.base + initial.size <= MaxSize
    /\ \A c \in ToSet(chunks) : /\ c.base \in 1 .. MaxSize
                                /\ c.size \in HeaderSize .. MaxSize
                                /\ c.base + c.size <= MaxSize

(* Bump pointer, blocks and regions together are inductive. *)
Inv == BufferAssumption /\ TypeOK /\ ExtentsSound /\ BlocksDisjoint /\ WindowFree

(* Memory that may be handed out, seen as an extent. *)
Extent(o) == o.base \in Nat /\ o.size \in Nat /\ o.base + o.size <= MaxSize

LEMMA OwnedExtents ==
    BufferAssumption /\ ExtentsSound => \A o \in Owned : Extent(o)
<1> SUFFICES ASSUME BufferAssumption, ExtentsSound PROVE \A o \in Owned : Extent(o)
    OBVIOUS
<1>1. MaxSize \in Nat /\ HeaderSize \in Nat
      BY DEF BufferAssumption
<1>2. Extent(initial)
      BY <1>1 DEF ExtentsSound, Extent
<1>3. ASSUME NEW c \in ToSet(chunks) PROVE Extent(Body(c))
      BY <1>1 DEF ExtentsSound, Extent, Body
<1>4. QED BY <1>2, <1>3 DEF Owned

(* What is apart from an extent is apart from any part of it. *)
LEMMA PartApart ==
    ASSUME NEW a, NEW b, NEW o,
           {a.base, a.size, b.base, b.size, o.base, o.size} \subseteq Int,
           Inside(a, o), ~Overlap(o, b)
    PROVE  ~Overlap(a, b) /\ ~Overlap(b, a)
BY DEF Inside, Overlap

(* What is served and what is left of the window lie inside it, and inside *)
(* the chunk it is part of.                                                *)
LEMMA Nested ==
    ASSUME NEW from \in Int, NEW room \in Int, NEW p \in Int, NEW bytes \in Int,
           NEW now \in Int, NEW left \in Int, NEW align,
           NEW home, home.base \in Int, home.size \in Int,
           from <= p, p + bytes <= from + room, from <= now, now + left = from + room,
           home.base <= from, from + room <= home.base + home.size
    PROVE  LET new    == [base |-> p, size |-> bytes, align |-> align]
               window == [base |-> from, size |-> room]
               rest   == [base |-> now, size |-> left]
           IN  /\ Inside(new, window) /\ Inside(rest, window)
               /\ Inside(new, home) /\ Inside(rest, home)
BY DEF Inside

(* A bump in a free window inside owned memory leaves a free window there, *)
(* and adds a block apart from all others.                                 *)
LEMMA BumpKeeps ==
    ASSUME BufferAssumption, TypeOK,
           NEW bytes \in Sizes, NEW alignment \in Alignments,
           NEW from \in 0 .. MaxSize, NEW room \in 0 .. MaxSize,
           NEW owned, NEW home \in owned, \A o \in owned : Extent(o),
           Inside([base |-> from, size |-> room], home),
           \A b \in blocks : ~Overlap([base |-> from, size |-> room], b),
           \A b \in blocks : b.base % b.align = 0 /\ \E o \in owned : Inside(b, o),
           \A a, b \in blocks : a # b => ~Overlap(a, b),
           Serves(bytes, alignment, from, room),
           Bump(bytes, alignment, from, room)
    PROVE  /\ current' \in 0 .. MaxSize /\ space' \in 0 .. MaxSize
           /\ blocks' \subseteq [base : 1 .. MaxSize, size : 0 .. MaxSize, align : Alignments]
           /\ \A b \in blocks' : b.base % b.align = 0 /\ \E o \in owned : Inside(b, o)
           /\ \A a, b \in blocks' : a # b => ~Overlap(a, b)
           /\ Inside([base |-> current', size |-> space'], home)
           /\ \A b \in blocks' : ~Overlap([base |-> current', size |-> space'], b)
           /\ [base |-> align_up(from, alignment), size |-> bytes, align |-> alignment]
                 \in blocks'
           /\ Inside([base |-> align_up(from, alignment), size |-> bytes, align |-> alignment],
                     home)
<1> DEFINE p      == align_up(from, alignment)
           new    == [base |-> p, size |-> bytes, align |-> alignment]
           window == [base |-> from, size |-> room]
           rest   == [base |-> current', size |-> space']
<1>1. /\ MaxSize \in Nat \ {0} /\ alignment \in 1 .. MaxSize
      /\ bytes \in 0 .. MaxSize /\ bytes \in Nat
  <2>1. /\ MaxSize \in Nat \ {0}
        /\ Alignments \subseteq 1 .. MaxSize /\ Sizes \subseteq 0 .. MaxSize
        BY DEF BufferAssumption
  <2>2. QED BY <2>1
<1>2. p \in Nat \ {0} /\ p % alignment = 0 /\ from <= p /\ p + bytes <= from + room
      BY <1>1, Served
<1>3. /\ current' = p + bytes /\ space' = room - ((p - from) + bytes)
      /\ blocks' = blocks \cup {new}
      BY DEF Bump
<1> HIDE DEF p
<1>4. Extent(home) /\ home.base <= from /\ from + room <= home.base + home.size
      BY DEF Inside
<1>5. from + room <= MaxSize
      BY <1>1, <1>4 DEF Extent
<1>6. /\ current' \in 0 .. MaxSize /\ space' \in 0 .. MaxSize
      /\ current' + space' = from + room /\ from <= current'
      BY <1>1, <1>2, <1>3, <1>5
<1>7. Inside(new, window) /\ Inside(rest, window) /\ Inside(new, home) /\ Inside(rest, home)
  <2>1. home.base \in Int /\ home.size \in Int
        BY <1>4 DEF Extent
  <2>2. /\ from \in Int /\ room \in Int /\ p \in Int /\ bytes \in Int
        /\ current' \in Int /\ space' \in Int
        BY <1>1, <1>2, <1>6
  <2>3. /\ from <= p /\ p + bytes <= from + room /\ from <= current'
        /\ current' + space' = from + room /\ home.base <= from
        /\ from + room <= home.base + home.size
        BY <1>2, <1>4, <1>6
  <2>4. QED BY <2>1, <2>2, <2>3, Nested, ZenonT(60)
<1>8. ASSUME NEW b \in blocks
      PROVE  /\ ~Overlap(new, b) /\ ~Overlap(b, new) /\ ~Overlap(rest, b)
             /\ b.base \in Int /\ b.size \in Int
  <2>1. b.base \in Int /\ b.size \in Int
        BY <1>1 DEF TypeOK
  <2>2. {new.base, new.size, window.base, window.size, rest.base, rest.size} \subseteq Int
        BY <1>1, <1>2, <1>6
  <2>3. ~Overlap(window, b)
        OBVIOUS
  <2> HIDE DEF new, window, rest
  <2>4. QED BY <1>7, <2>1, <2>2, <2>3, PartApart
<1>9. ~Overlap(rest, new)
      BY <1>1, <1>2, <1>3, <1>6 DEF Overlap
<1>10. new \in [base : 1 .. MaxSize, size : 0 .. MaxSize, align : Alignments]
      BY <1>1, <1>2, <1>5
<1>11. blocks' \subseteq [base : 1 .. MaxSize, size : 0 .. MaxSize, align : Alignments]
      BY <1>3, <1>10 DEF TypeOK
<1>12. new.base % new.align = 0
      BY <1>2
<1> HIDE DEF new, window, rest
<1>13. \A b \in blocks' : b.base % b.align = 0 /\ \E o \in owned : Inside(b, o)
      BY <1>3, <1>7, <1>12
<1>14. \A a, b \in blocks' : a # b => ~Overlap(a, b)
      BY <1>3, <1>8
<1>15. \A b \in blocks' : ~Overlap(rest, b)
      BY <1>3, <1>8, <1>9
<1>16. QED BY <1>3, <1>6, <1>7, <1>11, <1>13, <1>14, <1>15 DEF new, rest, p

LEMMA InitInv ==
    ASSUME BufferAssumption, Init
    PROVE  Inv
<1>1. /\ MaxSize \in Nat \ {0} /\ MinBufferSize \in 1 .. MaxSize
      /\ InitialSizes \subseteq 0 .. MaxSize
      /\ \A b \in InitialBuffers :
            b.base \in 1 .. MaxSize /\ b.size \in 0 .. MaxSize /\ b.base + b.size <= MaxSize
      BY DEF BufferAssumption
<1>2. /\ initial \in InitialBuffers \cup {NoBuffer}
      /\ initial.base \in 0 .. MaxSize /\ initial.size \in 0 .. MaxSize
      /\ initial.base + initial.size <= MaxSize
      /\ nextSize \in 1 .. MaxSize
  <2>1. ASSUME NEW b \in InitialBuffers, Lend(b)
        PROVE  initial = b /\ nextSize \in 1 .. MaxSize
        BY <1>1, <2>1 DEF Lend, scale_buffer_size, LargerOf
  <2>2. ASSUME NEW n \in InitialSizes, StartWith(n)
        PROVE  initial = NoBuffer /\ nextSize \in 1 .. MaxSize
        BY <1>1, <2>2 DEF StartWith, LargerOf
  <2>3. CASE \E b \in InitialBuffers : Lend(b)
        BY <1>1, <2>1, <2>3
  <2>4. CASE \E n \in InitialSizes : StartWith(n)
        BY <1>1, <2>2, <2>4 DEF NoBuffer, NullAddress
  <2>5. QED BY <2>3, <2>4 DEF Init
<1>3. current = initial.base /\ space = initial.size /\ chunks = <<>> /\ blocks = {}
      BY DEF Init
<1>4. ToSet(chunks) = {} /\ chunks \in Seq(Extents)
      BY <1>3 DEF ToSet
<1>5. TypeOK
      BY <1>2, <1>3, <1>4 DEF TypeOK
<1>6. ExtentsSound
      BY <1>2, <1>4 DEF ExtentsSound
<1>7. BlocksDisjoint
      BY <1>3 DEF BlocksDisjoint
<1>8. WindowFree
      BY <1>2, <1>3 DEF WindowFree, Owned, Inside
<1>9. QED BY <1>5, <1>6, <1>7, <1>8 DEF Inv

LEMMA AllocateFromCurrentKeepsInv ==
    ASSUME Inv, NEW bytes \in Sizes, NEW alignment \in Alignments,
           AllocateFromCurrent(bytes, alignment)
    PROVE  Inv'
<1> DEFINE window == [base |-> current, size |-> space]
<1>1. BufferAssumption /\ TypeOK /\ ExtentsSound /\ BlocksDisjoint /\ WindowFree
      BY DEF Inv
<1>2. /\ Serves(bytes, alignment, current, space) /\ Bump(bytes, alignment, current, space)
      /\ initial' = initial /\ nextSize' = nextSize /\ chunks' = chunks
      BY DEF AllocateFromCurrent
<1>3. PICK home \in Owned : Inside(window, home)
      BY <1>1 DEF WindowFree
<1>4. /\ \A o \in Owned : Extent(o)
      /\ \A b \in blocks : ~Overlap(window, b)
      /\ \A b \in blocks : b.base % b.align = 0 /\ \E o \in Owned : Inside(b, o)
      /\ \A a, b \in blocks : a # b => ~Overlap(a, b)
      BY <1>1, OwnedExtents DEF WindowFree, BlocksDisjoint
<1>5. current \in 0 .. MaxSize /\ space \in 0 .. MaxSize
      BY <1>1 DEF TypeOK
<1>6. Owned' = Owned
      BY <1>2 DEF Owned
<1>7. /\ current' \in 0 .. MaxSize /\ space' \in 0 .. MaxSize
      /\ blocks' \subseteq [base : 1 .. MaxSize, size : 0 .. MaxSize, align : Alignments]
      /\ \A b \in blocks' : b.base % b.align = 0 /\ \E o \in Owned : Inside(b, o)
      /\ \A a, b \in blocks' : a # b => ~Overlap(a, b)
      /\ Inside([base |-> current', size |-> space'], home)
      /\ \A b \in blocks' : ~Overlap([base |-> current', size |-> space'], b)
      BY <1>1, <1>2, <1>3, <1>4, <1>5, BumpKeeps
<1>8. TypeOK'
      BY <1>1, <1>2, <1>7 DEF TypeOK
<1>9. ExtentsSound'
      BY <1>1, <1>2 DEF ExtentsSound
<1>10. BlocksDisjoint'
      BY <1>6, <1>7 DEF BlocksDisjoint
<1>11. WindowFree'
      BY <1>6, <1>7 DEF WindowFree
<1>12. QED BY <1>1, <1>8, <1>9, <1>10, <1>11 DEF Inv

(* A region pushed in front joins the others. *)
LEMMA Pushed ==
    ASSUME NEW S, NEW s \in Seq(S), NEW r \in S
    PROVE  /\ Cons(r, s) \in Seq(S) /\ Len(Cons(r, s)) = Len(s) + 1
           /\ Head(Cons(r, s)) = r
           /\ ToSet(Cons(r, s)) = ToSet(s) \cup {r}
<1> DEFINE t == <<r>> \o s
<1>1. t \in Seq(S) /\ Len(t) = Len(s) + 1 /\ Len(s) \in Nat
      OBVIOUS
<1>2. t[1] = r /\ \A i \in 1 .. Len(s) : t[i + 1] = s[i]
      OBVIOUS
<1>3. Head(t) = r
      BY <1>1, <1>2
<1>4. DOMAIN t = 1 .. Len(s) + 1 /\ DOMAIN s = 1 .. Len(s)
      BY <1>1
<1> HIDE DEF t
<1>5. ASSUME NEW i \in DOMAIN t PROVE t[i] \in ToSet(s) \cup {r}
  <2>1. CASE i = 1
        BY <1>2, <2>1
  <2>2. CASE i # 1
    <3>1. i - 1 \in DOMAIN s /\ t[i] = s[i - 1]
          BY <1>1, <1>2, <1>4, <2>2
    <3>2. QED BY <3>1 DEF ToSet
  <2>3. QED BY <2>1, <2>2
<1>6. ASSUME NEW i \in DOMAIN s PROVE \E j \in DOMAIN t : t[j] = s[i]
  <2>1. i + 1 \in DOMAIN t /\ t[i + 1] = s[i]
        BY <1>1, <1>2, <1>4
  <2>2. QED BY <2>1
<1>7. 1 \in DOMAIN t
      BY <1>1, <1>4
<1>8. ToSet(t) = ToSet(s) \cup {r}
      BY <1>2, <1>5, <1>6, <1>7 DEF ToSet
<1>9. QED BY <1>1, <1>3, <1>8 DEF Cons, t

LEMMA AllocateFromNewKeepsInv ==
    ASSUME Inv, NEW bytes \in Sizes, NEW alignment \in Alignments,
           AllocateFromNew(bytes, alignment)
    PROVE  /\ Inv'
           /\ \E b \in blocks' : Inside(b, Body(Head(chunks')))
<1> DEFINE size == ChunkSize(bytes, alignment)
           line == ChunkAlign(alignment)
<1>1. BufferAssumption /\ TypeOK /\ ExtentsSound /\ BlocksDisjoint /\ WindowFree
      BY DEF Inv
<1>2. /\ MaxSize \in Nat \ {0} /\ HeaderSize \in 1 .. MaxSize /\ HeaderAlign \in 1 .. MaxSize
      /\ MinBufferSize \in 1 .. MaxSize
      /\ Bases \subseteq 1 .. MaxSize /\ bytes \in 0 .. MaxSize /\ nextSize \in 1 .. MaxSize
      BY <1>1 DEF BufferAssumption, TypeOK
<1>3. PICK r \in Upstream(size, line) :
         /\ chunks' = Cons(r, chunks)
         /\ IF Serves(bytes, alignment, r.base + HeaderSize, r.size - HeaderSize)
            THEN Bump(bytes, alignment, r.base + HeaderSize, r.size - HeaderSize)
            ELSE /\ current' = r.base + HeaderSize /\ space' = r.size - HeaderSize
                 /\ UNCHANGED blocks
      BY DEF AllocateFromNew
<1> DEFINE from == r.base + HeaderSize
           room == r.size - HeaderSize
<1>4. /\ r \in [base : Bases, size : {size}] /\ r.base \in 1 .. MaxSize /\ r.size = size
      /\ r.base + size <= MaxSize
      /\ ~Overlap(r, initial) /\ \A c \in ToSet(chunks) : ~Overlap(r, c)
      BY <1>2, <1>3 DEF Upstream
<1>5. size \in HeaderSize .. MaxSize /\ Serves(bytes, alignment, from, room)
      BY <1>1, <1>4, NewServes
<1>6. /\ Bump(bytes, alignment, from, room)
      /\ initial' = initial /\ nextSize' = scale_buffer_size(Payload(bytes))
      BY <1>3, <1>5 DEF AllocateFromNew
<1> HIDE DEF size, line
<1>7. r \in Extents
      BY <1>2, <1>4, <1>5 DEF Extents
<1>8. /\ chunks' \in Seq(Extents) /\ Len(chunks') = Len(chunks) + 1
      /\ Head(chunks') = r /\ ToSet(chunks') = ToSet(chunks) \cup {r}
  <2>1. chunks \in Seq(Extents)
        BY <1>1 DEF TypeOK
  <2>2. chunks' = Cons(r, chunks)
        BY <1>3
  <2>3. /\ Cons(r, chunks) \in Seq(Extents) /\ Len(Cons(r, chunks)) = Len(chunks) + 1
        /\ Head(Cons(r, chunks)) = r /\ ToSet(Cons(r, chunks)) = ToSet(chunks) \cup {r}
        BY <1>7, <2>1, Pushed
  <2>4. QED BY <2>2, <2>3
<1>9. ExtentsSound'
      BY <1>1, <1>4, <1>5, <1>6, <1>8 DEF ExtentsSound
<1>10. Owned' = Owned \cup {Body(r)}
      BY <1>6, <1>8 DEF Owned
<1>11. \A o \in Owned' : Extent(o)
  <2>1. (BufferAssumption /\ ExtentsSound)' => (\A o \in Owned : Extent(o))'
        BY OwnedExtents, PTL
  <2>2. QED BY <1>1, <1>9, <2>1
<1> DEFINE window == [base |-> from, size |-> room]
<1>12. Body(r) = window /\ Inside(window, Body(r)) /\ Inside(window, r)
  <2>1. /\ r.base \in Int /\ r.size \in Int /\ HeaderSize \in Nat
        BY <1>2, <1>4, <1>5
  <2>2. QED BY <2>1 DEF Body, Inside
<1>13. from \in 0 .. MaxSize /\ room \in 0 .. MaxSize
      BY <1>2, <1>4, <1>5
<1>14. ASSUME NEW b \in blocks
       PROVE  ~Overlap(window, b)
  <2>1. b.base \in Int /\ b.size \in Int
        BY <1>1, <1>2 DEF TypeOK
  <2>2. r.base \in Int /\ r.size \in Int /\ HeaderSize \in Nat
        BY <1>2, <1>4, <1>5
  <2>3. PICK o \in Owned : Inside(b, o)
        BY <1>1 DEF BlocksDisjoint
  <2>4. CASE o = initial
    <3>1. initial.base \in Int /\ initial.size \in Int
          BY <1>1, <1>2 DEF ExtentsSound
    <3>2. QED BY <1>2, <1>4, <2>1, <2>2, <2>3, <2>4, <3>1 DEF Inside, Overlap
  <2>5. CASE \E c \in ToSet(chunks) : o = Body(c)
    <3>1. PICK c \in ToSet(chunks) : o = Body(c)
          BY <2>5
    <3>2. c.base \in Int /\ c.size \in Int
          BY <1>1, <1>2 DEF ExtentsSound
    <3>3. QED BY <1>2, <1>4, <2>1, <2>2, <2>3, <3>1, <3>2 DEF Inside, Overlap, Body
  <2>6. QED BY <2>3, <2>4, <2>5 DEF Owned
<1>15. \A b \in blocks : b.base % b.align = 0 /\ \E o \in Owned' : Inside(b, o)
      BY <1>1, <1>10 DEF BlocksDisjoint
<1>16. \A a, b \in blocks : a # b => ~Overlap(a, b)
      BY <1>1 DEF BlocksDisjoint
<1>17. Body(r) \in Owned'
      BY <1>10
<1> HIDE DEF from, room, window
<1>18. /\ current' \in 0 .. MaxSize /\ space' \in 0 .. MaxSize
       /\ blocks' \subseteq [base : 1 .. MaxSize, size : 0 .. MaxSize, align : Alignments]
       /\ \A b \in blocks' : b.base % b.align = 0 /\ \E o \in Owned' : Inside(b, o)
       /\ \A a, b \in blocks' : a # b => ~Overlap(a, b)
       /\ Inside([base |-> current', size |-> space'], Body(r))
       /\ \A b \in blocks' : ~Overlap([base |-> current', size |-> space'], b)
       /\ \E b \in blocks' : Inside(b, Body(r))
  <2>1. \A b \in blocks : ~Overlap([base |-> from, size |-> room], b)
        BY <1>14 DEF window
  <2>2. Inside([base |-> from, size |-> room], Body(r))
        BY <1>12 DEF window
  <2>3. QED BY <1>1, <1>5, <1>6, <1>11, <1>13, <1>15, <1>16, <1>17, <2>1, <2>2, BumpKeeps
<1>19. nextSize' \in 1 .. MaxSize
      BY <1>2, <1>6 DEF scale_buffer_size, Payload, LargerOf
<1>20. TypeOK'
      BY <1>1, <1>6, <1>8, <1>18, <1>19 DEF TypeOK
<1>21. BlocksDisjoint'
      BY <1>18 DEF BlocksDisjoint
<1>22. WindowFree'
      BY <1>17, <1>18 DEF WindowFree
<1>23. Inv'
      BY <1>1, <1>9, <1>20, <1>21, <1>22 DEF Inv
<1>24. \E b \in blocks' : Inside(b, Body(Head(chunks')))
      BY <1>8, <1>18
<1>25. QED BY <1>23, <1>24

LEMMA DeallocateKeepsInv ==
    ASSUME Inv, NEW b \in blocks, Deallocate(b)
    PROVE  Inv'
<1>1. /\ blocks' = blocks \ {b} /\ Owned' = Owned
      /\ UNCHANGED <<initial, current, space, nextSize, chunks>>
      BY DEF Deallocate, Owned
<1>2. TypeOK'
      BY <1>1 DEF Inv, TypeOK
<1>3. ExtentsSound'
      BY <1>1 DEF Inv, ExtentsSound
<1>4. BlocksDisjoint'
      BY <1>1 DEF Inv, BlocksDisjoint
<1>5. WindowFree'
      BY <1>1 DEF Inv, WindowFree
<1>6. QED BY <1>2, <1>3, <1>4, <1>5 DEF Inv

LEMMA ReleaseKeepsInv ==
    ASSUME Inv, Release
    PROVE  Inv'
<1>1. /\ BufferAssumption /\ TypeOK /\ ExtentsSound
      /\ initial' = initial /\ chunks' = <<>> /\ blocks' = {}
      /\ current' = initial.base /\ space' = initial.size
      BY DEF Inv, Release
<1>2. /\ MaxSize \in Nat \ {0} /\ MinBufferSize \in 1 .. MaxSize
      /\ initial.base \in 0 .. MaxSize /\ initial.size \in 0 .. MaxSize
      BY <1>1 DEF BufferAssumption, ExtentsSound
<1>3. nextSize' \in 1 .. MaxSize
      BY <1>2 DEF Release, scale_buffer_size, LargerOf
<1>4. ToSet(chunks') = {} /\ chunks' \in Seq(Extents)
      BY <1>1 DEF ToSet
<1>5. TypeOK'
      BY <1>1, <1>2, <1>3, <1>4 DEF TypeOK
<1>6. ExtentsSound'
      BY <1>1, <1>4 DEF ExtentsSound
<1>7. BlocksDisjoint'
      BY <1>1 DEF BlocksDisjoint
<1>8. WindowFree'
      BY <1>1, <1>2 DEF WindowFree, Owned, Inside
<1>9. QED BY <1>1, <1>5, <1>6, <1>7, <1>8 DEF Inv

LEMMA StepInv == Inv /\ [Next]_vars => Inv'
<1> SUFFICES ASSUME Inv, [Next]_vars PROVE Inv'
    OBVIOUS
<1>1. ASSUME NEW bytes \in Sizes, NEW alignment \in Alignments,
             AllocateFromCurrent(bytes, alignment) \/ AllocateFromNew(bytes, alignment)
      PROVE  Inv'
      BY <1>1, AllocateFromCurrentKeepsInv, AllocateFromNewKeepsInv
<1>2. ASSUME NEW b \in blocks, Deallocate(b) PROVE Inv'
      BY <1>2, DeallocateKeepsInv
<1>3. CASE Release
      BY <1>3, ReleaseKeepsInv
<1>4. CASE UNCHANGED vars
  <2>1. UNCHANGED <<initial, current, space, nextSize, chunks, blocks>>
        BY <1>4 DEF vars
  <2>2. TypeOK' /\ ExtentsSound'
        BY <2>1 DEF Inv, TypeOK, ExtentsSound
  <2>3. BlocksDisjoint' /\ WindowFree'
        BY <2>1 DEF Inv, BlocksDisjoint, WindowFree, Owned
  <2>4. QED BY <2>2, <2>3 DEF Inv
<1>5. QED BY <1>1, <1>2, <1>3, <1>4 DEF Next

(* For every width of the address space, every size and alignment asked    *)
(* for and every region upstream may return: the blocks handed out are     *)
(* aligned, owned and disjoint, and the bump window is owned and free,     *)
(* although align_up and the padding are computed modulo the width.        *)
THEOREM BumpSafety ==
    ASSUME BufferAssumption
    PROVE  Spec => []BumpIsSafe
<1>1. Init => Inv
      BY InitInv
<1>2. Inv => BumpIsSafe
      BY DEF Inv, BumpIsSafe
<1>3. QED BY <1>1, <1>2, StepInv, PTL DEF Spec

(* Only allocate_from_new_buffer gets a chunk. *)
LEMMA StepServes ==
    Inv /\ [Next]_vars =>
        (Len(chunks') > Len(chunks) => \E b \in blocks' : Inside(b, Body(Head(chunks'))))
<1> SUFFICES ASSUME Inv, [Next]_vars, Len(chunks') > Len(chunks)
             PROVE  \E b \in blocks' : Inside(b, Body(Head(chunks')))
    OBVIOUS
<1>1. chunks \in Seq(Extents) /\ Len(chunks) \in Nat
      BY DEF Inv, TypeOK
<1>2. chunks' # chunks /\ chunks' # <<>>
      BY <1>1
<1>3. ~Release /\ (\A b \in blocks : ~Deallocate(b)) /\ ~UNCHANGED vars
      BY <1>2 DEF Release, Deallocate, vars
<1>4. PICK bytes \in Sizes, alignment \in Alignments :
         AllocateFromCurrent(bytes, alignment) \/ AllocateFromNew(bytes, alignment)
      BY <1>3 DEF Next
<1>5. AllocateFromNew(bytes, alignment)
      BY <1>2, <1>4 DEF AllocateFromCurrent
<1>6. QED BY <1>5, AllocateFromNewKeepsInv

(* A chunk serves the request it was got for, for every width: the         *)
(* bad_alloc at the end of allocate_from_new_buffer is dead code.          *)
THEOREM ChunkServes ==
    ASSUME BufferAssumption
    PROVE  Spec => ChunkServesRequest
<1>1. Init => Inv
      BY InitInv
<1>2. QED BY <1>1, StepInv, StepServes, PTL DEF Spec, ChunkServesRequest

=============================================================================
