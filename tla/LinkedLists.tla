---------------------------- MODULE LinkedLists -----------------------------
(***************************************************************************)
(* Programs over two of chaistl's linked lists: any call of the interface, *)
(* on lists that use the same memory resource or not, while constructors,  *)
(* comparisons and allocations throw.  A call returns, or throws and is    *)
(* caught; constructors replace a list that has just been destroyed.       *)
(***************************************************************************)
EXTENDS Integers, SequencesExt, TLC

CONSTANTS
    Kinds,           \* of "list" and "forward_list"
    Lists, Nodes, Null, Husk,
    Resources,       \* memory resources, the default one among them
    DefaultResource,
    Elements,        \* the values a program inserts
    MaxInput,        \* how many of them one call inserts at most
    Fuels,           \* calls of user code that succeed before one throws
    Unlimited,       \* no call throws
    Faults           \* the mishandled calls a program makes all the same

VARIABLES
    kind,  \* of the two lists
    mem,   \* nodes and headers, see ListNodes
    kept   \* whether the last call did what is promised of it

vars == <<kind, mem, kept>>

Ring   == INSTANCE LinkedList
Single == INSTANCE ForwardList

(* forward_list's resize and prepend_range also undo what they have done. *)
Promise(k) == INSTANCE SequenceContract WITH
    StrongCalls <- {"emplace", "insert", "copy_assign"}
                      \cup IF k = "list" THEN {} ELSE {"prepend", "resize"}

(* What a call's temporary lists link to before they hold anything *)
NoTemps == [h \in Ring!Temps |-> IF kind = "list" THEN h ELSE Null]

Contents(m, l) == IF kind = "list" THEN Ring!Contents(m, l) ELSE Single!Contents(m, l)

(* What a caller sees of the lists *)
View(m) == [seq |-> [l \in Lists |-> Contents(m, l)], value |-> m.value,
            alloc |-> m.alloc, propagates |-> m.propagates]

-----------------------------------------------------------------------------
(* Positions: in a list, the node at an index or the header; in a forward  *)
(* list, the node before that index or the header.                         *)
At(s, l, i)      == IF i < Len(s.seq[l]) THEN s.seq[l][i + 1] ELSE l
After(s, l, i)   == IF i = 0 THEN l ELSE s.seq[l][i]
UpTo(s, l, i)    == IF i < Len(s.seq[l]) THEN s.seq[l][i + 1] ELSE Null

OnRing(m, s, c) ==
    CASE c.op = "construct"      -> Ring!construct(Ring!destroy_and_deallocate_nodes(m, c.on), c.on, c.values)
      [] c.op = "copy_construct" -> Ring!construct(m, c.on, Ring!Values(m, c.from))
      [] c.op = "move_construct" -> Ring!move_construct(m, c.on, c.from)
      [] c.op = "copy_assign"    -> Ring!copy_assign(m, c.on, c.from)
      [] c.op = "move_assign"    -> Ring!move_assign(m, c.on, c.from)
      [] c.op = "assign"         -> Ring!assign(m, c.on, m.next[c.on], c.values)
      [] c.op = "resize"         -> Ring!resize(m, c.on, c.to, c.value)
      [] c.op = "emplace"        -> Ring!emplace(m, c.on, At(s, c.on, c.at), c.values[1])
      [] c.op = "insert"         -> Ring!insert(m, c.on, At(s, c.on, c.at), c.values)
      [] c.op = "prepend"        -> Ring!EmplaceEach(m, c.on, TRUE, Reverse(c.values))
      [] c.op = "append"         -> Ring!EmplaceEach(m, c.on, FALSE, c.values)
      [] c.op = "pop_front"      -> Ring!erase(m, c.on, m.next[c.on])
      [] c.op = "pop_back"       -> Ring!erase(m, c.on, m.prev[c.on])
      [] c.op = "erase"          -> Ring!erase(m, c.on, At(s, c.on, c.at))
      [] c.op = "erase_range"    -> Ring!erase_range(m, c.on, At(s, c.on, c.at), At(s, c.on, c.to))
      [] c.op = "clear"          -> Ring!destroy_and_deallocate_nodes(m, c.on)
      [] c.op = "swap"           -> Ring!swap(m, c.on, c.from)
      [] c.op = "splice"         -> Ring!splice(m, c.on, At(s, c.on, c.at), c.from)
      [] c.op = "splice_one"     -> Ring!splice_one(m, c.on, At(s, c.on, c.at), c.from, At(s, c.from, c.first))
      [] c.op = "splice_range"   -> Ring!splice_range(m, c.on, At(s, c.on, c.at), c.from,
                                                      At(s, c.from, c.first), At(s, c.from, c.to))
      [] c.op = "remove"         -> Ring!remove(m, c.on, m.next[c.on], c.value)
      [] c.op = "unique"         -> Ring!unique(m, c.on)
      [] c.op = "merge"          -> Ring!merge(m, c.on, c.from)
      [] c.op = "sort"           -> Ring!sort(m, c.on)
      [] c.op = "reverse"        -> Ring!reverse(m, c.on)

OnSingle(m, s, c) ==
    CASE c.op = "construct"      -> Single!construct(Single!destroy_and_deallocate_nodes(m, c.on), c.on, c.values)
      [] c.op = "copy_construct" -> Single!construct(m, c.on, Single!Values(m, c.from))
      [] c.op = "move_construct" -> Single!move_construct(m, c.on, c.from)
      [] c.op = "copy_assign"    -> Single!copy_assign(m, c.on, c.from)
      [] c.op = "move_assign"    -> Single!move_assign(m, c.on, c.from)
      [] c.op = "assign"         -> Single!assign(m, c.on, m.next[c.on], c.values)
      [] c.op = "resize"         -> Single!resize(m, c.on, c.to, c.value)
      [] c.op = "emplace"        -> IF c.at = 0 THEN Single!emplace_front(m, c.on, c.values[1])
                                    ELSE Single!emplace_after(m, c.on, After(s, c.on, c.at), c.values[1])
      [] c.op = "insert"         -> Single!insert_after(m, c.on, After(s, c.on, c.at), c.values)
      [] c.op = "prepend"        -> Single!prepend_range(m, c.on, c.values)
      [] c.op = "append"         -> Single!EmplaceEach(m, c.on, c.values)
      [] c.op = "pop_front"      -> Single!pop_front(m, c.on)
      [] c.op = "erase"          -> Single!erase_after(m, c.on, After(s, c.on, c.at))
      [] c.op = "erase_range"    -> Single!erase_range(m, c.on, After(s, c.on, c.at), UpTo(s, c.on, c.to))
      [] c.op = "clear"          -> Single!destroy_and_deallocate_nodes(m, c.on)
      [] c.op = "swap"           -> Single!swap(m, c.on, c.from)
      [] c.op = "splice"         -> Single!splice_after(m, c.on, After(s, c.on, c.at), c.from)
      [] c.op = "splice_one"     -> Single!splice_after_one(m, c.on, After(s, c.on, c.at), c.from,
                                                            After(s, c.from, c.first))
      [] c.op = "splice_range"   -> Single!splice_after_range(m, c.on, After(s, c.on, c.at), c.from,
                                                              After(s, c.from, c.first), UpTo(s, c.from, c.to))
      [] c.op = "remove"         -> Single!remove(m, c.on, c.value)
      [] c.op = "unique"         -> Single!unique(m, c.on)
      [] c.op = "merge"          -> Single!merge(m, c.on, c.from)
      [] c.op = "sort"           -> Single!sort(m, c.on)
      [] c.op = "reverse"        -> Single!reverse(m, c.on)

(* The new list's memory resource is the constructor's argument.           *)
Prepared(m, c) ==
    IF c.op \in {"copy_construct", "move_construct"}
    THEN [IF kind = "list" THEN Ring!destroy_and_deallocate_nodes(m, c.on)
          ELSE Single!destroy_and_deallocate_nodes(m, c.on) EXCEPT !.alloc[c.on] = c.alloc]
    ELSE m

Outcome(m, s, c) == IF kind = "list" THEN OnRing(m, s, c) ELSE OnSingle(m, s, c)

(* A call starts with empty temporary lists. *)
Armed(m, fuel) ==
    [next |-> m.next @@ NoTemps, prev |-> m.prev @@ NoTemps,
     last |-> m.last @@ [h \in Ring!Temps |-> h],
     size |-> m.size @@ [h \in Ring!Temps |-> 0],
     alloc |-> m.alloc @@ [h \in Ring!Temps |-> DefaultResource],
     value |-> m.value, home |-> m.home, propagates |-> m.propagates,
     fuel |-> fuel, raised |-> FALSE, misfreed |-> m.misfreed]

Perform(c, fuel) == Outcome(Prepared(Armed(mem, fuel), c), View(mem), c)

(* What is left of the memory when a call has ended *)
Settled(m) ==
    [next |-> Restrict(m.next, Lists \cup Nodes), prev |-> Restrict(m.prev, Lists \cup Nodes),
     last |-> Restrict(m.last, Lists), size |-> Restrict(m.size, Lists),
     alloc |-> Restrict(m.alloc, Lists),
     value |-> m.value, home |-> m.home, propagates |-> m.propagates, misfreed |-> m.misfreed]

-----------------------------------------------------------------------------
(* The calls a program can make, by operation                              *)

Size(l) == mem.size[l]

Pairs == {p \in Lists \X Lists : p[1] # p[2]}

Equal(l, o) == mem.alloc[l] = mem.alloc[o]

(* A list links a chain it inserts by next alone: nodes inside the chain   *)
(* have no prev.  Chains of more than one node are mishandled.             *)
Chains(n) == n < 2 \/ kind = "forward_list" \/ "chain" \in Faults

(* The sequences of elements a call is given, no element twice             *)
Inputs == {v \in UNION {[1..n -> Elements] : n \in 0..MaxInput} : IsInjective(v)}

Construct == {[op |-> "construct", on |-> l, values |-> v] : l \in Lists, v \in Inputs}

ConstructFrom ==
    {[op |-> o, on |-> p[1], from |-> p[2], alloc |-> r] :
        o \in {"copy_construct", "move_construct"}, p \in Pairs, r \in Resources}

AssignFrom ==
    {[op |-> "copy_assign", on |-> p[1], from |-> p[2]] : p \in Pairs}
      \cup {[op |-> "move_assign", on |-> p[1], from |-> p[2]] :
               p \in {p \in Pairs : \/ mem.propagates \/ Equal(p[1], p[2])
                                    \/ Chains(Size(p[2]) - Size(p[1]))}}

Assign ==
    {c \in {[op |-> "assign", on |-> l, values |-> v] : l \in Lists, v \in Inputs} :
        Chains(Len(c.values) - Size(c.on))}

Resize ==
    UNION {{[op |-> "resize", on |-> l, to |-> n, value |-> CHOOSE v \in Elements : TRUE] :
               n \in 0..(Size(l) + 2)} : l \in Lists}

Emplace ==
    UNION {{[op |-> "emplace", on |-> l, at |-> i, values |-> <<v>>] :
               i \in 0..Size(l), v \in Elements} : l \in Lists}

Insert ==
    UNION {{[op |-> "insert", on |-> l, at |-> i, values |-> v] :
               i \in 0..Size(l), v \in {v \in Inputs : Chains(Len(v))}} : l \in Lists}

InsertAtEnds ==
    {[op |-> o, on |-> l, values |-> v] : o \in {"prepend", "append"}, l \in Lists, v \in Inputs}

Pop ==
    {[op |-> o, on |-> l] : o \in IF kind = "list" THEN {"pop_front", "pop_back"} ELSE {"pop_front"},
                            l \in {l \in Lists : Size(l) > 0}}

Erase ==
    UNION {{[op |-> "erase", on |-> l, at |-> i, to |-> i + 1] : i \in 0..(Size(l) - 1)} : l \in Lists}

EraseRange ==
    UNION {{[op |-> "erase_range", on |-> l, at |-> i, to |-> j] :
               i \in 0..Size(l), j \in 0..Size(l)} : l \in Lists}

Ranges(S) == {c \in S : c.at <= c.to}

Whole == {[op |-> o, on |-> l] : o \in {"clear", "unique", "reverse"}, l \in Lists}

Swap == {[op |-> "swap", on |-> p[1], from |-> p[2]] :
            p \in {p \in Pairs : mem.propagates \/ Equal(p[1], p[2])}}

Splice ==
    UNION {{[op |-> "splice", on |-> p[1], from |-> p[2], at |-> i] : i \in 0..Size(p[1])} :
              p \in {p \in Pairs : Equal(p[1], p[2])}}

SpliceSome(op, most) ==
    UNION {{[op |-> op, on |-> p[1], from |-> p[2], at |-> i, first |-> j, to |-> k] :
               i \in 0..Size(p[1]), j \in 0..Size(p[2]), k \in 0..most} :
              p \in {p \in Lists \X Lists : Equal(p[1], p[2])}}

(* A range moved within its list: the position is no iterator of the range. *)
Sensible(S) ==
    {c \in S : /\ c.first <= c.to /\ c.to <= Size(c.from)
               /\ \/ c.from # c.on \/ c.op = "splice_one" \/ c.first = c.to
                  \/ kind = "list" /\ (c.at < c.first \/ c.at >= c.to)
                  \/ kind = "forward_list" /\ (c.at <= c.first \/ c.at > c.to)}

(* In a forward list a range that ends the list it is moved within, and an *)
(* element moved behind itself, are mishandled.                            *)
SelfSplice(c) ==
    /\ kind = "forward_list" /\ c.from = c.on
    /\ \/ c.op = "splice_range" /\ c.first < c.to /\ c.to = Size(c.on)
       \/ c.op = "splice_one" /\ c.at = c.to

SpliceOne == {c \in SpliceSome("splice_one", 4) : c.to = c.first + 1}

SpliceRange == SpliceSome("splice_range", 4)

Splices == {c \in Sensible(SpliceOne \cup SpliceRange) : ~SelfSplice(c)}

RemoveValue == {[op |-> "remove", on |-> l, value |-> v] : l \in Lists, v \in Elements}

Merge == {[op |-> "merge", on |-> p[1], from |-> p[2]] :
             p \in {p \in Pairs : /\ Equal(p[1], p[2])
                                  /\ Promise(kind)!OrderedBy(View(mem), View(mem).seq[p[1]])
                                  /\ Promise(kind)!OrderedBy(View(mem), View(mem).seq[p[2]])}}

(* forward_list sorts in lists that use the default resource, and leaves   *)
(* it nodes (and, if allocators propagate, takes it over) when that is not *)
(* the resource the nodes came from.                                       *)
SortsAtHome(l) == kind = "list" \/ mem.alloc[l] = DefaultResource

Sort == {[op |-> "sort", on |-> l] : l \in {l \in Lists : ~mem.propagates \/ SortsAtHome(l)}}

SortAtHome == {c \in Sort : SortsAtHome(c.on)}

-----------------------------------------------------------------------------
Init ==
    /\ kind \in Kinds /\ kept = TRUE
    /\ \E p \in BOOLEAN : \E a \in [Lists -> Resources] :
          LET link == [x \in Lists \cup Nodes |-> IF x \in Lists /\ kind = "list" THEN x ELSE Null]
          IN  mem = [next |-> link, prev |-> link, last |-> [l \in Lists |-> l],
                     size |-> [l \in Lists |-> 0], alloc |-> a,
                     value |-> [n \in Nodes |-> Null], home |-> [n \in Nodes |-> Null],
                     propagates |-> p, misfreed |-> FALSE]

(* What the contract says of call c, made in this state with outcome r     *)
Kept(c, s, r) ==
    IF r.raised THEN Promise(kind)!Throws(s, c, View(r)) ELSE Promise(kind)!Returns(s, c, View(r))

(* With a limit, only calls that reach it: the others are made without.    *)
Ends(c, r, fuel) ==
    /\ fuel = Unlimited \/ r.raised
    /\ UNCHANGED kind
    /\ mem' = Settled(r)
    /\ kept' = Kept(c, View(mem), r)

Does(calls) == \E c \in calls : Ends(c, Perform(c, Unlimited), Unlimited)

MayThrow(calls) == \E c \in calls : \E f \in Fuels \cup {Unlimited} : Ends(c, Perform(c, f), f)

Next ==
    \/ MayThrow(Construct)
    \/ MayThrow(ConstructFrom)
    \/ MayThrow(AssignFrom)
    \/ MayThrow(Assign)
    \/ MayThrow(Resize)
    \/ MayThrow(Emplace)
    \/ MayThrow(Insert)
    \/ MayThrow(InsertAtEnds)
    \/ Does(Pop)
    \/ Does(Erase)
    \/ Does(Ranges(EraseRange))
    \/ Does(Whole)
    \/ Does(Swap)
    \/ Does(Splice)
    \/ Does(Splices)
    \/ MayThrow(RemoveValue)
    \/ MayThrow(Merge)
    \/ Does(Sort)
    \/ MayThrow(SortAtHome)

Spec == Init /\ [][Next]_vars

-----------------------------------------------------------------------------
(* Every field of the memory has its type; no link leads to a list that    *)
(* only a call had.                                                        *)
TypeOK ==
    /\ kind \in Kinds /\ kept \in BOOLEAN
    /\ \A x \in Lists \cup Nodes : {mem.next[x], mem.prev[x]} \subseteq Lists \cup Nodes \cup {Null}
    /\ mem.last \in [Lists -> Lists \cup Nodes]
    /\ mem.size \in [Lists -> 0..Cardinality(Nodes)]
    /\ mem.alloc \in [Lists -> Resources]
    /\ mem.value \in [Nodes -> Elements \cup {Husk, Null}]
    /\ mem.home \in [Nodes -> Resources \cup {Null}]

(* forward_list.hpp: last_ points to the last element, or to the node      *)
(* before the first when there is none.                                    *)
LastIsTail ==
    kind = "forward_list" =>
        \A l \in Lists : mem.last[l] = Last(<<l>> \o Contents(mem, l))

(* list.hpp: nodes are linked by prev and next, and the header's prev is   *)
(* the last element: going back from any position undoes going forward.    *)
PrevIsInverse ==
    kind = "list" =>
        \A l \in Lists : \A x \in {l} \cup ToSet(Contents(mem, l)) :
           mem.prev[mem.next[x]] = x /\ mem.next[mem.prev[x]] = x

(* The links lead through exactly the list's elements, in both directions  *)
(* and to a known end, whatever calls, moves and exceptions came before.   *)
LinksExact ==
    /\ LastIsTail /\ PrevIsInverse
    /\ \A l \in Lists : Len(Contents(mem, l)) = mem.size[l]

(* Each node that exists is in one place of one list, came from that       *)
(* list's memory resource, and goes back to it: none leaks, none is freed  *)
(* twice or through an allocator that does not know it.                    *)
NodesOwned ==
    /\ ~mem.misfreed
    /\ \A l \in Lists : \A n \in ToSet(Contents(mem, l)) : mem.home[n] = mem.alloc[l]
    /\ \A l \in Lists : Cardinality(ToSet(Contents(mem, l))) = Len(Contents(mem, l))
    /\ \A p \in Pairs : ToSet(Contents(mem, p[1])) \cap ToSet(Contents(mem, p[2])) = {}
    /\ {n \in Nodes : mem.value[n] # Null} = UNION {ToSet(Contents(mem, l)) : l \in Lists}

(* Every call has the effect its contract states on the sequences of nodes *)
(* and their elements, returning or throwing: stable sort and merge, no    *)
(* element lost by a splice, insertion that succeeds or does nothing.      *)
PromisesKept == kept

Symmetry == Permutations(Nodes) \cup Permutations(Lists)

=============================================================================
