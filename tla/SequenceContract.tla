-------------------------- MODULE SequenceContract ---------------------------
(***************************************************************************)
(* What chaistl's linked lists promise of each call: a list is a sequence  *)
(* of nodes, a node keeps its value and its address for as long as it is   *)
(* in some list, and calls differ in what they do when user code throws.   *)
(* before and after are records: seq maps a list to its nodes, value maps  *)
(* a node to its element (Null: no such node), alloc a list to its         *)
(* memory resource.                                                        *)
(***************************************************************************)
EXTENDS Integers, SequencesExt

CONSTANTS
    Null,          \* the value of a node that does not exist
    Husk,          \* the value an element is left with when it is moved from
    StrongCalls    \* the operations a throw leaves without effect

Worth(s, nodes) == [i \in DOMAIN nodes |-> s.value[nodes[i]]]

Words(s, l) == Worth(s, s.seq[l])

Alive(s) == UNION {ToSet(s.seq[l]) : l \in DOMAIN s.seq}

(* The part of a sequence between positions i and j: [i, j) counted from 0 *)
Slice(q, i, j) == SubSeq(q, i + 1, IF j > Len(q) THEN Len(q) ELSE j)

Without(q, i, j) == Slice(q, 0, i) \o Slice(q, j, Len(q))

Inserted(q, i, r) == Slice(q, 0, i) \o r \o Slice(q, i, Len(q))

(* The nodes listed after the call, the ones that were there and no other. *)
Becomes(before, after, seq) ==
    /\ after.seq = seq
    /\ \A n \in Alive(after) : after.value[n] = before.value[n]

Unchanged(before, after) == Becomes(before, after, before.seq)

(* Lists other than those of S hold the same nodes with the same values. *)
Elsewhere(before, after, S) ==
    \A l \in DOMAIN before.seq \ S :
        /\ after.seq[l] = before.seq[l]
        /\ Words(after, l) = Words(before, l)

-----------------------------------------------------------------------------
(* Where the nodes go in a call that creates none.                         *)

OrderedBy(s, q) == \A i \in 1..Len(q) - 1 : s.value[q[i]] <= s.value[q[i + 1]]

(* Equal elements in the order of first, and those of first before second's *)
Place(q, n) == CHOOSE i \in DOMAIN q : q[i] = n

StablySorted(s, q) ==
    SetToSortSeq(ToSet(q), LAMBDA x, y :
        \/ s.value[x] < s.value[y]
        \/ s.value[x] = s.value[y] /\ Place(q, x) < Place(q, y))

FirstOfRuns(s, q) ==
    LET kept == {i \in DOMAIN q : i = 1 \/ s.value[q[i]] # s.value[q[i - 1]]}
    IN  [k \in 1..Cardinality(kept) |->
            q[CHOOSE i \in kept : Cardinality({j \in kept : j <= i}) = k]]

(* Moved nodes keep their order; a position in the moved range is no position *)
Spliced(s, c, i, j) ==
    IF c.from # c.on
    THEN [s.seq EXCEPT ![c.on] = Inserted(@, c.at, Slice(s.seq[c.from], i, j)),
                       ![c.from] = Without(@, i, j)]
    ELSE [s.seq EXCEPT ![c.on] =
             Inserted(Without(@, i, j), IF c.at <= i THEN c.at ELSE c.at - (j - i), Slice(@, i, j))]

Result(s, c) ==
    CASE c.op = "pop_front"  -> [s.seq EXCEPT ![c.on] = Tail(@)]
      [] c.op = "pop_back"   -> [s.seq EXCEPT ![c.on] = Front(@)]
      [] c.op \in {"erase", "erase_range"} -> [s.seq EXCEPT ![c.on] = Without(@, c.at, c.to)]
      [] c.op = "clear"      -> [s.seq EXCEPT ![c.on] = <<>>]
      [] c.op = "swap"       -> [s.seq EXCEPT ![c.on] = s.seq[c.from], ![c.from] = s.seq[c.on]]
      [] c.op = "splice"       -> Spliced(s, c, 0, Len(s.seq[c.from]))
      [] c.op \in {"splice_one", "splice_range"} -> Spliced(s, c, c.first, c.to)
      [] c.op = "remove"     -> [s.seq EXCEPT ![c.on] = SelectSeq(@, LAMBDA n : s.value[n] # c.value)]
      [] c.op = "unique"     -> [s.seq EXCEPT ![c.on] = FirstOfRuns(s, @)]
      [] c.op = "merge"      -> [s.seq EXCEPT ![c.on] = StablySorted(s, @ \o s.seq[c.from]), ![c.from] = <<>>]
      [] c.op = "sort"       -> [s.seq EXCEPT ![c.on] = StablySorted(s, @)]
      [] c.op = "reverse"    -> [s.seq EXCEPT ![c.on] = Reverse(@)]
      [] c.op \in {"move_construct", "move_assign"} ->
            [s.seq EXCEPT ![c.on] = s.seq[c.from], ![c.from] = <<>>]

-----------------------------------------------------------------------------
(* A call that creates elements: what the list then reads, what it keeps.  *)

Reading(s, c) ==
    CASE c.op \in {"construct", "assign"} -> c.values
      [] c.op \in {"copy_construct", "copy_assign", "move_construct", "move_assign"} -> Words(s, c.from)
      [] c.op \in {"emplace", "insert"} -> Inserted(Words(s, c.on), c.at, c.values)
      [] c.op = "prepend"    -> c.values \o Words(s, c.on)
      [] c.op = "append"     -> Words(s, c.on) \o c.values
      [] c.op = "resize"     -> Slice(Words(s, c.on), 0, c.to)
                                \o [i \in 1..(c.to - Len(s.seq[c.on])) |-> c.value]

(* Nodes an insertion leaves in place, in order *)
Adding == {"emplace", "insert", "prepend", "append", "resize"}

KeepsNodes(before, c, after) ==
    LET old == IF c.op = "resize" THEN Slice(before.seq[c.on], 0, c.to) ELSE before.seq[c.on]
    IN  SelectSeq(after.seq[c.on], LAMBDA n : n \in ToSet(old)) = old

(* An element-wise move leaves its source with as many empty elements. *)
Drained(before, c, after) ==
    /\ after.seq[c.from] = before.seq[c.from]
    /\ ToSet(Words(after, c.from)) \subseteq {Husk}

TransfersNodes(before, c) ==
    \/ c.op = "move_construct" /\ before.alloc[c.from] = c.alloc
    \/ c.op = "move_assign" /\ (before.propagates \/ before.alloc[c.from] = before.alloc[c.on])

Returns(before, c, after) ==
    CASE c.op \in {"move_construct", "move_assign"} ->
            IF TransfersNodes(before, c)
            THEN Becomes(before, after, Result(before, c))
            ELSE /\ Words(after, c.on) = Reading(before, c)
                 /\ Drained(before, c, after)
                 /\ Elsewhere(before, after, {c.on, c.from})
      [] c.op \in Adding \cup {"construct", "assign", "copy_construct", "copy_assign"} ->
            /\ Words(after, c.on) = Reading(before, c)
            /\ Elsewhere(before, after, {c.on})
            /\ c.op \in Adding => KeepsNodes(before, c, after)
      [] OTHER -> Becomes(before, after, Result(before, c))

-----------------------------------------------------------------------------
(* A call that throws.                                                     *)

SubsequenceOf(p, q) == SelectSeq(q, LAMBDA n : n \in ToSet(p)) = p

Throws(before, c, after) ==
    CASE c.op \in StrongCalls -> Unchanged(before, after)
      [] c.op \in {"construct", "copy_construct"} ->
            Becomes(before, after, [before.seq EXCEPT ![c.on] = <<>>])
      [] c.op = "move_construct" ->
            /\ after.seq = [before.seq EXCEPT ![c.on] = <<>>]
            /\ Elsewhere(before, after, {c.on, c.from})
      [] c.op \in {"assign", "move_assign"} ->
            /\ SubsequenceOf(before.seq[c.on], after.seq[c.on])
            /\ Elsewhere(before, after, IF c.op = "assign" THEN {c.on} ELSE {c.on, c.from})
            /\ c.op = "move_assign" => after.seq[c.from] = before.seq[c.from]
      [] c.op \in {"prepend", "append", "resize"} ->
            /\ SubsequenceOf(before.seq[c.on], after.seq[c.on])
            /\ \A n \in Alive(before) : after.value[n] = before.value[n]
            /\ Elsewhere(before, after, {c.on})
      [] c.op \in {"remove", "unique", "sort"} ->
            /\ ToSet(after.seq[c.on]) \subseteq ToSet(before.seq[c.on])
            /\ c.op # "sort" => SubsequenceOf(after.seq[c.on], before.seq[c.on])
            /\ Becomes(before, after, [before.seq EXCEPT ![c.on] = after.seq[c.on]])
      [] c.op = "merge" ->
            /\ SubsequenceOf(before.seq[c.on], after.seq[c.on])
            /\ SubsequenceOf(after.seq[c.from], before.seq[c.from])
            /\ Alive(after) = Alive(before)
            /\ \A n \in Alive(after) : after.value[n] = before.value[n]

=============================================================================
