--------------------------- MODULE ArrayContract ----------------------------
(***************************************************************************)
(* What chaistl's vector and deque promise of each call, on the sequences  *)
(* of elements of the container it is made on (self) and of the one it     *)
(* reads or swaps with (other).  A call is a record c: op, values, at, to, *)
(* and for one value: own, the index of the element of self that was       *)
(* passed, or Nowhere and value.                                           *)
(***************************************************************************)
EXTENDS Integers, SequencesExt

CONSTANTS Husk, Nowhere

Slice(q, i, j) == SubSeq(q, i + 1, IF j > Len(q) THEN Len(q) ELSE j)

Inserted(q, i, r) == Slice(q, 0, i) \o r \o Slice(q, i, Len(q))

Value(s, c) == IF c.own = Nowhere THEN c.value ELSE s.self[c.own + 1]

Copies(s, c, n) == [k \in 1..n |-> Value(s, c)]

(* The elements of self when the call returns                              *)
Result(s, c) ==
    CASE c.op \in {"construct", "assign"} -> c.values
      [] c.op \in {"copy_construct", "move_construct", "copy_assign", "move_assign", "swap"} -> s.other
      [] c.op \in {"reserve", "shrink_to_fit"} -> s.self
      [] c.op = "emplace_back"  -> s.self \o Copies(s, c, 1)
      [] c.op = "emplace_front" -> Copies(s, c, 1) \o s.self
      [] c.op = "emplace"       -> Inserted(s.self, c.at, Copies(s, c, 1))
      [] c.op = "insert_fill"   -> Inserted(s.self, c.at, Copies(s, c, c.count))
      [] c.op \in {"insert_iterators", "insert_range"} -> Inserted(s.self, c.at, c.values)
      [] c.op \in {"append_range", "append_uncounted"} -> s.self \o c.values
      [] c.op = "prepend_range" -> c.values \o s.self
      [] c.op = "resize"        -> Slice(s.self, 0, c.count) \o Copies(s, c, c.count - Len(s.self))
      [] c.op = "overwrite"     -> Slice(s.self, 0, Len(c.values)) \o Slice(c.values, Len(s.self), Len(c.values))
      [] c.op = "pop_front"     -> Tail(s.self)
      [] c.op = "pop_back"      -> Front(s.self)
      [] c.op = "erase"         -> Slice(s.self, 0, c.at) \o Slice(s.self, c.to, Len(s.self))
      [] c.op = "clear"         -> <<>>

(* The same elements, some of which were moved from                        *)
Drained(before, after) ==
    /\ Len(after) = Len(before)
    /\ \A i \in DOMAIN after : after[i] \in {before[i], Husk}

Transfers(s, c) ==
    \/ c.op = "move_construct" /\ c.alloc = s.alloc.other
    \/ c.op = "move_assign" /\ (s.propagates \/ s.alloc.self = s.alloc.other)

OtherReturns(before, c, after) ==
    CASE c.op = "swap" -> after.other = before.self
      [] c.op \in {"move_construct", "move_assign"} ->
            IF Transfers(before, c) THEN after.other = <<>> ELSE Drained(before.other, after.other)
      [] OTHER -> after.other = before.other

(* The memory resource self uses afterwards                                *)
Resource(s, c) ==
    IF c.op \in {"copy_construct", "move_construct"} THEN c.alloc
    ELSE IF c.op \in {"copy_assign", "move_assign", "swap"} /\ s.propagates THEN s.alloc.other
    ELSE s.alloc.self

Returns(before, c, after) ==
    /\ after.self = Result(before, c)
    /\ OtherReturns(before, c, after)
    /\ after.alloc.self = Resource(before, c)
    /\ c.op = "reserve" => after.capacity >= c.count

Unchanged(before, after) == after.self = before.self /\ after.other = before.other

(* The calls that add at one end, and those that put elements in the       *)
(* middle, where a throw may leave elements that were moved from.          *)
Appends(s, c) ==
    \/ c.op \in {"append_range", "append_uncounted", "resize"}
    \/ c.op \in {"insert_fill", "insert_range", "insert_iterators"} /\ c.at = Len(s.self)

Prepends(s, c) ==
    \/ c.op = "prepend_range"
    \/ s.kind = "deque" /\ c.op \in {"insert_fill", "insert_range", "insert_iterators"} /\ c.at = 0

Throws(before, c, after, strong) ==
    /\ IF c.op \in {"move_construct", "move_assign"} THEN Drained(before.other, after.other)
       ELSE after.other = before.other
    /\ CASE c.op \in {"construct", "copy_construct", "move_construct"} -> after.self = <<>>
         [] strong -> after.self = before.self
         [] ~strong /\ c.op = "shrink_to_fit" -> Drained(before.self, after.self)
         [] ~strong /\ (Appends(before, c) \/ Prepends(before, c)) ->
               \/ /\ Appends(before, c)
                  /\ IsPrefix(before.self, after.self) /\ IsPrefix(after.self, Result(before, c))
               \/ /\ Prepends(before, c)
                  /\ IsSuffix(before.self, after.self) /\ IsSuffix(after.self, Result(before, c))
         [] OTHER ->
               /\ Len(after.self) \in {Len(before.self), Len(Result(before, c))}
               /\ ToSet(after.self) \subseteq ToSet(before.self) \cup ToSet(Result(before, c)) \cup {Husk}

=============================================================================
