---------------------------- MODULE FlatContract ----------------------------
(***************************************************************************)
(* What chaistl's flat containers promise of each call.  A container is a  *)
(* sequence of entries: key orders the entry, from names the key element   *)
(* and of the mapped one (of a set: the same), so that a value next to     *)
(* another's key shows.  Many insertions at once do what the same          *)
(* insertions do one by one.                                               *)
(***************************************************************************)
EXTENDS Integers, SequencesExt

CONSTANTS
    unique,    \* flat_map and flat_set, not flat_multimap and flat_multiset
    mapped,    \* flat_map and flat_multimap
    FirstNew   \* elements from this number on are those a call brings

Inserted(q, e) ==
    LET after == Len(SelectSeq(q, LAMBDA x : x.key <= e.key))
    IN  IF unique /\ \E i \in DOMAIN q : q[i].key = e.key THEN q ELSE InsertAt(q, after + 1, e)

InsertedAll(q, es) == FoldLeft(Inserted, q, es)

Assigned(q, e) ==
    IF \E i \in DOMAIN q : q[i].key = e.key
    THEN [i \in DOMAIN q |-> IF q[i].key = e.key THEN [q[i] EXCEPT !.of = e.of] ELSE q[i]]
    ELSE Inserted(q, e)

Part(q, i, j) == SubSeq(q, i + 1, j)

Bulk == {"insert_many", "insert_range"}

Constructing == {"construct", "construct_range", "copy_construct", "move_construct"}

Result(q, c) ==
    CASE c.op \in {"insert", "insert_hint", "try_emplace", "try_emplace_hint"} -> Inserted(q, c.entries[1])
      [] c.op \in {"insert_or_assign", "insert_or_assign_hint"} -> Assigned(q, c.entries[1])
      [] c.op \in Bulk -> InsertedAll(q, c.entries)
      [] c.op \in Constructing \cup {"assign_list", "copy_assign", "move_assign", "swap", "replace"} ->
            InsertedAll(<<>>, c.entries)
      [] c.op \in {"extract", "clear"} -> <<>>
      [] c.op = "erase" -> Part(q, 0, c.at) \o Part(q, c.to, Len(q))
      [] c.op \in {"erase_key", "erase_if"} -> SelectSeq(q, LAMBDA x : x.key \notin c.gone)

(* A sort of elements without mapped values may exchange equal new ones.   *)
Told(q) ==
    IF mapped THEN q
    ELSE [i \in DOMAIN q |-> IF q[i].from < FirstNew THEN q[i] ELSE [key |-> q[i].key]]

(* The position a call answers holds the key it was about, in a container  *)
(* that keeps equal keys the new element; made says whether it is new.     *)
Answered(before, c, after) ==
    LET e == c.entries[1]
    IN  /\ after.made = (~unique \/ \A i \in DOMAIN before.self : before.self[i].key # e.key)
        /\ after.self[after.at + 1].key = e.key
        /\ after.made => after.self[after.at + 1].from = e.from

Returns(before, c, after) ==
    /\ Told(after.self) = Told(Result(before.self, c))
    /\ c.op \in {"insert", "insert_hint", "try_emplace", "try_emplace_hint", "insert_or_assign",
                 "insert_or_assign_hint"} => Answered(before, c, after)
    /\ c.op \in {"swap", "extract"} => after.other = before.self
    /\ c.op = "move_construct" => after.other = <<>>
    /\ c.op \in {"move_assign", "replace"} => Len(after.other) = IF c.how = "taken" THEN 0 ELSE Len(c.entries)
    /\ c.op \in {"copy_construct", "copy_assign"} => after.other = c.entries
    /\ c.op = "erase" => after.at = c.at

(* A bulk insertion that throws was not made, or leaves nothing behind.    *)
Throws(before, c, after) ==
    CASE c.op \in Bulk -> after.self \in {before.self, <<>>}
      [] c.op \in Constructing \cup {"assign_list"} -> after.self = <<>>
      [] c.op = "replace" -> after.self \in {before.self, <<>>}
      [] c.op = "erase_if" ->
            \E n \in 0..Len(before.self) :
               after.self = SelectSeq(Part(before.self, 0, n), LAMBDA x : x.key \notin c.gone)
                            \o Part(before.self, n, Len(before.self))
      [] OTHER -> after.self = before.self

(* What is left when the invariant is not: an assigned container has the   *)
(* keys it had or those it was given; an appended-to one nothing, or the   *)
(* keys it had and some first ones of those it was given.                  *)
KeysOf(q) == [i \in DOMAIN q |-> [key |-> q[i].key, from |-> q[i].from]]

Breaks(before, c, after) ==
    IF c.op \in {"copy_assign", "move_assign"} THEN KeysOf(after.self) \in {KeysOf(before.self), KeysOf(c.entries)}
    ELSE \/ after.self = <<>>
         \/ IsPrefix(before.self, after.self) /\ IsPrefix(after.self, before.self \o c.entries)

=============================================================================
