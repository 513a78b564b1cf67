---------------------------- MODULE FlatContainer ----------------------------
(***************************************************************************)
(* chaistl's flat_map, flat_multimap, flat_set and flat_multiset: sorted   *)
(* keys in one vector and, of the maps, the mapped values in a second one  *)
(* at the same positions.  One model for the four, by unique and mapped.   *)
(*                                                                         *)
(* Comparators, copies and allocations may throw, moves of elements do     *)
(* not, so that an insertion into one of the vectors is made or was not    *)
(* begun.  The assertions of a hardened build call the comparator too.  An *)
(* element is known by its key and by a number of its own in the call;     *)
(* between calls what is remembered of a mapped value is the key it was    *)
(* given for.                                                              *)
(***************************************************************************)
EXTENDS Integers, SequencesExt, FiniteSetsExt

CONSTANTS
    Keys,          \* integers, compared by <
    MaxEntries,    \* bound on the entries of a container
    MaxGiven,      \* bound on the entries of one call
    MaxOther,      \* bound on the entries a call puts in place of others
    Fuels,         \* calls of user code and allocations before one throws
    Unlimited      \* no call throws

VARIABLES
    unique,   \* no two keys are equivalent: flat_map, flat_set
    mapped,   \* there are mapped values: flat_map, flat_multimap
    keys,     \* keys_
    values,   \* values_
    broken,   \* has a throw left keys_ unsorted, or beside the values_ of others?
    kept      \* whether the last call did what is promised of it

vars == <<unique, mapped, keys, values, broken, kept>>

FirstNew == 100

Promise == INSTANCE FlatContract

(* The elements of a container, of a call's arguments.                     *)
Numbered(q) == [i \in DOMAIN q |-> [key |-> q[i], from |-> i]]

Entries(q) == [i \in DOMAIN q |-> [key |-> q[i], from |-> FirstNew + i, of |-> FirstNew + i]]

Armed(c, fuel) ==
    [keys |-> Numbered(keys), values |-> Numbered(values), other |-> [keys |-> <<>>, values |-> <<>>],
     prefix |-> <<>>, tail |-> <<>>, out |-> <<>>,
     fuel |-> fuel, raised |-> FALSE, at |-> 0, made |-> FALSE]

KeysOf(es) == [i \in DOMAIN es |-> [key |-> es[i].key, from |-> es[i].from]]

ValuesOf(es) == IF mapped THEN KeysOf(es) ELSE <<>>

(* User code or an allocation that may throw: what follows is not done.    *)
Charged(m) ==
    CASE m.raised   -> m
      [] m.fuel = 0 -> [m EXCEPT !.raised = TRUE]
      [] OTHER      -> [m EXCEPT !.fuel = @ - 1]

-----------------------------------------------------------------------------
(* Searches: the comparisons of one search count as one.                   *)

lower_bound_index(m, k) == Cardinality({i \in DOMAIN m.keys : m.keys[i].key < k})

upper_bound_index(m, k) == Cardinality({i \in DOMAIN m.keys : m.keys[i].key <= k})

Holds(m, pos, k) == pos # Len(m.keys) /\ m.keys[pos + 1].key = k

find(m, k) ==
    LET pos == lower_bound_index(m, k) IN IF Holds(m, pos, k) THEN pos ELSE Len(m.keys)

equal_range(m, k) ==
    LET first == lower_bound_index(m, k)
    IN  IF unique
        THEN [first |-> first, last |-> IF Holds(m, first, k) THEN first + 1 ELSE first]
        ELSE [first |-> first, last |-> upper_bound_index(m, k)]

is_valid_insert_hint(m, hint, k) ==
    /\ hint # Len(m.keys) => k < m.keys[hint + 1].key
    /\ hint # 0 => IF unique THEN m.keys[hint].key < k ELSE ~(k < m.keys[hint].key)

-----------------------------------------------------------------------------
(* One entry.                                                              *)

KeyInserted(m, offset, e) ==
    LET t == Charged(m)
    IN  IF t.raised THEN t ELSE [t EXCEPT !.keys = InsertAt(@, offset + 1, KeysOf(<<e>>)[1])]

ValueInserted(m, offset, e) ==
    LET t == IF mapped THEN Charged(m) ELSE m
    IN  IF t.raised \/ ~mapped THEN t ELSE [t EXCEPT !.values = InsertAt(@, offset + 1, ValuesOf(<<e>>)[1])]

(* MUTANT: the key is not taken out again *)
insert_at_forgetting(m, offset, e) ==
    LET k == KeyInserted(m, offset, e)
        v == ValueInserted(k, offset, e)
    IN  IF v.raised THEN v ELSE [v EXCEPT !.at = offset, !.made = TRUE]

(* The key goes in first and out again when its value does not follow.     *)
insert_at(m, offset, e) ==
    LET k == KeyInserted(m, offset, e)
        v == ValueInserted(k, offset, e)
    IN  CASE k.raised  -> k
          [] ~v.raised -> [v EXCEPT !.at = offset, !.made = TRUE]
          [] OTHER     -> [v EXCEPT !.keys = RemoveAt(@, offset + 1)]

Found(m, pos) == [m EXCEPT !.at = pos, !.made = FALSE]

insert_value(m, e) ==
    LET t == Charged(m)
        pos == IF unique THEN lower_bound_index(t, e.key) ELSE upper_bound_index(t, e.key)
    IN  CASE t.raised -> t
          [] unique /\ Holds(t, pos, e.key) -> Found(t, pos)
          [] OTHER -> insert_at(t, pos, e)

(* The mapped value is made before its key is placed.                      *)
try_emplace_impl(m, e) ==
    LET t == Charged(m)
        pos == lower_bound_index(t, e.key)
    IN  CASE t.raised -> t
          [] Holds(t, pos, e.key) -> Found(t, pos)
          [] OTHER -> insert_at(Charged(t), pos, e)

ValueAssigned(m, pos, e) ==
    LET t == Charged(m)
    IN  IF t.raised THEN t ELSE [Found(t, pos) EXCEPT !.values[pos + 1] = ValuesOf(<<e>>)[1]]

insert_or_assign_impl(m, e) ==
    LET t == Charged(m)
        pos == lower_bound_index(t, e.key)
    IN  CASE t.raised -> t
          [] Holds(t, pos, e.key) -> ValueAssigned(t, pos, e)
          [] OTHER -> insert_at(t, pos, e)

insert_hint(m, hint, e) ==
    LET t == Charged(m)
    IN  CASE t.raised -> t
          [] is_valid_insert_hint(t, hint, e.key) -> insert_at(t, hint, e)
          [] OTHER -> insert_value(t, e)

try_emplace_hint_impl(m, hint, e) ==
    LET t == Charged(m)
    IN  CASE t.raised -> t
          [] is_valid_insert_hint(t, hint, e.key) -> insert_at(Charged(t), hint, e)
          [] OTHER -> try_emplace_impl(t, e)

insert_or_assign_hint_impl(m, hint, e) ==
    LET t == Charged(m)
    IN  CASE t.raised -> t
          [] is_valid_insert_hint(t, hint, e.key) -> insert_at(t, hint, e)
          [] OTHER -> insert_or_assign_impl(t, e)

-----------------------------------------------------------------------------
clear(m) == [m EXCEPT !.keys = <<>>, !.values = <<>>]

Without(q, first, last) == SubSeq(q, 1, first) \o SubSeq(q, last + 1, Len(q))

erase(m, first, last) ==
    IF m.raised THEN m
    ELSE [m EXCEPT !.keys = Without(@, first, last),
                   !.values = IF mapped THEN Without(@, first, last) ELSE @, !.at = first]

erase_key(m, k) ==
    LET t == Charged(m)
        r == equal_range(t, k)
    IN  IF unique /\ find(t, k) = Len(t.keys) THEN t ELSE erase(t, r.first, r.last)

(* Predicate after predicate: what was erased before one throws stays so.  *)
erase_if(m, gone) ==
    LET visit(t, e) ==
            LET p == Charged(t)
            IN  IF ~p.raised /\ e.key \in gone THEN erase(p, p.at, p.at + 1)
                ELSE IF p.raised THEN p ELSE [p EXCEPT !.at = @ + 1]
    IN  FoldLeft(visit, m, m.keys)

-----------------------------------------------------------------------------
(* Many entries: appended as they come, put in order among themselves,     *)
(* then merged with the sorted ones before them.                           *)

(* Destructor of tail_rollback_guard                                       *)
tail_rollback(m, old_size) ==
    IF Len(m.keys) >= old_size /\ (mapped => Len(m.keys) = Len(m.values))
    THEN [m EXCEPT !.keys = SubSeq(@, 1, old_size), !.values = IF mapped THEN SubSeq(@, 1, old_size) ELSE @]
    ELSE clear(m)

(* The order of the tail, which a unique container keeps the first of      *)
(* equivalent keys of.                                                     *)
TailOrder(m, old_size, order) ==
    LET index(i) == old_size + order[i]
        first(i) == i = 1 \/ m.keys[index(i - 1)].key < m.keys[index(i)].key
        kept_ones == SetToSortSeq({i \in DOMAIN order : unique => first(i)}, <)
    IN  [i \in DOMAIN kept_ones |-> index(kept_ones[i])]

Taken(m, t, p) ==
    [m EXCEPT !.prefix = IF p THEN Tail(@) ELSE @, !.tail = IF t THEN Tail(@) ELSE @,
              !.out = Append(@, IF p THEN m.prefix[1] ELSE m.tail[1])]

(* MUTANT: the new one replaces the existing one *)
duplicate_replacing(m) == [Taken(m, TRUE, FALSE) EXCEPT !.prefix = IF unique THEN Tail(@) ELSE @]

(* An existing key wins over an equivalent new one, or stays before it.    *)
duplicate(m) == Taken(m, unique, TRUE)

move_next(m) ==
    IF m.raised THEN m
    ELSE IF m.tail = <<>> THEN [m EXCEPT !.out = @ \o m.prefix, !.prefix = <<>>]
    ELSE IF m.prefix = <<>> THEN [m EXCEPT !.out = @ \o m.tail, !.tail = <<>>]
    ELSE LET c == Charged(m)
             old == m.keys[m.prefix[1]].key
             new == m.keys[m.tail[1]].key
         IN  CASE c.raised -> c
               [] old < new -> Taken(c, FALSE, TRUE)
               [] new < old -> Taken(c, TRUE, FALSE)
               [] OTHER     -> duplicate(c)

Gathered(m) ==
    [m EXCEPT !.keys = [i \in DOMAIN m.out |-> m.keys[m.out[i]]],
              !.values = IF mapped THEN [i \in DOMAIN m.out |-> m.values[m.out[i]]] ELSE @]

(* Elements move into new vectors: a throw on the way loses them all.      *)
Merged(m, old_size, order) ==
    LET start == [m EXCEPT !.prefix = [i \in 1..old_size |-> i], !.tail = order, !.out = <<>>]
        end == FoldLeft(LAMBDA t, i : move_next(t), start, [i \in 1..old_size + Len(order) |-> i])
    IN  IF end.raised THEN clear(end) ELSE Gathered(end)

(* Of a map: the order of the tail and the space for the result come first *)
normalize_appended_tail(m, old_size, order) ==
    LET t == Charged(Charged(m))
    IN  IF m.raised \/ old_size = Len(m.keys) THEN m
        ELSE IF t.raised THEN t
        ELSE Merged(t, old_size, TailOrder(t, old_size, order))

(* Of a set: the tail is sorted where it is, a given order only asserted,  *)
(* then space is reserved.                                                 *)
normalize_appended_unique_tail(m, old_size, sorted, order) ==
    LET s == Charged(m)
        t == Charged(s)
    IN  IF m.raised \/ old_size = Len(m.keys) THEN m
        ELSE IF s.raised THEN IF sorted THEN s ELSE tail_rollback(s, old_size)
        ELSE IF t.raised THEN clear(t)
        ELSE Merged(t, old_size, TailOrder(t, old_size, order))

append_range_and_normalize(m, es, order) ==
    LET old_size == Len(m.keys)
        append(t, e) == insert_at(Charged(t), Len(t.keys), e)
        r == normalize_appended_tail(FoldLeft(append, m, es), old_size, order)
    IN  IF r.raised THEN tail_rollback(r, old_size) ELSE r

(* A vector is appended to at once, unless the length is not known before. *)
KeysAppended(m, es, counted) ==
    LET append(t, e) == KeyInserted(t, Len(t.keys), e)
        t1 == Charged(m)
    IN  IF ~counted THEN FoldLeft(append, m, es)
        ELSE IF t1.raised THEN t1 ELSE [t1 EXCEPT !.keys = @ \o KeysOf(es)]

insert_range(m, c) ==
    IF mapped THEN append_range_and_normalize(m, c.entries, c.order)
    ELSE normalize_appended_unique_tail(
             KeysAppended(m, c.entries, c.op # "insert_range"), Len(m.keys), c.sorted, c.order)

-----------------------------------------------------------------------------
(* Whole containers.  An object whose constructor throws does not exist.   *)

Holding(m, es) == [m EXCEPT !.keys = KeysOf(es), !.values = ValuesOf(es)]

Constructed(m) == IF m.raised THEN clear(m) ELSE m

(* sort_and_unique(), sort_only()                                          *)
sort_and_unique(m, order) ==
    LET t == Charged(m)
    IN  IF mapped THEN normalize_appended_tail(m, 0, order)
        ELSE IF t.raised THEN t
        ELSE Gathered([t EXCEPT !.out = TailOrder(t, 0, order)])

construct(m, c) ==
    LET t == Charged(Charged(clear(m)))    \* the copies, when there is an allocator
    IN  Constructed(IF t.raised THEN t
                    ELSE IF c.sorted THEN Holding(t, c.entries)
                    ELSE sort_and_unique(Holding(t, c.entries), c.order))

construct_range(m, c) == Constructed(insert_range(clear(m), c))

assign_list(m, c) == insert_range(clear(m), c)

Given(m, es) == [m EXCEPT !.other = [keys |-> KeysOf(es), values |-> ValuesOf(es)]]

Husks(q) == [i \in DOMAIN q |-> [key |-> 0, from |-> 0]]

(* What becomes of a vector that another is made of or assigned from: it   *)
(* is copied, its storage is taken, or, between unequal allocators, its    *)
(* elements are moved out of it one by one.                                *)
Source(q, how) ==
    CASE how = "copied" -> q
      [] how = "taken"  -> <<>>
      [] how = "moved"  -> Husks(q)

(* Member after member: keys_ = ..., values_ = ...; each is made or not.   *)
KeysTaken(m, how) ==
    LET t == IF how = "taken" THEN m ELSE Charged(m)
    IN  IF t.raised THEN t ELSE [t EXCEPT !.keys = m.other.keys, !.other.keys = Source(@, how)]

ValuesTaken(m, how) ==
    LET t == IF how = "taken" \/ ~mapped THEN m ELSE Charged(m)
    IN  IF t.raised THEN t ELSE [t EXCEPT !.values = m.other.values, !.other.values = Source(@, how)]

Assigned(m, how) == ValuesTaken(KeysTaken(m, how), how)

copy_construct(m) == Constructed(Assigned(clear(m), "copied"))

(* The source is cleared last.                                             *)
move_construct(m, how) ==
    LET t == Assigned(clear(m), how)
    IN  IF t.raised THEN Constructed(t) ELSE [t EXCEPT !.other = [keys |-> <<>>, values |-> <<>>]]

(* What is given is asserted to be sorted before replace() sets its guard. *)
replace(m, how) ==
    LET c == Charged(m)
        t == Assigned(c, how)
    IN  IF c.raised THEN c ELSE IF t.raised THEN clear(t) ELSE t

extract(m) == clear([m EXCEPT !.other = [keys |-> m.keys, values |-> m.values]])

swap(m) ==
    [m EXCEPT !.keys = m.other.keys, !.values = m.other.values,
              !.other = [keys |-> m.keys, values |-> m.values]]

-----------------------------------------------------------------------------
After(m, c) ==
    CASE c.op = "insert"           -> insert_value(m, c.entries[1])
      [] c.op = "insert_hint"      -> insert_hint(m, c.at, c.entries[1])
      [] c.op = "try_emplace"      -> try_emplace_impl(m, c.entries[1])
      [] c.op = "try_emplace_hint" -> try_emplace_hint_impl(m, c.at, c.entries[1])
      [] c.op = "insert_or_assign" -> insert_or_assign_impl(m, c.entries[1])
      [] c.op = "insert_or_assign_hint" -> insert_or_assign_hint_impl(m, c.at, c.entries[1])
      [] c.op \in {"insert_many", "insert_range"} -> insert_range(m, c)
      [] c.op = "construct"        -> construct(m, c)
      [] c.op = "construct_range"  -> construct_range(m, c)
      [] c.op = "assign_list"      -> assign_list(m, c)
      [] c.op = "copy_construct"   -> copy_construct(Given(m, c.entries))
      [] c.op = "copy_assign"      -> Assigned(Given(m, c.entries), "copied")
      [] c.op = "move_construct"   -> move_construct(Given(m, c.entries), c.how)
      [] c.op = "move_assign"      -> Assigned(Given(m, c.entries), c.how)
      [] c.op = "replace"          -> replace(Given(m, c.entries), c.how)
      [] c.op = "swap"             -> swap(Given(m, c.entries))
      [] c.op = "extract"          -> extract(m)
      [] c.op = "clear"            -> clear(m)
      [] c.op = "erase"            -> erase(m, c.at, c.to)
      [] c.op = "erase_key"        -> erase_key(m, CHOOSE k \in c.gone : TRUE)
      [] c.op = "erase_if"         -> erase_if(m, c.gone)

-----------------------------------------------------------------------------
(* The calls, by operation                                                 *)

Call(o) ==
    [op |-> o, entries |-> <<>>, order |-> <<>>, sorted |-> FALSE, at |-> 0, to |-> 0, gone |-> {}, how |-> "taken"]

Lists(n) == UNION {[1..l -> Keys] : l \in 0..n}

Ascending(q) == \A i \in 1..Len(q) - 1 : IF unique THEN q[i] < q[i + 1] ELSE q[i] <= q[i + 1]

KeysIn(c) == [i \in DOMAIN c.entries |-> c.entries[i].key]

With(ops, lists) == {[Call(o) EXCEPT !.entries = Entries(q)] : o \in ops, q \in lists}

Single ==
    With({"insert"} \cup IF mapped /\ unique THEN {"try_emplace", "insert_or_assign"} ELSE {}, [1..1 -> Keys])

AtHint ==
    {[c EXCEPT !.at = i] : i \in 0..Len(keys), c \in
        With({"insert_hint"} \cup IF mapped /\ unique THEN {"try_emplace_hint", "insert_or_assign_hint"} ELSE {},
             [1..1 -> Keys])}

(* The orders std::sort may put keys in: of a map, which has a tie-break,  *)
(* the stable one, of a set any in which they ascend.                      *)
Orders(q) ==
    {p \in SetToSeqs(DOMAIN q) : \A i \in 1..Len(q) - 1 :
        \/ q[p[i]] < q[p[i + 1]]
        \/ q[p[i]] = q[p[i + 1]] /\ (mapped => p[i] < p[i + 1])}

Unsorted ==
    UNION {{[c EXCEPT !.order = p] : p \in Orders(KeysIn(c))} : c \in
        With({"insert_many", "insert_range", "construct", "construct_range"}, Lists(MaxGiven))
        \cup With({"assign_list"}, Lists(MaxOther))}

Ordered ==
    {[c EXCEPT !.sorted = TRUE, !.order = [i \in DOMAIN c.entries |-> i]] : c \in
        With({"insert_many", "insert_range", "construct"}, {q \in Lists(MaxGiven) : Ascending(q)})}

FromOther ==
    LET others == {q \in Lists(MaxOther) : Ascending(q)}
    IN  With({"copy_construct", "copy_assign", "swap"}, others)
        \cup {[c EXCEPT !.how = h] : h \in {"taken", "moved"}, c \in
                 With({"move_construct", "move_assign", "replace"}, others)}

Erasing ==
    {c \in {[Call("erase") EXCEPT !.at = i, !.to = j] : i \in 0..Len(keys), j \in 0..Len(keys)} : c.at <= c.to}
    \cup {[Call("erase_key") EXCEPT !.gone = {k}] : k \in Keys}
    \cup {[Call("erase_if") EXCEPT !.gone = s] : s \in SUBSET Keys}

Emptying == {Call(o) : o \in {"extract", "clear"}}

(* Calls for which a container can be in any state                         *)
Resets == {"assign_list", "copy_assign", "move_assign", "replace", "swap", "extract", "clear"}

(* These look at no container and end alike from all: they start from <<>> *)
Constructors == {"construct", "construct_range", "copy_construct", "move_construct"}

Calls ==
    {c \in UNION {Single, AtHint, Unsorted, Ordered, FromOther, Erasing, Emptying} :
        /\ broken => c.op \in Resets
        /\ c.op \in Constructors => keys = <<>>}

(* Calls whose throw can leave keys_ and values_ of different entries, or  *)
(* keys_ not sorted: an assignment to a map; of a set, appending a range   *)
(* whose length is not known before, or the assertion that an appended one *)
(* is sorted.                                                              *)
Breaks(c) ==
    \/ mapped /\ c.op \in {"copy_assign", "move_assign"}
    \/ ~mapped /\ \/ c.op = "insert_range"
                  \/ c.op = "insert_many" /\ c.sorted

-----------------------------------------------------------------------------
View(m) ==
    LET paired(ks, vs) ==
            [i \in DOMAIN ks |-> [key |-> ks[i].key, from |-> ks[i].from,
                of |-> IF ~mapped THEN ks[i].from ELSE IF i \in DOMAIN vs THEN vs[i].from ELSE 0]]
    IN  [self |-> paired(m.keys, m.values), other |-> paired(m.other.keys, m.other.values),
         at |-> m.at, made |-> m.made]

Kept(c, before, r) ==
    CASE ~r.raised             -> Promise!Returns(before, c, View(r))
      [] r.raised /\ Breaks(c) -> Promise!Breaks(before, c, View(r))
      [] OTHER                 -> Promise!Throws(before, c, View(r))

Init ==
    /\ unique \in BOOLEAN /\ mapped \in BOOLEAN
    /\ keys = <<>> /\ values = <<>> /\ broken = FALSE /\ kept = TRUE

Ends(c, r) ==
    /\ Len(r.keys) <= MaxEntries
    /\ keys' = [i \in DOMAIN r.keys |-> r.keys[i].key]
    /\ values' = [i \in DOMAIN r.values |-> r.values[i].key]
    /\ broken' = (r.raised /\ r.keys \o r.values # <<>> /\ (broken \/ Breaks(c)))
    /\ kept' = Kept(c, View(Armed(c, Unlimited)), r)
    /\ UNCHANGED <<unique, mapped>>

(* With a limit, only calls that reach it: the others are made without.    *)
FlatCall ==
    \E c \in Calls :
        LET unlimited == After(Armed(c, Unlimited), c)
        IN  \/ Ends(c, unlimited)
            \/ \E fuel \in Fuels :
                  fuel < Unlimited - unlimited.fuel /\ Ends(c, After(Armed(c, fuel), c))

Next == FlatCall

Spec == Init /\ [][Next]_vars

-----------------------------------------------------------------------------
(* Keys and values of a flat container are keys of the program.            *)
TypeOK ==
    /\ {unique, mapped, broken, kept} \subseteq BOOLEAN
    /\ ToSet(keys) \cup ToSet(values) \subseteq Keys
    /\ Len(keys) <= MaxEntries

(* validate(), and each mapped value is next to the key it was given for,  *)
(* after calls that throw too, but for the few that Breaks names, until    *)
(* the container is cleared or given other entries.                        *)
Validates == broken \/ (Ascending(keys) /\ values = IF mapped THEN keys ELSE <<>>)

(* Every call does what its contract states, when it returns and when it   *)
(* throws.                                                                 *)
PromisesKept == kept

=============================================================================
