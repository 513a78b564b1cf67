------------------------- MODULE ArrayPriorityQueue -------------------------
(***************************************************************************)
(* chaistl::priority_queue over an array heap, and chaistl::priority_deque *)
(* (containers/heap): a vector kept in heap order by binary_heap_policy    *)
(* with Floyd's bounce, by d_ary_heap_policy, or as a min-max heap.        *)
(*                                                                         *)
(* A heap h is h.at, a function from 0 .. size-1, with how many            *)
(* comparisons succeed before one throws (h.budget).  The element in       *)
(* flight of a hole sift is in a local: a throw destroys it and leaves the *)
(* moved-from hole.                                                        *)
(***************************************************************************)
EXTENDS Integers, Sequences, FiniteSetsExt

CONSTANTS
    Arities,   \* children of a node; 0 is the priority_deque
    Values, MaxSize,
    MovedFrom, \* what a value is once it has been moved from
    Budgets    \* of comparisons, of which one throws when they are spent

ValuesAssumption ==
    /\ Values \subseteq Nat \ {0} /\ MovedFrom = 0
    /\ Arities \subseteq Nat \ {1} /\ MaxSize \in Nat /\ Budgets \subseteq Nat

-----------------------------------------------------------------------------
Size(h)            == Cardinality(DOMAIN h.at)
Compares(h, many)  == many <= h.budget
Compared(h, many)  == [h EXCEPT !.budget = @ - many]
Thrown(h)          == [h EXCEPT !.thrown = TRUE]
Moved(h, from, to) == [h EXCEPT !.at[to] = h.at[from], !.at[from] = MovedFrom]
Filled(h, i, v)    == [h EXCEPT !.at[i] = v]
Swapped(h, i, j)   == [h EXCEPT !.at[i] = h.at[j], !.at[j] = h.at[i]]

parent(i, arity)         == (i - 1) \div arity
children(i, arity, size) == {c \in arity * i + 1 .. arity * i + arity : c < size}

(* The first of the greatest, and of the smallest, among some indices. *)
Greatest(h, S) == CHOOSE c \in S : \A d \in S \ {c} : h.at[d] < h.at[c] \/ (h.at[d] = h.at[c] /\ c < d)
Smallest(h, S) == CHOOSE c \in S : \A d \in S \ {c} : h.at[c] < h.at[d] \/ (h.at[d] = h.at[c] /\ c < d)

RECURSIVE drop_in_from(_, _, _, _, _)
(* sift_up: the hole at i rises, not above top, to where the value belongs *)
drop_in_from(h, i, top, value, arity) ==
    LET p == parent(i, arity)
    IN  CASE i = top -> Filled(h, i, value)
          [] i # top /\ ~Compares(h, 1) -> Thrown(h)
          [] OTHER -> IF h.at[p] < value
                      THEN drop_in_from(Moved(Compared(h, 1), p, i), p, top, value, arity)
                      ELSE Filled(Compared(h, 1), i, value)

RECURSIVE bounce(_, _, _, _, _)
(* Binary sift_down: the hole goes down to a leaf, and the value up. *)
bounce(h, i, top, value, size) ==
    LET kids == children(i, 2, size)
        best == Greatest(h, kids)
    IN  CASE kids = {} -> drop_in_from(h, i, top, value, 2)
          [] kids # {} /\ ~Compares(h, Cardinality(kids) - 1) -> Thrown(h)
          [] OTHER -> bounce(Moved(Compared(h, Cardinality(kids) - 1), best, i),
                             best, top, value, size)

RECURSIVE descend(_, _, _, _, _)
(* d-ary sift_down: stops as soon as no child is greater than the value *)
descend(h, i, value, arity, size) ==
    LET kids == children(i, arity, size)
        best == Greatest(h, kids)
    IN  CASE kids = {} -> Filled(h, i, value)
          [] kids # {} /\ ~Compares(h, Cardinality(kids)) -> Thrown(h)
          [] OTHER -> IF value < h.at[best]
                      THEN descend(Moved(Compared(h, Cardinality(kids)), best, i),
                                   best, value, arity, size)
                      ELSE Filled(Compared(h, Cardinality(kids)), i, value)

sift_up(h, i, arity) == drop_in_from(Filled(h, i, MovedFrom), i, 0, h.at[i], arity)

sift_down(h, i, value, arity, size) ==
    IF arity = 2 THEN bounce(Filled(h, i, MovedFrom), i, i, value, size)
    ELSE descend(Filled(h, i, MovedFrom), i, value, arity, size)

push(h, arity) == sift_up(h, Size(h) - 1, arity)

(* The top goes to the back, and what was there into the rest. *)
pop(h, arity) ==
    LET last == Size(h) - 1
    IN  IF last = 0 THEN h
        ELSE sift_down(Filled(h, last, h.at[0]), 0, h.at[last], arity, last)

RECURSIVE make_from(_, _, _)
make_from(h, i, arity) ==
    IF i < 0 \/ h.thrown THEN h
    ELSE make_from(sift_down(h, i, h.at[i], arity, Size(h)), i - 1, arity)

make(h, arity) == IF Size(h) <= 1 THEN h ELSE make_from(h, parent(Size(h) - 1, arity), arity)

verify(h, arity) == \A i \in DOMAIN h.at \ {0} : ~(h.at[parent(i, arity)] < h.at[i])

-----------------------------------------------------------------------------
level[i \in Nat] == IF i = 0 THEN 0 ELSE 1 + level[(i - 1) \div 2]
is_min_level(i)  == level[i] % 2 = 0

grandparent(i)          == parent(parent(i, 2), 2)
descendants(i, size)    == {c \in {2 * i + 1, 2 * i + 2} \cup (4 * i + 3) .. (4 * i + 6) : c < size}
is_grandchild(i, c)     == c >= 4 * i + 3

(* What holds between a and b, on a min level, is turned round on a max one. *)
Before(h, a, b, min) == IF min THEN h.at[a] < h.at[b] ELSE h.at[b] < h.at[a]

RECURSIVE bubble_up_level(_, _, _)
bubble_up_level(h, i, min) ==
    CASE i < 3 -> h
      [] i >= 3 /\ ~Compares(h, 1) -> Thrown(h)
      [] OTHER -> IF Before(h, i, grandparent(i), min)
                  THEN bubble_up_level(Swapped(Compared(h, 1), i, grandparent(i)),
                                       grandparent(i), min)
                  ELSE Compared(h, 1)

bubble_up(h, i) ==
    LET p   == parent(i, 2)
        min == is_min_level(i)
    IN  CASE i = 0 -> h
          [] i # 0 /\ ~Compares(h, 1) -> Thrown(h)
          [] OTHER -> IF Before(h, p, i, min)
                      THEN bubble_up_level(Swapped(Compared(h, 1), p, i), p, ~min)
                      ELSE bubble_up_level(Compared(h, 1), i, min)

(* The child that came to best may be on the wrong side of its parent. *)
Righted(h, best, min) ==
    LET p == parent(best, 2)
    IN  CASE ~Compares(h, 1) -> Thrown(h)
          [] Compares(h, 1) /\ Before(h, p, best, min) -> Swapped(Compared(h, 1), p, best)
          [] OTHER -> Compared(h, 1)

RECURSIVE trickle_down(_, _, _)
(* trickle_down_min, trickle_down_max *)
trickle_down(h, i, min) ==
    LET S    == descendants(i, Size(h))
        best == IF min THEN Smallest(h, S) ELSE Greatest(h, S)
        seen == Compared(h, Cardinality(S))
        down == Righted(Swapped(seen, best, i), best, min)
    IN  CASE S = {} \/ h.thrown -> h
          [] S # {} /\ ~Compares(h, Cardinality(S)) -> Thrown(h)
          [] OTHER -> IF ~Before(h, best, i, min) THEN seen
                      ELSE IF ~is_grandchild(i, best) THEN Swapped(seen, best, i)
                      ELSE trickle_down(down, best, min)

(* MUTANT: the second child is not looked at *)
max_index_left(h) == IF Size(h) < 2 THEN 0 ELSE 1

max_index(h) == IF Size(h) < 3 THEN Size(h) - 1 ELSE Greatest(h, {1, 2})

Cut(h) == [h EXCEPT !.at = [i \in 0 .. Size(h) - 2 |-> @[i]]]

remove_at_and_trickle(h, i) ==
    LET rest == Cut(Filled(h, i, h.at[Size(h) - 1]))
    IN  IF i < Size(rest) THEN trickle_down(rest, i, is_min_level(i)) ELSE rest

pop_min(h) == remove_at_and_trickle(h, 0)
pop_max(h) ==
    IF Size(h) < 3 THEN remove_at_and_trickle(h, max_index(h))
    ELSE remove_at_and_trickle(Compared(h, 1), max_index(h))

(* max_index() is noexcept: a comparison that throws there is no step, but *)
(* the end of the program.                                                 *)
Terminates(h) == Size(h) >= 3 /\ ~Compares(h, 1)

RECURSIVE make_heap_from(_, _)
make_heap_from(h, i) ==
    IF i < 0 \/ h.thrown THEN h ELSE make_heap_from(trickle_down(h, i, is_min_level(i)), i - 1)

make_heap(h) == IF Size(h) < 2 THEN h ELSE make_heap_from(h, parent(Size(h) - 1, 2))

node_ordered_before_descendants(h, i) ==
    \A c \in descendants(i, Size(h)) : ~Before(h, c, i, is_min_level(i))

-----------------------------------------------------------------------------
VARIABLES
    arity,     \* the policy, for good
    at,        \* the elements, from index 0 on
    intact     \* whether no comparator has thrown since it was empty

vars == <<arity, at, intact>>

Array(budget)  == [at |-> at, budget |-> budget, thrown |-> FALSE]
Appended(h, s) == [h EXCEPT !.at = [i \in 0 .. Size(h) + Len(s) - 1 |->
                                       IF i < Size(h) THEN @[i] ELSE s[i - Size(h) + 1]]]

Become(h) == at' = h.at /\ intact' = (intact /\ ~h.thrown) /\ UNCHANGED arity

Init == arity \in Arities /\ at = [i \in {} |-> 0] /\ intact = TRUE

-----------------------------------------------------------------------------
(* The new element is in the vector whether or not a comparison throws. *)
Push(v, budget) ==
    /\ intact /\ Size(Array(0)) < MaxSize
    /\ LET h == Appended(Array(budget), <<v>>)
       IN  Become(IF arity = 0 THEN bubble_up(h, Size(h) - 1) ELSE push(h, arity))

PushRange(s, budget) ==
    /\ arity # 0 /\ intact /\ Size(Array(0)) + Len(s) <= MaxSize
    /\ Become(make(Appended(Array(budget), s), arity))

(* The constructors from a range; one that throws leaves no queue. *)
Construct(s, budget) ==
    /\ intact /\ Size(Array(0)) = 0 /\ Len(s) <= MaxSize
    /\ LET h == Appended(Array(budget), s)
           built == IF arity = 0 THEN make_heap(h) ELSE make(h, arity)
       IN  ~built.thrown /\ Become(built)

(* pop, pop_max; the vector is shorter only if nothing has thrown *)
PopMax(budget) ==
    /\ intact /\ Size(Array(0)) > 0
    /\ LET h == pop(Array(budget), arity)
       IN  CASE arity = 0 -> ~Terminates(Array(budget)) /\ Become(pop_max(Array(budget)))
             [] arity # 0 /\ h.thrown -> Become(h)
             [] OTHER -> Become(Cut(h))

PopMin(budget) ==
    /\ arity = 0 /\ intact /\ Size(Array(0)) > 0
    /\ Become(pop_min(Array(budget)))

(* clear() and the destructor; nothing more is asked of a queue that threw *)
Clear == at' = [i \in {} |-> 0] /\ intact' = TRUE /\ UNCHANGED arity

Next ==
    \/ \E budget \in Budgets :
          \/ \E v \in Values : Push(v, budget)
          \/ \E s \in [1 .. 4 -> Values] : PushRange(s, budget) \/ Construct(s, budget)
          \/ PopMax(budget) \/ PopMin(budget)
    \/ Clear

Spec == Init /\ [][Next]_vars

-----------------------------------------------------------------------------
TypeOK ==
    /\ arity \in Arities /\ intact \in BOOLEAN
    /\ at \in [0 .. Size(Array(0)) - 1 -> Values \cup {MovedFrom}]

(* verify() of the policy holds and nothing in the vector is moved from,   *)
(* unless a comparator threw; then one element at most is.                 *)
ArrayOrdered ==
    LET hollow == {i \in DOMAIN at : at[i] = MovedFrom}
    IN  IF intact
        THEN /\ hollow = {}
             /\ IF arity = 0
                THEN \A i \in DOMAIN at : node_ordered_before_descendants(Array(0), i)
                ELSE verify(Array(0), arity)
        ELSE Cardinality(hollow) <= 1

(* pop removes a greatest element, and of a deque either end, whatever the *)
(* arity and the history of the array.                                     *)
Abstract == INSTANCE ValueQueue WITH
    double <- arity = 0, ordered <- intact,
    bag    <- [v \in Values |-> Cardinality({i \in DOMAIN at : at[i] = v})]
ValueSpec == Abstract!Spec

=============================================================================
