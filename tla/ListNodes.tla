----------------------------- MODULE ListNodes ------------------------------
(***************************************************************************)
(* The nodes of chaistl's linked lists and what happens to them one at a   *)
(* time.  A memory is a record m: next (and prev, last: see the lists)     *)
(* link the nodes and the headers, value is a node's element, home the     *)
(* resource it was allocated from; size and alloc belong to a header.      *)
(* User code (constructors, assignments, comparisons) and the allocator    *)
(* succeed m.fuel times before they throw; raised: an exception is active. *)
(***************************************************************************)
EXTENDS Integers, SequencesExt

CONSTANTS Lists, Nodes, Null, Husk

(* The lists sort, assignment and prepend_range make and destroy *)
Counters == <<"counter0", "counter1", "counter2", "counter3">>

Temps == ToSet(Counters) \cup {"copy", "carry"}

Headers == Lists \cup Temps

Free(m) == {n \in Nodes : m.value[n] = Null}

(* The node the next allocation returns: which one makes no difference. *)
Fresh(m) == CHOOSE n \in Free(m) : TRUE

Raise(m) == [m EXCEPT !.raised = TRUE]

(* A call of user code *)
Spend(m) == IF m.fuel = 0 THEN Raise(m) ELSE [m EXCEPT !.fuel = @ - 1]

CanCreate(m) == m.fuel > 0 /\ Free(m) # {}

(* node_owner gives the storage back when the constructor throws. *)
create_node(m, h, v) ==
    [m EXCEPT !.fuel = @ - 1, !.value[Fresh(m)] = v, !.home[Fresh(m)] = m.alloc[h]]

destroy_node(m, h, n) ==
    [m EXCEPT !.value[n] = Null, !.home[n] = Null, !.next[n] = Null,
              !.misfreed = @ \/ m.home[n] # m.alloc[h]]

destroy_nodes(m, h, nodes) == FoldLeft(LAMBDA r, n : destroy_node(r, h, n), m, nodes)

(* The nodes from x up to end, following next at most k times *)
RECURSIVE Chain(_, _, _, _)
Chain(next, x, end, k) ==
    IF x = end \/ x = Null \/ k = 0 THEN <<>>
    ELSE <<x>> \o Chain(next, next[x], end, k - 1)

Walk(m, x, end) == Chain(m.next, x, end, Cardinality(Nodes) + 1)

(* MUTANT: equal elements change places *)
Before_or_equal(m, a, b) == m.value[a] <= m.value[b]

Before(m, a, b) == m.value[a] < m.value[b]

(* *a = v, and then *a moved from *)
Assigned(m, n, v) == IF m.fuel = 0 THEN Raise(m) ELSE [Spend(m) EXCEPT !.value[n] = v]

MovedFrom(m, n) == IF m.raised THEN m ELSE [m EXCEPT !.value[n] = Husk]

(* detail::exception_guard runs undo unless complete() was reached. *)
Guarded(m, Undo(_)) == IF m.raised THEN Undo(m) ELSE m

=============================================================================
