----------------------------- MODULE ValueQueue -----------------------------
(***************************************************************************)
(* What chaistl's array-based priority queues promise: a bag of values, of *)
(* which pop_max removes a greatest one and, from a double-ended queue,    *)
(* pop_min a least.  A comparator that throws ends the order.  It can cost *)
(* a single-ended queue the element in flight; a double-ended one loses no *)
(* more than the element that was to go.                                   *)
(***************************************************************************)
EXTENDS Integers

CONSTANTS Values, MaxSize

VARIABLES
    double,    \* whether both ends can be removed
    bag,       \* how often each value is held
    ordered    \* whether no comparator has thrown since the queue was empty

vars == <<double, bag, ordered>>

Held == {v \in Values : bag[v] > 0}

Init == double \in BOOLEAN /\ bag = [v \in Values |-> 0] /\ ordered = TRUE

More(b) == /\ \A v \in Values : b[v] >= bag[v] /\ b[v] <= MaxSize

Add == /\ More(bag') /\ bag' # bag
       /\ UNCHANGED <<double, ordered>>

Remove(v) ==
    /\ ordered
    /\ bag' = [bag EXCEPT ![v] = @ - 1]
    /\ UNCHANGED <<double, ordered>>

Greatest == {v \in Held : \A w \in Held : w <= v}
Least    == {v \in Held : \A w \in Held : v <= w}

PopMax == \E v \in Greatest : Remove(v)
PopMin == double /\ \E v \in Least : Remove(v)

Clear == bag' = [v \in Values |-> 0] /\ ordered' = TRUE /\ UNCHANGED double

(* The holes of a single-ended queue are sifted with an element in a local *)
(* that is lost; a double-ended one only swaps.                            *)
Throws ==
    /\ \/ More(bag')
       \/ ~double /\ \E v \in Held : More([bag' EXCEPT ![v] = @ + 1])
       \/ double /\ \E v \in Greatest \cup Least : bag' = [bag EXCEPT ![v] = @ - 1]
    /\ ordered' = FALSE
    /\ UNCHANGED double

Next == Add \/ PopMax \/ PopMin \/ Clear \/ Throws

Spec == Init /\ [][Next]_vars

=============================================================================
