---------------------------- MODULE HandleQueue -----------------------------
(***************************************************************************)
(* What chaistl's node-based priority queues promise: each holds elements, *)
(* named by their handles, and gives up a greatest one.  A handle names    *)
(* its element until that is removed, in whichever queue it is by then.    *)
(* Only an insertion whose comparator throws can end the order.            *)
(***************************************************************************)
EXTENDS Integers, FiniteSets

CONSTANTS Queues, Handles, Values

VARIABLES
    erasable,  \* whether an element can be reached by its handle
    held,      \* the handles in each queue
    value,     \* the value a handle names, or 0
    ordered    \* whether a queue still gives up its greatest element first

vars == <<erasable, held, value, ordered>>

All == UNION {held[q] : q \in Queues}

Init ==
    /\ erasable \in BOOLEAN
    /\ held = [q \in Queues |-> {}]
    /\ value = [n \in Handles |-> 0]
    /\ ordered = [q \in Queues |-> TRUE]

-----------------------------------------------------------------------------
(* Afterwards the queues hold what h says, and value names nothing else. *)
Holds(h) ==
    /\ held' = h
    /\ \A n \in Handles \ UNION {h[q] : q \in Queues} : value'[n] = 0

Keeps(S) == \A n \in S : value'[n] = value[n]

MayDisorder(q) ==
    /\ ordered'[q] => ordered[q]
    /\ \A p \in Queues \ {q} : ordered'[p] = ordered[p]

Push(q) ==
    /\ \E n \in Handles \ All :
          /\ Holds([held EXCEPT ![q] = @ \cup {n}])
          /\ value'[n] \in Values
    /\ Keeps(All)
    /\ MayDisorder(q)

Greatest(q) == {n \in held[q] : \A m \in held[q] : value[m] <= value[n]}

Pop(q) ==
    /\ \E n \in IF ordered[q] THEN Greatest(q) ELSE held[q] :
          /\ Holds([held EXCEPT ![q] = @ \ {n}])
          /\ Keeps(All \ {n})
    /\ UNCHANGED ordered

Erase(q) ==
    /\ erasable
    /\ \E n \in held[q] :
          /\ Holds([held EXCEPT ![q] = @ \ {n}])
          /\ Keeps(All \ {n})
    /\ UNCHANGED ordered

Modify(q) ==
    /\ erasable
    /\ UNCHANGED held
    /\ \E n \in held[q] : \E v \in Values : value' = [value EXCEPT ![n] = v]
    /\ MayDisorder(q)

Join(q, other) ==
    /\ Holds([held EXCEPT ![q] = @ \cup held[other], ![other] = {}])
    /\ Keeps(All)
    /\ ordered'[q] => ordered[q] /\ ordered[other]
    /\ ordered'[other]
    /\ \A p \in Queues \ {q, other} : ordered'[p] = ordered[p]

Exchange(q, other) ==
    /\ Holds([held EXCEPT ![q] = held[other], ![other] = held[q]])
    /\ Keeps(All)
    /\ ordered' = [ordered EXCEPT ![q] = ordered[other], ![other] = ordered[q]]

Clear(q) ==
    /\ Holds([held EXCEPT ![q] = {}])
    /\ Keeps(All \ held[q])
    /\ ordered' = [ordered EXCEPT ![q] = TRUE]

Bearing(S, v, worth) == Cardinality({n \in S : worth[n] = v})

(* q gets new handles of the values in from, which keeps only rest. *)
Copies(q, from, rest) ==
    /\ held' = [held EXCEPT ![q] = held'[q], ![from] = rest]
    /\ held'[q] \cap (All \ held[q]) = {}
    /\ \A v \in Values : Bearing(held'[q], v, value') = Bearing(held[from], v, value)
    /\ \A n \in held'[q] : value'[n] \in Values
    /\ \A p \in Queues \ {q} : Keeps(held'[p])
    /\ \A n \in Handles \ UNION {held'[p] : p \in Queues} : value'[n] = 0

Copy(q, from) ==
    /\ Copies(q, from, held[from])
    /\ ordered' = [ordered EXCEPT ![q] = ordered[from]]

Rebuild(q, from) ==
    /\ Copies(q, from, {})
    /\ ordered' = [ordered EXCEPT ![q] = ordered[from], ![from] = TRUE]

Move(q, from) ==
    /\ Holds([held EXCEPT ![q] = held[from], ![from] = {}])
    /\ Keeps(held[from])
    /\ ordered' = [ordered EXCEPT ![q] = ordered[from], ![from] = TRUE]

Next ==
    /\ UNCHANGED erasable
    /\ \/ \E q \in Queues : Push(q) \/ Pop(q) \/ Erase(q) \/ Modify(q) \/ Clear(q)
       \/ \E q, p \in Queues :
             /\ q # p
             /\ Join(q, p) \/ Exchange(q, p) \/ Copy(q, p) \/ Rebuild(q, p) \/ Move(q, p)

Spec == Init /\ [][Next]_vars

=============================================================================
