--------------------------- MODULE KeyedContainer ---------------------------
(***************************************************************************)
(* What chaistl's keyed containers promise: each is a bag of keys, a set   *)
(* if its keys are unique.  An element taken out of one is in a node       *)
(* handle until it is put into another or destroyed.                       *)
(***************************************************************************)
EXTENDS Integers

CONSTANTS
    Containers, Keys,
    MaxCount,    \* bound on the elements of a key
    Null

VARIABLES
    unique,   \* which containers keep a single element of each key
    count,    \* how many elements of each key each container has
    handle    \* the key of the element in the node handle, or Null

vars == <<unique, count, handle>>

Nothing == [k \in Keys |-> 0]

Init ==
    /\ unique \in [Containers -> BOOLEAN]
    /\ count = [c \in Containers |-> Nothing]
    /\ handle = Null

-----------------------------------------------------------------------------
Admits(c, k) == unique[c] => count[c][k] = 0
Add(c, k)    == count' = [count EXCEPT ![c][k] = @ + 1]
Take(c, k)   == count[c][k] > 0 /\ count' = [count EXCEPT ![c][k] = @ - 1]

(* A key a set has already changes nothing. *)
Insert(c, k)   == Admits(c, k) /\ Add(c, k) /\ UNCHANGED <<unique, handle>>
EraseOne(c, k) == Take(c, k) /\ UNCHANGED <<unique, handle>>
EraseKey(c, k) == count' = [count EXCEPT ![c][k] = 0] /\ UNCHANGED <<unique, handle>>
Clear(c)       == count' = [count EXCEPT ![c] = Nothing] /\ UNCHANGED <<unique, handle>>

Extract(c, k) ==
    /\ handle = Null
    /\ Take(c, k)
    /\ handle' = k
    /\ UNCHANGED unique

Rekey(k) == handle # Null /\ handle' = k /\ UNCHANGED <<unique, count>>
Drop     == handle' = Null /\ UNCHANGED <<unique, count>>

(* The handle keeps an element that is refused. *)
InsertHandle(c) ==
    /\ handle # Null /\ Admits(c, handle)
    /\ Add(c, handle)
    /\ handle' = Null
    /\ UNCHANGED unique

(* merge() moves the elements into c that c admits, one at a time. *)
Transfer(c, from, k) ==
    /\ Admits(c, k) /\ count[from][k] > 0
    /\ count' = [count EXCEPT ![from][k] = @ - 1, ![c][k] = @ + 1]
    /\ UNCHANGED <<unique, handle>>

Swap(c, d) ==
    /\ unique[c] = unique[d]
    /\ count' = [count EXCEPT ![c] = count[d], ![d] = count[c]]
    /\ UNCHANGED <<unique, handle>>

Copy(c, from) ==
    /\ unique[c] = unique[from]
    /\ count' = [count EXCEPT ![c] = count[from]]
    /\ UNCHANGED <<unique, handle>>

Move(c, from) ==
    /\ unique[c] = unique[from]
    /\ count' = [count EXCEPT ![c] = count[from], ![from] = Nothing]
    /\ UNCHANGED <<unique, handle>>

(* Element-wise, and interrupted by an exception: some elements are lost. *)
MoveFails(c, from) ==
    /\ unique[c] = unique[from]
    /\ count' \in [Containers -> [Keys -> 0 .. MaxCount]]
    /\ \A k \in Keys : count'[c][k] + count'[from][k] <= count[from][k]
    /\ \A d \in Containers \ {c, from} : count'[d] = count[d]
    /\ UNCHANGED <<unique, handle>>

Next ==
    \/ \E c \in Containers, k \in Keys : \/ Insert(c, k) \/ EraseOne(c, k) \/ EraseKey(c, k)
                                         \/ Extract(c, k)
    \/ \E c \in Containers : Clear(c) \/ InsertHandle(c)
    \/ \E k \in Keys : Rekey(k)
    \/ Drop
    \/ \E c, d \in Containers :
          /\ c # d
          /\ \/ \E k \in Keys : Transfer(c, d, k)
             \/ Swap(c, d) \/ Copy(c, d) \/ Move(c, d) \/ MoveFails(c, d)

Spec == Init /\ [][Next]_vars

=============================================================================
