---------------------------- MODULE BoundedDeque ----------------------------
(***************************************************************************)
(* What chaistl::experimental::ring_buffer promises: sequences of bounded  *)
(* length.  Under the overwrite policy a full sequence makes room at the   *)
(* other end, under the reject policy it stays as it is and the refusal is *)
(* counted.                                                                *)
(***************************************************************************)
EXTENDS Integers, Sequences, SequencesExt

CONSTANTS Objects, Values, MaxCapacity, Policies

VARIABLES policy, content, capacity, dropped

vars == <<policy, content, capacity, dropped>>

Filled(v, n) == [i \in 1 .. n |-> v]

Init ==
    /\ policy \in Policies
    /\ content = [o \in Objects |-> <<>>]
    /\ capacity = [o \in Objects |-> 0]
    /\ dropped = [o \in Objects |-> 0]

-----------------------------------------------------------------------------
Become(o, s) == content' = [content EXCEPT ![o] = s]
Full(o) == Len(content[o]) = capacity[o]

(* A new element `roomy` of a sequence with room gives; of a full one, the *)
(* policy decides between `crowded` and a refusal.                         *)
Add(o, roomy, crowded) ==
    /\ IF ~Full(o)
       THEN Become(o, roomy) /\ UNCHANGED dropped
       ELSE IF policy = "overwrite"
            THEN Become(o, crowded) /\ UNCHANGED dropped
            ELSE dropped' = [dropped EXCEPT ![o] = @ + 1] /\ UNCHANGED content
    /\ UNCHANGED <<policy, capacity>>

PushBack(o, v) ==
    LET s == content[o]
    IN  Add(o, Append(s, v), IF s = <<>> THEN s ELSE Append(Tail(s), v))

PushFront(o, v) ==
    LET s == content[o]
    IN  Add(o, Cons(v, s), IF s = <<>> THEN s ELSE Cons(v, Front(s)))

(* Before position i (1 is the front); the front of a full sequence would  *)
(* be dropped at once, so nothing is done there.                           *)
Insert(o, i, v) ==
    LET s == content[o]
    IN  Add(o, InsertAt(s, i, v), IF i = 1 THEN s ELSE Tail(InsertAt(s, i, v)))

(* The elements at positions first .. last - 1 go. *)
Erase(o, first, last) ==
    /\ Become(o, SubSeq(content[o], 1, first - 1) \o SubSeq(content[o], last, Len(content[o])))
    /\ UNCHANGED <<policy, capacity, dropped>>

(* set_capacity and resize: the front stays. *)
Reshape(o, cap, n, v) ==
    LET s == content[o]
    IN  /\ n <= cap
        /\ Become(o, IF n <= Len(s) THEN SubSeq(s, 1, n) ELSE s \o Filled(v, n - Len(s)))
        /\ capacity' = [capacity EXCEPT ![o] = cap]
        /\ UNCHANGED <<policy, dropped>>

(* Assignment: the capacity becomes the source's, or its length. *)
Assign(o, s, cap, drops) ==
    /\ Become(o, s)
    /\ capacity' = [capacity EXCEPT ![o] = cap]
    /\ dropped' = [dropped EXCEPT ![o] = drops]
    /\ UNCHANGED policy

(* Exchange, and a move, which leaves the source empty, are one step. *)
Exchange(o, p) ==
    /\ content' = [content EXCEPT ![o] = content[p], ![p] = content[o]]
    /\ capacity' = [capacity EXCEPT ![o] = capacity[p], ![p] = capacity[o]]
    /\ dropped' = [dropped EXCEPT ![o] = dropped[p], ![p] = dropped[o]]
    /\ UNCHANGED policy

Move(o, p, drops) ==
    /\ content' = [content EXCEPT ![o] = content[p], ![p] = <<>>]
    /\ capacity' = [capacity EXCEPT ![o] = capacity[p], ![p] = 0]
    /\ dropped' = [dropped EXCEPT ![o] = dropped[p], ![p] = drops]
    /\ UNCHANGED policy

ResetDrops(o) ==
    /\ dropped' = [dropped EXCEPT ![o] = 0]
    /\ UNCHANGED <<policy, content, capacity>>

Next == \E o \in Objects :
    \/ \E v \in Values : PushBack(o, v) \/ PushFront(o, v)
    \/ \E v \in Values, i \in 1 .. Len(content[o]) + 1 : Insert(o, i, v)
    \/ \E i, j \in 1 .. Len(content[o]) + 1 : i <= j /\ Erase(o, i, j)
    \/ \E cap, n \in 0 .. MaxCapacity, v \in Values : Reshape(o, cap, n, v)
    \/ \E v \in Values, n \in 0 .. MaxCapacity : Assign(o, Filled(v, n), n, 0)
    \/ \E p \in Objects \ {o} : \/ Assign(o, content[p], capacity[p], dropped[p])
                                \/ Exchange(o, p)
                                \/ Move(o, p, 0) \/ Move(o, p, dropped[o])
    \/ ResetDrops(o)

Spec == Init /\ [][Next]_vars
=============================================================================
