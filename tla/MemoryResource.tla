--------------------------- MODULE MemoryResource ---------------------------
(***************************************************************************)
(* What a chaistl::pmr::memory_resource promises its clients, whatever the *)
(* strategy behind it: a block handed out is not handed out again before   *)
(* its holder gives it back, it lies inside memory the resource holds from *)
(* upstream, and memory goes back upstream only when no live block lies in *)
(* it.  PoolResource and, through it, SynchronizedPool implement this.     *)
(*                                                                         *)
(* A block is a pair <<region, index>>: the upstream allocation it lies in *)
(* and its position there.                                                 *)
(***************************************************************************)
EXTENDS Naturals

CONSTANTS
    Regions,      \* the addresses upstream can return
    Indexes       \* the positions of a block in a region

VARIABLES
    held,         \* regions obtained from upstream and not returned
    inUse         \* blocks in the hands of clients

vars == <<held, inUse>>

Blocks == Regions \X Indexes

TypeOK == /\ held \in SUBSET Regions
          /\ inUse \in SUBSET Blocks

Init == held = {} /\ inUse = {}

(* allocate(): a block nobody holds, in memory held now, perhaps just got *)
Allocate(b) ==
    /\ b \notin inUse
    /\ inUse' = inUse \cup {b}
    /\ \/ b[1] \in held /\ held' = held
       \/ b[1] \notin held /\ held' = held \cup {b[1]}

(* deallocate(): the block's region may go upstream if nobody else uses it *)
Deallocate(b) ==
    /\ b \in inUse
    /\ inUse' = inUse \ {b}
    /\ \/ held' = held
       \/ /\ \A other \in inUse' : other[1] # b[1]
          /\ held' = held \ {b[1]}

(* release(): every block is void and everything goes back upstream *)
Release == held' = {} /\ inUse' = {}

Next == \/ \E b \in Blocks : Allocate(b) \/ Deallocate(b)
        \/ Release

Spec == Init /\ [][Next]_vars
=============================================================================
