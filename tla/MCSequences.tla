---------------------------- MODULE MCSequences -----------------------------
(* The containers with indexed elements for TLC: a run has two ring        *)
(* buffers, or a vector or a deque of IndexedSequences.                    *)
EXTENDS RingBuffer, TLC

CONSTANTS
    Containers,    \* of "arrays" and "rings"
    Kinds, Resources, MaxSize, BlockSize, InitialMapCapacity, LargestMap,
    MaxInserted, Fuels, Unlimited, Faults    \* of arrays

VARIABLES on, kind, nothrow, propagates, box, held, wrong, kept

Arrays == INSTANCE IndexedSequences

ASSUME RingAssumption

arrayVars == <<kind, nothrow, propagates, box, held, wrong, kept>>
allVars == <<on, vars, arrayVars>>

Symmetry == Permutations(Resources) \cup Permutations(Objects) \cup Permutations(Values)

SequencesInit ==
    /\ on \in Containers
    /\ Init /\ Arrays!Init
    /\ on = "arrays" => policy = "overwrite"
    /\ on = "rings" => kind = "vector" /\ nothrow /\ propagates

SequencesNext ==
    \/ on = "arrays" /\ Arrays!Next /\ UNCHANGED <<on, vars>>
    \/ on = "rings" /\ Next /\ UNCHANGED <<on, arrayVars>>

SequencesSpec == SequencesInit /\ [][SequencesNext]_allVars

-----------------------------------------------------------------------------
(* Every field of a vector and a deque has its type: no capacity is above  *)
(* max_size().  Every slot that size() covers holds an element and no      *)
(* other slot does; none is built over another, destroyed twice or lost,   *)
(* and storage goes back where it came from.                               *)
SlotsExact == Arrays!TypeOK /\ Arrays!LifetimesExact

(* Every call of a vector or deque does what its contract states, when it  *)
(* returns and when it throws.                                             *)
PromisesKept == Arrays!PromisesKept

(* Iterators of a deque reach every element, and end(), across blocks.     *)
IteratorsReach == Arrays!IteratorsReach

=============================================================================
