----------------------------- MODULE MCHashing ------------------------------
(* The hash containers for TLC: a run has two tables of nodes, or a set    *)
(* with open addressing.  Keys of the tables collide in small ones and,    *)
(* with the second hasher, always.  Of the set, keys 1 and 4 collide in    *)
(* every table, 1 and 2 in one of 4 slots, and the hash of 3 has high      *)
(* bits, so that double hashing steps differently.                         *)
EXTENDS HashTable, TLC, TLAPS

CONSTANTS
    Containers,                                   \* of "tables" and "set"
    SetKeys, HalfWidth, min_bucket_count, MaxSlots,
    SetLoadFactors, SetRequests, Empty, Tombstone   \* of an open addressing set

VARIABLES on, probing, slots, size, tombstones, fill

setVars == <<probing, slots, size, tombstones, fill>>
allVars == <<on, vars, setVars>>

MCHash(h, k) == IF h = "spread" THEN 2 * k ELSE 1

(* Floats with the mantissa that Precision leaves them: the multiple of    *)
(* their spacing nearest to a / b, of two the even one.                    *)
Spacings == {1, 2, 4, 8, 16, 32, 64}

NearestFloat ==
    [a \in 0 .. MaxNumber, b \in {1} \cup LoadFactors |->
        LET unit     == b * Min({s \in Spacings : a < Precision * s * b})
            multiple == a \div unit
            rest     == 2 * (a % unit)
            up       == rest > unit \/ (rest = unit /\ multiple % 2 = 1)
        IN  IF 2 * a < Precision * b THEN a \div b
            ELSE (unit \div b) * (IF up THEN multiple + 1 ELSE multiple)]

MCRounded(a, b) == NearestFloat[a, b]

SetHash(k) == CASE k = 1 -> 0 [] k = 2 -> 4 [] k = 3 -> 51 [] k = 4 -> 0

Set == INSTANCE OpenAddressingSetProofs WITH
    Keys <- SetKeys, Hash <- SetHash, LoadFactors <- SetLoadFactors,
    Requests <- SetRequests, load <- fill

ASSUME SetAssumption == Set!SetAssumption

ASSUME GrowthAssumption == Set!GrowthAssumption

Symm == Permutations(Nodes) \cup Permutations(Tables)

HashingInit ==
    /\ on \in Containers
    /\ Init /\ Set!Init
    /\ on = "tables" => probing = "linear"
    /\ on = "set" => \A t \in Tables : unique[t] /\ hasher[t] = CHOOSE h \in Hashers : TRUE

HashingNext ==
    \/ on = "tables" /\ Next /\ UNCHANGED <<on, setVars>>
    \/ on = "set" /\ Set!Next /\ UNCHANGED <<on, vars>>

HashingSpec == HashingInit /\ [][HashingNext]_allVars

-----------------------------------------------------------------------------
(* The set is what it is declared to be: sizes are of the policy, counters *)
(* within their ranges and true; every key is found from its hash past the *)
(* tombstones, and every probe sequence ends.                              *)
SetIsSound == Set!TypeOK /\ Set!Validates /\ Set!ProbesEnd

(* An open addressing set is a set of keys for its clients.                *)
SetSpec == Set!SetSpec

-----------------------------------------------------------------------------
(* A run with the set is a behaviour of the set, any other one leaves it   *)
(* as it is.                                                               *)
LEMMA SetBehaves == HashingSpec => Set!Spec
<1>1. HashingInit => Set!Init
      BY DEF HashingInit
<1>2. [HashingNext]_allVars => [Set!Next]_(Set!vars)
      BY DEF HashingNext, allVars, setVars, Set!vars
<1>3. QED BY <1>1, <1>2, PTL DEF HashingSpec, Set!Spec

(* What the run checks of the set with four keys holds for every set of    *)
(* keys, hash function, probing policy, load factor and number of slots.   *)
THEOREM SetStaysSound == HashingSpec => []SetIsSound
<1>1. Set!Spec => [](Set!TypeOK /\ Set!Validates /\ Set!ProbesEnd)
      BY SetAssumption, GrowthAssumption, Set!SetSafety
<1>2. QED BY <1>1, SetBehaves, PTL DEF SetIsSound

(* So does that its clients see a set of keys. *)
THEOREM SetStaysASet == HashingSpec => SetSpec
<1>1. Set!Spec => Set!SetSpec
      BY SetAssumption, GrowthAssumption, Set!SetIsContainer
<1>2. QED BY <1>1, SetBehaves DEF SetSpec

=============================================================================
