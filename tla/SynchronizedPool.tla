-------------------------- MODULE SynchronizedPool --------------------------
(***************************************************************************)
(* chaistl::pmr::synchronized_pool_resource (memory_resource.hpp): each    *)
(* operation of the inner pool runs under one mutex.                       *)
(*                                                                         *)
(* A thread enters a call, takes the mutex, runs the call's body and       *)
(* leaves by the destructor of the lock_guard, on return and on throw      *)
(* alike.  The body of allocate() is two steps, so that the chunk chosen   *)
(* by the first is used by the second: what the mutex protects.            *)
(***************************************************************************)
EXTENDS Integers, Sequences, TLAPS

CONSTANTS Threads, Classes, Regions, MaxBlocks, DefaultNextCapacity,
          ReleaseEmpty, Oversized, Null

ASSUME ThreadAssumption == Null \notin Threads
ASSUME PoolAssumption ==
    /\ MaxBlocks \in Nat \ {0} /\ DefaultNextCapacity \in Nat \ {0}
    /\ ReleaseEmpty \in BOOLEAN
    /\ Null \notin Regions /\ Null \notin Classes /\ Oversized \notin Classes \cup {Null}

VARIABLES
    pools, chunks, unfull, nextCap, chunk, slot, oversized, prev, next, held, live,
    mutex,      \* the thread that holds mutex_, or Null
    pc,         \* where each thread is
    call,       \* the call each thread is in
    chosen      \* the chunk each thread's allocate() has picked, or Null

inner == <<pools, chunks, unfull, nextCap, chunk, slot, oversized, prev, next, held, live>>
vars  == <<inner, mutex, pc, call, chosen>>

(* inner_, with what is proved of it *)
Pool == INSTANCE PoolResourceProofs

Calls ==
    [op : {"allocate"}, class : Classes \cup {Oversized}]
    \cup [op : {"deallocate"}, block : Pool!Blocks]
    \cup [op : {"release"}]

NoCall == [op |-> "none"]

TypeOK ==
    /\ Pool!TypeOK
    /\ mutex \in Threads \cup {Null}
    /\ pc \in [Threads -> {"idle", "lock", "choose", "finish"}]
    /\ call \in [Threads -> Calls \cup {NoCall}]
    /\ chosen \in [Threads -> Regions \cup {Null}]

Init ==
    /\ Pool!Init
    /\ mutex = Null
    /\ pc = [t \in Threads |-> "idle"]
    /\ call = [t \in Threads |-> NoCall]
    /\ chosen = [t \in Threads |-> Null]

-----------------------------------------------------------------------------
(* Blocks on their way back, in some thread's deallocate(). *)
Returning == {call[t].block : t \in {u \in Threads : call[u].op = "deallocate"}}
Releasing == \E t \in Threads : call[t].op = "release"

(* What clients may ask for: a block is returned once, by whoever has it,  *)
(* and release() takes every block away, so none may be on its way back.   *)
Permitted(c) ==
    CASE c.op = "allocate"   -> TRUE
      [] c.op = "deallocate" -> live[c.block] # Null /\ c.block \notin Returning /\ ~Releasing
      [] c.op = "release"    -> Returning = {} /\ ~Releasing

Enter(t, c) ==
    /\ pc[t] = "idle"
    /\ Permitted(c)
    /\ pc' = [pc EXCEPT ![t] = "lock"]
    /\ call' = [call EXCEPT ![t] = c]
    /\ UNCHANGED <<inner, mutex, chosen>>

(* MUTANT: no mutex is taken *)
Lock_none(t) ==
    /\ pc[t] = "lock"
    /\ pc' = [pc EXCEPT ![t] = IF call[t].op = "allocate" THEN "choose" ELSE "finish"]
    /\ UNCHANGED <<inner, mutex, call, chosen>>

(* const std::lock_guard lock(mutex_) *)
Lock(t) ==
    /\ pc[t] = "lock"
    /\ mutex = Null
    /\ mutex' = t
    /\ pc' = [pc EXCEPT ![t] = IF call[t].op = "allocate" THEN "choose" ELSE "finish"]
    /\ UNCHANGED <<inner, call, chosen>>

(* The first half of inner_.allocate(): which chunk will serve it? *)
Choose(t) ==
    /\ pc[t] = "choose"
    /\ chosen' = [chosen EXCEPT ![t] = IF call[t].class = Oversized THEN Null
                                       ELSE Pool!Candidate(call[t].class)]
    /\ pc' = [pc EXCEPT ![t] = "finish"]
    /\ UNCHANGED <<inner, mutex, call>>

(* MUTANT: an exception leaves the mutex locked *)
Leave_locked_on_throw(t, throws) ==
    /\ mutex' = IF throws THEN mutex ELSE Null
    /\ pc' = [pc EXCEPT ![t] = "idle"]
    /\ call' = [call EXCEPT ![t] = NoCall]
    /\ chosen' = [chosen EXCEPT ![t] = Null]

(* ~lock_guard, on return or while an exception unwinds *)
Leave(t, throws) ==
    /\ mutex' = Null
    /\ pc' = [pc EXCEPT ![t] = "idle"]
    /\ call' = [call EXCEPT ![t] = NoCall]
    /\ chosen' = [chosen EXCEPT ![t] = Null]

(* The rest of inner_.allocate() with the chunk chosen. *)
FinishAllocate(t) ==
    LET k == call[t].class
    IN  /\ pc[t] = "finish" /\ call[t].op = "allocate" /\ k \in Classes
        /\ \/ /\ chosen[t] # Null
              /\ pools' = pools \cup {k}
              /\ Pool!TakeBlock(k, chosen[t], chunks[k], chunk)
              /\ UNCHANGED <<chunks, nextCap, oversized, prev, next, held>>
           \/ /\ chosen[t] = Null
              /\ \E r \in Regions : Pool!AllocateFromNewChunk(k, r)
        /\ Leave(t, FALSE)

FinishOversized(t) ==
    /\ pc[t] = "finish" /\ call[t].op = "allocate" /\ call[t].class = Oversized
    /\ \E r \in Regions : Pool!AllocateOversized(r)
    /\ Leave(t, FALSE)

(* bad_alloc: there is no memory for a pool, a chunk or an oversized block. *)
AllocationFails(t) ==
    /\ pc[t] = "finish" /\ call[t].op = "allocate" /\ chosen[t] = Null
    /\ \/ UNCHANGED inner
       \/ call[t].class \in Classes /\ Pool!AllocateThrows(call[t].class)
    /\ Leave(t, TRUE)

FinishDeallocate(t) ==
    LET b == call[t].block
    IN  /\ pc[t] = "finish" /\ call[t].op = "deallocate"
        /\ \/ \E k \in Classes : \/ Pool!DeallocateToChunk(k, b)
                                 \/ Pool!DeallocateReleasesChunk(k, b)
           \/ b[2] = 0 /\ Pool!DeallocateOversized(b[1])
        /\ Leave(t, FALSE)

FinishRelease(t) ==
    /\ pc[t] = "finish" /\ call[t].op = "release"
    /\ Pool!Release
    /\ Leave(t, FALSE)

Body(t) == \/ Choose(t) \/ FinishAllocate(t) \/ FinishOversized(t) \/ AllocationFails(t)
           \/ FinishDeallocate(t) \/ FinishRelease(t)

Next == \E t \in Threads : \/ \E c \in Calls : Enter(t, c)
                           \/ Lock(t)
                           \/ Body(t)

(* A thread inside a call keeps running, the mutex need not be fair: a     *)
(* thread may lose every race for it.  Nothing makes a client call.        *)
Fairness == \A t \in Threads : WF_vars(Body(t)) /\ WF_vars(Lock(t))

Spec == Init /\ [][Next]_vars /\ Fairness

-----------------------------------------------------------------------------
(* The facade is linearizable: at the step that finishes a call the inner  *)
(* pool takes exactly one step of the single-threaded pool resource,       *)
(* whatever the other threads are in the middle of.                        *)
SinglePool == Pool!Spec

(* The inner pool changes only in the hands of the thread that has the     *)
(* mutex, and what allocate() chose is still what it would choose.         *)
Fresh(t) ==
    /\ pc[t] \in {"choose", "finish"} => mutex = t
    /\ pc[t] = "finish" /\ call[t].op = "allocate" /\ call[t].class # Oversized
          => chosen[t] = Pool!Candidate(call[t].class)

ChoiceIsFresh == \A t \in Threads : Fresh(t)

(* A block on its way back is with a client until it is taken back, one    *)
(* thread returns it, and nothing is on its way while a release() is: so   *)
(* no deallocate() finds its block gone when it has got the mutex.         *)
Ends(t) == call[t].op \in {"deallocate", "release"}
ReturnsAreOwned ==
    /\ \A t \in Threads : call[t].op = "deallocate" => live[call[t].block] # Null
    /\ \A t, u \in Threads : t # u /\ Ends(t) /\ Ends(u) =>
          /\ call[t].op = "deallocate" /\ call[u].op = "deallocate"
          /\ call[t].block # call[u].block

(* The mutex is released again by every call, whether it returns or an     *)
(* exception of upstream passes through it: nobody waits for a lock whose  *)
(* holder has gone.                                                        *)
MutexComesFree == \A t \in Threads : mutex = t ~> mutex = Null

-----------------------------------------------------------------------------
(* Any number of threads see one single-threaded pool resource.            *)

(* Types of the part that is not the inner pool, and freshness. *)
Inv == /\ mutex \in Threads \cup {Null}
       /\ pc \in [Threads -> {"idle", "lock", "choose", "finish"}]
       /\ call \in [Threads -> Calls \cup {NoCall}]
       /\ chosen = [t \in Threads |-> chosen[t]]
       /\ ChoiceIsFresh

(* A thread no step has touched is as fresh as before. *)
LEMMA StillFresh ==
    ASSUME NEW u \in Threads, Fresh(u), UNCHANGED <<inner, mutex>>,
           pc'[u] = pc[u], call'[u] = call[u], chosen'[u] = chosen[u]
    PROVE  Fresh(u)'
<1>1. UNCHANGED <<unfull, chunk, chunks>>
      BY DEF inner
<1>2. mutex' = mutex
      OBVIOUS
<1>3. QED BY <1>1, <1>2 DEF Fresh, Pool!Candidate

(* Only the thread that holds the mutex is in a body. *)
LEMMA Exclusive ==
    ASSUME Inv, NEW t \in Threads, pc[t] \in {"choose", "finish"}
    PROVE  /\ mutex = t
           /\ \A u \in Threads \ {t} : pc[u] \in {"idle", "lock"}
BY DEF Inv, ChoiceIsFresh, Fresh

(* The end of a call, whatever it did to the inner pool. *)
LEMMA LeaveKeepsInv ==
    ASSUME Inv, NEW t \in Threads, pc[t] = "finish", NEW e, Leave(t, e)
    PROVE  Inv'
<1>1. \A u \in Threads : pc'[u] \in {"idle", "lock"}
      BY Exclusive DEF Inv, Leave
<1>2. ChoiceIsFresh'
      BY <1>1 DEF ChoiceIsFresh, Fresh
<1>3. QED BY <1>1, <1>2 DEF Inv, Leave, Calls

LEMMA InitInv == Init => Inv
BY DEF Init, Inv, ChoiceIsFresh, Fresh

LEMMA EnterKeepsInv ==
    ASSUME Inv, NEW t \in Threads, NEW c \in Calls, Enter(t, c)
    PROVE  Inv'
<1>1. \A u \in Threads \ {t} : Fresh(u)'
  <2>1. ASSUME NEW u \in Threads \ {t}
        PROVE  Fresh(u) /\ pc'[u] = pc[u] /\ call'[u] = call[u] /\ chosen'[u] = chosen[u]
        BY DEF Enter, Inv, ChoiceIsFresh
  <2>2. QED BY <2>1, StillFresh DEF Enter
<1>2. Fresh(t)'
      BY DEF Enter, Inv, Fresh
<1>3. QED BY <1>1, <1>2 DEF Inv, ChoiceIsFresh, Enter

LEMMA LockKeepsInv ==
    ASSUME Inv, NEW t \in Threads, Lock(t)
    PROVE  Inv'
<1>1. \A u \in Threads \ {t} : pc'[u] \in {"idle", "lock"}
      BY ThreadAssumption DEF Lock, Inv, ChoiceIsFresh, Fresh
<1>2. pc'[t] = (IF call[t].op = "allocate" THEN "choose" ELSE "finish") /\ mutex' = t
      BY DEF Lock, Inv
<1>3. \A u \in Threads : Fresh(u)'
  <2>1. Fresh(t)'
        BY <1>2 DEF Lock, Fresh
  <2>2. QED BY <1>1, <2>1 DEF Fresh
<1>4. QED BY <1>2, <1>3 DEF Inv, ChoiceIsFresh, Lock

LEMMA ChooseKeepsInv ==
    ASSUME Inv, NEW t \in Threads, Choose(t)
    PROVE  Inv'
<1>1. \A u \in Threads \ {t} : Fresh(u)'
  <2>1. \A u \in Threads \ {t} : pc'[u] \in {"idle", "lock"}
        BY Exclusive DEF Choose, Inv
  <2>2. QED BY <2>1 DEF Fresh
<1>2. mutex' = t
      BY Exclusive DEF Choose
<1>3. Fresh(t)'
      BY <1>2 DEF Choose, Inv, Fresh, inner, Pool!Candidate
<1>4. chosen' = [u \in Threads |-> chosen'[u]]
      BY DEF Choose, Inv
<1>5. QED BY <1>1, <1>3, <1>4 DEF Inv, ChoiceIsFresh, Choose

LEMMA BodyLeaves ==
    ASSUME NEW t \in Threads, Body(t)
    PROVE  Choose(t) \/ (pc[t] = "finish" /\ (Leave(t, TRUE) \/ Leave(t, FALSE)))
BY DEF Body, FinishAllocate, FinishOversized, AllocationFails, FinishDeallocate, FinishRelease

LEMMA StepInv == Inv /\ [Next]_vars => Inv'
<1> SUFFICES ASSUME Inv, [Next]_vars PROVE Inv'
    OBVIOUS
<1>1. ASSUME NEW t \in Threads, NEW c \in Calls, Enter(t, c) PROVE Inv'
      BY <1>1, EnterKeepsInv
<1>2. ASSUME NEW t \in Threads, Lock(t) PROVE Inv'
      BY <1>2, LockKeepsInv
<1>3. ASSUME NEW t \in Threads, Body(t) PROVE Inv'
  <2>1. CASE Choose(t)
        BY <2>1, ChooseKeepsInv
  <2>2. CASE pc[t] = "finish" /\ (Leave(t, TRUE) \/ Leave(t, FALSE))
        BY <2>2, LeaveKeepsInv
  <2>3. QED BY <1>3, <2>1, <2>2, BodyLeaves
<1>4. CASE UNCHANGED vars
  <2>1. UNCHANGED <<inner, mutex, pc, call, chosen>>
        BY <1>4 DEF vars
  <2>2. \A t \in Threads : Fresh(t) => Fresh(t)'
        BY <2>1, StillFresh
  <2>3. QED BY <2>1, <2>2 DEF Inv, ChoiceIsFresh
<1>5. QED BY <1>1, <1>2, <1>3, <1>4 DEF Next

(* For any number of threads: the inner pool is only touched under the     *)
(* mutex, and an allocation acts on the chunk it would choose at that      *)
(* moment.                                                                 *)
THEOREM Freshness == Spec => []ChoiceIsFresh
<1>1. Inv => ChoiceIsFresh
      BY DEF Inv
<1>2. QED BY <1>1, InitInv, StepInv, PTL DEF Spec

-----------------------------------------------------------------------------
(* A call's last step is one step of the single-threaded pool. *)
LEMMA FinishRefines ==
    ASSUME Inv, NEW t \in Threads, Body(t), ~Choose(t)
    PROVE  [Pool!Next]_(Pool!vars)
<1> DEFINE k == call[t].class
<1>1. CASE FinishAllocate(t)
  <2>1. k \in Classes /\ pc[t] = "finish" /\ call[t].op = "allocate" /\ k # Oversized
        BY <1>1, PoolAssumption DEF FinishAllocate
  <2>2. chosen[t] = Pool!Candidate(k)
        BY <2>1 DEF Inv, ChoiceIsFresh, Fresh
  <2>3. CASE chosen[t] # Null
    <3>1. Pool!AllocateFromChunk(k)
          BY <1>1, <2>2, <2>3 DEF FinishAllocate, Pool!AllocateFromChunk, Pool!listVars
    <3>2. QED BY <2>1, <3>1 DEF Pool!Next
  <2>4. CASE chosen[t] = Null
    <3>1. PICK r \in Regions : Pool!AllocateFromNewChunk(k, r)
          BY <1>1, <2>4 DEF FinishAllocate
    <3>2. QED BY <2>1, <3>1 DEF Pool!Next
  <2>5. QED BY <2>3, <2>4
<1>2. CASE FinishOversized(t)
  <2>1. PICK r \in Regions : Pool!AllocateOversized(r)
        BY <1>2 DEF FinishOversized
  <2>2. QED BY <2>1 DEF Pool!Next
<1>3. CASE AllocationFails(t)
  <2>1. CASE UNCHANGED inner
        BY <2>1 DEF inner, Pool!vars, Pool!poolVars, Pool!listVars
  <2>2. CASE k \in Classes /\ Pool!AllocateThrows(k)
        BY <2>2 DEF Pool!Next
  <2>3. QED BY <1>3, <2>1, <2>2 DEF AllocationFails
<1>4. CASE FinishDeallocate(t)
  <2> DEFINE b == call[t].block
  <2>1. call[t] \in Calls /\ call[t].op = "deallocate"
        BY <1>4 DEF FinishDeallocate, Inv, NoCall
  <2>2. b \in Pool!Blocks
        BY <2>1 DEF Calls
  <2>3. CASE \E m \in Classes : Pool!DeallocateToChunk(m, b) \/ Pool!DeallocateReleasesChunk(m, b)
        BY <2>2, <2>3 DEF Pool!Next
  <2>4. CASE Pool!DeallocateOversized(b[1])
    <3>1. b[1] \in Regions
          BY <2>2 DEF Pool!Blocks
    <3>2. QED BY <2>4, <3>1 DEF Pool!Next
  <2>5. QED BY <1>4, <2>3, <2>4 DEF FinishDeallocate
<1>5. CASE FinishRelease(t)
      BY <1>5 DEF FinishRelease, Pool!Next
<1>6. QED BY <1>1, <1>2, <1>3, <1>4, <1>5 DEF Body

LEMMA StepRefines == Inv /\ [Next]_vars => [Pool!Next]_(Pool!vars)
<1> SUFFICES ASSUME Inv, [Next]_vars PROVE [Pool!Next]_(Pool!vars)
    OBVIOUS
<1>1. ASSUME UNCHANGED inner PROVE [Pool!Next]_(Pool!vars)
      BY <1>1 DEF inner, Pool!vars, Pool!poolVars, Pool!listVars
<1>2. ASSUME NEW t \in Threads, Body(t) PROVE [Pool!Next]_(Pool!vars)
      BY <1>1, <1>2, FinishRefines DEF Choose
<1>3. QED BY <1>1, <1>2 DEF Next, Enter, Lock, vars

(* Concurrent callers cannot tell the synchronized resource from one       *)
(* single-threaded pool whose calls happen one at a time.                  *)
THEOREM Linearizable == Spec => SinglePool
<1>1. Init => Pool!Init
      BY DEF Init
<1>2. QED BY <1>1, InitInv, StepInv, StepRefines, PTL DEF Spec, SinglePool, Pool!Spec

-----------------------------------------------------------------------------
(* What is proved of the single-threaded pool holds of the inner pool. *)
LEMMA InnerInvariance == Spec => []Pool!Inv
<1>1. Pool!Spec => []Pool!Inv
      BY PoolAssumption, Pool!Invariance
<1>2. QED BY <1>1, Linearizable, PTL DEF SinglePool

(* For any number of threads: every block is with one client or once on a  *)
(* free list, the hint and the oversized list are exact, and what is held  *)
(* from upstream is what the lists name.                                   *)
THEOREM InnerSafety ==
    Spec => [](Pool!BlockAccounting /\ Pool!UpstreamConserved /\ Pool!ListsExact)
<1>1. Pool!Inv => Pool!BlockAccounting /\ Pool!UpstreamConserved /\ Pool!ListsExact
      BY DEF Pool!Inv, Pool!ListsExact
<1>2. QED BY <1>1, InnerInvariance, PTL

(* The synchronized resource keeps the memory_resource contract, through   *)
(* the pool resource it wraps.                                             *)
THEOREM ConcurrentContract == Spec => Pool!ContractSpec
<1>1. Pool!Spec => Pool!ContractSpec
      BY PoolAssumption, Pool!Refinement
<1>2. QED BY <1>1, Linearizable, PTL DEF SinglePool

(* Only an allocate() chooses, and what it has chosen is a region or null. *)
ChoiceTyped ==
    \A t \in Threads : /\ chosen[t] \in Regions \cup {Null}
                       /\ pc[t] = "choose" => call[t].op = "allocate"

LEMMA CandidateType ==
    ASSUME Pool!Inv, NEW k \in Classes
    PROVE  Pool!Candidate(k) \in Regions \cup {Null}
<1>1. Pool!TypeOK /\ Pool!Candidate(k) # Null => Pool!Candidate(k) \in Pool!Listed(k)
      BY PoolAssumption, Pool!CandidateChunk
<1>2. Pool!TypeOK /\ chunks[k] \in Seq(Regions)
      BY DEF Pool!Inv, Pool!TypeOK
<1>3. Pool!Listed(k) \subseteq Regions
      BY <1>2 DEF Pool!Listed, Pool!ToSet
<1>4. QED BY <1>1, <1>2, <1>3

LEMMA StepChoiceTyped == Inv /\ Pool!Inv /\ ChoiceTyped /\ [Next]_vars => ChoiceTyped'
<1> SUFFICES ASSUME Inv, Pool!Inv, ChoiceTyped, [Next]_vars PROVE ChoiceTyped'
    OBVIOUS
<1>1. ASSUME NEW t \in Threads, Choose(t) PROVE ChoiceTyped'
  <2>1. call[t] \in Calls \cup {NoCall} /\ call[t].op = "allocate"
        BY <1>1 DEF Inv, Choose, ChoiceTyped
  <2>2. call[t].class \in Classes \cup {Oversized}
        BY <2>1 DEF Calls, NoCall
  <2>3. chosen'[t] \in Regions \cup {Null}
        BY <1>1, <2>2, CandidateType DEF Choose, Inv
  <2>4. QED BY <1>1, <2>3 DEF Choose, ChoiceTyped, Inv
<1>2. ASSUME NEW t \in Threads, NEW e, Leave(t, e) PROVE ChoiceTyped'
      BY <1>2 DEF Leave, ChoiceTyped, Inv
<1>3. ASSUME NEW t \in Threads, NEW c \in Calls, Enter(t, c) PROVE ChoiceTyped'
      BY <1>3 DEF Enter, ChoiceTyped, Inv
<1>4. ASSUME NEW t \in Threads, Lock(t) PROVE ChoiceTyped'
      BY <1>4 DEF Lock, ChoiceTyped, Inv
<1>5. CASE UNCHANGED vars
      BY <1>5 DEF ChoiceTyped, vars
<1>6. QED BY <1>1, <1>2, <1>3, <1>4, <1>5, BodyLeaves DEF Next

(* Every variable keeps its type, those of the inner pool and those of the *)
(* threads, for any number of threads.                                     *)
THEOREM TypeCorrect == Spec => []TypeOK
<1>1. Init => ChoiceTyped
      BY DEF Init, ChoiceTyped
<1>2. Inv /\ Pool!Inv /\ ChoiceTyped => TypeOK
      BY DEF Inv, Pool!Inv, ChoiceTyped, TypeOK
<1>3. QED BY <1>1, <1>2, InitInv, StepInv, StepChoiceTyped, InnerInvariance, PTL DEF Spec

-----------------------------------------------------------------------------
(* What a call does to the ledger: only the thread in the body of a call   *)
(* changes it, a deallocate() for its own block, an allocate() for blocks  *)
(* that become live.                                                       *)
LEMMA LedgerOfBody ==
    ASSUME Inv, Pool!TypeOK, NEW t \in Threads, Body(t), ~Choose(t)
    PROVE  /\ pc[t] = "finish" /\ call[t] \in Calls
           /\ \A b \in Pool!Blocks :
                 live'[b] # live[b] => \/ live'[b] # Null
                                       \/ call[t].op = "release"
                                       \/ call[t].op = "deallocate" /\ b = call[t].block
<1> DEFINE Kept == \A b \in Pool!Blocks :
                 live'[b] # live[b] => \/ live'[b] # Null
                                       \/ call[t].op = "release"
                                       \/ call[t].op = "deallocate" /\ b = call[t].block
<1>0. live \in [Pool!Blocks -> Classes \cup {Oversized, Null}]
      BY DEF Pool!TypeOK
<1>1. CASE FinishAllocate(t)
  <2> DEFINE k == call[t].class
  <2>1. k \in Classes /\ k # Null
        BY <1>1, PoolAssumption, ZenonT(60) DEF FinishAllocate
  <2>2. \E b : live' = [live EXCEPT ![b] = k]
        BY <1>1, ZenonT(60) DEF FinishAllocate, Pool!AllocateFromNewChunk, Pool!TakeBlock
  <2> HIDE DEF k
  <2>3. Kept
        BY <1>0, <2>1, <2>2
  <2>4. QED BY <1>1, <2>3 DEF FinishAllocate, Inv, NoCall
<1>2. CASE FinishOversized(t)
  <2>1. \E b : live' = [live EXCEPT ![b] = Oversized]
        BY <1>2 DEF FinishOversized, Pool!AllocateOversized
  <2>2. Kept
        BY <1>0, <2>1, PoolAssumption
  <2>3. QED BY <1>2, <2>2 DEF FinishOversized, Inv, NoCall
<1>3. CASE AllocationFails(t)
  <2>1. live' = live
        BY <1>3 DEF AllocationFails, Pool!AllocateThrows, inner
  <2>2. QED BY <1>3, <2>1 DEF AllocationFails, Inv, NoCall
<1>4. CASE FinishDeallocate(t)
  <2> DEFINE b == call[t].block
  <2>1. call[t] \in Calls /\ call[t].op = "deallocate" /\ pc[t] = "finish"
        BY <1>4 DEF FinishDeallocate, Inv, NoCall
  <2>2. b \in Pool!Blocks
        BY <2>1 DEF Calls
  <2>3. live' = [live EXCEPT ![b] = Null]
    <3>1. CASE \E k \in Classes : Pool!DeallocateToChunk(k, b) \/ Pool!DeallocateReleasesChunk(k, b)
          BY <3>1 DEF Pool!DeallocateToChunk, Pool!DeallocateReleasesChunk
    <3>2. CASE b[2] = 0 /\ Pool!DeallocateOversized(b[1])
      <4>1. b = <<b[1], 0>>
            BY <2>2, <3>2 DEF Pool!Blocks
      <4>2. QED BY <3>2, <4>1 DEF Pool!DeallocateOversized
    <3>3. QED BY <1>4, <3>1, <3>2 DEF FinishDeallocate
  <2> HIDE DEF b
  <2>4. QED BY <1>0, <2>1, <2>3 DEF b
<1>5. CASE FinishRelease(t)
      BY <1>5 DEF FinishRelease, Inv, NoCall
<1>6. QED BY <1>1, <1>2, <1>3, <1>4, <1>5 DEF Body

LEMMA StepReturns == Inv /\ Pool!TypeOK /\ ReturnsAreOwned /\ [Next]_vars => ReturnsAreOwned'
<1> SUFFICES ASSUME Inv, Pool!TypeOK, ReturnsAreOwned, [Next]_vars PROVE ReturnsAreOwned'
    OBVIOUS
<1>1. ASSUME NEW t \in Threads, NEW c \in Calls, Enter(t, c) PROVE ReturnsAreOwned'
  <2>1. /\ call' = [call EXCEPT ![t] = c] /\ live' = live /\ Permitted(c)
        /\ \A u \in Threads : call'[u] = IF u = t THEN c ELSE call[u]
        BY <1>1 DEF Enter, Inv, inner
  <2>2. c.op \in {"allocate", "deallocate", "release"}
        BY DEF Calls
  <2>3. ASSUME NEW u \in Threads \ {t}, c.op \in {"deallocate", "release"}, Ends(u)
        PROVE  c.op = "deallocate" /\ call[u].op = "deallocate" /\ c.block # call[u].block
    <3>1. ~Releasing
          BY <2>1, <2>3 DEF Permitted
    <3>2. call[u].op = "deallocate"
          BY <2>3, <3>1 DEF Ends, Releasing
    <3>3. call[u].block \in Returning
          BY <3>2 DEF Returning
    <3>4. c.op = "deallocate"
          BY <2>1, <2>3, <3>3 DEF Permitted
    <3>5. c.block \notin Returning
          BY <2>1, <3>4 DEF Permitted
    <3>6. QED BY <3>2, <3>3, <3>4, <3>5
  <2>4. c.op = "deallocate" => live[c.block] # Null
        BY <2>1 DEF Permitted
  <2>5. QED BY <2>1, <2>3, <2>4 DEF ReturnsAreOwned, Ends
<1>2. ASSUME NEW t \in Threads, Body(t), ~Choose(t) PROVE ReturnsAreOwned'
  <2>1. pc[t] = "finish" /\ (Leave(t, TRUE) \/ Leave(t, FALSE))
        BY <1>2, BodyLeaves
  <2>2. \A u \in Threads : call'[u] = IF u = t THEN NoCall ELSE call[u]
        BY <2>1 DEF Leave, Inv
  <2>3. ASSUME NEW u \in Threads \ {t}, call[u].op = "deallocate"
        PROVE  live'[call[u].block] # Null
    <3>1. live[call[u].block] # Null /\ call[u].block \in Pool!Blocks
      <4>1. call[u] \in Calls
            BY <2>3 DEF Inv, NoCall
      <4>2. QED BY <2>3, <4>1 DEF ReturnsAreOwned, Calls
    <3>2. call[t].op # "release" /\ (call[t].op = "deallocate" => call[t].block # call[u].block)
          BY <2>3 DEF ReturnsAreOwned, Ends
    <3>3. QED BY <1>2, <3>1, <3>2, LedgerOfBody
  <2>4. ~Ends(t)'
        BY <2>2 DEF Ends, NoCall
  <2>5. QED BY <2>2, <2>3, <2>4 DEF ReturnsAreOwned, Ends
<1>3. ASSUME call' = call, live' = live PROVE ReturnsAreOwned'
      BY <1>3 DEF ReturnsAreOwned, Ends
<1>4. QED BY <1>1, <1>2, <1>3 DEF Next, Lock, Choose, vars, inner

(* For any number of threads: a block a client gives back is still its own *)
(* when the call has the mutex, and the inner deallocate() finds it under  *)
(* the class it was handed out for, an oversized one at the start of its   *)
(* region.                                                                 *)
THEOREM NoStaleReturn ==
    Spec => [](/\ ReturnsAreOwned
               /\ \A t \in Threads : call[t].op = "deallocate" =>
                     LET b == call[t].block
                     IN  live[b] \in Classes \/ (live[b] = Oversized /\ b[2] = 0))
<1> DEFINE Found == \A t \in Threads : call[t].op = "deallocate" =>
                     LET b == call[t].block
                     IN  live[b] \in Classes \/ (live[b] = Oversized /\ b[2] = 0)
<1>1. Init => ReturnsAreOwned
      BY DEF Init, ReturnsAreOwned, Ends, NoCall
<1>2. Pool!Inv => Pool!TypeOK
      BY DEF Pool!Inv
<1>3. Inv /\ Pool!Inv /\ ReturnsAreOwned => Found
  <2> SUFFICES ASSUME Inv, Pool!Inv, ReturnsAreOwned, NEW t \in Threads, call[t].op = "deallocate"
               PROVE  LET b == call[t].block
                      IN  live[b] \in Classes \/ (live[b] = Oversized /\ b[2] = 0)
      OBVIOUS
  <2> DEFINE b == call[t].block
  <2>1. call[t] \in Calls
        BY DEF Inv, NoCall
  <2>2. b \in Pool!Blocks
        BY <2>1 DEF Calls
  <2>3. live[b] # Null /\ live[b] \in Classes \cup {Oversized, Null}
        BY <2>2 DEF ReturnsAreOwned, Pool!Inv, Pool!TypeOK
  <2>4. live[b] = Oversized => b[2] = 0
        BY <2>2 DEF Pool!Inv, Pool!LiveListed
  <2>5. QED BY <2>3, <2>4
<1>4. QED BY <1>1, <1>2, <1>3, InitInv, StepInv, StepReturns, InnerInvariance, PTL DEF Spec

=============================================================================
