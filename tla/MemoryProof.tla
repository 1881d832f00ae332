---------------------------- MODULE MemoryProof -----------------------------
(***************************************************************************)
(* Proof that no thread that can still execute runs on a deleted Thread    *)
(* object, and that no two of them share one.                              *)
(*                                                                         *)
(* The heap follows the steps of Preemption, so that the invariant of      *)
(* PreemptionProof holds beside it.  It is needed for the switch: the next *)
(* thread is one of the map, also when the thread that ran no longer is.   *)
(***************************************************************************)
EXTENDS ThreadMemory, PreemptionProof, FiniteSetTheorems

\* The threads that can execute: those of the map, and the running one behind
\* the statement that erased it.
Executing == DOMAIN threads \cup {cur}

\* No object has a number beyond the last one allocated, and nothing is deleted
\* before the process ends.
HInv ==
    /\ allocated \in Nat
    /\ object \in [Tid -> Nat]
    /\ \A tid \in Tid : object[tid] <= allocated
    /\ ~exited => deleted = {}
    /\ ~exited => \A tid, other \in Executing : object[tid] = object[other] => tid = other

memory == <<data, signals, committed, heap>>

-----------------------------------------------------------------------------
(* The steps below the heap.                                               *)

\* A step with its effect on the heap is a step.
LEMMA HeapFollows ==
    [MemoryNext]_memory => [PreemptionNext]_<<data, signals, committed>>
BY DEF MemoryNext, PreemptionNext, memory

\* So the invariants of Preemption can be used here: ThreadMemory conjoins each of
\* its actions with an effect on the heap, and MaxObjects leaves out the spawns
\* beyond it.
LEMMA MemoryBehaves == MemorySpec => PreemptionSpec
<1>1. MemoryInit => PreemptionInit
  BY DEF MemoryInit
<1>2. [MemoryNext]_memory => [PreemptionNext]_<<data, signals, committed>>
  BY HeapFollows
<1>3. QED
  BY <1>1, <1>2, PTL DEF MemorySpec, PreemptionSpec, memory

-----------------------------------------------------------------------------
(* The heap.                                                               *)

\* A step that allocates nothing, and after which no other threads execute.
LEMMA SameObjects ==
    ASSUME HInv, UNCHANGED heap, exited => exited', ~exited' => Executing' \subseteq Executing
    PROVE  HInv'
BY DEF HInv, heap

\* A new thread gets an object that no other has.
LEMMA SpawnHeap == ASSUME PInv, HInv, Spawn, NewObject PROVE HInv'
<1>1. DOMAIN threads \subseteq Tid /\ cur \in Tid /\ cur' = cur /\ ~exited
      /\ exited' = exited /\ deleted' = deleted
  BY ThreadsTyped, CommittedData DEF Spawn, In, At, NewObject, cur
<1>2. CASE DOMAIN threads' \ DOMAIN threads = {}
  <2>1. Cardinality({}) = 0
    BY FS_EmptySet
  <2>2. allocated' = allocated /\ object' = [tid \in Tid |-> object[tid]]
    BY <1>2, <2>1 DEF NewObject, HInv
  <2>3. object' = object /\ Executing' \subseteq Executing
    BY <1>1, <1>2, <2>2 DEF HInv, Executing
  <2>4. QED
    BY <1>1, <2>2, <2>3, SameObjects DEF heap
<1>3. CASE DOMAIN threads' \ DOMAIN threads # {}
  <2>1. PICK tid \in Tid : tid \notin DOMAIN threads /\ DOMAIN threads' = DOMAIN threads \cup {tid}
    BY <1>3 DEF Spawn
  <2>2. cur \in DOMAIN threads
    BY <1>1, <1>3, AtBody, CommittedData DEF Spawn, In, Same, SameThreads
  <2>3. DOMAIN threads' \ DOMAIN threads = {tid} /\ Cardinality({tid}) = 1
    BY <2>1, FS_Singleton
  <2>4. /\ allocated' = allocated + 1
        /\ object' = [t \in Tid |-> IF t = tid THEN allocated' ELSE object[t]]
    BY <2>3 DEF NewObject
  <2>5. allocated' \in Nat /\ object' \in [Tid -> Nat]
        /\ \A t \in Tid : object'[t] <= allocated'
    BY <2>1, <2>4 DEF HInv
  <2>6. \A t, other \in Executing' : object'[t] = object'[other] => t = other
    <3>1. ASSUME NEW t \in Executing PROVE object'[t] = object[t] /\ object[t] < object'[tid]
      BY <1>1, <2>1, <2>2, <2>4, <3>1 DEF HInv, Executing
    <3>2. Executing' = Executing \cup {tid}
      BY <1>1, <2>1 DEF Executing
    <3>3. \A t \in Executing : object[t] \in Nat
      BY <1>1 DEF HInv, Executing
    <3>4. QED
      BY <1>1, <3>1, <3>2, <3>3 DEF HInv
  <2>7. QED
    BY <1>1, <2>5, <2>6 DEF HInv
<1>4. QED
  BY <1>2, <1>3

\* The next thread is one of the map.
LEMMA SwitchHeap ==
    ASSUME PInv', Switch PROVE ~exited /\ ~exited' /\ Executing' \subseteq Executing
<1>1. ~exited /\ exited' = exited /\ Commit
  BY DEF Switch, In, At
<1>2. cur' \in DOMAIN threads'
  <2>1. committed'.threads = threads' /\ committed'.running = running_thread_tid'
        /\ committed'.exited = exited'
    BY <1>1 DEF Commit, Now
  <2>2. A!StatesAgree'
    BY DEF PInv, A!IInv
  <2>3. QED
    BY <1>1, <2>1, <2>2 DEF A!StatesAgree, cur
<1>3. DOMAIN threads' = DOMAIN threads
  BY DEF Switch, run_next_thread
<1>4. QED
  BY <1>1, <1>2, <1>3 DEF Executing

\* Every step keeps the invariant of the heap.
LEMMA HeapStep ==
    PInv /\ PInv' /\ HInv /\ [MemoryNext]_memory => HInv'
<1> SUFFICES ASSUME PInv, PInv', HInv, [MemoryNext]_memory PROVE HInv'
  OBVIOUS
<1>1. ASSUME UNCHANGED heap, UNCHANGED <<running_thread_tid, exited>>,
             DOMAIN threads' \subseteq DOMAIN threads
      PROVE  HInv'
  BY <1>1, SameObjects DEF Executing, cur
<1>2. CASE Spawn /\ NewObject
  BY <1>2, SpawnHeap
<1>3. CASE Exit /\ DeleteAll
  BY <1>3 DEF Exit, handleForcedExit, DeleteAll, Delete, HInv
<1>4. CASE Terminate /\ TerminateObject
  BY <1>1, <1>4 DEF Terminate, TerminateObject, Without, Restrict
<1>5. CASE UNCHANGED heap /\ (Block \/ Resume \/ Sleep)
  BY <1>1, <1>5 DEF Block, Resume, Sleep
<1>6. CASE UNCHANGED heap /\ (Expire \/ Deliver \/ Return \/ ReturnBlocked \/ NoEffect
                              \/ Save \/ Resumed)
  BY <1>1, <1>6
     DEF Expire, Deliver, Return, ReturnBlocked, NoEffect, Save, Resumed, data, vars
<1>7. ASSUME UNCHANGED heap, NEW fn, NEW a, Call(fn, a) PROVE HInv'
  BY <1>1, <1>7 DEF Call, data, vars
<1>8. CASE UNCHANGED heap /\ Switch
  BY <1>8, SwitchHeap, SameObjects
<1>9. CASE UNCHANGED heap /\ SystemCallFails
  BY <1>9, SameObjects DEF SystemCallFails, handleErrorSystemCall
<1>10. CASE UNCHANGED memory
  BY <1>1, <1>10 DEF memory, data, vars
<1>11. QED
  BY <1>2, <1>3, <1>4, <1>5, <1>6, <1>7, <1>8, <1>9, <1>10 DEF MemoryNext

-----------------------------------------------------------------------------
(* The theorem.                                                            *)

\* No thread that can still execute loses its object, or shares it: a
\* terminated thread keeps the stack that it switches away from.
THEOREM NeverUsedAfterDelete == MemorySpec => []NoUseAfterDelete
<1>1. MemoryInit => HInv
  <2> SUFFICES ASSUME MemoryInit PROVE HInv
    OBVIOUS
  <2>1. 0 \in Tid /\ DOMAIN threads = {0} /\ cur = 0
    BY ConstantsAssumption DEF MemoryInit, PreemptionInit, Init, Tid, cur
  <2>2. QED
    BY <2>1 DEF MemoryInit, HInv, Executing
<1>2. PInv /\ PInv' /\ HInv /\ [MemoryNext]_memory => HInv'
  BY HeapStep
<1>3. HInv => NoUseAfterDelete
  BY DEF HInv, NoUseAfterDelete, Executing
<1>4. QED
  BY <1>1, <1>2, <1>3, MemoryBehaves, SectionsInvariant, PTL DEF MemorySpec, memory
=============================================================================
