--------------------------- MODULE ContractsProof ---------------------------
(***************************************************************************)
(* Proofs that Scheduler keeps its promises to the single thread, for      *)
(* every number of threads: nobody runs before its nap is over, provided   *)
(* that no deadline goes beyond INT_MAX, and nobody waits for longer than  *)
(* it had threads in front of it.                                          *)
(*                                                                         *)
(* The history variable nap is the same map as sleeping_threads, and turn  *)
(* is never nearer than the place in the deque.                            *)
(***************************************************************************)
EXTENDS WaitContract, RoundRobinProof

-----------------------------------------------------------------------------
(* The promise of uthread_sleep.                                           *)

\* The promise and the sleeping map are one.
NapsAreDeadlines == ~exited => nap = sleeping_threads

\* A sleep makes the same promise as the deadline, and the others let both pass
\* away in the quantum they are about.
LEMMA ContractStep ==
    ASSUME NoDeadlineWraps, IInv, IInv', DeadlinesFit, NapsAreDeadlines, ContractNext
    PROVE  DeadlinesFit' /\ NapsAreDeadlines'
<1>1. exited = FALSE /\ Next
  BY DEF ContractNext, Other, Sleep, Next, OtherCalls, change_thread, handleErrorSystemCall,
         uthread_spawn, uthread_terminate, uthread_block, uthread_resume, uthread_sleep,
         IInv, TypeOK
<1>2. exited' \in BOOLEAN /\ nap = sleeping_threads
  BY <1>1 DEF IInv, TypeOK, NapsAreDeadlines
<1>3. CASE exited' = TRUE
  BY <1>1, <1>3, ExitFits DEF NapsAreDeadlines
<1>4. CASE exited' = FALSE /\ Other
  <2>1. DeadlinesFit' /\ sleeping_threads' = Later(sleeping_threads)
    BY <1>1, <1>4, OtherCallsLater DEF Other
  <2>2. nap' = Later(sleeping_threads)
    BY <1>2, <1>4 DEF Other, Lasting, Restrict, Later
  <2>3. QED
    BY <2>1, <2>2 DEF NapsAreDeadlines
<1>5. ASSUME exited' = FALSE, NEW n \in SleepArgs, Sleep(n)
      PROVE  DeadlinesFit' /\ NapsAreDeadlines'
  <2>1. CASE MaySleep(n)
    <3>1. DeadlinesFit' /\ sleeping_threads' = Later(WithDeadline(n))
      BY <1>5, <2>1, SleepLater DEF Sleep, uthread_sleep
    <3>2. Promised(n) = WithDeadline(n)
      BY <1>2 DEF Promised, WithDeadline, Deadline
    <3>3. nap' = Later(WithDeadline(n))
      BY <1>5, <2>1, <3>2 DEF Sleep, Lasting, Restrict, Later
    <3>4. QED
      BY <3>1, <3>3 DEF NapsAreDeadlines
  <2>2. CASE ~MaySleep(n)
    <3>1. UNCHANGED vars
      BY <1>5, <2>2 DEF Sleep, uthread_sleep, handleErrorLibrary
    <3>2. DeadlinesFit' /\ sleeping_threads' = Later(sleeping_threads)
      BY <1>1, <1>5, <3>1, UntouchedLater DEF vars
    <3>3. nap' = Later(sleeping_threads)
      BY <1>2, <1>5, <2>2 DEF Sleep, Lasting, Restrict, Later
    <3>4. QED
      BY <3>2, <3>3 DEF NapsAreDeadlines
  <2>3. QED
    BY <2>1, <2>2
<1>6. QED
  BY <1>2, <1>3, <1>4, <1>5 DEF ContractNext

\* The sleeping thread that uthreads.h promises to keep off the processor for
\* num_quantums quantums is kept off it: whatever is done to it meanwhile, no
\* thread runs before its nap is over.
THEOREM SleepAlwaysHonoured ==
    ASSUME NoDeadlineWraps
    PROVE  ContractSpec => []SleepHonoured
<1>1. ContractInit => Init /\ DeadlinesFit /\ NapsAreDeadlines
  BY DEF ContractInit, Init, DeadlinesFit, NapsAreDeadlines
<1>2. [ContractNext]_<<vars, nap>> => [Next]_vars
  BY DEF ContractNext, Other, Sleep, Next
<1>3. IInv /\ IInv' /\ DeadlinesFit /\ NapsAreDeadlines /\ [ContractNext]_<<vars, nap>>
          => DeadlinesFit' /\ NapsAreDeadlines'
  <2>1. CASE UNCHANGED <<vars, nap>>
    BY <2>1 DEF vars, DeadlinesFit, NapsAreDeadlines
  <2>2. QED
    BY <2>1, ContractStep
<1>4. IInv /\ NapsAreDeadlines => SleepHonoured
  BY DEF IInv, SleepersExist, NapsAreDeadlines, SleepHonoured
<1>5. QED
  BY <1>1, <1>2, <1>3, <1>4, Invariance, PTL DEF ContractSpec, Spec

-----------------------------------------------------------------------------
(* The promise of the deque.                                               *)

\* A quantum at a time.
LEMMA OneQuantum == IInv /\ Next => total_quantums' \in {total_quantums, total_quantums + 1}
BY DEF Next, OtherCalls, change_thread, handleErrorSystemCall, uthread_spawn, add_new_thread,
       uthread_terminate, remove_all, remove_other_thread, remove_running_thread,
       uthread_block, block_other_thread, block_running_thread, uthread_resume,
       unblock_thread, uthread_sleep, sleep_running_thread, run_next_thread,
       handleErrorLibrary, vars

\* A deque without the running thread has at most all the others in it.
LEMMA DequeRoom ==
    ASSUME NEW q \in Seq(Tid), IsInjective(q), NEW run \in Tid, run \notin Range(q)
    PROVE  Len(q) \in Nat /\ Len(q) <= MAX_THREAD_NUM - 1
<1> DEFINE others == Tid \ {run}
<1>1. Len(q) \in Nat /\ DOMAIN q = 1 .. Len(q)
  BY LenProperties
<1>2. q \in [1 .. Len(q) -> others]
  BY <1>1 DEF Range
<1>3. q \in Injection(1 .. Len(q), others)
  BY <1>1, <1>2 DEF Injection
<1>4. IsFiniteSet(Tid) /\ Cardinality(Tid) = MAX_THREAD_NUM
  BY ConstantsAssumption, FS_Interval DEF Tid
<1>5. IsFiniteSet(others) /\ Cardinality(others) = MAX_THREAD_NUM - 1
  BY <1>4, FS_RemoveElement
<1>6. Cardinality(1 .. Len(q)) <= Cardinality(others)
  BY <1>3, <1>5, FS_Injection
<1>7. Cardinality(1 .. Len(q)) = Len(q)
  BY <1>1, FS_Interval
<1>8. QED
  BY <1>1, <1>5, <1>6, <1>7

\* The turn of the thread at place i is at least i quantums away.
TurnsAhead ==
    ~exited =>
        \A i \in DOMAIN ready_threads :
            turn[ready_threads[i]] \in total_quantums + i .. total_quantums + MAX_THREAD_NUM - 1

LEMMA TurnsStep ==
    ASSUME IInv, IInv', TurnsAhead, WaitNext
    PROVE  TurnsAhead'
<1> SUFFICES ASSUME exited' = FALSE, NEW j \in DOMAIN ready_threads'
             PROVE  turn'[ready_threads'[j]] \in
                        total_quantums' + j .. total_quantums' + MAX_THREAD_NUM - 1
  BY DEF TurnsAhead, IInv, TypeOK
<1> DEFINE tid == ready_threads'[j]
<1>1. ~exited /\ Next /\ turn' = Turns
  BY DEF WaitNext, ContractNext, Other, Sleep, Next, OtherCalls, change_thread,
         handleErrorSystemCall, uthread_spawn, uthread_terminate,
         uthread_block, uthread_resume, uthread_sleep
<1>2. /\ total_quantums \in Nat /\ total_quantums' \in Nat /\ MAX_THREAD_NUM \in Nat
      /\ total_quantums' \in {total_quantums, total_quantums + 1}
  BY <1>1, OneQuantum, ConstantsAssumption DEF IInv, TypeOK
<1>3. j \in Nat /\ j <= MAX_THREAD_NUM - 1
  <2>1. /\ ready_threads' \in Seq(Tid) /\ IsInjective(ready_threads')
        /\ running_thread_tid' \in Tid /\ running_thread_tid' \notin Range(ready_threads')
    BY DEF IInv, TypeOK, StatesAgree, QueueExact
  <2>2. Len(ready_threads') \in Nat /\ Len(ready_threads') <= MAX_THREAD_NUM - 1
    BY <2>1, DequeRoom
  <2>3. DOMAIN ready_threads' = 1 .. Len(ready_threads')
    BY <2>1, LenProperties
  <2>4. QED
    BY <1>2, <2>2, <2>3
<1>4. tid \in Range(ready_threads')
  BY DEF Range
<1>5. CASE tid \in Range(ready_threads)
  <2>1. turn'[tid] = turn[tid]
    BY <1>1, <1>4, <1>5 DEF Turns
  <2>2. PICK i \in DOMAIN ready_threads : ready_threads[i] = tid
    BY <1>5 DEF Range
  <2>3. i \in Nat
    BY LenProperties DEF IInv, TypeOK
  <2>4. j + (total_quantums' - total_quantums) <= i
    BY <1>1, <2>2, OrderStep DEF FirstInFirstOut, Advances
  <2>5. turn[tid] \in total_quantums + i .. total_quantums + MAX_THREAD_NUM - 1
    BY <1>1, <2>2 DEF TurnsAhead
  <2>6. QED
    BY <1>2, <1>3, <2>1, <2>3, <2>4, <2>5
<1>6. CASE tid \notin Range(ready_threads)
  <2>1. turn'[tid] = total_quantums' + PlaceIn(ready_threads', tid)
    BY <1>1, <1>4, <1>6 DEF Turns
  <2>2. IsInjective(ready_threads')
    BY DEF IInv, QueueExact
  <2>3. PlaceIn(ready_threads', tid) = j
    BY <2>2 DEF PlaceIn, IsInjective
  <2>4. QED
    BY <1>2, <1>3, <2>1, <2>3
<1>7. QED
  BY <1>5, <1>6

\* A thread that comes to the end of the deque runs within as many quantums as it
\* had threads in front of it and one, and so within MAX_THREAD_NUM - 1 quantums,
\* whatever the others do with their calls.
THEOREM TurnsAlwaysKept == WaitSpec => []TurnsKept
<1>1. WaitInit => Init /\ TurnsAhead
  BY DEF WaitInit, ContractInit, Init, TurnsAhead
<1>2. [WaitNext]_<<vars, nap, turn>> => [Next]_vars
  BY DEF WaitNext, ContractNext, Other, Sleep, Next
<1>3. IInv /\ IInv' /\ TurnsAhead /\ [WaitNext]_<<vars, nap, turn>> => TurnsAhead'
  <2>1. CASE UNCHANGED <<vars, nap, turn>>
    BY <2>1 DEF vars, TurnsAhead
  <2>2. QED
    BY <2>1, TurnsStep
<1>4. IInv /\ TurnsAhead => TurnsKept
  <2> SUFFICES ASSUME IInv, TurnsAhead, ~exited, NEW tid \in Range(ready_threads)
               PROVE  turn[tid] \in total_quantums + 1 .. total_quantums + MAX_THREAD_NUM - 1
    BY DEF TurnsKept
  <2>1. PICK i \in DOMAIN ready_threads : ready_threads[i] = tid
    BY DEF Range
  <2>2. i \in Nat \ {0} /\ total_quantums \in Nat /\ MAX_THREAD_NUM \in Nat
    BY LenProperties, ConstantsAssumption DEF IInv, TypeOK
  <2>3. QED
    BY <2>1, <2>2 DEF TurnsAhead
<1>5. QED
  BY <1>1, <1>2, <1>3, <1>4, Invariance, PTL DEF WaitSpec, Spec
=============================================================================
