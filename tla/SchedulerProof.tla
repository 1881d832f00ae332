-------------------------- MODULE SchedulerProof ---------------------------
(***************************************************************************)
(* Proofs that the invariants of Scheduler hold for every number of        *)
(* threads, every set of sleep arguments and every bound on the quantums.  *)
(*                                                                         *)
(* None of the invariants is inductive alone.  That the deque has an       *)
(* element for run_next_thread to take needs MainSchedulable, that every   *)
(* ready thread is queued needs the deque, the sleeping map and the states *)
(* to agree (QueueExact, SleepersExist, StatesAgree), and that erasing a   *)
(* thread from the deque removes it needs the deque to hold it once.  Their *)
(* conjunction IInv is inductive.                                          *)
(***************************************************************************)
EXTENDS Scheduler, ListingsProof

IInv ==
    /\ TypeOK
    /\ StatesAgree
    /\ QueueExact
    /\ SleepersExist
    /\ MainSchedulable

-----------------------------------------------------------------------------
(* Sequences that list the elements of a set.                              *)

\* q lists the threads of S, each of them once.
Lists(q, S) == q \in Seq(Tid) /\ IsInjective(q) /\ Range(q) = S

\* The threads are finitely many, and so is every set of them.
LEMMA TidsFinite ==
    ASSUME NEW S \in SUBSET Tid
    PROVE  IsFiniteSet(S)
<1>1. IsFiniteSet(Tid)
  BY ConstantsAssumption, FS_Interval DEF Tid
<1>2. QED
  BY <1>1, FS_Subset

\* Appending a thread that is not in the deque (ready_thread, add_new_thread).
LEMMA AppendLists ==
    ASSUME NEW q, NEW S, Lists(q, S), NEW tid \in Tid, tid \notin S
    PROVE  Lists(Append(q, tid), S \cup {tid})
BY AppendListing DEF Lists, ListsIn

\* Appending the woken threads, none of which is in the deque.
LEMMA ConcatLists ==
    ASSUME NEW q, NEW S, Lists(q, S), NEW w, NEW W, Lists(w, W), S \cap W = {}
    PROVE  Lists(q \o w, S \cup W)
BY ConcatListings DEF Lists, ListsIn

\* Taking the front of a deque that holds something.
LEMMA TailLists ==
    ASSUME NEW q, NEW S, Lists(q, S), S # {}
    PROVE  Head(q) \in S /\ Lists(Tail(q), S \ {Head(q)})
BY TailListing DEF Lists, ListsIn

\* The loop of remove_thread_from_ready erases every position of the thread from
\* a deque that holds it at most once.
LEMMA ErasesAll ==
    ASSUME ready_threads \in Seq(Tid), IsInjective(ready_threads), NEW tid
    PROVE  ErasedAt(tid) = {i \in DOMAIN ready_threads : ready_threads[i] = tid}
<1> DEFINE D == DOMAIN ready_threads
           E == ErasedAt(tid)
           W == {i \in D : ready_threads[i] = tid}
<1>1. /\ Len(ready_threads) \in Nat /\ D = 1 .. Len(ready_threads)
      /\ \A i, j \in D : ready_threads[i] = ready_threads[j] => i = j
  BY LenProperties DEF IsInjective
<1>2. ASSUME NEW i \in D, ready_threads[i] = tid PROVE i - 1 \notin W
  BY <1>2, <1>1
<1>3. \A i \in D : i \in W <=> ready_threads[i] = tid /\ i - 1 \notin W
  BY <1>2
<1>4. /\ E \in SUBSET D
      /\ \A i \in D : i \in E <=> ready_threads[i] = tid /\ i - 1 \notin E
  BY <1>3 DEF ErasedAt
<1>5. \A i \in E : i \in D /\ ready_threads[i] = tid
  BY <1>4
<1>6. ASSUME NEW i \in W PROVE i \in E
  <2>1. i - 1 \notin E
    BY <1>5, <1>1
  <2>2. QED
    BY <2>1, <1>4
<1>7. QED
  BY <1>5, <1>6

\* So it removes the thread, and nothing else.
LEMMA EraseLists ==
    ASSUME NEW S, Lists(ready_threads, S), NEW tid,
           NEW q \in remove_thread_from_ready(tid)
    PROVE  Lists(q, S \ {tid})
<1> DEFINE D == DOMAIN ready_threads
           E == ErasedAt(tid)
<1>1. E = {i \in D : ready_threads[i] = tid}
  BY ErasesAll DEF Lists
<1>2. PICK kept \in Ascending(D \ E) :
          q = [j \in DOMAIN kept |-> ready_threads[kept[j]]]
  BY DEF remove_thread_from_ready
<1>3. ListsIn(Tid, q, {ready_threads[i] : i \in D \ E})
  <2>1. ListsIn(Tid, ready_threads, S)
    BY DEF Lists, ListsIn
  <2>2. D \ E \in SUBSET DOMAIN ready_threads
    OBVIOUS
  <2> HIDE DEF E
  <2>3. QED
    BY <1>2, <2>1, <2>2, KeptListing
<1>4. {ready_threads[i] : i \in D \ E} = S \ {tid}
  BY <1>1 DEF Lists, Range
<1>5. QED
  BY <1>3, <1>4 DEF Lists, ListsIn

-----------------------------------------------------------------------------
(* Waking up and dispatching.                                              *)

\* The threads of ths that ready_threads has to hold when sleeping is the map.
Waiting(ths, sleeping) ==
    {tid \in DOMAIN ths : ths[tid].state = "READY" /\ tid \notin DOMAIN sleeping}

\* The sleeping map sl and the thread map ths have their types, and only
\* threads other than the main one sleep.
MapsOK(ths, sl) ==
    /\ DOMAIN ths \subseteq Tid
    /\ ths \in [DOMAIN ths -> Thread]
    /\ sl \in [DOMAIN sl -> 0 .. 2 * INT_MAX + 1]
    /\ DOMAIN sl \subseteq DOMAIN ths \ {0}

\* _handle_sleep_threads queues the threads it wakes, each of them once.
LEMMA WakeUp ==
    ASSUME NEW ths, NEW sl, MapsOK(ths, sl),
           Lists(ready_threads, Waiting(ths, sl)),
           NEW awake \in handle_sleep_threads(ths, sl)
    PROVE  /\ MapsOK(ths, awake.sleeping)
           /\ DOMAIN awake.sleeping \subseteq DOMAIN sl
           /\ \A tid \in DOMAIN awake.sleeping :
                 /\ awake.sleeping[tid] = sl[tid]
                 /\ ToInt(sl[tid]) # INT_MIN => ~IsDue(sl[tid])
           /\ Lists(awake.ready, Waiting(ths, awake.sleeping))
<1>0. PICK due \in DueSets(sl) :
          \E woken \in Ascending({tid \in due : ths[tid].state = "READY"}) :
             awake = [ready |-> ready_threads \o woken, sleeping |-> Without(sl, due)]
  BY DEF handle_sleep_threads
<1> DEFINE W == {tid \in due : ths[tid].state = "READY"}
<1>1. PICK woken \in Ascending(W) :
          awake = [ready |-> ready_threads \o woken, sleeping |-> Without(sl, due)]
  BY <1>0
<1>2. /\ due \subseteq DOMAIN sl
      /\ \A tid \in DOMAIN sl \ due : ToInt(sl[tid]) # INT_MIN => ~IsDue(sl[tid])
  BY DEF DueSets
<1>3. /\ awake.sleeping = [tid \in DOMAIN sl \ due |-> sl[tid]]
      /\ awake.ready = ready_threads \o woken
  BY <1>1 DEF Without, Restrict
<1>4. W \subseteq Tid /\ W \subseteq DOMAIN ths
  BY <1>2 DEF MapsOK
<1>5. Lists(woken, W)
  <2>1. woken \in Seq(W) /\ IsInjective(woken) /\ Range(woken) = W
    BY <1>1, <1>4, TidsFinite, AscendingLists
  <2>2. QED
    BY <2>1, <1>4, SeqMonotonic DEF Lists
<1>6. Waiting(ths, sl) \cap W = {}
  BY <1>2 DEF Waiting
<1>7. Waiting(ths, awake.sleeping) = Waiting(ths, sl) \cup W
  BY <1>2, <1>3, <1>4 DEF Waiting
<1>8. Lists(awake.ready, Waiting(ths, awake.sleeping))
  <2>1. Lists(ready_threads \o woken, Waiting(ths, sl) \cup W)
    BY <1>5, <1>6, ConcatLists
  <2>2. QED
    BY <2>1, <1>3, <1>7
<1>9. MapsOK(ths, awake.sleeping)
  BY <1>3 DEF MapsOK
<1>10. QED
  BY <1>2, <1>3, <1>8, <1>9

\* run_next_thread establishes the invariant when no thread runs and the main
\* thread waits in the deque.
LEMMA Dispatch ==
    ASSUME NEW ths, NEW ready, NEW sl, MapsOK(ths, sl),
           total_quantums \in 1 .. MaxQuantums,
           \A tid \in DOMAIN ths : ths[tid].state # "RUNNNING",
           Lists(ready, Waiting(ths, sl)),
           0 \in DOMAIN ths, ths[0].state = "READY",
           blocked_threads' = {tid \in DOMAIN ths : ths[tid].state = "BLOCKED"},
           exited' = FALSE,
           run_next_thread(ths, ready, sl)
    PROVE  IInv'
<1> DEFINE next == Head(ready)
           charged == [state |-> "RUNNNING", quantum_t |-> ths[next].quantum_t + 1]
<1>1. 0 \in Waiting(ths, sl)
  BY DEF Waiting, MapsOK
<1>2. /\ next \in Waiting(ths, sl)
      /\ Lists(Tail(ready), Waiting(ths, sl) \ {next})
  BY <1>1, TailLists
<1>3. next \in DOMAIN ths /\ next \in Tid /\ next \notin DOMAIN sl
  BY <1>2 DEF Waiting, MapsOK
<1>4. /\ total_quantums' = total_quantums + 1 /\ total_quantums < MaxQuantums
      /\ running_thread_tid' = next
      /\ ready_threads' = Tail(ready)
      /\ sleeping_threads' = sl
      /\ threads' = [ths EXCEPT ![next] = charged]
  BY DEF run_next_thread
<1>5. charged \in Thread
  BY <1>3 DEF MapsOK, Thread, State
<1>6. /\ DOMAIN threads' = DOMAIN ths
      /\ threads'[next] = charged
      /\ \A tid \in DOMAIN ths : tid # next => threads'[tid] = ths[tid]
      /\ threads' \in [DOMAIN ths -> Thread]
  BY <1>3, <1>4, <1>5 DEF MapsOK
<1>7. TypeOK'
  <2>1. blocked_threads' \subseteq Tid
    BY DEF MapsOK
  <2>2. total_quantums' \in 1 .. MaxQuantums
    BY <1>4, ConstantsAssumption
  <2>3. ready_threads' \in Seq(Tid)
    BY <1>2, <1>4 DEF Lists
  <2>4. QED
    BY <1>3, <1>4, <1>6, <2>1, <2>2, <2>3 DEF TypeOK, MapsOK
<1>8. StatesAgree'
  <2>1. \A tid \in DOMAIN threads' :
            threads'[tid].state = "RUNNNING" <=> tid = running_thread_tid'
    BY <1>4, <1>6
  <2>2. ths[next].state = "READY" /\ threads'[next].state = "RUNNNING"
    BY <1>2, <1>6 DEF Waiting
  <2>3. blocked_threads' = {tid \in DOMAIN threads' : threads'[tid].state = "BLOCKED"}
    BY <1>6, <2>2
  <2>4. QED
    BY <1>3, <1>4, <1>6, <2>1, <2>3 DEF StatesAgree
<1>9. QueueExact'
  <2>1. Waiting(ths, sl) \ {next} = Waiting(threads', sl)
    BY <1>2, <1>6 DEF Waiting
  <2>2. QED
    BY <1>2, <1>4, <2>1 DEF QueueExact, Lists, Waiting
<1>10. SleepersExist'
  BY <1>3, <1>4, <1>6 DEF SleepersExist, MapsOK
<1>11. MainSchedulable'
  <2>1. next = 0 \/ 0 \in Range(Tail(ready))
    BY <1>1, <1>2 DEF Lists
  <2>2. QED
    BY <1>4, <1>6, <2>1 DEF MainSchedulable
<1>12. QED
  BY <1>7, <1>8, <1>9, <1>10, <1>11 DEF IInv

\* The running thread has stopped for good or for a while (terminate, block,
\* sleep): _handle_sleep_threads and run_next_thread restore the invariant.
LEMMA WakeAndDispatch ==
    ASSUME NEW ths, NEW sl, MapsOK(ths, sl),
           total_quantums \in 1 .. MaxQuantums,
           \A tid \in DOMAIN ths : ths[tid].state # "RUNNNING",
           Lists(ready_threads, Waiting(ths, sl)),
           0 \in DOMAIN ths, ths[0].state = "READY",
           blocked_threads' = {tid \in DOMAIN ths : ths[tid].state = "BLOCKED"},
           exited' = FALSE,
           NEW awake \in handle_sleep_threads(ths, sl),
           run_next_thread(ths, awake.ready, awake.sleeping)
    PROVE  IInv'
<1>1. /\ MapsOK(ths, awake.sleeping)
      /\ Lists(awake.ready, Waiting(ths, awake.sleeping))
  BY WakeUp
<1>2. QED
  BY <1>1, Dispatch

-----------------------------------------------------------------------------
(* The invariant is inductive: one lemma for each action.                  *)

\* What the invariant says before the process has exited, as the lemmas use it.
LEMMA RunningInv ==
    ASSUME IInv, ~exited
    PROVE  /\ exited = FALSE
           /\ total_quantums \in 1 .. MaxQuantums
           /\ MapsOK(threads, sleeping_threads)
           /\ Lists(ready_threads, Waiting(threads, sleeping_threads))
           /\ running_thread_tid \in DOMAIN threads
           /\ running_thread_tid \notin DOMAIN sleeping_threads
           /\ running_thread_tid \in Tid
           /\ \A tid \in DOMAIN threads :
                 threads[tid].state = "RUNNNING" <=> tid = running_thread_tid
           /\ blocked_threads = {tid \in DOMAIN threads : threads[tid].state = "BLOCKED"}
           /\ 0 \in DOMAIN threads
           /\ 0 = running_thread_tid \/ threads[0].state = "READY"
           /\ \A tid \in DOMAIN threads : threads[tid] \in Thread /\ tid \in Tid
<1>1. exited = FALSE
  BY DEF IInv, TypeOK
<1>2. MapsOK(threads, sleeping_threads)
  BY DEF IInv, TypeOK, SleepersExist, MapsOK
<1>3. Lists(ready_threads, Waiting(threads, sleeping_threads))
  BY DEF IInv, TypeOK, QueueExact, Lists, Waiting
<1>4. 0 = running_thread_tid \/ threads[0].state = "READY"
  BY <1>3 DEF IInv, MainSchedulable, Lists, Waiting
<1>5. QED
  BY <1>1, <1>2, <1>3, <1>4
  DEF IInv, TypeOK, StatesAgree, SleepersExist, MainSchedulable, MapsOK

\* The converse: a step that starts no quantum establishes the invariant so.
LEMMA SameQuantum ==
    ASSUME total_quantums' \in 1 .. MaxQuantums,
           MapsOK(threads', sleeping_threads'),
           Lists(ready_threads', Waiting(threads', sleeping_threads')),
           running_thread_tid' \in DOMAIN threads',
           running_thread_tid' \notin DOMAIN sleeping_threads',
           \A tid \in DOMAIN threads' :
               threads'[tid].state = "RUNNNING" <=> tid = running_thread_tid',
           blocked_threads' = {tid \in DOMAIN threads' : threads'[tid].state = "BLOCKED"},
           0 \in DOMAIN threads',
           0 = running_thread_tid' \/ threads'[0].state = "READY",
           exited' \in BOOLEAN
    PROVE  IInv'
<1>1. TypeOK'
  BY DEF TypeOK, MapsOK, Lists
<1>2. StatesAgree'
  BY DEF StatesAgree
<1>3. QueueExact'
  BY DEF QueueExact, Lists, Waiting
<1>4. SleepersExist'
  BY DEF SleepersExist, MapsOK
<1>5. MainSchedulable'
  <2>1. 0 \notin DOMAIN sleeping_threads'
    BY DEF MapsOK
  <2>2. QED
    BY <2>1 DEF MainSchedulable, Lists, Waiting
<1>6. QED
  BY <1>1, <1>2, <1>3, <1>4, <1>5 DEF IInv

\* The initial state: the main thread runs, alone.
LEMMA InitInv == Init => IInv
<1> SUFFICES ASSUME Init PROVE IInv
  OBVIOUS
<1>1. 0 \in Tid /\ 1 \in 1 .. MaxQuantums
  BY ConstantsAssumption DEF Tid
<1>2. /\ threads = [tid \in {0} |-> [state |-> "RUNNNING", quantum_t |-> 1]]
      /\ ready_threads = <<>> /\ blocked_threads = {}
      /\ sleeping_threads = [tid \in {} |-> 0]
      /\ running_thread_tid = 0 /\ total_quantums = 1 /\ exited = FALSE
  BY DEF Init
<1>3. TypeOK
  BY <1>1, <1>2 DEF TypeOK, Thread, State
<1>4. StatesAgree
  BY <1>2 DEF StatesAgree
<1>5. QueueExact
  BY <1>2 DEF QueueExact, IsInjective, Range
<1>6. SleepersExist
  BY <1>2 DEF SleepersExist
<1>7. MainSchedulable
  BY <1>2 DEF MainSchedulable
<1>8. QED
  BY <1>3, <1>4, <1>5, <1>6, <1>7 DEF IInv

\* Assigning to thread.state leaves the rest of the map as it is.
LEMMA SetState ==
    ASSUME NEW ths, ths \in [DOMAIN ths -> Thread], NEW tid \in DOMAIN ths,
           NEW state \in State
    PROVE  LET new == [ths EXCEPT ![tid].state = state] IN
           /\ DOMAIN new = DOMAIN ths
           /\ new \in [DOMAIN ths -> Thread]
           /\ new[tid].state = state
           /\ \A other \in DOMAIN ths : other # tid => new[other] = ths[other]
BY DEF Thread

\* The timer handler: the running thread joins the deque behind the woken ones.
LEMMA ChangeThreadInv == IInv /\ change_thread => IInv'
<1> SUFFICES ASSUME IInv, change_thread PROVE IInv'
  OBVIOUS
<1> DEFINE run == running_thread_tid
           ths == [threads EXCEPT ![run].state = "READY"]
<1>1. ~exited /\ exited' = FALSE /\ blocked_threads' = blocked_threads
  BY DEF change_thread, IInv, TypeOK
<1>2. PICK awake \in handle_sleep_threads(threads, sleeping_threads) :
          run_next_thread(ths, ready_thread(run, awake.ready, awake.sleeping), awake.sleeping)
  BY DEF change_thread
<1> DEFINE sl == awake.sleeping
<1>3. /\ MapsOK(threads, sl)
      /\ DOMAIN sl \subseteq DOMAIN sleeping_threads
      /\ Lists(awake.ready, Waiting(threads, sl))
  BY <1>1, RunningInv, WakeUp
<1>4. /\ DOMAIN ths = DOMAIN threads /\ ths \in [DOMAIN threads -> Thread]
      /\ ths[run].state = "READY"
      /\ \A tid \in DOMAIN threads : tid # run => ths[tid] = threads[tid]
  <2>1. threads \in [DOMAIN threads -> Thread] /\ run \in DOMAIN threads
    BY <1>1, RunningInv DEF MapsOK
  <2>2. "READY" \in State
    BY DEF State
  <2>3. QED
    BY <2>1, <2>2, SetState
<1>5. run \notin DOMAIN sl
  BY <1>1, <1>3, RunningInv
<1>6. ready_thread(run, awake.ready, sl) = Append(awake.ready, run)
  BY <1>5 DEF ready_thread
<1>7. Lists(Append(awake.ready, run), Waiting(ths, sl))
  <2>1. run \in Tid /\ run \notin Waiting(threads, sl)
    BY <1>1, RunningInv DEF Waiting
  <2>2. Lists(Append(awake.ready, run), Waiting(threads, sl) \cup {run})
    BY <1>3, <2>1, AppendLists
  <2>3. Waiting(ths, sl) = Waiting(threads, sl) \cup {run}
    BY <1>1, <1>4, <1>5, RunningInv DEF Waiting
  <2>4. QED
    BY <2>2, <2>3
<1>8. MapsOK(ths, sl)
  BY <1>3, <1>4 DEF MapsOK
<1>9. /\ \A tid \in DOMAIN ths : ths[tid].state # "RUNNNING"
      /\ 0 \in DOMAIN ths /\ ths[0].state = "READY"
      /\ blocked_threads' = {tid \in DOMAIN ths : ths[tid].state = "BLOCKED"}
  BY <1>1, <1>4, RunningInv
<1>10. total_quantums \in 1 .. MaxQuantums
  BY <1>1, RunningInv
<1>11. run_next_thread(ths, Append(awake.ready, run), sl)
  BY <1>2, <1>6
<1>12. QED
  BY <1>1, <1>7, <1>8, <1>9, <1>10, <1>11, Dispatch

\* uthread_spawn: the new thread's id is free, and no residue of a former
\* thread with that id is in any container.
LEMMA SpawnInv == IInv /\ uthread_spawn => IInv'
<1> SUFFICES ASSUME IInv, uthread_spawn PROVE IInv'
  OBVIOUS
<1>1. CASE UNCHANGED vars
  BY <1>1 DEF vars, IInv, TypeOK, StatesAgree, QueueExact, SleepersExist, MainSchedulable
<1>2. ASSUME NEW tid \in Tid, ~exited, add_new_thread(tid) PROVE IInv'
  <2>1. /\ tid \notin DOMAIN threads
        /\ threads' = [t \in DOMAIN threads \cup {tid} |->
                          IF t = tid THEN [state |-> "READY", quantum_t |-> 0]
                                     ELSE threads[t]]
        /\ ready_threads' = Append(ready_threads, tid)
        /\ UNCHANGED <<blocked_threads, sleeping_threads, running_thread_tid,
                       total_quantums, exited>>
    BY <1>2 DEF add_new_thread
  <2>2. tid \notin DOMAIN sleeping_threads /\ tid \notin Waiting(threads, sleeping_threads)
    BY <1>2, <2>1, RunningInv DEF MapsOK, Waiting
  <2>3. /\ DOMAIN threads' = DOMAIN threads \cup {tid}
        /\ threads'[tid] = [state |-> "READY", quantum_t |-> 0]
        /\ \A t \in DOMAIN threads : threads'[t] = threads[t]
    BY <2>1
  <2>4. threads' \in [DOMAIN threads' -> Thread]
    BY <1>2, <2>1, <2>3, RunningInv DEF Thread, State
  <2>5. MapsOK(threads', sleeping_threads')
    BY <1>2, <2>1, <2>3, <2>4, RunningInv DEF MapsOK
  <2>6. Lists(ready_threads', Waiting(threads', sleeping_threads'))
    <3>1. Waiting(threads', sleeping_threads') =
            Waiting(threads, sleeping_threads) \cup {tid}
      BY <2>1, <2>2, <2>3 DEF Waiting
    <3>2. Lists(Append(ready_threads, tid), Waiting(threads, sleeping_threads) \cup {tid})
      BY <1>2, <2>2, RunningInv, AppendLists
    <3>3. QED
      BY <3>1, <3>2, <2>1
  <2>7. QED
    BY <1>2, <2>1, <2>3, <2>5, <2>6, RunningInv, SameQuantum
<1>3. QED
  BY <1>1, <1>2 DEF uthread_spawn, handleErrorLibrary

\* A call that is refused, or has no effect.
LEMMA StutterInv == IInv /\ UNCHANGED vars => IInv'
BY DEF vars, IInv, TypeOK, StatesAgree, QueueExact, SleepersExist, MainSchedulable

\* Termination of a thread that waits, sleeps or is blocked: no container
\* keeps its id.
LEMMA RemoveOtherInv ==
    ASSUME IInv, ~exited, NEW tid, tid # 0, check_thread(tid), remove_other_thread(tid)
    PROVE  IInv'
<1>1. /\ threads' = Without(threads, {tid})
      /\ sleeping_threads' = Without(sleeping_threads, {tid})
      /\ UNCHANGED <<running_thread_tid, total_quantums, exited>>
  BY DEF remove_other_thread
<1>2. tid \in DOMAIN threads /\ tid # running_thread_tid
  BY RunningInv DEF check_thread, remove_other_thread
<1>3. /\ DOMAIN threads' = DOMAIN threads \ {tid}
      /\ threads' \in [DOMAIN threads' -> Thread]
      /\ \A t \in DOMAIN threads' : threads'[t] = threads[t]
  <2>1. threads \in [DOMAIN threads -> Thread]
    BY RunningInv DEF MapsOK
  <2>2. QED
    BY <1>1, <2>1 DEF Without, Restrict
<1>4. /\ DOMAIN sleeping_threads' = DOMAIN sleeping_threads \ {tid}
      /\ sleeping_threads' \in [DOMAIN sleeping_threads' -> 0 .. 2 * INT_MAX + 1]
  BY <1>1, RunningInv DEF MapsOK, Without, Restrict
<1>5. MapsOK(threads', sleeping_threads')
  BY <1>3, <1>4, RunningInv DEF MapsOK
<1>6. Waiting(threads', sleeping_threads') = Waiting(threads, sleeping_threads) \ {tid}
  BY <1>3, <1>4 DEF Waiting
<1>7. /\ Lists(ready_threads', Waiting(threads', sleeping_threads'))
      /\ blocked_threads' = blocked_threads \ {tid}
  <2>1. CASE /\ threads[tid].state = "READY"
             /\ ready_threads' \in remove_thread_from_ready(tid)
             /\ UNCHANGED blocked_threads
    <3>1. Lists(ready_threads', Waiting(threads, sleeping_threads) \ {tid})
      BY <2>1, RunningInv, EraseLists
    <3>2. tid \notin blocked_threads
      BY <2>1, RunningInv
    <3>3. QED
      BY <2>1, <3>1, <3>2, <1>6
  <2>2. CASE /\ threads[tid].state = "BLOCKED"
             /\ blocked_threads' = blocked_threads \ {tid}
             /\ UNCHANGED ready_threads
    <3>1. tid \notin Waiting(threads, sleeping_threads)
      BY <2>2 DEF Waiting
    <3>2. Waiting(threads', sleeping_threads') = Waiting(threads, sleeping_threads)
      BY <3>1, <1>6
    <3>3. QED
      BY <2>2, <3>2, RunningInv
  <2>3. QED
    BY <2>1, <2>2 DEF remove_other_thread
<1>8. blocked_threads' = {t \in DOMAIN threads' : threads'[t].state = "BLOCKED"}
  BY <1>3, <1>7, RunningInv
<1>9. QED
  BY <1>1, <1>2, <1>3, <1>4, <1>5, <1>7, <1>8, RunningInv, SameQuantum

\* uthread_terminate: of another thread, of the caller, of the main thread.
LEMMA TerminateInv ==
    ASSUME IInv, NEW tid \in TidArgs, uthread_terminate(tid)
    PROVE  IInv'
<1>0. ~exited
  BY DEF uthread_terminate
<1>1. CASE UNCHANGED vars
  BY <1>1, StutterInv
<1>2. CASE remove_all /\ handleForcedExit
  <2>1. DOMAIN threads' = {} /\ exited' = TRUE
        /\ UNCHANGED <<ready_threads, blocked_threads, sleeping_threads,
                       running_thread_tid, total_quantums>>
    BY <1>2 DEF remove_all, handleForcedExit, Without, Restrict
  <2>2. threads' \in [DOMAIN threads' -> Thread]
    BY <1>2, <2>1 DEF remove_all, Without, Restrict
  <2>3. TypeOK'
    BY <2>1, <2>2 DEF IInv, TypeOK
  <2>4. QED
    BY <2>1, <2>3 DEF IInv, StatesAgree, QueueExact, SleepersExist, MainSchedulable
<1>3. CASE tid # 0 /\ check_thread(tid) /\ remove_other_thread(tid)
  BY <1>0, <1>3, RemoveOtherInv
<1>4. CASE tid # 0 /\ check_thread(tid) /\ remove_running_thread(tid)
  <2> DEFINE rest == Without(threads, {tid})
  <2>1. tid = running_thread_tid /\ blocked_threads' = blocked_threads /\ exited' = FALSE
    BY <1>0, <1>4, RunningInv DEF remove_running_thread, check_thread
  <2>2. /\ DOMAIN rest = DOMAIN threads \ {tid}
        /\ rest \in [DOMAIN rest -> Thread]
        /\ \A t \in DOMAIN rest : rest[t] = threads[t]
    <3>1. threads \in [DOMAIN threads -> Thread]
      BY <1>0, RunningInv DEF MapsOK
    <3>2. QED
      BY <3>1 DEF Without, Restrict
  <2>3. MapsOK(rest, sleeping_threads)
    BY <1>0, <2>1, <2>2, RunningInv DEF MapsOK
  <2>4. Waiting(rest, sleeping_threads) = Waiting(threads, sleeping_threads)
    BY <1>0, <2>1, <2>2, RunningInv DEF Waiting
  <2>5. /\ \A t \in DOMAIN rest : rest[t].state # "RUNNNING"
        /\ 0 \in DOMAIN rest /\ rest[0].state = "READY"
        /\ blocked_threads' = {t \in DOMAIN rest : rest[t].state = "BLOCKED"}
    BY <1>0, <1>4, <2>1, <2>2, RunningInv
  <2>6. PICK awake \in handle_sleep_threads(rest, sleeping_threads) :
            run_next_thread(rest, awake.ready, awake.sleeping)
    BY <1>4 DEF remove_running_thread
  <2>7. /\ Lists(ready_threads, Waiting(rest, sleeping_threads))
        /\ total_quantums \in 1 .. MaxQuantums
    BY <1>0, <2>4, RunningInv
  <2>8. QED
    BY <2>1, <2>3, <2>5, <2>6, <2>7, WakeAndDispatch
<1>5. QED
  BY <1>1, <1>2, <1>3, <1>4 DEF uthread_terminate, handleErrorLibrary

\* uthread_block: of a thread in the deque or asleep, and of the caller.
LEMMA BlockInv ==
    ASSUME IInv, NEW tid \in TidArgs, uthread_block(tid)
    PROVE  IInv'
<1> DEFINE ths == [threads EXCEPT ![tid].state = "BLOCKED"]
<1>0. ~exited
  BY DEF uthread_block
<1>1. CASE UNCHANGED vars
  BY <1>1, StutterInv
<1>2. ASSUME MayBlock(tid)
      PROVE  /\ tid # 0 /\ tid \in DOMAIN threads
             /\ DOMAIN ths = DOMAIN threads /\ ths \in [DOMAIN threads -> Thread]
             /\ ths[tid].state = "BLOCKED"
             /\ \A t \in DOMAIN threads : t # tid => ths[t] = threads[t]
  <2>1. tid # 0 /\ tid \in DOMAIN threads
    BY <1>2 DEF MayBlock, check_thread
  <2>2. threads \in [DOMAIN threads -> Thread] /\ "BLOCKED" \in State
    BY <1>0, RunningInv DEF MapsOK, State
  <2>3. QED
    BY <2>1, <2>2, SetState
<1>3. CASE MayBlock(tid) /\ block_other_thread(tid)
  <2>1. /\ threads[tid].state = "READY" /\ threads' = ths
        /\ blocked_threads' = blocked_threads \cup {tid}
        /\ ready_threads' \in remove_thread_from_ready(tid)
        /\ UNCHANGED <<sleeping_threads, running_thread_tid, total_quantums, exited>>
    BY <1>3 DEF block_other_thread
  <2>2. tid # running_thread_tid
    BY <1>0, <1>2, <1>3, <2>1, RunningInv
  <2>3. Waiting(threads', sleeping_threads') = Waiting(threads, sleeping_threads) \ {tid}
    BY <1>2, <1>3, <2>1 DEF Waiting
  <2>4. Lists(ready_threads', Waiting(threads', sleeping_threads'))
    <3>1. Lists(ready_threads, Waiting(threads, sleeping_threads))
      BY <1>0, RunningInv
    <3>2. Lists(ready_threads', Waiting(threads, sleeping_threads) \ {tid})
      BY <2>1, <3>1, EraseLists
    <3>3. QED
      BY <2>3, <3>2
  <2>5. MapsOK(threads', sleeping_threads')
    BY <1>0, <1>2, <1>3, <2>1, RunningInv DEF MapsOK
  <2>6. blocked_threads' = {t \in DOMAIN threads' : threads'[t].state = "BLOCKED"}
    BY <1>0, <1>2, <1>3, <2>1, RunningInv
  <2>7. \A t \in DOMAIN threads' :
            threads'[t].state = "RUNNNING" <=> t = running_thread_tid'
    BY <1>0, <1>2, <1>3, <2>1, <2>2, RunningInv
  <2>8. 0 \in DOMAIN threads' /\ (0 = running_thread_tid' \/ threads'[0].state = "READY")
    BY <1>0, <1>2, <1>3, <2>1, RunningInv
  <2>9. QED
    BY <1>0, <1>2, <1>3, <2>1, <2>4, <2>5, <2>6, <2>7, <2>8, RunningInv, SameQuantum
<1>4. CASE MayBlock(tid) /\ block_running_thread(tid)
  <2>1. /\ tid = running_thread_tid /\ exited' = FALSE
        /\ blocked_threads' = blocked_threads \cup {tid}
    BY <1>0, <1>2, <1>4, RunningInv DEF block_running_thread
  <2>2. MapsOK(ths, sleeping_threads)
    BY <1>0, <1>2, <1>4, RunningInv DEF MapsOK
  <2>3. Waiting(ths, sleeping_threads) = Waiting(threads, sleeping_threads)
    BY <1>0, <1>2, <1>4, <2>1, RunningInv DEF Waiting
  <2>4. /\ \A t \in DOMAIN ths : ths[t].state # "RUNNNING"
        /\ 0 \in DOMAIN ths /\ ths[0].state = "READY"
        /\ blocked_threads' = {t \in DOMAIN ths : ths[t].state = "BLOCKED"}
    BY <1>0, <1>2, <1>4, <2>1, RunningInv
  <2>5. PICK awake \in handle_sleep_threads(ths, sleeping_threads) :
            run_next_thread(ths, awake.ready, awake.sleeping)
    BY <1>4 DEF block_running_thread
  <2>6. /\ Lists(ready_threads, Waiting(ths, sleeping_threads))
        /\ total_quantums \in 1 .. MaxQuantums
    BY <1>0, <2>3, RunningInv
  <2>7. QED
    BY <2>1, <2>2, <2>4, <2>5, <2>6, WakeAndDispatch
<1>5. QED
  BY <1>1, <1>3, <1>4 DEF uthread_block, handleErrorLibrary

\* uthread_resume: a thread that still sleeps stays out of the deque.
LEMMA ResumeInv ==
    ASSUME IInv, NEW tid \in TidArgs, uthread_resume(tid)
    PROVE  IInv'
<1>0. ~exited
  BY DEF uthread_resume
<1>1. CASE UNCHANGED vars
  BY <1>1, StutterInv
<1>2. CASE check_thread(tid) /\ threads[tid].state = "BLOCKED" /\ unblock_thread(tid)
  <2>1. /\ threads' = [threads EXCEPT ![tid].state = "READY"]
        /\ ready_threads' = ready_thread(tid, ready_threads, sleeping_threads)
        /\ blocked_threads' = blocked_threads \ {tid}
        /\ UNCHANGED <<sleeping_threads, running_thread_tid, total_quantums, exited>>
    BY <1>2 DEF unblock_thread
  <2>2. tid \in DOMAIN threads /\ tid # running_thread_tid /\ tid \in Tid
    BY <1>0, <1>2, RunningInv DEF check_thread
  <2>3. /\ DOMAIN threads' = DOMAIN threads /\ threads' \in [DOMAIN threads -> Thread]
        /\ threads'[tid].state = "READY"
        /\ \A t \in DOMAIN threads : t # tid => threads'[t] = threads[t]
    <3>1. threads \in [DOMAIN threads -> Thread] /\ "READY" \in State
      BY <1>0, RunningInv DEF MapsOK, State
    <3>2. QED
      BY <2>1, <2>2, <3>1, SetState
  <2>4. Lists(ready_threads', Waiting(threads', sleeping_threads'))
    <3>1. tid \notin Waiting(threads, sleeping_threads)
      BY <1>2 DEF Waiting
    <3>2. CASE tid \in DOMAIN sleeping_threads
      <4>1. Waiting(threads', sleeping_threads') = Waiting(threads, sleeping_threads)
        BY <2>1, <2>3, <3>1, <3>2 DEF Waiting
      <4>2. QED
        BY <1>0, <2>1, <3>2, <4>1, RunningInv DEF ready_thread
    <3>3. CASE tid \notin DOMAIN sleeping_threads
      <4>1. Waiting(threads', sleeping_threads') =
              Waiting(threads, sleeping_threads) \cup {tid}
        BY <2>1, <2>2, <2>3, <3>1, <3>3 DEF Waiting
      <4>2. Lists(Append(ready_threads, tid), Waiting(threads, sleeping_threads) \cup {tid})
        BY <1>0, <2>2, <3>1, RunningInv, AppendLists
      <4>3. QED
        BY <2>1, <3>3, <4>1, <4>2 DEF ready_thread
    <3>4. QED
      BY <3>2, <3>3
  <2>5. MapsOK(threads', sleeping_threads')
    BY <1>0, <2>1, <2>3, RunningInv DEF MapsOK
  <2>6. blocked_threads' = {t \in DOMAIN threads' : threads'[t].state = "BLOCKED"}
    BY <1>0, <2>1, <2>3, RunningInv
  <2>7. \A t \in DOMAIN threads' :
            threads'[t].state = "RUNNNING" <=> t = running_thread_tid'
    BY <1>0, <2>1, <2>2, <2>3, RunningInv
  <2>8. 0 \in DOMAIN threads' /\ (0 = running_thread_tid' \/ threads'[0].state = "READY")
    BY <1>0, <2>1, <2>3, RunningInv
  <2>9. QED
    BY <1>0, <2>1, <2>2, <2>3, <2>4, <2>5, <2>6, <2>7, <2>8, RunningInv, SameQuantum
<1>3. QED
  BY <1>1, <1>2 DEF uthread_resume, handleErrorLibrary

\* uthread_sleep: the caller leaves the deque to _handle_sleep_threads, which
\* may queue it at once when the deadline wraps around.
LEMMA SleepInv ==
    ASSUME IInv, NEW n \in SleepArgs, uthread_sleep(n)
    PROVE  IInv'
<1> DEFINE run == running_thread_tid
           ths == [threads EXCEPT ![run].state = "READY"]
           sl == [t \in DOMAIN sleeping_threads \cup {run} |->
                     IF t = run THEN Deadline(n) ELSE sleeping_threads[t]]
<1>0. ~exited
  BY DEF uthread_sleep
<1>1. CASE UNCHANGED vars
  BY <1>1, StutterInv
<1>2. CASE MaySleep(n) /\ sleep_running_thread(n)
  <2>1. PICK awake \in handle_sleep_threads(ths, sl) :
            run_next_thread(ths, awake.ready, awake.sleeping)
    BY <1>2 DEF sleep_running_thread
  <2>2. blocked_threads' = blocked_threads /\ exited' = FALSE
    BY <1>0, <1>2, RunningInv DEF sleep_running_thread
  <2>3. run # 0 /\ run \in DOMAIN threads
    BY <1>0, <1>2, RunningInv DEF MaySleep
  <2>4. Deadline(n) \in 0 .. 2 * INT_MAX + 1
    <3>1. n \in 1 .. INT_MAX
      BY <1>2, ConstantsAssumption DEF MaySleep
    <3>2. total_quantums \in 1 .. INT_MAX
      BY <1>0, RunningInv, ConstantsAssumption
    <3>3. QED
      BY <3>1, <3>2, ConstantsAssumption DEF Deadline
  <2>5. /\ DOMAIN ths = DOMAIN threads /\ ths \in [DOMAIN threads -> Thread]
        /\ ths[run].state = "READY"
        /\ \A t \in DOMAIN threads : t # run => ths[t] = threads[t]
    <3>1. threads \in [DOMAIN threads -> Thread] /\ "READY" \in State
      BY <1>0, RunningInv DEF MapsOK, State
    <3>2. QED
      BY <2>3, <3>1, SetState
  <2>6. MapsOK(ths, sl)
    <3>1. sleeping_threads \in [DOMAIN sleeping_threads -> 0 .. 2 * INT_MAX + 1]
      BY <1>0, RunningInv DEF MapsOK
    <3>2. sl \in [DOMAIN sl -> 0 .. 2 * INT_MAX + 1]
      BY <2>4, <3>1
    <3>3. DOMAIN sl \subseteq DOMAIN ths \ {0}
      BY <1>0, <2>3, <2>5, RunningInv DEF MapsOK
    <3>4. QED
      BY <1>0, <2>5, <3>2, <3>3, RunningInv DEF MapsOK
  <2>7. Lists(ready_threads, Waiting(ths, sl))
    <3>1. Waiting(ths, sl) = Waiting(threads, sleeping_threads)
      BY <1>0, <2>3, <2>5, RunningInv DEF Waiting
    <3>2. QED
      BY <1>0, <3>1, RunningInv
  <2>8. /\ \A t \in DOMAIN ths : ths[t].state # "RUNNNING"
        /\ 0 \in DOMAIN ths /\ ths[0].state = "READY"
        /\ blocked_threads' = {t \in DOMAIN ths : ths[t].state = "BLOCKED"}
    BY <1>0, <2>2, <2>3, <2>5, RunningInv
  <2>9. total_quantums \in 1 .. MaxQuantums
    BY <1>0, RunningInv
  <2>10. QED
    BY <2>1, <2>2, <2>6, <2>7, <2>8, <2>9, WakeAndDispatch
<1>3. QED
  BY <1>1, <1>2 DEF uthread_sleep, handleErrorLibrary

\* A failing system call ends the process; only the types are left to hold.
LEMMA ExitInv == IInv /\ handleErrorSystemCall => IInv'
BY DEF handleErrorSystemCall, IInv, TypeOK, StatesAgree, QueueExact,
       SleepersExist, MainSchedulable

\* Every step keeps the invariant.
LEMMA NextInv == IInv /\ [Next]_vars => IInv'
<1> SUFFICES ASSUME IInv, [Next]_vars PROVE IInv'
  OBVIOUS
<1>1. CASE change_thread
  BY <1>1, ChangeThreadInv
<1>2. CASE uthread_spawn
  BY <1>2, SpawnInv
<1>3. CASE \E tid \in TidArgs : uthread_terminate(tid)
  BY <1>3, TerminateInv
<1>4. CASE \E tid \in TidArgs : uthread_block(tid)
  BY <1>4, BlockInv
<1>5. CASE \E tid \in TidArgs : uthread_resume(tid)
  BY <1>5, ResumeInv
<1>6. CASE \E n \in SleepArgs : uthread_sleep(n)
  BY <1>6, SleepInv
<1>7. CASE UNCHANGED vars
  BY <1>7, StutterInv
<1>8. CASE handleErrorSystemCall
  BY <1>8, ExitInv
<1>9. QED
  BY <1>1, <1>2, <1>3, <1>4, <1>5, <1>6, <1>7, <1>8 DEF Next, OtherCalls

-----------------------------------------------------------------------------
(* The theorems.                                                           *)

\* The invariant holds in every reachable state of the scheduler.
THEOREM Invariance == Spec => []IInv
BY InitInv, NextInv, PTL DEF Spec

\* Every variable keeps its type; a deadline stays in what the cast of
\* _handle_sleep_threads converts.
THEOREM TypeCorrect == Spec => []TypeOK
<1>1. IInv => TypeOK
  BY DEF IInv
<1>2. QED
  BY <1>1, Invariance, PTL

\* The thread states, the running thread and blocked_threads always agree.
THEOREM StatesAlwaysAgree == Spec => []StatesAgree
<1>1. IInv => StatesAgree
  BY DEF IInv
<1>2. QED
  BY <1>1, Invariance, PTL

\* The deque always holds each ready, wakeful thread, once, and no other.
THEOREM QueueAlwaysExact == Spec => []QueueExact
<1>1. IInv => QueueExact
  BY DEF IInv
<1>2. QED
  BY <1>1, Invariance, PTL

\* A deadline never outlives its thread, nor applies to the running thread.
THEOREM SleepersAlwaysExist == Spec => []SleepersExist
<1>1. IInv => SleepersExist
  BY DEF IInv
<1>2. QED
  BY <1>1, Invariance, PTL

\* run_next_thread never takes the front of an empty deque.
THEOREM MainAlwaysSchedulable == Spec => []MainSchedulable
<1>1. IInv => MainSchedulable
  BY DEF IInv
<1>2. QED
  BY <1>1, Invariance, PTL

-----------------------------------------------------------------------------
(* Waking up in time.                                                      *)

\* A thread that _handle_sleep_threads leaves asleep is not due in the quantum
\* that starts next.
LEMMA WokenInTime ==
    ASSUME NEW ths, NEW sl, \A tid \in DOMAIN sl : sl[tid] \in Int,
           total_quantums \in Int,
           NEW awake \in handle_sleep_threads(ths, sl),
           NEW new, NEW ready, run_next_thread(new, ready, awake.sleeping)
    PROVE  NoOversleep'
<1>0. PICK due \in DueSets(sl) :
          \E woken \in Ascending({tid \in due : ths[tid].state = "READY"}) :
             awake = [ready |-> ready_threads \o woken, sleeping |-> Without(sl, due)]
  BY DEF handle_sleep_threads
<1>1. awake.sleeping = [tid \in DOMAIN sl \ due |-> sl[tid]]
  BY <1>0 DEF Without, Restrict
<1>2. sleeping_threads' = awake.sleeping /\ total_quantums' = total_quantums + 1
  BY DEF run_next_thread
<1>3. SUFFICES ASSUME NEW tid \in DOMAIN sl \ due, ToInt(sl[tid]) > 0
               PROVE  total_quantums + 1 < ToInt(sl[tid])
  BY <1>1, <1>2 DEF NoOversleep
<1>4. ToInt(sl[tid]) \in Int /\ INT_MIN \in Int /\ INT_MIN < 0
  BY ConstantsAssumption DEF ToInt, INT_MIN
<1>5. ~IsDue(sl[tid])
  <2>1. ToInt(sl[tid]) # INT_MIN
    BY <1>3, <1>4
  <2>2. QED
    BY <2>1 DEF DueSets
<1>6. QED
  BY <1>4, <1>5 DEF IsDue

\* A step that starts no quantum and puts no thread to sleep.
LEMMA NoNewSleeper ==
    ASSUME NoOversleep, total_quantums' = total_quantums,
           DOMAIN sleeping_threads' \subseteq DOMAIN sleeping_threads,
           \A tid \in DOMAIN sleeping_threads' : sleeping_threads'[tid] = sleeping_threads[tid]
    PROVE  NoOversleep'
BY DEF NoOversleep

LEMMA NoOversleepStep == IInv /\ NoOversleep /\ [Next]_vars => NoOversleep'
<1> SUFFICES ASSUME IInv, NoOversleep, [Next]_vars PROVE NoOversleep'
  OBVIOUS
<1>1. /\ total_quantums \in Int
      /\ \A tid \in DOMAIN sleeping_threads : sleeping_threads[tid] \in Int
  BY ConstantsAssumption DEF IInv, TypeOK
<1>2. CASE change_thread
  BY <1>1, <1>2, WokenInTime DEF change_thread
<1>3. CASE uthread_spawn
  BY <1>3, NoNewSleeper DEF uthread_spawn, add_new_thread, handleErrorLibrary, vars
<1>4. ASSUME NEW tid \in TidArgs, uthread_terminate(tid) PROVE NoOversleep'
  <2>1. CASE remove_all \/ UNCHANGED vars
    BY <2>1, NoNewSleeper DEF remove_all, vars
  <2>2. CASE remove_other_thread(tid)
    BY <2>2, NoNewSleeper DEF remove_other_thread, Without, Restrict
  <2>3. CASE remove_running_thread(tid)
    BY <1>1, <2>3, WokenInTime DEF remove_running_thread
  <2>4. QED
    BY <1>4, <2>1, <2>2, <2>3 DEF uthread_terminate, handleErrorLibrary
<1>5. ASSUME NEW tid \in TidArgs, uthread_block(tid) PROVE NoOversleep'
  <2>1. CASE block_running_thread(tid)
    BY <1>1, <2>1, WokenInTime DEF block_running_thread
  <2>2. CASE block_other_thread(tid) \/ UNCHANGED vars
    BY <2>2, NoNewSleeper DEF block_other_thread, vars
  <2>3. QED
    BY <1>5, <2>1, <2>2 DEF uthread_block, handleErrorLibrary
<1>6. ASSUME NEW tid \in TidArgs, uthread_resume(tid) PROVE NoOversleep'
  BY <1>6, NoNewSleeper DEF uthread_resume, unblock_thread, handleErrorLibrary, vars
<1>7. ASSUME NEW n \in SleepArgs, uthread_sleep(n) PROVE NoOversleep'
  <2> DEFINE run == running_thread_tid
             ths == [threads EXCEPT ![run].state = "READY"]
             sl == [t \in DOMAIN sleeping_threads \cup {run} |->
                       IF t = run THEN Deadline(n) ELSE sleeping_threads[t]]
  <2>1. CASE UNCHANGED vars
    BY <2>1, NoNewSleeper DEF vars
  <2>2. CASE sleep_running_thread(n)
    <3>1. Deadline(n) \in Int
      BY <1>1, ConstantsAssumption DEF Deadline
    <3>2. \A tid \in DOMAIN sl : sl[tid] \in Int
      BY <1>1, <3>1
    <3>3. PICK awake \in handle_sleep_threads(ths, sl) :
              run_next_thread(ths, awake.ready, awake.sleeping)
      BY <2>2 DEF sleep_running_thread
    <3>4. QED
      BY <1>1, <3>2, <3>3, WokenInTime
  <2>3. QED
    BY <1>7, <2>1, <2>2 DEF uthread_sleep, handleErrorLibrary
<1>8. CASE UNCHANGED vars
  BY <1>8, NoNewSleeper DEF vars
<1>9. CASE handleErrorSystemCall
  BY <1>9, NoNewSleeper DEF handleErrorSystemCall
<1>10. QED
  BY <1>2, <1>3, <1>4, <1>5, <1>6, <1>7, <1>8, <1>9 DEF Next, OtherCalls

\* No thread sleeps beyond a deadline that int can hold.
THEOREM NeverOversleeps == Spec => []NoOversleep
<1>1. Init => NoOversleep
  BY DEF Init, NoOversleep
<1>2. QED
  BY <1>1, NoOversleepStep, Invariance, PTL DEF Spec

-----------------------------------------------------------------------------
(* Quantum accounting.                                                     *)

\* run_next_thread charges the thread it starts, from a map ths whose counts
\* are those of the threads.
LEMMA DispatchCharges ==
    ASSUME NEW ths, NEW ready, NEW sl, run_next_thread(ths, ready, sl),
           total_quantums \in Int,
           ths \in [DOMAIN ths -> Thread],
           \A tid \in DOMAIN ths \cap DOMAIN threads :
               ths[tid].quantum_t = threads[tid].quantum_t
    PROVE  OnlyNewQuantumCharged
<1> DEFINE next == Head(ready)
<1>1. /\ total_quantums' = total_quantums + 1 /\ running_thread_tid' = next
      /\ threads' = [ths EXCEPT ![next] = [state |-> "RUNNNING",
                                           quantum_t |-> ths[next].quantum_t + 1]]
  BY DEF run_next_thread
<1>2. SUFFICES ASSUME NEW tid \in DOMAIN threads \cap DOMAIN threads'
               PROVE  threads'[tid].quantum_t - threads[tid].quantum_t =
                          IF tid = next THEN 1 ELSE 0
  BY <1>1 DEF OnlyNewQuantumCharged
<1>3. tid \in DOMAIN ths /\ threads[tid].quantum_t = ths[tid].quantum_t
      /\ ths[tid].quantum_t \in Int
  BY <1>1 DEF Thread
<1>4. CASE tid = next
  BY <1>1, <1>3, <1>4
<1>5. CASE tid # next
  BY <1>1, <1>3, <1>5
<1>6. QED
  BY <1>4, <1>5

\* A step that starts no quantum changes no count.
LEMMA NoQuantumNoCharge ==
    ASSUME total_quantums' = total_quantums, threads \in [DOMAIN threads -> Thread],
           \A tid \in DOMAIN threads \cap DOMAIN threads' :
               threads'[tid].quantum_t = threads[tid].quantum_t
    PROVE  OnlyNewQuantumCharged
BY DEF OnlyNewQuantumCharged, Thread

LEMMA ChargeStep == IInv /\ Next => OnlyNewQuantumCharged
<1> SUFFICES ASSUME IInv, Next PROVE OnlyNewQuantumCharged
  OBVIOUS
<1>1. total_quantums \in Int /\ threads \in [DOMAIN threads -> Thread]
  BY ConstantsAssumption DEF IInv, TypeOK
<1>2. ASSUME NEW tid, NEW state \in State
      PROVE  LET ths == [threads EXCEPT ![tid].state = state] IN
             /\ DOMAIN ths = DOMAIN threads /\ ths \in [DOMAIN ths -> Thread]
             /\ \A t \in DOMAIN threads : ths[t].quantum_t = threads[t].quantum_t
  BY <1>1 DEF Thread
<1>3. "READY" \in State /\ "BLOCKED" \in State
  BY DEF State
<1>4. CASE change_thread
  BY <1>1, <1>2, <1>3, <1>4, DispatchCharges DEF change_thread
<1>5. CASE uthread_spawn
  BY <1>1, <1>5, NoQuantumNoCharge DEF uthread_spawn, add_new_thread, handleErrorLibrary, vars
<1>6. ASSUME NEW tid \in TidArgs, uthread_terminate(tid) PROVE OnlyNewQuantumCharged
  <2>1. CASE remove_all \/ UNCHANGED vars \/ remove_other_thread(tid)
    BY <1>1, <2>1, NoQuantumNoCharge DEF remove_all, remove_other_thread, Without, Restrict, vars
  <2>2. CASE remove_running_thread(tid)
    <3> DEFINE rest == Without(threads, {tid})
    <3>1. /\ rest \in [DOMAIN rest -> Thread]
          /\ \A t \in DOMAIN rest : rest[t] = threads[t]
      BY <1>1 DEF Without, Restrict
    <3>2. PICK awake \in handle_sleep_threads(rest, sleeping_threads) :
              run_next_thread(rest, awake.ready, awake.sleeping)
      BY <2>2 DEF remove_running_thread
    <3>3. QED
      BY <1>1, <3>1, <3>2, DispatchCharges
  <2>3. QED
    BY <1>6, <2>1, <2>2 DEF uthread_terminate, handleErrorLibrary
<1>7. ASSUME NEW tid \in TidArgs, uthread_block(tid) PROVE OnlyNewQuantumCharged
  <2>0. CASE UNCHANGED vars
    BY <1>1, <2>0, NoQuantumNoCharge DEF vars
  <2>1. CASE block_other_thread(tid)
    <3>1. threads' = [threads EXCEPT ![tid].state = "BLOCKED"]
          /\ total_quantums' = total_quantums
      BY <2>1 DEF block_other_thread
    <3>2. \A t \in DOMAIN threads : threads'[t].quantum_t = threads[t].quantum_t
      BY <1>2, <1>3, <3>1
    <3>3. QED
      BY <1>1, <3>1, <3>2, NoQuantumNoCharge
  <2>2. CASE block_running_thread(tid)
    BY <1>1, <1>2, <1>3, <2>2, DispatchCharges DEF block_running_thread
  <2>3. QED
    BY <1>7, <2>0, <2>1, <2>2 DEF uthread_block, handleErrorLibrary
<1>8. ASSUME NEW tid \in TidArgs, uthread_resume(tid) PROVE OnlyNewQuantumCharged
  <2>1. CASE UNCHANGED vars
    BY <1>1, <2>1, NoQuantumNoCharge DEF vars
  <2>2. CASE unblock_thread(tid)
    <3>1. threads' = [threads EXCEPT ![tid].state = "READY"]
          /\ total_quantums' = total_quantums
      BY <2>2 DEF unblock_thread
    <3>2. \A t \in DOMAIN threads : threads'[t].quantum_t = threads[t].quantum_t
      BY <1>2, <1>3, <3>1
    <3>3. QED
      BY <1>1, <3>1, <3>2, NoQuantumNoCharge
  <2>3. QED
    BY <1>8, <2>1, <2>2 DEF uthread_resume, handleErrorLibrary
<1>9. ASSUME NEW n \in SleepArgs, uthread_sleep(n) PROVE OnlyNewQuantumCharged
  <2>1. CASE UNCHANGED vars
    BY <1>1, <2>1, NoQuantumNoCharge DEF vars
  <2>2. CASE sleep_running_thread(n)
    BY <1>1, <1>2, <1>3, <2>2, DispatchCharges DEF sleep_running_thread
  <2>3. QED
    BY <1>9, <2>1, <2>2 DEF uthread_sleep, handleErrorLibrary
<1>10. CASE handleErrorSystemCall
  BY <1>1, <1>10, NoQuantumNoCharge DEF handleErrorSystemCall
<1>11. QED
  BY <1>4, <1>5, <1>6, <1>7, <1>8, <1>9, <1>10 DEF Next, OtherCalls

\* Each new quantum is charged to the thread that starts to run, and to no other.
THEOREM EveryQuantumCharged == Spec => QuantumCharged
BY ChargeStep, Invariance, PTL DEF Spec, QuantumCharged

-----------------------------------------------------------------------------
(* Deadlines.                                                              *)

\* What a caller has to keep to: no deadline of sleep_running_thread exceeds
\* INT_MAX.  Beyond it the cast of _handle_sleep_threads wraps around.
NoDeadlineWraps == \A n \in SleepArgs : MaxQuantums + n + 1 <= INT_MAX

\* Every deadline is still to come, and an int.
DeadlinesFit ==
    \A tid \in DOMAIN sleeping_threads :
        sleeping_threads[tid] \in total_quantums + 1 .. INT_MAX

-----------------------------------------------------------------------------
(* Deadlines that do not wrap around.                                      *)

\* The quantums and the deadlines of sl are numbers that int can hold.
NumbersFit(sl) ==
    /\ total_quantums \in Nat /\ INT_MAX \in Nat
    /\ \A tid \in DOMAIN sl : sl[tid] \in 0 .. INT_MAX

\* The threads whose deadlines in sl the quantum about to start reaches.
Reached(sl) == {tid \in DOMAIN sl : sl[tid] <= total_quantums + 1}

\* awake is what _handle_sleep_threads leaves when it wakes exactly those.
WokenThen(ths, sl, awake) ==
    /\ awake.sleeping = [tid \in DOMAIN sl \ Reached(sl) |-> sl[tid]]
    /\ \E woken \in Ascending({tid \in Reached(sl) : ths[tid].state = "READY"}) :
          awake.ready = ready_threads \o woken

\* _handle_sleep_threads wakes exactly those.
LEMMA WakesReached ==
    ASSUME NEW ths, NEW sl, NumbersFit(sl),
           NEW awake \in handle_sleep_threads(ths, sl)
    PROVE  WokenThen(ths, sl, awake)
<1>1. PICK due \in DueSets(sl) :
          \E woken \in Ascending({tid \in due : ths[tid].state = "READY"}) :
             awake = [ready |-> ready_threads \o woken, sleeping |-> Without(sl, due)]
  BY DEF handle_sleep_threads
<1>2. due = Reached(sl)
  <2>1. \A tid \in DOMAIN sl : ToInt(sl[tid]) = sl[tid] /\ ToInt(sl[tid]) # INT_MIN
    BY DEF ToInt, INT_MIN, NumbersFit
  <2>2. due \subseteq DOMAIN sl
    BY DEF DueSets
  <2>3. \A tid \in DOMAIN sl : tid \in due <=> IsDue(sl[tid])
    BY <2>1 DEF DueSets
  <2>4. \A tid \in DOMAIN sl : IsDue(sl[tid]) <=> sl[tid] <= total_quantums + 1
    BY <2>1 DEF IsDue, NumbersFit
  <2>5. QED
    BY <2>2, <2>3, <2>4 DEF Reached
<1>3. PICK woken \in Ascending({tid \in due : ths[tid].state = "READY"}) :
          awake = [ready |-> ready_threads \o woken, sleeping |-> Without(sl, due)]
  BY <1>1
<1>4. awake.sleeping = [tid \in DOMAIN sl \ due |-> sl[tid]]
  BY <1>3 DEF Without, Restrict
<1>5. awake.ready = ready_threads \o woken
  BY <1>3
<1>6. QED
  BY <1>2, <1>4, <1>5 DEF WokenThen

\* In the states of Scheduler they are.
LEMMA Fitting ==
    ASSUME IInv, DeadlinesFit
    PROVE  /\ NumbersFit(sleeping_threads)
           /\ \A tid \in DOMAIN sleeping_threads : sleeping_threads[tid] > total_quantums
BY ConstantsAssumption DEF IInv, TypeOK, DeadlinesFit, NumbersFit

\* The deadline of an accepted sleeper is an int, and beyond the quantum that
\* starts next.
LEMMA DeadlineFits ==
    ASSUME IInv, NoDeadlineWraps, NEW n \in SleepArgs, MaySleep(n)
    PROVE  Deadline(n) \in total_quantums + 2 .. INT_MAX
<1>1. /\ total_quantums \in Int /\ total_quantums <= MaxQuantums
      /\ n \in Int /\ n > 0 /\ MaxQuantums + n + 1 <= INT_MAX
      /\ MaxQuantums \in Int /\ INT_MAX \in Int
  BY ConstantsAssumption DEF IInv, TypeOK, MaySleep, NoDeadlineWraps
<1>2. QED
  BY <1>1 DEF Deadline

\* A quantum that starts leaves the deadlines behind it, and no others.
LEMMA DispatchFits ==
    ASSUME NEW ths, NEW sl, NumbersFit(sl),
           NEW awake \in handle_sleep_threads(ths, sl),
           NEW new, NEW ready, run_next_thread(new, ready, awake.sleeping)
    PROVE  /\ DeadlinesFit'
           /\ sleeping_threads' =
                 [tid \in {t \in DOMAIN sl : sl[t] > total_quantums'} |-> sl[tid]]
<1>0. WokenThen(ths, sl, awake)
  BY WakesReached
<1>1. sleeping_threads' = [tid \in DOMAIN sl \ Reached(sl) |-> sl[tid]]
      /\ total_quantums' = total_quantums + 1
  BY <1>0 DEF WokenThen, run_next_thread
<1>2. DOMAIN sl \ Reached(sl) = {t \in DOMAIN sl : sl[t] > total_quantums'}
  BY <1>1 DEF Reached, NumbersFit
<1>3. DeadlinesFit'
  BY <1>1, <1>2 DEF DeadlinesFit, NumbersFit
<1>4. QED
  BY <1>1, <1>2, <1>3

-----------------------------------------------------------------------------
(* What a step does to the sleeping map, whatever else it does.            *)

\* The part of sl that lasts into the quantum of the next state.
Later(sl) == [tid \in {t \in DOMAIN sl \cap DOMAIN threads' : sl[t] > total_quantums'} |-> sl[tid]]

\* The map with the deadline that uthread_sleep adds.
WithDeadline(n) ==
    [t \in DOMAIN sleeping_threads \cup {running_thread_tid} |->
        IF t = running_thread_tid THEN Deadline(n) ELSE sleeping_threads[t]]

\* A step in which no quantum starts and the map loses at most threads that go.
LEMMA SameQuantumLater ==
    ASSUME IInv, IInv', DeadlinesFit, exited' = FALSE, exited = FALSE,
           total_quantums' = total_quantums,
           sleeping_threads' =
               [tid \in DOMAIN sleeping_threads \cap DOMAIN threads' |-> sleeping_threads[tid]]
    PROVE  DeadlinesFit' /\ sleeping_threads' = Later(sleeping_threads)
<1>1. DeadlinesFit'
  BY DEF DeadlinesFit
<1>2. {t \in DOMAIN sleeping_threads \cap DOMAIN threads' : sleeping_threads[t] > total_quantums'} =
          DOMAIN sleeping_threads \cap DOMAIN threads'
  BY Fitting
<1>3. QED
  BY <1>1, <1>2 DEF Later

\* A step that starts a quantum.
LEMMA NewQuantumLater ==
    ASSUME IInv', exited' = FALSE, NEW ths, NEW sl, NumbersFit(sl),
           NEW awake \in handle_sleep_threads(ths, sl),
           NEW new, NEW ready, run_next_thread(new, ready, awake.sleeping)
    PROVE  DeadlinesFit' /\ sleeping_threads' = Later(sl)
<1> DEFINE S == {t \in DOMAIN sl : sl[t] > total_quantums'}
<1>1. DeadlinesFit' /\ sleeping_threads' = [tid \in S |-> sl[tid]]
  BY DispatchFits
<1>2. S \subseteq DOMAIN threads'
  BY <1>1 DEF IInv, SleepersExist
<1>3. S = {t \in DOMAIN sl \cap DOMAIN threads' : sl[t] > total_quantums'}
  BY <1>2
<1>4. QED
  BY <1>1, <1>3 DEF Later

\* The quantum that follows a step of the running thread or of the timer.
LEMMA YieldLater ==
    ASSUME IInv, IInv', DeadlinesFit, exited' = FALSE, NEW ths,
           NEW awake \in handle_sleep_threads(ths, sleeping_threads),
           NEW new, NEW ready, run_next_thread(new, ready, awake.sleeping)
    PROVE  DeadlinesFit' /\ sleeping_threads' = Later(sleeping_threads)
BY Fitting, NewQuantumLater

\* A step that leaves the sleepers and their deadlines alone.
LEMMA UntouchedLater ==
    ASSUME IInv, IInv', DeadlinesFit, exited' = FALSE, exited = FALSE,
           total_quantums' = total_quantums, sleeping_threads' = sleeping_threads
    PROVE  DeadlinesFit' /\ sleeping_threads' = Later(sleeping_threads)
<1>1. DOMAIN sleeping_threads \subseteq DOMAIN threads'
  BY DEF IInv, SleepersExist
<1>2. sleeping_threads = [tid \in DOMAIN sleeping_threads |-> sleeping_threads[tid]]
  BY DEF IInv, TypeOK
<1>3. DOMAIN sleeping_threads \cap DOMAIN threads' = DOMAIN sleeping_threads
  BY <1>1
<1>4. QED
  BY <1>2, <1>3, SameQuantumLater

\* Every step but uthread_sleep.
LEMMA OtherCallsLater ==
    ASSUME IInv, IInv', DeadlinesFit, OtherCalls, exited = FALSE, exited' = FALSE
    PROVE  DeadlinesFit' /\ sleeping_threads' = Later(sleeping_threads)
<1> DEFINE Goal == DeadlinesFit' /\ sleeping_threads' = Later(sleeping_threads)
<1>1. CASE UNCHANGED vars
  BY <1>1, UntouchedLater DEF vars
<1>2. CASE change_thread
  BY <1>2, YieldLater DEF change_thread
<1>3. CASE handleErrorSystemCall
  BY <1>3 DEF handleErrorSystemCall
<1>4. CASE uthread_spawn
  BY <1>1, <1>4, UntouchedLater DEF uthread_spawn, add_new_thread, handleErrorLibrary
<1>5. ASSUME NEW tid \in TidArgs, uthread_terminate(tid) PROVE Goal
  <2>1. CASE remove_all /\ handleForcedExit
    BY <2>1 DEF handleForcedExit
  <2>2. CASE remove_other_thread(tid)
    <3>1. /\ threads' = Without(threads, {tid})
          /\ sleeping_threads' = Without(sleeping_threads, {tid})
          /\ total_quantums' = total_quantums
      BY <2>2 DEF remove_other_thread
    <3>2. DOMAIN sleeping_threads \subseteq DOMAIN threads
      BY DEF IInv, SleepersExist
    <3>3. DOMAIN sleeping_threads \ {tid} = DOMAIN sleeping_threads \cap DOMAIN threads'
      BY <3>1, <3>2 DEF Without, Restrict
    <3>4. sleeping_threads' =
            [t \in DOMAIN sleeping_threads \cap DOMAIN threads' |-> sleeping_threads[t]]
      BY <3>1, <3>3 DEF Without, Restrict
    <3>5. QED
      BY <3>1, <3>4, SameQuantumLater
  <2>3. CASE remove_running_thread(tid)
    BY <2>3, YieldLater DEF remove_running_thread
  <2>4. QED
    BY <1>1, <1>5, <2>1, <2>2, <2>3 DEF uthread_terminate, handleErrorLibrary
<1>6. ASSUME NEW tid \in TidArgs, uthread_block(tid) PROVE Goal
  <2>1. CASE block_other_thread(tid)
    BY <2>1, UntouchedLater DEF block_other_thread
  <2>2. CASE block_running_thread(tid)
    BY <2>2, YieldLater DEF block_running_thread
  <2>3. QED
    BY <1>1, <1>6, <2>1, <2>2 DEF uthread_block, handleErrorLibrary
<1>7. ASSUME NEW tid \in TidArgs, uthread_resume(tid) PROVE Goal
  BY <1>1, <1>7, UntouchedLater DEF uthread_resume, unblock_thread, handleErrorLibrary
<1>8. QED
  BY <1>2, <1>3, <1>4, <1>5, <1>6, <1>7 DEF OtherCalls

\* An accepted uthread_sleep adds the deadline before the threads are woken.
LEMMA SleepLater ==
    ASSUME IInv, IInv', DeadlinesFit, NoDeadlineWraps, exited' = FALSE,
           NEW n \in SleepArgs, MaySleep(n), sleep_running_thread(n)
    PROVE  DeadlinesFit' /\ sleeping_threads' = Later(WithDeadline(n))
<1>1. PICK ths : \E awake \in handle_sleep_threads(ths, WithDeadline(n)) :
          run_next_thread(ths, awake.ready, awake.sleeping)
  BY DEF sleep_running_thread, WithDeadline
<1>2. NumbersFit(WithDeadline(n))
  <2>1. NumbersFit(sleeping_threads) /\ Deadline(n) \in 0 .. INT_MAX
    <3>1. Deadline(n) \in total_quantums + 2 .. INT_MAX
      BY DeadlineFits
    <3>2. NumbersFit(sleeping_threads)
      BY Fitting
    <3>3. QED
      BY <3>1, <3>2 DEF NumbersFit
  <2>2. QED
    BY <2>1 DEF NumbersFit, WithDeadline
<1>3. QED
  BY <1>1, <1>2, NewQuantumLater

\* A step that ends the process does nothing to the sleeping map.
LEMMA ExitFits ==
    ASSUME Next, IInv, IInv', DeadlinesFit, exited = FALSE, exited' = TRUE
    PROVE  DeadlinesFit'
<1>1. CASE handleErrorSystemCall
  BY <1>1 DEF handleErrorSystemCall, DeadlinesFit
<1>2. CASE remove_all
  BY <1>2 DEF remove_all, DeadlinesFit
<1>3. QED
  BY <1>1, <1>2
  DEF Next, OtherCalls, change_thread, uthread_spawn, add_new_thread, uthread_terminate,
      remove_other_thread, remove_running_thread, uthread_block, block_other_thread,
      block_running_thread, uthread_resume, unblock_thread, uthread_sleep,
      sleep_running_thread, handleErrorLibrary, vars

\* So all deadlines stay ahead, and within INT_MAX.
LEMMA FitStep ==
    ASSUME NoDeadlineWraps, IInv, IInv', DeadlinesFit, [Next]_vars
    PROVE  DeadlinesFit'
<1>1. CASE UNCHANGED vars
  BY <1>1 DEF vars, DeadlinesFit
<1>2. CASE Next
  <2>1. exited = FALSE /\ exited' \in BOOLEAN
    BY <1>2 DEF Next, OtherCalls, change_thread, handleErrorSystemCall, uthread_spawn,
           uthread_terminate, uthread_block, uthread_resume, uthread_sleep, IInv, TypeOK
  <2>2. CASE exited' = TRUE
    BY <1>2, <2>1, <2>2, ExitFits
  <2>3. CASE exited' = FALSE /\ OtherCalls
    BY <2>1, <2>3, OtherCallsLater
  <2>4. ASSUME exited' = FALSE, NEW n \in SleepArgs, uthread_sleep(n) PROVE DeadlinesFit'
    BY <1>1, <2>1, <2>4, SleepLater DEF uthread_sleep, handleErrorLibrary
  <2>5. QED
    BY <1>2, <2>1, <2>2, <2>3, <2>4 DEF Next
<1>3. QED
  BY <1>1, <1>2

\* Every deadline is ahead of the running quantum, and the cast is the identity.
THEOREM DeadlinesAlwaysFit ==
    ASSUME NoDeadlineWraps
    PROVE  Spec => []DeadlinesFit
<1>1. Init => DeadlinesFit
  BY DEF Init, DeadlinesFit
<1>2. IInv /\ IInv' /\ DeadlinesFit /\ [Next]_vars => DeadlinesFit'
  BY FitStep
<1>3. QED
  BY <1>1, <1>2, Invariance, PTL DEF Spec
=============================================================================
