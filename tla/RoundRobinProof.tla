--------------------------- MODULE RoundRobinProof ---------------------------
(***************************************************************************)
(* Proofs that Scheduler is a round robin, for every number of threads:    *)
(* that its ready deque is first in, first out, and that it implements     *)
(* RoundRobin, provided that no deadline goes beyond INT_MAX.              *)
(*                                                                         *)
(* Whatever a step does to the deque, what it leaves is a subsequence of   *)
(* the old deque with the new threads behind it.                           *)
(***************************************************************************)
EXTENDS RoundRobinMapping, SchedulerProof

-----------------------------------------------------------------------------
(* The order of the deque.                                                *)

\* r keeps the order of the deque q, and puts others behind its threads.
InOrder(q, r) ==
    \A a \in Range(q), b \in Tid :
        /\ a # b /\ ~Before(q, b, a)
        /\ {a, b} \subseteq Range(r)
        => Before(r, a, b)

\* The threads of the deque q that are in r, too, have come nearer to the front by
\* at least n places.
Advances(q, r, n) == \A i \in DOMAIN q, j \in DOMAIN r : q[i] = r[j] => j + n <= i

\* The j-th of ascending positive numbers is at least j: those up to it are j
\* different numbers among the first so many.
LEMMA AscendingNumbers ==
    ASSUME NEW n \in Nat, NEW f \in [1 .. n -> Nat \ {0}],
           \A i, j \in 1 .. n : i < j => f[i] < f[j],
           NEW j \in 1 .. n
    PROVE  j <= f[j]
<1> DEFINE g == [i \in 1 .. j |-> f[i]]
<1>0. f[j] \in Nat
  OBVIOUS
<1>1. \A i \in 1 .. j : f[i] \in 1 .. f[j]
  <2> TAKE i \in 1 .. j
  <2>1. i \in 1 .. n /\ f[i] \in Nat \ {0} /\ f[j] \in Nat \ {0}
    OBVIOUS
  <2>2. i = j \/ f[i] < f[j]
    BY <2>1
  <2>3. QED
    BY <2>1, <2>2
<1>2. \A i, k \in 1 .. j : f[i] = f[k] => i = k
  <2> TAKE i, k \in 1 .. j
  <2>1. i \in 1 .. n /\ k \in 1 .. n /\ f[i] \in Nat /\ f[k] \in Nat
    OBVIOUS
  <2>2. i < k => f[i] < f[k]
    BY <2>1
  <2>3. k < i => f[k] < f[i]
    BY <2>1
  <2>4. QED
    BY <2>1, <2>2, <2>3
<1>3. g \in Injection(1 .. j, 1 .. f[j])
  BY <1>1, <1>2 DEF Injection, IsInjective
<1>4. /\ IsFiniteSet(1 .. f[j]) /\ Cardinality(1 .. f[j]) = f[j]
      /\ Cardinality(1 .. j) = j
  <2>1. j \in Int /\ f[j] \in Int /\ ~(1 > j) /\ (1 > f[j] => f[j] = 0)
    BY <1>0
  <2>2. QED
    BY <2>1, FS_Interval
<1>5. Cardinality(1 .. j) <= Cardinality(1 .. f[j])
  BY <1>3, <1>4, FS_Injection
<1>6. QED
  BY <1>4, <1>5

\* r is a subsequence of c: m says where in c its elements come from.
Subsequence(r, c, m) ==
    /\ DOMAIN r \subseteq Int
    /\ m \in [DOMAIN r -> DOMAIN c]
    /\ \A i \in DOMAIN r : r[i] = c[m[i]]
    /\ \A i, j \in DOMAIN r : i < j => m[i] < m[j]

\* A subsequence of the deque with a tail w behind it is in order.
LEMMA SubsequenceInOrder ==
    ASSUME NEW q \in Seq(Tid), NEW w \in Seq(Tid), IsInjective(q \o w),
           NEW r, NEW m, Subsequence(r, q \o w, m)
    PROVE  InOrder(q, r)
<1> DEFINE c == q \o w
<1>1. /\ Len(q) \in Nat /\ DOMAIN q = 1 .. Len(q)
      /\ Len(w) \in Nat /\ DOMAIN c = 1 .. Len(q) + Len(w)
      /\ \A i \in DOMAIN q : i \in DOMAIN c /\ c[i] = q[i]
  BY LenProperties, ConcatProperties
<1>2. \A i, j \in DOMAIN c : c[i] = c[j] => i = j
  BY DEF IsInjective
<1>3. /\ DOMAIN r \subseteq Int
      /\ m \in [DOMAIN r -> DOMAIN c]
      /\ \A i \in DOMAIN r : r[i] = c[m[i]]
      /\ \A i, j \in DOMAIN r : i < j => m[i] < m[j]
  BY DEF Subsequence
<1>4. SUFFICES ASSUME NEW a \in Range(q), NEW b \in Tid, a # b, ~Before(q, b, a),
                      {a, b} \subseteq Range(r)
               PROVE  Before(r, a, b)
  BY DEF InOrder
<1>5. PICK i \in DOMAIN r, j \in DOMAIN r : r[i] = a /\ r[j] = b
  BY <1>4 DEF Range
<1>6. m[i] \in DOMAIN q
  <2>1. PICK k \in DOMAIN q : q[k] = a
    BY DEF Range
  <2>2. k \in DOMAIN c /\ c[k] = a /\ m[i] \in DOMAIN c /\ c[m[i]] = a
    BY <1>1, <1>3, <1>5, <2>1
  <2>3. QED
    BY <1>2, <2>1, <2>2
<1>7. m[i] < m[j]
  <2>1. m[i] \in DOMAIN c /\ m[j] \in DOMAIN c /\ c[m[i]] = a /\ c[m[j]] = b
    BY <1>3, <1>5
  <2>2. m[i] # m[j]
    BY <1>4, <2>1
  <2>3. CASE m[j] < m[i]
    <3>1. m[j] \in DOMAIN q /\ q[m[j]] = b /\ q[m[i]] = a
      BY <1>1, <1>6, <2>1, <2>3
    <3>2. QED
      BY <1>4, <1>6, <2>3, <3>1 DEF Before
  <2>4. QED
    BY <1>1, <2>1, <2>2, <2>3
<1>8. i < j
  <2>1. m[i] \in Int /\ m[j] \in Int /\ i \in Int /\ j \in Int
    BY <1>1, <1>3
  <2>2. i # j /\ ~(j < i)
    BY <1>3, <1>7, <2>1
  <2>3. QED
    BY <2>1, <2>2
<1>9. QED
  BY <1>5, <1>8 DEF Before

\* If it starts n elements behind, its threads have advanced by n places.
LEMMA SubsequenceAdvances ==
    ASSUME NEW q \in Seq(Tid), NEW w \in Seq(Tid), IsInjective(q \o w), NEW n \in Nat,
           NEW r, NEW m, Subsequence(r, q \o w, m), \A j \in DOMAIN r : j + n <= m[j]
    PROVE  Advances(q, r, n)
<1> DEFINE c == q \o w
<1> SUFFICES ASSUME NEW i \in DOMAIN q, NEW j \in DOMAIN r, q[i] = r[j]
             PROVE  j + n <= i
  BY DEF Advances
<1>1. i \in DOMAIN c /\ c[i] = q[i]
  BY LenProperties, ConcatProperties
<1>2. m[j] \in DOMAIN c /\ c[m[j]] = r[j]
  BY DEF Subsequence
<1>3. m[j] = i
  BY <1>1, <1>2 DEF IsInjective
<1>4. QED
  BY <1>3

\* The property, of one step.
FirstInFirstOut ==
    /\ InOrder(ready_threads, ready_threads')
    /\ Advances(ready_threads, ready_threads', total_quantums' - total_quantums)
    /\ total_quantums' # total_quantums /\ ready_threads # <<>>
          => running_thread_tid' = Head(ready_threads)

\* A step that appends to the deque, or leaves it alone.
LEMMA AppendInOrder ==
    ASSUME NEW q \in Seq(Tid), NEW w \in Seq(Tid), IsInjective(q \o w)
    PROVE  InOrder(q, q \o w) /\ Advances(q, q \o w, 0)
<1> DEFINE c == q \o w
           m == [i \in DOMAIN c |-> i]
<1>1. DOMAIN c \subseteq Int
  <2>1. c \in Seq(Tid)
    BY ConcatProperties
  <2>2. QED
    BY <2>1, LenProperties
<1>2. Subsequence(c, c, m) /\ \A j \in DOMAIN c : j + 0 <= m[j]
  BY <1>1 DEF Subsequence
<1>3. QED
  BY <1>2, SubsequenceInOrder, SubsequenceAdvances

LEMMA SameInOrder ==
    ASSUME NEW q \in Seq(Tid), IsInjective(q)
    PROVE  InOrder(q, q) /\ Advances(q, q, 0)
<1>1. q \o <<>> = q /\ <<>> \in Seq(Tid)
  BY ConcatEmptySeq
<1>2. QED
  BY <1>1, AppendInOrder

\* A new quantum takes the front of the deque with the new threads behind it.
LEMMA DispatchInOrder ==
    ASSUME NEW q \in Seq(Tid), NEW w \in Seq(Tid), IsInjective(q \o w), q \o w # <<>>
    PROVE  /\ InOrder(q, Tail(q \o w))
           /\ Advances(q, Tail(q \o w), 1)
           /\ q # <<>> => Head(q \o w) = Head(q)
<1> DEFINE c == q \o w
           t == Tail(c)
           m == [i \in DOMAIN t |-> i + 1]
<1>1. c \in Seq(Tid) /\ Len(c) \in Nat /\ DOMAIN c = 1 .. Len(c)
  BY ConcatProperties, LenProperties
<1>2. /\ t \in Seq(Tid) /\ Len(t) = Len(c) - 1 /\ DOMAIN t = 1 .. Len(t)
      /\ \A i \in 1 .. Len(t) : t[i] = c[i + 1]
  BY <1>1, HeadTailProperties, LenProperties
<1>3. Subsequence(t, c, m) /\ \A j \in DOMAIN t : j + 1 <= m[j]
  BY <1>1, <1>2 DEF Subsequence
<1>4. InOrder(q, t) /\ Advances(q, t, 1)
  BY <1>3, SubsequenceInOrder, SubsequenceAdvances
<1>5. ASSUME q # <<>> PROVE Head(c) = Head(q)
  <2>1. 1 \in 1 .. Len(q) /\ Head(q) = q[1] /\ Head(c) = c[1]
    BY <1>1, <1>5, LenProperties, EmptySeq
  <2>2. QED
    BY <2>1, ConcatProperties
<1>6. QED
  BY <1>4, <1>5

\* remove_thread_from_ready keeps the order of the others.
LEMMA EraseInOrder ==
    ASSUME ready_threads \in Seq(Tid), IsInjective(ready_threads),
           NEW tid, NEW r \in remove_thread_from_ready(tid)
    PROVE  InOrder(ready_threads, r) /\ Advances(ready_threads, r, 0)
<1> DEFINE D == DOMAIN ready_threads
           S == D \ ErasedAt(tid)
<1>1. PICK kept \in Ascending(S) : r = [j \in DOMAIN kept |-> ready_threads[kept[j]]]
  BY DEF remove_thread_from_ready
<1>2. IsFiniteSet(S)
  <2>1. Len(ready_threads) \in Nat /\ D = 1 .. Len(ready_threads)
    BY LenProperties
  <2>2. IsFiniteSet(1 .. Len(ready_threads))
    BY <2>1, FS_Interval
  <2>3. QED
    BY <2>1, <2>2, FS_Subset
<1>3. kept \in Seq(S)
  BY <1>1, <1>2, AscendingLists
<1>4. /\ DOMAIN kept \subseteq Int
      /\ kept \in [DOMAIN kept -> D]
      /\ \A i, j \in DOMAIN kept : i < j => kept[i] < kept[j]
  BY <1>1, <1>3, LenProperties DEF Ascending
<1>5. ready_threads \o <<>> = ready_threads /\ <<>> \in Seq(Tid)
  BY ConcatEmptySeq
<1>6. Subsequence(r, ready_threads, kept)
  BY <1>1, <1>4 DEF Subsequence
<1>7. \A j \in DOMAIN r : j + 0 <= kept[j]
  <2>1. Len(ready_threads) \in Nat /\ D = 1 .. Len(ready_threads)
    BY LenProperties
  <2>2. DOMAIN kept = 1 .. Len(kept) /\ Len(kept) \in Nat
        /\ kept \in [1 .. Len(kept) -> Nat \ {0}]
    BY <1>3, <1>4, <2>1, LenProperties
  <2>3. \A j \in 1 .. Len(kept) : j <= kept[j]
    BY <1>4, <2>2, AscendingNumbers
  <2>4. DOMAIN r = 1 .. Len(kept)
    BY <1>1, <2>2
  <2>5. QED
    BY <2>2, <2>3, <2>4
<1>8. QED
  BY <1>5, <1>6, <1>7, SubsequenceInOrder, SubsequenceAdvances

-----------------------------------------------------------------------------
(* The steps.                                                              *)

\* _handle_sleep_threads appends to the deque.
LEMMA WokenBehind ==
    ASSUME NEW ths, NEW sl, DOMAIN sl \subseteq Tid, NEW awake \in handle_sleep_threads(ths, sl)
    PROVE  \E w \in Seq(Tid) : awake.ready = ready_threads \o w
<1>1. PICK due \in DueSets(sl) :
          \E woken \in Ascending({tid \in due : ths[tid].state = "READY"}) :
             awake = [ready |-> ready_threads \o woken, sleeping |-> Without(sl, due)]
  BY DEF handle_sleep_threads
<1> DEFINE W == {tid \in due : ths[tid].state = "READY"}
<1>2. W \subseteq Tid
  BY DEF DueSets
<1>3. PICK woken \in Ascending(W) :
          awake = [ready |-> ready_threads \o woken, sleeping |-> Without(sl, due)]
  BY <1>1
<1>4. woken \in Seq(W)
  BY <1>2, TidsFinite, AscendingLists
<1>5. woken \in Seq(Tid)
  BY <1>2, <1>4, SeqMonotonic
<1>6. QED
  BY <1>3, <1>5

\* A quantum that starts in a deque with w behind it.  That the whole of it lists
\* each thread once is seen from the invariant of the state it leads to.
LEMMA QuantumInOrder ==
    ASSUME IInv, IInv', exited' = FALSE, NEW w \in Seq(Tid), ready_threads \o w # <<>>,
           NEW new, NEW sl, run_next_thread(new, ready_threads \o w, sl)
    PROVE  FirstInFirstOut
<1> DEFINE c == ready_threads \o w
<1>1. ready_threads \in Seq(Tid) /\ c \in Seq(Tid) /\ Len(c) \in Nat /\ DOMAIN c = 1 .. Len(c)
  BY ConcatProperties, LenProperties DEF IInv, TypeOK
<1>2. running_thread_tid' = Head(c) /\ ready_threads' = Tail(c)
  BY DEF run_next_thread
<1>3. /\ IsInjective(Tail(c))
      /\ Head(c) \notin Range(Tail(c))
  BY <1>2 DEF IInv, StatesAgree, QueueExact
<1>4. /\ DOMAIN Tail(c) = 1 .. Len(c) - 1
      /\ \A i \in 1 .. Len(c) - 1 : Tail(c)[i] = c[i + 1]
      /\ Head(c) = c[1]
  BY <1>1, HeadTailProperties, LenProperties
<1>5. IsInjective(c)
  <2> SUFFICES ASSUME NEW i \in 1 .. Len(c), NEW j \in 1 .. Len(c), c[i] = c[j], i < j
               PROVE  FALSE
    BY <1>1 DEF IsInjective
  <2>1. j - 1 \in 1 .. Len(c) - 1 /\ Tail(c)[j - 1] = c[j]
    BY <1>1, <1>4
  <2>2. CASE i = 1
    BY <1>3, <1>4, <2>1, <2>2 DEF Range
  <2>3. CASE i # 1
    <3>1. i - 1 \in 1 .. Len(c) - 1 /\ Tail(c)[i - 1] = c[i]
      BY <1>1, <1>4, <2>3
    <3>2. i - 1 = j - 1
      BY <1>3, <1>4, <2>1, <3>1, ZenonT(30) DEF IsInjective
    <3>3. QED
      BY <1>1, <3>2
  <2>4. QED
    BY <2>2, <2>3
<1>6. total_quantums' - total_quantums = 1
  BY DEF run_next_thread, IInv, TypeOK
<1>7. QED
  BY <1>1, <1>2, <1>5, <1>6, DispatchInOrder DEF FirstInFirstOut

\* The functions that give up the processor: the main thread waits in the deque.
LEMMA YieldInOrder ==
    ASSUME IInv, IInv', ~exited, exited' = FALSE, running_thread_tid # 0,
           NEW ths, NEW sl, DOMAIN sl \subseteq Tid, NEW awake \in handle_sleep_threads(ths, sl),
           NEW new, run_next_thread(new, awake.ready, awake.sleeping)
    PROVE  FirstInFirstOut
<1>1. PICK w \in Seq(Tid) : awake.ready = ready_threads \o w
  BY WokenBehind
<1>2. ready_threads \in Seq(Tid) /\ ready_threads # <<>>
  BY DEF IInv, TypeOK, MainSchedulable, Range
<1>3. ready_threads \o w # <<>>
  BY <1>1, <1>2, ConcatEqualIffEmpty
<1>4. run_next_thread(new, ready_threads \o w, awake.sleeping)
  BY <1>1
<1>5. QED
  BY <1>3, <1>4, QuantumInOrder

\* The timer: the preempted thread comes behind all.
LEMMA PreemptInOrder ==
    ASSUME IInv, IInv', change_thread
    PROVE  FirstInFirstOut
<1> DEFINE run == running_thread_tid
<1>1. ~exited /\ exited' = FALSE
  BY DEF change_thread, IInv, TypeOK
<1>2. PICK awake \in handle_sleep_threads(threads, sleeping_threads) :
          run_next_thread([threads EXCEPT ![run].state = "READY"],
                          ready_thread(run, awake.ready, awake.sleeping), awake.sleeping)
  BY DEF change_thread
<1>3. DOMAIN sleeping_threads \subseteq Tid /\ run \in Tid /\ ready_threads \in Seq(Tid)
  BY DEF IInv, TypeOK
<1>4. PICK w \in Seq(Tid) : awake.ready = ready_threads \o w
  BY <1>3, WokenBehind
<1>5. run \notin DOMAIN awake.sleeping
  BY <1>1, RunningInv, WakeUp
<1>6. ready_thread(run, awake.ready, awake.sleeping) = ready_threads \o Append(w, run)
  <2>1. Append(ready_threads \o w, run) = ready_threads \o Append(w, run)
    BY <1>3
  <2>2. QED
    BY <1>4, <1>5, <2>1 DEF ready_thread
<1>7. Append(w, run) \in Seq(Tid) /\ Append(w, run) # <<>>
  BY <1>3, AppendProperties
<1>8. ready_threads \o Append(w, run) # <<>>
  BY <1>3, <1>7, ConcatEqualIffEmpty
<1>9. run_next_thread([threads EXCEPT ![run].state = "READY"],
                      ready_threads \o Append(w, run), awake.sleeping)
  BY <1>2, <1>6
<1>10. QED
  BY <1>1, <1>7, <1>8, <1>9, QuantumInOrder

\* A step that starts no quantum and appends tid to the deque.
LEMMA QueuedInOrder ==
    ASSUME IInv, IInv', ~exited, exited' = FALSE, NEW tid \in Tid,
           ready_threads' = Append(ready_threads, tid), total_quantums' = total_quantums
    PROVE  FirstInFirstOut
<1>1. ready_threads \in Seq(Tid) /\ <<tid>> \in Seq(Tid)
  BY DEF IInv, TypeOK
<1>2. ready_threads' = ready_threads \o <<tid>>
  BY <1>1, AppendIsConcat
<1>3. IsInjective(ready_threads \o <<tid>>)
  BY <1>2 DEF IInv, QueueExact
<1>4. total_quantums' - total_quantums = 0
  BY DEF IInv, TypeOK
<1>5. QED
  BY <1>1, <1>2, <1>3, <1>4, AppendInOrder DEF FirstInFirstOut

\* One that leaves it alone, or erases a thread.
LEMMA KeptInOrder ==
    ASSUME IInv, ~exited, total_quantums' = total_quantums,
           \/ ready_threads' = ready_threads
           \/ \E tid : ready_threads' \in remove_thread_from_ready(tid)
    PROVE  FirstInFirstOut
<1>1. ready_threads \in Seq(Tid) /\ IsInjective(ready_threads)
  BY DEF IInv, TypeOK, QueueExact
<1>2. total_quantums' - total_quantums = 0
  BY DEF IInv, TypeOK
<1>3. CASE ready_threads' = ready_threads
  BY <1>1, <1>2, <1>3, SameInOrder DEF FirstInFirstOut
<1>4. CASE \E tid : ready_threads' \in remove_thread_from_ready(tid)
  BY <1>1, <1>2, <1>4, EraseInOrder DEF FirstInFirstOut
<1>5. QED
  BY <1>3, <1>4

LEMMA OrderStep ==
    ASSUME IInv, IInv', Next
    PROVE  FirstInFirstOut
<1>0. ~exited /\ DOMAIN sleeping_threads \subseteq Tid /\ running_thread_tid \in Tid
  BY DEF Next, OtherCalls, change_thread, handleErrorSystemCall, uthread_spawn,
         uthread_terminate, uthread_block, uthread_resume, uthread_sleep, IInv, TypeOK
<1>1. CASE UNCHANGED vars
  BY <1>0, <1>1, KeptInOrder DEF vars
<1>2. CASE change_thread
  BY <1>2, PreemptInOrder
<1>3. CASE handleErrorSystemCall
  BY <1>0, <1>3, KeptInOrder DEF handleErrorSystemCall
<1>4. CASE uthread_spawn
  <2>1. ASSUME NEW tid \in Tid, add_new_thread(tid) PROVE FirstInFirstOut
    BY <1>0, <2>1, QueuedInOrder DEF add_new_thread, IInv, TypeOK
  <2>2. QED
    BY <1>1, <1>4, <2>1 DEF uthread_spawn, handleErrorLibrary
<1>5. ASSUME NEW tid \in TidArgs, uthread_terminate(tid) PROVE FirstInFirstOut
  <2>1. CASE remove_all
    BY <1>0, <2>1, KeptInOrder DEF remove_all
  <2>2. CASE remove_other_thread(tid)
    BY <1>0, <2>2, KeptInOrder DEF remove_other_thread
  <2>3. CASE tid # 0 /\ check_thread(tid) /\ remove_running_thread(tid)
    <3>1. running_thread_tid # 0 /\ exited' = FALSE
      BY <1>0, <2>3, RunningInv DEF remove_running_thread, check_thread
    <3>2. QED
      BY <1>0, <2>3, <3>1, YieldInOrder DEF remove_running_thread
  <2>4. QED
    BY <1>1, <1>5, <2>1, <2>2, <2>3 DEF uthread_terminate, handleErrorLibrary
<1>6. ASSUME NEW tid \in TidArgs, uthread_block(tid) PROVE FirstInFirstOut
  <2>1. CASE block_other_thread(tid)
    BY <1>0, <2>1, KeptInOrder DEF block_other_thread
  <2>2. CASE MayBlock(tid) /\ block_running_thread(tid)
    <3>1. running_thread_tid # 0 /\ exited' = FALSE
      BY <1>0, <2>2, RunningInv DEF block_running_thread, MayBlock, check_thread
    <3>2. QED
      BY <1>0, <2>2, <3>1, YieldInOrder DEF block_running_thread
  <2>3. QED
    BY <1>1, <1>6, <2>1, <2>2 DEF uthread_block, handleErrorLibrary
<1>7. ASSUME NEW tid \in TidArgs, uthread_resume(tid) PROVE FirstInFirstOut
  <2>1. CASE check_thread(tid) /\ unblock_thread(tid)
    <3>1. tid \in Tid /\ exited' = FALSE
      BY <1>0, <2>1, RunningInv DEF check_thread, unblock_thread
    <3>2. ready_threads' = ready_threads \/ ready_threads' = Append(ready_threads, tid)
      BY <2>1 DEF unblock_thread, ready_thread
    <3>3. QED
      BY <1>0, <2>1, <3>1, <3>2, KeptInOrder, QueuedInOrder DEF unblock_thread
  <2>2. QED
    BY <1>1, <1>7, <2>1 DEF uthread_resume, handleErrorLibrary
<1>8. ASSUME NEW n \in SleepArgs, uthread_sleep(n) PROVE FirstInFirstOut
  <2>1. CASE MaySleep(n) /\ sleep_running_thread(n)
    <3> DEFINE sl == [t \in DOMAIN sleeping_threads \cup {running_thread_tid} |->
                         IF t = running_thread_tid THEN Deadline(n) ELSE sleeping_threads[t]]
               ths == [threads EXCEPT ![running_thread_tid].state = "READY"]
    <3>1. running_thread_tid # 0 /\ exited' = FALSE /\ DOMAIN sl \subseteq Tid
      BY <1>0, <2>1, RunningInv DEF MaySleep, sleep_running_thread
    <3>2. PICK awake \in handle_sleep_threads(ths, sl) :
              run_next_thread(ths, awake.ready, awake.sleeping)
      BY <2>1 DEF sleep_running_thread
    <3>3. QED
      BY <1>0, <3>1, <3>2, YieldInOrder
  <2>2. QED
    BY <1>1, <1>8, <2>1 DEF uthread_sleep, handleErrorLibrary
<1>9. QED
  BY <1>2, <1>3, <1>4, <1>5, <1>6, <1>7, <1>8 DEF Next, OtherCalls

\* Nobody is overtaken in the deque, and each quantum goes to its front.
THEOREM NeverOvertaken == Spec => NoOvertaking
<1>1. FirstInFirstOut =>
        /\ \A a \in Range(ready_threads), b \in Tid :
              /\ a # b /\ ~Before(ready_threads, b, a)
              /\ {a, b} \subseteq Range(ready_threads')
              => Before(ready_threads', a, b)
        /\ total_quantums' # total_quantums /\ ready_threads # <<>>
              => running_thread_tid' = Head(ready_threads)
  BY DEF FirstInFirstOut, InOrder
<1>2. IInv /\ IInv' /\ Next => FirstInFirstOut
  BY OrderStep
<1>3. QED
  BY <1>1, <1>2, Invariance, PTL DEF Spec, NoOvertaking

\* Every new quantum brings each thread that waits at least one place nearer to the
\* front, and no call pushes it back: it runs after as many quantums as it has
\* threads in front of it, or sooner.
WaitersAdvance ==
    [][Advances(ready_threads, ready_threads', total_quantums' - total_quantums)]_vars

THEOREM NobodyFallsBack == Spec => WaitersAdvance
<1>1. FirstInFirstOut =>
          Advances(ready_threads, ready_threads', total_quantums' - total_quantums)
  BY DEF FirstInFirstOut
<1>2. IInv /\ IInv' /\ Next => FirstInFirstOut
  BY OrderStep
<1>3. QED
  BY <1>1, <1>2, Invariance, PTL DEF Spec, WaitersAdvance

-----------------------------------------------------------------------------
(* The operators of the two modules.                                       *)

\* The mapping takes the listings of a set to themselves.
LEMMA SameOrders == \A S : RR!Orders(S) = Orders(S)
<1>1. \A f : RR!IsInjective(f) <=> IsInjective(f)
  BY DEF RR!IsInjective, IsInjective
<1>2. \A A, B : RR!Injection(A, B) = Injection(A, B)
  BY <1>1 DEF RR!Injection, Injection
<1>3. \A A, B : RR!Surjection(A, B) = Surjection(A, B)
  BY DEF RR!Surjection, Surjection
<1>4. \A A, B : RR!Bijection(A, B) = Bijection(A, B)
  BY <1>2, <1>3 DEF RR!Bijection, Bijection
<1>5. \A S : RR!Cardinality(S) = Cardinality(S)
  BY DEF RR!Cardinality, Cardinality
<1>6. QED
  BY <1>4, <1>5 DEF RR!Orders, Orders

LEMMA SameAscending == \A S : RR!Ascending(S) = Ascending(S)
BY SameOrders DEF RR!Ascending, Ascending

\* One more element behind a listing.
LEMMA AppendOrder ==
    ASSUME NEW S, IsFiniteSet(S), NEW w \in Orders(S), NEW x, x \notin S
    PROVE  Append(w, x) \in Orders(S \cup {x})
<1> DEFINE a == Append(w, x)
           n == Cardinality(S)
<1>1. n \in Nat /\ Cardinality(S \cup {x}) = n + 1
  BY FS_CardinalityType, FS_AddElement
<1>2. /\ w \in [1 .. n -> S]
      /\ \A i, j \in 1 .. n : w[i] = w[j] => i = j
      /\ \A y \in S : \E i \in 1 .. n : w[i] = y
  BY DEF Orders, Bijection, Injection, Surjection, IsInjective
<1>3. w \in Seq(S \cup {x}) /\ Len(w) = n
  BY <1>1, <1>2, SeqDef
<1>4. /\ a \in Seq(S \cup {x}) /\ Len(a) = n + 1
      /\ \A i \in 1 .. n : a[i] = w[i]
      /\ a[n + 1] = x
  BY <1>3, AppendProperties
<1>5. a \in [1 .. n + 1 -> S \cup {x}]
  BY <1>4, LenProperties
<1>6. ASSUME NEW i \in 1 .. n + 1, NEW j \in 1 .. n + 1, a[i] = a[j] PROVE i = j
  BY <1>1, <1>2, <1>4, <1>6
<1>7. ASSUME NEW y \in S \cup {x} PROVE \E i \in 1 .. n + 1 : a[i] = y
  <2>1. CASE y = x
    BY <1>1, <1>4, <2>1
  <2>2. CASE y \in S
    <3>1. PICK i \in 1 .. n : w[i] = y
      BY <1>2, <2>2
    <3>2. i \in 1 .. n + 1 /\ a[i] = y
      BY <1>1, <1>4, <3>1
    <3>3. QED
      BY <3>2
  <2>3. QED
    BY <2>1, <2>2
<1>8. QED
  BY <1>1, <1>5, <1>6, <1>7 DEF Orders, Bijection, Injection, Surjection, IsInjective

\* The deques that the erasing loop may leave are those without the thread.
LEMMA ErasedRemoved ==
    ASSUME ready_threads \in Seq(Tid), IsInjective(ready_threads), NEW tid
    PROVE  remove_thread_from_ready(tid) = RR!Removed(ready_threads, tid)
<1>1. DOMAIN ready_threads \ ErasedAt(tid) =
          {i \in DOMAIN ready_threads : ready_threads[i] # tid}
  BY ErasesAll
<1>2. QED
  BY <1>1, SameAscending DEF remove_thread_from_ready, RR!Removed

\* A deque that does not hold the thread stays as it is.
LEMMA NothingRemoved ==
    ASSUME ready_threads \in Seq(Tid), NEW tid, tid \notin Range(ready_threads)
    PROVE  ready_threads \in RR!Removed(ready_threads, tid)
<1> DEFINE n == Len(ready_threads)
           id == [i \in 1 .. n |-> i]
<1>1. n \in Nat /\ DOMAIN ready_threads = 1 .. n
      /\ ready_threads = [i \in 1 .. n |-> ready_threads[i]]
  BY LenProperties
<1>2. {i \in DOMAIN ready_threads : ready_threads[i] # tid} = 1 .. n
  BY <1>1 DEF Range
<1>3. Cardinality(1 .. n) = n
  <2>1. 1 \in Int /\ n \in Int /\ n >= 0
    BY <1>1
  <2>2. Cardinality(1 .. n) = IF 1 > n THEN 0 ELSE n - 1 + 1
    BY <2>1, FS_Interval
  <2>3. QED
    BY <2>1, <2>2
<1>4. id \in Ascending(1 .. n)
  BY <1>1, <1>3 DEF Ascending, Orders, Bijection, Injection, Surjection, IsInjective
<1>5. ready_threads = [j \in DOMAIN id |-> ready_threads[id[j]]]
  BY <1>1
<1>6. QED
  BY <1>2, <1>4, <1>5, SameAscending DEF RR!Removed

-----------------------------------------------------------------------------
(* The quantums.                                                           *)

\* The mapping of a sleeping map.
Left(sl) == [tid \in DOMAIN sl |-> sl[tid] - total_quantums]

\* A new quantum in the words of the scheduler: the threads that wake up and are
\* not stopped, and those of yielding, come to the deque.
Quantum(yielding, stopped, sl) ==
    /\ \E come \in Orders((Reached(sl) \ stopped) \cup yielding) :
          /\ ready_threads \o come # <<>>
          /\ running_thread_tid' = Head(ready_threads \o come)
          /\ ready_threads' = Tail(ready_threads \o come)
    /\ sleeping_threads' = [tid \in DOMAIN sl \ Reached(sl) |-> sl[tid]]
    /\ total_quantums' = total_quantums + 1

LEMMA DispatchQuantum ==
    ASSUME NEW sl, NEW ths, NEW awake, WokenThen(ths, sl, awake),
           NEW yielding, NEW stopped,
           NEW come \in Orders((Reached(sl) \ stopped) \cup yielding),
           ready_threads \o come # <<>>,
           NEW new, run_next_thread(new, ready_threads \o come, awake.sleeping)
    PROVE  Quantum(yielding, stopped, sl)
BY DEF run_next_thread, WokenThen, Quantum

\* It is one in the words of RoundRobin: the naps that are over are the
\* deadlines that are reached, and the others become shorter by one.
Mapped(yielding, stopped, sl) ==
    /\ {tid \in DOMAIN Left(sl) : Left(sl)[tid] <= 1} = Reached(sl)
    /\ \E come \in Orders((Reached(sl) \ stopped) \cup yielding) :
          /\ ready_threads \o come # <<>>
          /\ running_thread_tid' = Head(ready_threads \o come)
          /\ ready_threads' = Tail(ready_threads \o come)
    /\ [tid \in DOMAIN sleeping_threads' |-> sleeping_threads'[tid] - total_quantums'] =
          [tid \in DOMAIN Left(sl) \ Reached(sl) |-> Left(sl)[tid] - 1]

LEMMA QuantumMaps ==
    ASSUME NEW sl, NumbersFit(sl), NEW yielding, NEW stopped, Quantum(yielding, stopped, sl)
    PROVE  Mapped(yielding, stopped, sl)
<1>1. {tid \in DOMAIN Left(sl) : Left(sl)[tid] <= 1} = Reached(sl)
  BY DEF Reached, NumbersFit, Left
<1>2. /\ total_quantums' = total_quantums + 1
      /\ sleeping_threads' = [tid \in DOMAIN sl \ Reached(sl) |-> sl[tid]]
  BY DEF Quantum
<1>3. [tid \in DOMAIN sleeping_threads' |-> sleeping_threads'[tid] - total_quantums'] =
          [tid \in DOMAIN Left(sl) \ Reached(sl) |-> Left(sl)[tid] - 1]
  <2>1. DOMAIN sleeping_threads' = DOMAIN Left(sl) \ Reached(sl)
    BY <1>2 DEF Left
  <2>2. \A tid \in DOMAIN sl \ Reached(sl) :
            sleeping_threads'[tid] - total_quantums' = Left(sl)[tid] - 1
    BY <1>2 DEF Left, NumbersFit
  <2>3. QED
    BY <2>1, <2>2 DEF Left
<1>4. QED
  BY <1>1, <1>3 DEF Quantum, Mapped

\* A deque with the main thread, or with a thread to come, is not empty.
LEMMA SomeoneWaits ==
    ASSUME NEW q \in Seq(Tid), NEW w \in Seq(Tid), q # <<>> \/ w # <<>>
    PROVE  q \o w # <<>>
<1>1. Len(q) \in Nat /\ Len(w) \in Nat /\ (Len(q) # 0 \/ Len(w) # 0)
  BY LenProperties, EmptySeq
<1>2. Len(q \o w) = Len(q) + Len(w)
  BY ConcatProperties
<1>3. QED
  BY <1>1, <1>2

\* A sleeper comes to the queue unless it is blocked, too.
LEMMA SleeperStates ==
    ASSUME IInv, ~exited, NEW tid \in DOMAIN sleeping_threads
    PROVE  /\ tid # running_thread_tid /\ tid \in DOMAIN threads
           /\ threads[tid].state = "READY" <=> tid \notin blocked_threads
<1>1. tid # running_thread_tid /\ tid \in DOMAIN threads /\ threads[tid] \in Thread
  BY RunningInv DEF IInv, SleepersExist
<1>2. threads[tid].state \in {"BLOCKED", "READY"}
  BY <1>1, RunningInv DEF Thread, State
<1>3. QED
  BY <1>1, <1>2, RunningInv

\* The functions that give up the processor: the running thread is not queued.
LEMMA YieldMaps ==
    ASSUME IInv, ~exited, running_thread_tid # 0,
           NEW sl, NumbersFit(sl), NEW ths, NEW stopped,
           {tid \in Reached(sl) : ths[tid].state = "READY"} = Reached(sl) \ stopped,
           Reached(sl) \subseteq Tid,
           NEW awake \in handle_sleep_threads(ths, sl),
           NEW new, run_next_thread(new, awake.ready, awake.sleeping)
    PROVE  Quantum({}, stopped, sl)
<1>1. WokenThen(ths, sl, awake)
  BY WakesReached
<1>2. PICK woken \in Ascending(Reached(sl) \ stopped) : awake.ready = ready_threads \o woken
  BY <1>1 DEF WokenThen
<1>3. woken \in Orders((Reached(sl) \ stopped) \cup {})
  BY <1>2 DEF Ascending
<1>4. woken \in Seq(Tid)
  <2>1. IsFiniteSet(Reached(sl) \ stopped)
    BY TidsFinite
  <2>2. woken \in Seq(Reached(sl) \ stopped)
    BY <1>2, <2>1, AscendingLists
  <2>3. QED
    BY <2>2, SeqMonotonic
<1>5. ready_threads \in Seq(Tid) /\ ready_threads # <<>>
  BY DEF IInv, TypeOK, MainSchedulable, Range
<1>6. ready_threads \o woken # <<>>
  BY <1>4, <1>5, SomeoneWaits
<1>7. run_next_thread(new, ready_threads \o woken, awake.sleeping)
  BY <1>2
<1>8. QED
  BY <1>1, <1>3, <1>6, <1>7, DispatchQuantum

-----------------------------------------------------------------------------
(* One lemma for each action: the running step of RoundRobin it is.        *)

\* The timer handler: the preempted thread comes behind the woken ones.
LEMMA ExpireMaps ==
    ASSUME IInv, DeadlinesFit, change_thread
    PROVE  RR!Expire
<1> DEFINE run == running_thread_tid
           sl == sleeping_threads
           new == [threads EXCEPT ![run].state = "READY"]
           W == Reached(sl) \ blocked_threads
<1>1. ~exited /\ exited' = exited /\ blocked_threads' = blocked_threads
  BY DEF change_thread
<1>2. PICK awake \in handle_sleep_threads(threads, sl) :
          run_next_thread(new, ready_thread(run, awake.ready, awake.sleeping), awake.sleeping)
  BY DEF change_thread
<1>3. NumbersFit(sl)
  BY Fitting
<1>4. WokenThen(threads, sl, awake)
  BY <1>3, WakesReached
<1>5. {tid \in Reached(sl) : threads[tid].state = "READY"} = W
  BY <1>1, SleeperStates DEF Reached
<1>6. PICK woken \in Ascending(W) : awake.ready = ready_threads \o woken
  BY <1>4, <1>5 DEF WokenThen
<1>7. W \subseteq Tid /\ run \notin W /\ run \in Tid /\ IsFiniteSet(W)
  <2>1. W \subseteq Tid /\ run \notin W /\ run \in Tid
    BY <1>1, SleeperStates, RunningInv DEF Reached
  <2>2. QED
    BY <2>1, TidsFinite
<1>8. Append(woken, run) \in Orders(W \cup {run})
  BY <1>6, <1>7, AppendOrder DEF Ascending
<1>9. woken \in Seq(Tid) /\ ready_threads \in Seq(Tid)
  <2>1. woken \in Seq(W)
    BY <1>6, <1>7, AscendingLists
  <2>2. QED
    BY <2>1, <1>7, SeqMonotonic DEF IInv, TypeOK
<1>10. ready_thread(run, awake.ready, awake.sleeping) = ready_threads \o Append(woken, run)
  <2>1. run \notin DOMAIN awake.sleeping
    BY <1>1, <1>4, SleeperStates DEF WokenThen
  <2>2. Append(ready_threads \o woken, run) = ready_threads \o Append(woken, run)
    BY <1>7, <1>9
  <2>3. QED
    BY <2>1, <2>2, <1>6 DEF ready_thread
<1>11. ready_threads \o Append(woken, run) # <<>>
  <2>1. Append(woken, run) \in Seq(Tid) /\ Append(woken, run) # <<>>
    BY <1>7, <1>9, AppendProperties
  <2>2. QED
    BY <2>1, <1>9, SomeoneWaits
<1>12. run_next_thread(new, ready_threads \o Append(woken, run), awake.sleeping)
  BY <1>2, <1>10
<1>13. Quantum({run}, blocked_threads, sl)
  BY <1>4, <1>8, <1>11, <1>12, DispatchQuantum
<1>14. RR!NextQuantum({run}, blocked_threads, Left(sl))
  <2>1. Mapped({run}, blocked_threads, sl)
    BY <1>3, <1>13, QuantumMaps
  <2>2. QED
    BY <2>1, SameOrders DEF Mapped, RR!NextQuantum, RR!Over
<1>15. QED
  BY <1>1, <1>14 DEF RR!Expire, Left

\* remove_thread of the caller.
LEMMA TerminateItselfMaps ==
    ASSUME IInv, DeadlinesFit, ~exited, NEW tid, tid # 0, check_thread(tid),
           remove_running_thread(tid)
    PROVE  RR!TerminateItself
<1> DEFINE rest == Without(threads, {tid})
           sl == sleeping_threads
<1>1. tid = running_thread_tid /\ UNCHANGED <<blocked_threads, exited>>
  BY RunningInv DEF remove_running_thread, check_thread
<1>2. PICK awake \in handle_sleep_threads(rest, sl) :
          run_next_thread(rest, awake.ready, awake.sleeping)
  BY DEF remove_running_thread
<1>3. NumbersFit(sl)
  BY Fitting
<1>4. \A t \in DOMAIN sl : rest[t] = threads[t]
  BY <1>1, SleeperStates DEF Without, Restrict
<1>5. /\ {t \in Reached(sl) : rest[t].state = "READY"} = Reached(sl) \ blocked_threads
      /\ Reached(sl) \subseteq Tid
  BY <1>4, SleeperStates, RunningInv DEF Reached
<1>6. Quantum({}, blocked_threads, sl)
  BY <1>1, <1>2, <1>3, <1>5, YieldMaps
<1>7. RR!NextQuantum({}, blocked_threads, Left(sl))
  <2>1. Mapped({}, blocked_threads, sl)
    BY <1>3, <1>6, QuantumMaps
  <2>2. QED
    BY <2>1, SameOrders DEF Mapped, RR!NextQuantum, RR!Over
<1>8. QED
  BY <1>1, <1>7 DEF RR!TerminateItself, Left

\* block_thread of the caller: it is stopped before the sleepers are woken.
LEMMA BlockItselfMaps ==
    ASSUME IInv, DeadlinesFit, ~exited, NEW tid, MayBlock(tid), block_running_thread(tid)
    PROVE  RR!BlockItself
<1> DEFINE ths == [threads EXCEPT ![tid].state = "BLOCKED"]
           sl == sleeping_threads
<1>1. /\ tid = running_thread_tid /\ tid # 0 /\ exited' = exited
      /\ blocked_threads' = blocked_threads \cup {running_thread_tid}
  BY RunningInv DEF block_running_thread, MayBlock, check_thread
<1>2. PICK awake \in handle_sleep_threads(ths, sl) :
          run_next_thread(ths, awake.ready, awake.sleeping)
  BY DEF block_running_thread
<1>3. NumbersFit(sl)
  BY Fitting
<1>4. \A t \in DOMAIN sl : ths[t] = threads[t]
  BY <1>1, SleeperStates
<1>5. /\ {t \in Reached(sl) : ths[t].state = "READY"} = Reached(sl) \ blocked_threads'
      /\ Reached(sl) \subseteq Tid
  BY <1>1, <1>4, SleeperStates, RunningInv DEF Reached
<1>6. Quantum({}, blocked_threads', sl)
  BY <1>1, <1>2, <1>3, <1>5, YieldMaps
<1>7. RR!NextQuantum({}, blocked_threads', Left(sl))
  <2>1. Mapped({}, blocked_threads', sl)
    BY <1>3, <1>6, QuantumMaps
  <2>2. QED
    BY <2>1, SameOrders DEF Mapped, RR!NextQuantum, RR!Over
<1>8. QED
  BY <1>1, <1>7 DEF RR!BlockItself, Left

\* uthread_sleep: the nap is as long as was asked for, plus the quantum of the call.
LEMMA SleepMaps ==
    ASSUME IInv, DeadlinesFit, NoDeadlineWraps, ~exited, NEW n \in SleepArgs, MaySleep(n),
           sleep_running_thread(n)
    PROVE  RR!Sleep(n)
<1> DEFINE run == running_thread_tid
           ths == [threads EXCEPT ![run].state = "READY"]
           sl == WithDeadline(n)
<1>1. run # 0 /\ n > 0 /\ n \in Int /\ UNCHANGED <<blocked_threads, exited>>
  BY ConstantsAssumption DEF MaySleep, sleep_running_thread
<1>2. PICK awake \in handle_sleep_threads(ths, sl) :
          run_next_thread(ths, awake.ready, awake.sleeping)
  BY DEF sleep_running_thread, WithDeadline
<1>3. Deadline(n) \in total_quantums + 2 .. INT_MAX /\ NumbersFit(sleeping_threads)
  BY Fitting, DeadlineFits
<1>4. NumbersFit(sl)
  BY <1>3 DEF NumbersFit, WithDeadline
<1>5. run \notin Reached(sl) /\ Reached(sl) \subseteq DOMAIN sleeping_threads
  BY <1>3 DEF Reached, WithDeadline, NumbersFit
<1>6. \A t \in Reached(sl) : ths[t] = threads[t]
  BY <1>5, SleeperStates
<1>7. /\ {t \in Reached(sl) : ths[t].state = "READY"} = Reached(sl) \ blocked_threads
      /\ Reached(sl) \subseteq Tid
  BY <1>5, <1>6, SleeperStates, RunningInv
<1>8. Quantum({}, blocked_threads, sl)
  BY <1>1, <1>2, <1>4, <1>7, YieldMaps
<1>9. Left(sl) = [tid \in DOMAIN Left(sleeping_threads) \cup {run} |->
                    IF tid = run THEN n + 1 ELSE Left(sleeping_threads)[tid]]
  <2>1. Deadline(n) - total_quantums = n + 1
    BY <1>1, <1>3 DEF Deadline, NumbersFit
  <2>2. DOMAIN Left(sl) = DOMAIN Left(sleeping_threads) \cup {run}
    BY DEF Left, WithDeadline
  <2>3. \A tid \in DOMAIN sleeping_threads \cup {run} :
            Left(sl)[tid] = IF tid = run THEN n + 1 ELSE Left(sleeping_threads)[tid]
    BY <2>1 DEF Left, WithDeadline
  <2>4. QED
    BY <2>2, <2>3 DEF Left
<1>10. RR!NextQuantum({}, blocked_threads,
           [tid \in DOMAIN Left(sleeping_threads) \cup {run} |->
               IF tid = run THEN n + 1 ELSE Left(sleeping_threads)[tid]])
  <2>1. Mapped({}, blocked_threads, sl)
    BY <1>4, <1>8, QuantumMaps
  <2>2. QED
    BY <2>1, <1>9, SameOrders, ZenonT(30) DEF Mapped, RR!NextQuantum, RR!Over
<1>11. QED
  BY <1>1, <1>10 DEF RR!Sleep, Left

-----------------------------------------------------------------------------
(* The calls that start no quantum.                                        *)

\* A step that starts no quantum and sleeps nobody leaves the naps as they are.
LEMMA SameLeft ==
    ASSUME UNCHANGED <<sleeping_threads, total_quantums>>
    PROVE  [tid \in DOMAIN sleeping_threads' |-> sleeping_threads'[tid] - total_quantums'] =
               [tid \in DOMAIN sleeping_threads |-> sleeping_threads[tid] - total_quantums]
OBVIOUS

\* The threads of the map are those that RoundRobin finds in its places.
LEMMA AliveThreads ==
    ASSUME IInv, ~exited
    PROVE  RR!Alive = DOMAIN threads
<1>1. RR!Alive = {running_thread_tid} \cup Range(ready_threads) \cup blocked_threads
                    \cup DOMAIN sleeping_threads
  BY DEF RR!Alive, RR!Range, Range
<1>2. /\ running_thread_tid \in DOMAIN threads
      /\ blocked_threads = {tid \in DOMAIN threads : threads[tid].state = "BLOCKED"}
      /\ \A tid \in DOMAIN threads : threads[tid] \in Thread
      /\ \A tid \in DOMAIN threads :
            threads[tid].state = "RUNNNING" <=> tid = running_thread_tid
  BY RunningInv
<1>3. /\ DOMAIN sleeping_threads \subseteq DOMAIN threads
      /\ Range(ready_threads) = {tid \in DOMAIN threads :
             threads[tid].state = "READY" /\ tid \notin DOMAIN sleeping_threads}
  BY DEF IInv, SleepersExist, QueueExact
<1>4. \A tid \in DOMAIN threads : threads[tid].state \in {"RUNNNING", "BLOCKED", "READY"}
  BY <1>2 DEF Thread, State
<1>5. QED
  BY <1>1, <1>2, <1>3, <1>4

LEMMA SpawnMaps ==
    ASSUME IInv, ~exited, NEW tid \in Tid, add_new_thread(tid)
    PROVE  RR!Spawn(tid)
<1>1. /\ tid \notin RR!Alive
      /\ \A lower \in Tid : lower < tid => lower \in RR!Alive
  BY AliveThreads DEF add_new_thread
<1>2. /\ ready_threads' = Append(ready_threads, tid)
      /\ UNCHANGED <<blocked_threads, sleeping_threads, running_thread_tid, total_quantums, exited>>
  BY DEF add_new_thread
<1>3. QED
  BY <1>1, <1>2, SameLeft DEF RR!Spawn, RR!Tid, Tid

\* The deque without a thread that was in it, or was not.
LEMMA TerminateMaps ==
    ASSUME IInv, ~exited, NEW tid, tid # 0, check_thread(tid), remove_other_thread(tid)
    PROVE  RR!Terminate(tid)
<1>1. tid \in DOMAIN threads /\ tid # running_thread_tid
  BY RunningInv DEF check_thread, remove_other_thread
<1>2. ready_threads \in Seq(Tid) /\ IsInjective(ready_threads)
  BY DEF IInv, TypeOK, QueueExact
<1>3. /\ ready_threads' \in RR!Removed(ready_threads, tid)
      /\ blocked_threads' = blocked_threads \ {tid}
  <2>1. CASE threads[tid].state = "READY"
    <3>1. tid \notin blocked_threads
      BY <2>1, RunningInv
    <3>2. ready_threads' \in remove_thread_from_ready(tid) /\ blocked_threads' = blocked_threads
      BY <2>1 DEF remove_other_thread
    <3>3. QED
      BY <1>2, <3>1, <3>2, ErasedRemoved
  <2>2. CASE threads[tid].state = "BLOCKED"
    <3>1. tid \notin Range(ready_threads)
      BY <2>2 DEF IInv, QueueExact
    <3>2. ready_threads' = ready_threads /\ blocked_threads' = blocked_threads \ {tid}
      BY <2>2 DEF remove_other_thread
    <3>3. QED
      BY <1>1, <1>2, <3>1, <3>2, NothingRemoved
  <2>3. QED
    BY <2>1, <2>2 DEF remove_other_thread
<1>4. /\ sleeping_threads' = [t \in DOMAIN sleeping_threads \ {tid} |-> sleeping_threads[t]]
      /\ UNCHANGED <<running_thread_tid, total_quantums, exited>>
  BY DEF remove_other_thread, Without, Restrict
<1>5. [t \in DOMAIN sleeping_threads' |-> sleeping_threads'[t] - total_quantums'] =
         [t \in DOMAIN Left(sleeping_threads) \ {tid} |-> Left(sleeping_threads)[t]]
  BY <1>4 DEF Left
<1>6. tid \in RR!Alive \ {0, running_thread_tid}
  BY <1>1, AliveThreads
<1>7. QED
  BY <1>3, <1>4, <1>5, <1>6 DEF RR!Terminate, RR!Restrict, Left

LEMMA BlockMaps ==
    ASSUME IInv, ~exited, NEW tid, MayBlock(tid), block_other_thread(tid)
    PROVE  RR!Block(tid)
<1>1. tid \in RR!Alive \ {0, running_thread_tid}
  BY AliveThreads, RunningInv DEF MayBlock, check_thread, block_other_thread
<1>2. ready_threads' \in RR!Removed(ready_threads, tid)
  BY ErasedRemoved DEF IInv, TypeOK, QueueExact, block_other_thread
<1>3. /\ blocked_threads' = blocked_threads \cup {tid}
      /\ UNCHANGED <<sleeping_threads, running_thread_tid, total_quantums, exited>>
  BY DEF block_other_thread
<1>4. QED
  BY <1>1, <1>2, <1>3, SameLeft DEF RR!Block

LEMMA ResumeMaps ==
    ASSUME IInv, ~exited, NEW tid, check_thread(tid), threads[tid].state = "BLOCKED",
           unblock_thread(tid)
    PROVE  RR!Resume(tid) /\ tid \in Tid
<1>1. tid \in blocked_threads /\ tid \in Tid
  BY RunningInv DEF check_thread
<1>2. /\ blocked_threads' = blocked_threads \ {tid}
      /\ ready_threads' = IF tid \in DOMAIN sleeping_threads THEN ready_threads
                           ELSE Append(ready_threads, tid)
      /\ UNCHANGED <<sleeping_threads, running_thread_tid, total_quantums, exited>>
  BY DEF unblock_thread, ready_thread
<1>3. QED
  BY <1>1, <1>2, SameLeft DEF RR!Resume

-----------------------------------------------------------------------------
(* The refinement.                                                         *)

LEMMA InitMaps == Init => RR!Init
BY DEF Init, RR!Init

LEMMA StutterMaps == UNCHANGED vars => UNCHANGED RR!vars
BY SameLeft DEF vars, RR!vars

\* exit(), on either way, touches none of the places.
LEMMA EndMaps ==
    ASSUME ~exited, \/ handleErrorSystemCall
                    \/ remove_all /\ handleForcedExit
    PROVE  RR!SameQuantum
<1>1. /\ exited' = TRUE
      /\ UNCHANGED <<ready_threads, blocked_threads, sleeping_threads, running_thread_tid,
                      total_quantums>>
  BY DEF handleErrorSystemCall, remove_all, handleForcedExit
<1>2. QED
  BY <1>1, SameLeft DEF RR!SameQuantum, RR!End

LEMMA StepMaps ==
    ASSUME NoDeadlineWraps, IInv, DeadlinesFit, Next
    PROVE  [RR!Next]_RR!vars
<1>1. CASE UNCHANGED vars
  BY <1>1, StutterMaps
<1>2. CASE change_thread
  BY <1>2, ExpireMaps DEF change_thread, RR!Next, RR!NewQuantum
<1>3. CASE handleErrorSystemCall
  BY <1>3, EndMaps DEF handleErrorSystemCall, RR!Next
<1>4. CASE uthread_spawn
  <2>1. ASSUME NEW tid \in Tid, add_new_thread(tid) PROVE RR!Next
    BY <1>4, <2>1, SpawnMaps DEF uthread_spawn, RR!Next, RR!SameQuantum, RR!Tid, Tid
  <2>2. QED
    BY <1>1, <1>4, <2>1 DEF uthread_spawn, handleErrorLibrary
<1>5. ASSUME NEW tid \in TidArgs, uthread_terminate(tid) PROVE [RR!Next]_RR!vars
  <2>0. ~exited
    BY <1>5 DEF uthread_terminate
  <2>1. CASE remove_all /\ handleForcedExit
    BY <2>0, <2>1, EndMaps DEF RR!Next
  <2>2. CASE tid # 0 /\ check_thread(tid) /\ remove_other_thread(tid)
    <3>1. RR!Terminate(tid) /\ tid \in Tid
      BY <2>0, <2>2, TerminateMaps, RunningInv DEF check_thread
    <3>2. QED
      BY <2>0, <3>1 DEF RR!Next, RR!SameQuantum, RR!Tid, Tid
  <2>3. CASE tid # 0 /\ check_thread(tid) /\ remove_running_thread(tid)
    BY <2>0, <2>3, TerminateItselfMaps DEF RR!Next, RR!NewQuantum
  <2>4. QED
    BY <1>1, <1>5, <2>1, <2>2, <2>3 DEF uthread_terminate, handleErrorLibrary
<1>6. ASSUME NEW tid \in TidArgs, uthread_block(tid) PROVE [RR!Next]_RR!vars
  <2>0. ~exited
    BY <1>6 DEF uthread_block
  <2>1. CASE MayBlock(tid) /\ block_other_thread(tid)
    <3>1. RR!Block(tid) /\ tid \in Tid
      BY <2>0, <2>1, BlockMaps, RunningInv DEF MayBlock, check_thread
    <3>2. QED
      BY <2>0, <3>1 DEF RR!Next, RR!SameQuantum, RR!Tid, Tid
  <2>2. CASE MayBlock(tid) /\ block_running_thread(tid)
    BY <2>0, <2>2, BlockItselfMaps DEF RR!Next, RR!NewQuantum
  <2>3. QED
    BY <1>1, <1>6, <2>1, <2>2 DEF uthread_block, handleErrorLibrary
<1>7. ASSUME NEW tid \in TidArgs, uthread_resume(tid) PROVE [RR!Next]_RR!vars
  <2>0. ~exited
    BY <1>7 DEF uthread_resume
  <2>1. CASE check_thread(tid) /\ threads[tid].state = "BLOCKED" /\ unblock_thread(tid)
    <3>1. RR!Resume(tid) /\ tid \in Tid
      BY <2>0, <2>1, ResumeMaps
    <3>2. QED
      BY <2>0, <3>1 DEF RR!Next, RR!SameQuantum, RR!Tid, Tid
  <2>2. QED
    BY <1>1, <1>7, <2>1 DEF uthread_resume, handleErrorLibrary
<1>8. ASSUME NEW n \in SleepArgs, uthread_sleep(n) PROVE [RR!Next]_RR!vars
  <2>0. ~exited
    BY <1>8 DEF uthread_sleep
  <2>1. CASE MaySleep(n) /\ sleep_running_thread(n)
    <3>1. RR!Sleep(n) /\ n \in {k \in SleepArgs : k > 0}
      BY <2>0, <2>1, SleepMaps DEF MaySleep
    <3>2. QED
      BY <2>0, <3>1 DEF RR!Next, RR!NewQuantum
  <2>2. QED
    BY <1>1, <1>8, <2>1 DEF uthread_sleep, handleErrorLibrary
<1>9. QED
  BY <1>2, <1>3, <1>4, <1>5, <1>6, <1>7, <1>8 DEF Next, OtherCalls

\* The scheduler, with its counters, deadlines and four paths to a new quantum,
\* is a round robin of the threads that neither are blocked nor nap.
THEOREM ImplementsRoundRobin ==
    ASSUME NoDeadlineWraps
    PROVE  Spec => RoundRobinSpec
<1>1. IInv /\ DeadlinesFit /\ [Next]_vars => [RR!Next]_RR!vars
  BY StepMaps, StutterMaps
<1>2. Init => RR!Init
  BY InitMaps
<1>3. QED
  BY <1>1, <1>2, Invariance, DeadlinesAlwaysFit, PTL DEF Spec, RoundRobinSpec, RR!Spec
=============================================================================
