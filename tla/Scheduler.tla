----------------------------- MODULE Scheduler -----------------------------
(***************************************************************************)
(* The thread scheduler of Scheduler.cpp behind the public functions of    *)
(* uthreads.cpp: the thread map, the ready deque, the set of blocked       *)
(* threads, the map of sleeping threads and the quantum counters.          *)
(*                                                                         *)
(* Every public function runs with SIGVTALRM blocked from its first to its *)
(* last access to this state, and change_thread runs as the handler of     *)
(* that signal, so one call, or one expiry of the timer, is one action     *)
(* here; module Preemption models the signal mask which makes them atomic. *)
(*                                                                         *)
(* Behaviours start when uthread_init has returned 0.                      *)
(*                                                                         *)
(* An operator F_Variant is F with a plausible mistake in it.  No action   *)
(* uses it: putting it in F's place makes one of the properties fail,      *)
(* which shows that the property depends on what F does.                   *)
(***************************************************************************)
EXTENDS Listings

CONSTANTS
    MAX_THREAD_NUM,  \* uthreads.h:11, the number of thread ids
    INT_MAX,         \* the largest value of a C int
    SleepArgs,       \* the ints that callers pass to uthread_sleep
    MaxQuantums      \* bound of the model: no quantum starts beyond this one

ASSUME ConstantsAssumption ==
    /\ MAX_THREAD_NUM \in Nat \ {0}
    /\ INT_MAX \in Nat \ {0}
    /\ SleepArgs \subseteq -INT_MAX .. INT_MAX
    /\ MaxQuantums \in 1 .. INT_MAX

VARIABLES
    threads,             \* std::map: tid -> Thread (its state and quantum_t)
    ready_threads,       \* std::deque of the tids waiting for the processor
    blocked_threads,     \* std::set of the tids that uthread_block stopped
    sleeping_threads,    \* std::map: tid -> the deadline that uthread_sleep computed
    running_thread_tid,
    total_quantums,
    exited               \* the process has called exit()

vars == <<threads, ready_threads, blocked_threads, sleeping_threads,
          running_thread_tid, total_quantums, exited>>

Tid == 0 .. MAX_THREAD_NUM - 1

\* The tids callers pass: every id, and an int on either side of the ids.
TidArgs == -1 .. MAX_THREAD_NUM

State == {"RUNNNING", "BLOCKED", "READY"}

Thread == [state : State, quantum_t : Nat]

Init ==
    /\ threads = [tid \in {0} |-> [state |-> "RUNNNING", quantum_t |-> 1]]
    /\ ready_threads = <<>>
    /\ blocked_threads = {}
    /\ sleeping_threads = [tid \in {} |-> 0]
    /\ running_thread_tid = 0
    /\ total_quantums = 1
    /\ exited = FALSE

-----------------------------------------------------------------------------
(* Errors, and helpers on the containers.                                  *)

\* An error message and the result -1, nothing else.
handleErrorLibrary == UNCHANGED vars

check_thread(tid) == tid \in DOMAIN threads

\* std::map::erase of the keys in S.
Without(map, S) == Restrict(map, DOMAIN map \ S)

\* The positions remove_thread_from_ready erases.  Its loop increments i after
\* an erase as well, so the element that moved into the gap is not looked at.
ErasedAt(tid) ==
    CHOOSE E \in SUBSET DOMAIN ready_threads :
        \A i \in DOMAIN ready_threads :
            i \in E <=> ready_threads[i] = tid /\ i - 1 \notin E

remove_thread_from_ready_Neighbour(tid) ==
    {[j \in DOMAIN kept |-> ready_threads[kept[j]]] :
        kept \in Ascending({i \in DOMAIN ready_threads : i - 1 \notin ErasedAt(tid)})}

\* The deques the loop can leave (there is one).
remove_thread_from_ready(tid) ==
    {[j \in DOMAIN kept |-> ready_threads[kept[j]]] :
        kept \in Ascending(DOMAIN ready_threads \ ErasedAt(tid))}

ready_thread_EvenAsleep(tid, ready, sleeping) == Append(ready, tid)
ready_thread_InFront(tid, ready, sleeping) ==
    IF tid \in DOMAIN sleeping THEN ready ELSE <<tid>> \o ready

\* The ready deque after ready_thread(tid): a sleeping thread is not queued,
\* handle_sleep_threads queues it when its time has come.
ready_thread(tid, ready, sleeping) ==
    IF tid \in DOMAIN sleeping THEN ready ELSE Append(ready, tid)

-----------------------------------------------------------------------------
(* Sleeping and dispatching.                                               *)

INT_MIN == -INT_MAX - 1

\* (int) x for a size_t x: a deadline total_quantums + num_quantums + 1 is at
\* most 2 * INT_MAX + 1, so it wraps around once at most.
ToInt(x) == IF x <= INT_MAX THEN x ELSE x - 2 * (INT_MAX + 1)

IsDue_OneLate(deadline) == ToInt(deadline) <= total_quantums
IsDue(deadline) == ToInt(deadline) - 1 <= total_quantums

\* The sets of threads _handle_sleep_threads may wake: those that are due.
\* (int) num_quantums - 1 overflows for INT_MIN, an undefined behaviour that
\* the build may resolve either way.
DueSets(sleeping) ==
    {due \in SUBSET DOMAIN sleeping :
        \A tid \in DOMAIN sleeping :
            ToInt(sleeping[tid]) # INT_MIN => (tid \in due <=> IsDue(sleeping[tid]))}

handle_sleep_threads_InFront(ths, sleeping) ==
    UNION {{[ready |-> woken \o ready_threads, sleeping |-> Without(sleeping, due)] :
                woken \in Ascending({tid \in due : ths[tid].state = "READY"})} :
           due \in DueSets(sleeping)}

\* The deque and the map _handle_sleep_threads may leave: every due thread is
\* erased from the map, and queued, in the order of the map, if it is READY.
handle_sleep_threads(ths, sleeping) ==
    UNION {{[ready |-> ready_threads \o woken, sleeping |-> Without(sleeping, due)] :
                woken \in Ascending({tid \in due : ths[tid].state = "READY"})} :
           due \in DueSets(sleeping)}

run_next_thread_NoCharge(ths, ready, sleeping) ==
    LET next == Head(ready) IN
    /\ total_quantums < MaxQuantums
    /\ total_quantums' = total_quantums + 1
    /\ running_thread_tid' = next
    /\ ready_threads' = Tail(ready)
    /\ sleeping_threads' = sleeping
    /\ threads' = [ths EXCEPT ![next].state = "RUNNNING"]

\* run_next_thread: the front of the deque starts a new quantum.
run_next_thread(ths, ready, sleeping) ==
    LET next == Head(ready) IN
    /\ total_quantums < MaxQuantums
    /\ total_quantums' = total_quantums + 1
    /\ running_thread_tid' = next
    /\ ready_threads' = Tail(ready)
    /\ sleeping_threads' = sleeping
    /\ threads' = [ths EXCEPT ![next] = [state |-> "RUNNNING",
                                         quantum_t |-> @.quantum_t + 1]]

-----------------------------------------------------------------------------
(* The timer handler and the public functions.                             *)

\* SIGVTALRM: the running thread goes to the back of the deque, behind the
\* threads that wake up, and the front of the deque runs.
change_thread ==
    /\ ~exited
    /\ \E awake \in handle_sleep_threads(threads, sleeping_threads) :
          run_next_thread([threads EXCEPT ![running_thread_tid].state = "READY"],
                          ready_thread(running_thread_tid, awake.ready, awake.sleeping),
                          awake.sleeping)
    /\ UNCHANGED <<blocked_threads, exited>>

add_new_thread_CountedId(tid) ==
    /\ tid = Cardinality(DOMAIN threads)
    /\ threads' = [t \in DOMAIN threads \cup {tid} |->
                      IF t = tid THEN [state |-> "READY", quantum_t |-> 0]
                                 ELSE threads[t]]
    /\ ready_threads' = Append(ready_threads, tid)
    /\ UNCHANGED <<blocked_threads, sleeping_threads, running_thread_tid,
                   total_quantums, exited>>

\* The new Thread object takes the lowest free id and the back of the deque.
add_new_thread(tid) ==
    /\ tid \notin DOMAIN threads
    /\ \A lower \in Tid : lower < tid => lower \in DOMAIN threads
    /\ threads' = [t \in DOMAIN threads \cup {tid} |->
                      IF t = tid THEN [state |-> "READY", quantum_t |-> 0]
                                 ELSE threads[t]]
    /\ ready_threads' = Append(ready_threads, tid)
    /\ UNCHANGED <<blocked_threads, sleeping_threads, running_thread_tid,
                   total_quantums, exited>>

uthread_spawn_OneMoreId ==
    /\ ~exited
    /\ \E tid \in 0 .. MAX_THREAD_NUM :
          /\ tid \notin DOMAIN threads /\ \A lower \in Tid : lower < tid => lower \in DOMAIN threads
          /\ threads' = [t \in DOMAIN threads \cup {tid} |->
                            IF t = tid THEN [state |-> "READY", quantum_t |-> 0]
                                       ELSE threads[t]]
          /\ ready_threads' = Append(ready_threads, tid)
    /\ UNCHANGED <<blocked_threads, sleeping_threads, running_thread_tid,
                   total_quantums, exited>>

\* uthread_spawn of a function.  With all ids taken it returns -1.
uthread_spawn ==
    /\ ~exited
    /\ \/ \E tid \in Tid : add_new_thread(tid)
       \/ Tid \subseteq DOMAIN threads /\ handleErrorLibrary

\* remove_thread, when the thread is not the caller's.  The sleeping map is
\* cleaned on this path only: the other path leaves by siglongjmp.
remove_other_thread_StillAsleep(tid) ==
    /\ threads' = Without(threads, {tid})
    /\ \/ /\ threads[tid].state = "READY"
          /\ ready_threads' \in remove_thread_from_ready(tid)
          /\ UNCHANGED blocked_threads
       \/ /\ threads[tid].state = "BLOCKED"
          /\ blocked_threads' = blocked_threads \ {tid}
          /\ UNCHANGED ready_threads
    /\ UNCHANGED <<sleeping_threads, running_thread_tid, total_quantums, exited>>

remove_other_thread(tid) ==
    /\ threads' = Without(threads, {tid})
    /\ \/ /\ threads[tid].state = "READY"
          /\ ready_threads' \in remove_thread_from_ready(tid)
          /\ UNCHANGED blocked_threads
       \/ /\ threads[tid].state = "BLOCKED"
          /\ blocked_threads' = blocked_threads \ {tid}
          /\ UNCHANGED ready_threads
    /\ sleeping_threads' = Without(sleeping_threads, {tid})
    /\ UNCHANGED <<running_thread_tid, total_quantums, exited>>

remove_running_thread_NoWakeUp(tid) ==
    /\ threads[tid].state = "RUNNNING"
    /\ run_next_thread(Without(threads, {tid}), ready_threads, sleeping_threads)
    /\ UNCHANGED <<blocked_threads, exited>>

\* remove_thread of a RUNNNING thread: the caller removes itself and a new
\* quantum starts; the call does not return.
remove_running_thread(tid) ==
    /\ threads[tid].state = "RUNNNING"
    /\ LET rest == Without(threads, {tid}) IN
       \E awake \in handle_sleep_threads(rest, sleeping_threads) :
          run_next_thread(rest, awake.ready, awake.sleeping)
    /\ UNCHANGED <<blocked_threads, exited>>

remove_all ==
    /\ threads' = Without(threads, DOMAIN threads)
    /\ UNCHANGED <<ready_threads, blocked_threads, sleeping_threads,
                   running_thread_tid, total_quantums>>

handleForcedExit == exited' = TRUE

uthread_terminate(tid) ==
    /\ ~exited
    /\ \/ tid = 0 /\ remove_all /\ handleForcedExit
       \/ tid # 0 /\ ~check_thread(tid) /\ handleErrorLibrary
       \/ /\ tid # 0 /\ check_thread(tid)
          /\ remove_other_thread(tid) \/ remove_running_thread(tid)

block_other_thread(tid) ==
    /\ threads[tid].state = "READY"
    /\ threads' = [threads EXCEPT ![tid].state = "BLOCKED"]
    /\ blocked_threads' = blocked_threads \cup {tid}
    /\ ready_threads' \in remove_thread_from_ready(tid)
    /\ UNCHANGED <<sleeping_threads, running_thread_tid, total_quantums, exited>>

block_running_thread(tid) ==
    /\ threads[tid].state = "RUNNNING"
    /\ blocked_threads' = blocked_threads \cup {tid}
    /\ LET ths == [threads EXCEPT ![tid].state = "BLOCKED"] IN
       \E awake \in handle_sleep_threads(ths, sleeping_threads) :
          run_next_thread(ths, awake.ready, awake.sleeping)
    /\ UNCHANGED exited

\* uthread_block refuses an unknown id and the main thread.
MayBlock(tid) == check_thread(tid) /\ tid # 0

uthread_block(tid) ==
    /\ ~exited
    /\ \/ ~MayBlock(tid) /\ handleErrorLibrary
       \/ MayBlock(tid) /\ threads[tid].state = "BLOCKED" /\ UNCHANGED vars
       \/ MayBlock(tid) /\ (block_other_thread(tid) \/ block_running_thread(tid))

unblock_thread_ForgetSet(tid) ==
    /\ threads' = [threads EXCEPT ![tid].state = "READY"]
    /\ ready_threads' = ready_thread(tid, ready_threads, sleeping_threads)
    /\ UNCHANGED <<blocked_threads, sleeping_threads, running_thread_tid,
                   total_quantums, exited>>

\* unblock_thread of a BLOCKED thread.
unblock_thread(tid) ==
    /\ threads' = [threads EXCEPT ![tid].state = "READY"]
    /\ ready_threads' = ready_thread(tid, ready_threads, sleeping_threads)
    /\ blocked_threads' = blocked_threads \ {tid}
    /\ UNCHANGED <<sleeping_threads, running_thread_tid, total_quantums, exited>>

\* uthread_resume: an error for an unknown id, no effect unless BLOCKED.
uthread_resume(tid) ==
    /\ ~exited
    /\ \/ ~check_thread(tid) /\ handleErrorLibrary
       \/ check_thread(tid) /\ threads[tid].state # "BLOCKED" /\ UNCHANGED vars
       \/ check_thread(tid) /\ threads[tid].state = "BLOCKED" /\ unblock_thread(tid)

\* The value sleep_running_thread stores, a sum of size_t.
Deadline_OneEarly(num_quantums) == total_quantums + num_quantums
Deadline(num_quantums) == total_quantums + num_quantums + 1

sleep_running_thread(num_quantums) ==
    LET tid == running_thread_tid
        sleeping == [t \in DOMAIN sleeping_threads \cup {tid} |->
                        IF t = tid THEN Deadline(num_quantums) ELSE sleeping_threads[t]]
        ths == [threads EXCEPT ![tid].state = "READY"]
    IN  /\ \E awake \in handle_sleep_threads(ths, sleeping) :
              run_next_thread(ths, awake.ready, awake.sleeping)
        /\ UNCHANGED <<blocked_threads, exited>>

\* uthread_sleep refuses a non-positive number and the main thread.
MaySleep(num_quantums) == num_quantums > 0 /\ running_thread_tid # 0

uthread_sleep(num_quantums) ==
    /\ ~exited
    /\ \/ ~MaySleep(num_quantums) /\ handleErrorLibrary
       \/ MaySleep(num_quantums) /\ sleep_running_thread(num_quantums)

\* A failing sigprocmask or setitimer ends the process inside of whatever
\* function made the call.
handleErrorSystemCall ==
    /\ ~exited
    /\ exited' = TRUE
    /\ UNCHANGED <<threads, ready_threads, blocked_threads, sleeping_threads,
                   running_thread_tid, total_quantums>>

OtherCalls ==
    \/ change_thread
    \/ handleErrorSystemCall
    \/ uthread_spawn
    \/ \E tid \in TidArgs : uthread_terminate(tid)
    \/ \E tid \in TidArgs : uthread_block(tid)
    \/ \E tid \in TidArgs : uthread_resume(tid)

Next == OtherCalls \/ \E n \in SleepArgs : uthread_sleep(n)

Spec == Init /\ [][Next]_vars

-----------------------------------------------------------------------------
(* Properties.                                                             *)

\* Every variable has its type; a deadline fits what ToInt converts.
TypeOK ==
    /\ DOMAIN threads \subseteq Tid
    /\ threads \in [DOMAIN threads -> Thread]
    /\ ready_threads \in Seq(Tid)
    /\ blocked_threads \subseteq Tid
    /\ DOMAIN sleeping_threads \subseteq Tid
    /\ sleeping_threads \in [DOMAIN sleeping_threads -> 0 .. 2 * INT_MAX + 1]
    /\ running_thread_tid \in Tid
    /\ total_quantums \in 1 .. MaxQuantums
    /\ exited \in BOOLEAN

\* The three records of what a thread does agree: the thread that runs is the
\* only one whose state is RUNNNING, and blocked_threads holds exactly the
\* threads whose state is BLOCKED (uthread_block, uthread_resume and
\* uthread_terminate update them separately).
StatesAgree ==
    ~exited =>
        /\ \A tid \in DOMAIN threads :
              threads[tid].state = "RUNNNING" <=> tid = running_thread_tid
        /\ blocked_threads = {tid \in DOMAIN threads : threads[tid].state = "BLOCKED"}
        /\ running_thread_tid \in DOMAIN threads

\* ready_threads holds every thread that is READY and does not sleep, once, and
\* no other: no thread is forgotten and none runs twice as often.  This is also
\* what makes remove_thread_from_ready's loop, which skips an element after an
\* erase, remove the thread for good.
QueueExact ==
    ~exited =>
        /\ IsInjective(ready_threads)
        /\ Range(ready_threads) = {tid \in DOMAIN threads :
               threads[tid].state = "READY" /\ tid \notin DOMAIN sleeping_threads}

\* The sleepers are threads of the map other than the main and the running one.
\* _handle_sleep_threads dereferences threads[tid] for each of them, and a
\* deadline left behind by a terminated thread would suspend the next thread
\* that is given its id.
SleepersExist ==
    ~exited => DOMAIN sleeping_threads \subseteq
                   DOMAIN threads \ {0, running_thread_tid}

\* Thread 0 runs or waits in the deque.  So when the running thread blocks,
\* sleeps or terminates, run_next_thread never takes the front of an empty
\* deque: uthread_block and uthread_sleep have to refuse the main thread.
MainSchedulable ==
    ~exited =>
        /\ 0 \in DOMAIN threads
        /\ running_thread_tid = 0 \/ 0 \in Range(ready_threads)

\* No thread sleeps beyond its deadline, also not one that was blocked and
\* resumed in its sleep: every quantum starts with _handle_sleep_threads.
NoOversleep ==
    \A tid \in DOMAIN sleeping_threads :
        ToInt(sleeping_threads[tid]) > 0 => total_quantums < ToInt(sleeping_threads[tid])

\* a stands before b in the deque q.
Before(q, a, b) == \E i, j \in DOMAIN q : i < j /\ q[i] = a /\ q[j] = b

\* The deque is first in, first out: whatever a step does, a thread stays in
\* front of the threads behind it and of those not queued yet, and a new quantum
\* goes to the thread that waited longest.
NoOvertaking ==
    [][/\ \A a \in Range(ready_threads), b \in Tid :
            /\ a # b /\ ~Before(ready_threads, b, a)
            /\ {a, b} \subseteq Range(ready_threads')
            => Before(ready_threads', a, b)
       /\ total_quantums' # total_quantums /\ ready_threads # <<>>
            => running_thread_tid' = Head(ready_threads)]_vars

OnlyNewQuantumCharged ==
    \A tid \in DOMAIN threads \cap DOMAIN threads' :
        threads'[tid].quantum_t - threads[tid].quantum_t =
            IF total_quantums' # total_quantums /\ tid = running_thread_tid' THEN 1 ELSE 0

\* uthread_get_quantums and uthread_get_total_quantums stay consistent: each new
\* quantum is charged to one thread, the one that starts to run, also when that
\* is the thread that ran before.
QuantumCharged == [][OnlyNewQuantumCharged]_vars

=============================================================================
