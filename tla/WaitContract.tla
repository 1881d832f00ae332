---------------------------- MODULE WaitContract ----------------------------
(***************************************************************************)
(* What the end of the ready deque is worth to a thread that comes there,  *)
(* beside what SleepContract promises to a thread that leaves it.          *)
(*                                                                         *)
(* The history variable turn records, when a thread comes to the deque,    *)
(* the quantum in which it runs at the latest if nobody overtakes it: with *)
(* n threads in front of it, the n + 1st from then on.  It never           *)
(* constrains a step of Scheduler.                                         *)
(***************************************************************************)
EXTENDS SleepContract

VARIABLE turn   \* tid in the deque -> the last quantum it may wait for

WaitInit == ContractInit /\ turn = [tid \in {} |-> 0]

\* The position of a thread of the deque q.
PlaceIn(q, tid) == CHOOSE i \in DOMAIN q : q[i] = tid

\* A thread that was in the deque before keeps its turn.
Turns ==
    [tid \in Range(ready_threads') |->
        IF tid \in Range(ready_threads) THEN turn[tid]
        ELSE total_quantums' + PlaceIn(ready_threads', tid)]

WaitNext == ContractNext /\ turn' = Turns

WaitSpec == WaitInit /\ [][WaitNext]_<<vars, nap, turn>>

-----------------------------------------------------------------------------

\* uthreads.h adds a thread "to the end of the READY threads list" when it is
\* spawned (:37) or wakes up (:88).  From there it runs within as many quantums as
\* it had threads in front of it and one, whatever is spawned, blocked, resumed,
\* preempted, or wakes up meanwhile: the turn of a thread that still waits is never
\* now or past, nor further away than MAX_THREAD_NUM - 1 quantums.
TurnsKept ==
    ~exited =>
        \A tid \in Range(ready_threads) :
            turn[tid] \in total_quantums + 1 .. total_quantums + MAX_THREAD_NUM - 1

=============================================================================
