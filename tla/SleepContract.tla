--------------------------- MODULE SleepContract ---------------------------
(***************************************************************************)
(* What uthread_sleep promises its callers, beside what Scheduler does.    *)
(*                                                                         *)
(* The history variable nap records, as the documentation of uthread_sleep *)
(* counts it, the first quantum in which an accepted sleeper may run again *)
(* (the quantum of the call is not counted, and then num_quantums quantums *)
(* pass).  It never constrains a step of Scheduler.                        *)
(***************************************************************************)
EXTENDS Scheduler

VARIABLE nap   \* tid -> the first quantum it may run in, until that starts

ContractInit == Init /\ nap = [tid \in {} |-> 0]

\* The naps that last into the quantum which the step starts, or is in, of the
\* threads that are still there.
Lasting(naps) ==
    Restrict(naps, {tid \in DOMAIN naps \cap DOMAIN threads' : naps[tid] > total_quantums'})

\* The naps once running_thread_tid has been promised num_quantums quantums.
Promised(num_quantums) ==
    [tid \in DOMAIN nap \cup {running_thread_tid} |->
        IF tid = running_thread_tid THEN total_quantums + num_quantums + 1 ELSE nap[tid]]

Sleep(num_quantums) ==
    /\ uthread_sleep(num_quantums)
    /\ nap' = Lasting(IF MaySleep(num_quantums) THEN Promised(num_quantums) ELSE nap)

Other ==
    /\ OtherCalls
    /\ nap' = Lasting(nap)

ContractNext == Other \/ \E n \in SleepArgs : Sleep(n)

ContractSpec == ContractInit /\ [][ContractNext]_<<vars, nap>>

-----------------------------------------------------------------------------

\* uthreads.h: uthread_sleep "Blocks the RUNNING thread for num_quantums
\* quantums".  Whatever the other threads do to it meanwhile (block, resume,
\* and spawn after it is gone), a thread never runs before its nap is over.
SleepHonoured == ~exited => running_thread_tid \notin DOMAIN nap

=============================================================================
