-------------------------- MODULE RoundRobinMapping --------------------------
(***************************************************************************)
(* Scheduler implements RoundRobin, as long as no deadline goes beyond     *)
(* INT_MAX: what is left of a nap is the deadline less total_quantums.     *)
(***************************************************************************)
EXTENDS Scheduler

RR == INSTANCE RoundRobin WITH
    Naps <- {n \in SleepArgs : n > 0},
    queue <- ready_threads,
    blocked <- blocked_threads,
    left <- [tid \in DOMAIN sleeping_threads |-> sleeping_threads[tid] - total_quantums],
    running <- running_thread_tid,
    ended <- exited

\* The containers and the counters together do what a round robin without them
\* promises: every step of the scheduler, by whatever path it comes to a new
\* quantum, is a step of RoundRobin or changes nothing there.
RoundRobinSpec == RR!Spec
=============================================================================
