----------------------------- MODULE RoundRobin -----------------------------
(***************************************************************************)
(* What the scheduler promises, without its counters and its map of thread *)
(* objects: the processor goes round among the threads that are neither    *)
(* blocked nor asleep, in the order in which they came to the queue.       *)
(*                                                                         *)
(* A nap is the number of quantums left of it, so nothing here grows and   *)
(* the state space is finite without a bound on the quantums, as it has to *)
(* be for a liveness property to mean anything.  The order in which the    *)
(* threads of one moment (those that wake up, and the one that had the     *)
(* processor) come to the queue is left open, as in uthreads.h.            *)
(***************************************************************************)
EXTENDS Listings

CONSTANTS
    MAX_THREAD_NUM,
    Naps              \* the lengths of sleep that uthread_sleep accepts

ASSUME RoundRobinAssumption ==
    /\ MAX_THREAD_NUM \in Nat \ {0}
    /\ Naps \subseteq Nat \ {0}

VARIABLES
    queue,     \* the threads that wait for the processor, the next one first
    blocked,   \* the threads that uthread_block stopped
    left,      \* tid -> how many quantums of its nap are left
    running,
    ended      \* the process has called exit()

vars == <<queue, blocked, left, running, ended>>

Tid == 0 .. MAX_THREAD_NUM - 1

Alive == {running} \cup Range(queue) \cup blocked \cup DOMAIN left

Init ==
    /\ queue = <<>>
    /\ blocked = {}
    /\ left = [tid \in {} |-> 0]
    /\ running = 0
    /\ ended = FALSE

Removed_Neighbour(q, tid) ==
    {[j \in DOMAIN kept |-> q[kept[j]]] :
        kept \in Ascending({i \in DOMAIN q : i = 1 \/ q[i - 1] # tid})}

\* The queue q once the thread has been taken out of it.
Removed(q, tid) ==
    {[j \in DOMAIN kept |-> q[kept[j]]] : kept \in Ascending({i \in DOMAIN q : q[i] # tid})}

-----------------------------------------------------------------------------
(* The quantums.  An operator F_Variant is F with a plausible mistake in   *)
(* it, which no action uses (see Scheduler).                               *)

\* The naps that the quantum about to start is not part of any more.
Over(naps) == {tid \in DOMAIN naps : naps[tid] <= 1}

NextQuantum_SameAgain(yielding, stopped, naps) ==
    \E come \in Orders((Over(naps) \ stopped) \cup yielding) :
       LET q == come \o queue IN
       /\ q # <<>>
       /\ running' = Head(q)
       /\ queue' = Tail(q)
       /\ left' = [tid \in DOMAIN naps \ Over(naps) |-> naps[tid] - 1]

NextQuantum_BlockedNapStops(yielding, stopped, naps) ==
    \E come \in Orders((Over(naps) \ stopped) \cup yielding) :
       LET q == queue \o come IN
       /\ q # <<>>
       /\ running' = Head(q)
       /\ queue' = Tail(q)
       /\ left' = [tid \in (DOMAIN naps \ Over(naps)) \cup (DOMAIN naps \cap stopped) |->
                     IF tid \in stopped THEN naps[tid] ELSE naps[tid] - 1]

\* A new quantum: naps go on or end, the threads of yielding and those that
\* wake up and are not stopped come to the queue, and its front runs.
NextQuantum(yielding, stopped, naps) ==
    \E come \in Orders((Over(naps) \ stopped) \cup yielding) :
       LET q == queue \o come IN
       /\ q # <<>>
       /\ running' = Head(q)
       /\ queue' = Tail(q)
       /\ left' = [tid \in DOMAIN naps \ Over(naps) |-> naps[tid] - 1]

\* The timer takes the processor from the running thread.
Expire ==
    /\ NextQuantum({running}, blocked, left)
    /\ UNCHANGED <<blocked, ended>>

\* The running thread gives it up for a nap, until it is resumed, or for good.
\* The main thread does none of these.
Sleep(n) ==
    /\ running # 0
    /\ NextQuantum({}, blocked,
          [tid \in DOMAIN left \cup {running} |-> IF tid = running THEN n + 1 ELSE left[tid]])
    /\ UNCHANGED <<blocked, ended>>

BlockItself ==
    /\ running # 0
    /\ blocked' = blocked \cup {running}
    /\ NextQuantum({}, blocked', left)
    /\ UNCHANGED ended

TerminateItself ==
    /\ running # 0
    /\ NextQuantum({}, blocked, left)
    /\ UNCHANGED <<blocked, ended>>

NewQuantum ==
    /\ ~ended
    /\ Expire \/ (\E n \in Naps : Sleep(n)) \/ BlockItself \/ TerminateItself

-----------------------------------------------------------------------------
(* What the running thread does to the others.                             *)

Spawn(tid) ==
    /\ tid \notin Alive
    /\ \A lower \in Tid : lower < tid => lower \in Alive
    /\ queue' = Append(queue, tid)
    /\ UNCHANGED <<blocked, left, running, ended>>

Terminate(tid) ==
    /\ tid \in Alive \ {0, running}
    /\ queue' \in Removed(queue, tid)
    /\ blocked' = blocked \ {tid}
    /\ left' = Restrict(left, DOMAIN left \ {tid})
    /\ UNCHANGED <<running, ended>>

Block(tid) ==
    /\ tid \in Alive \ {0, running}
    /\ queue' \in Removed(queue, tid)
    /\ blocked' = blocked \cup {tid}
    /\ UNCHANGED <<left, running, ended>>

Resume_EvenAsleep(tid) ==
    /\ tid \in blocked
    /\ blocked' = blocked \ {tid}
    /\ queue' = Append(queue, tid)
    /\ UNCHANGED <<left, running, ended>>

Resume(tid) ==
    /\ tid \in blocked
    /\ blocked' = blocked \ {tid}
    /\ queue' = IF tid \in DOMAIN left THEN queue ELSE Append(queue, tid)
    /\ UNCHANGED <<left, running, ended>>

\* The main thread is terminated, or a system call fails.
End ==
    /\ ended' = TRUE
    /\ UNCHANGED <<queue, blocked, left, running>>

SameQuantum ==
    /\ ~ended
    /\ End \/ \E tid \in Tid : Spawn(tid) \/ Terminate(tid) \/ Block(tid) \/ Resume(tid)

Next == NewQuantum \/ SameQuantum

Spec == Init /\ [][Next]_vars

\* Every quantum ends: the timer is armed, and a thread that computes and does
\* not give up the processor meets its expiry.  It would be too much to assume
\* WF_vars(Expire): each function that gives up the processor restarts the timer.
FairSpec == Spec /\ WF_vars(NewQuantum)

-----------------------------------------------------------------------------
(* Properties.                                                             *)

\* Every variable has its type, and no thread is in two places: the queue holds
\* it once, and who is in the queue neither runs nor is blocked nor naps.
RoundRobinTypeOK ==
    /\ queue \in Seq(Tid)
    /\ IsInjective(queue)
    /\ blocked \subseteq Tid
    /\ DOMAIN left \subseteq Tid
    /\ \A tid \in DOMAIN left : left[tid] \in Nat
    /\ running \in Tid
    /\ ended \in BOOLEAN
    /\ Range(queue) \cap ({running} \cup blocked \cup DOMAIN left) = {}
    /\ running \notin blocked \cup DOMAIN left

\* Nobody starves: whatever the running threads spawn, resume or let sleep, and
\* however short they make their quantums, a thread that is ready gets the
\* processor, unless someone blocks or terminates it before.
ReadyThreadsRun ==
    \A tid \in Tid : tid \in Range(queue) ~> (tid \notin Range(queue) \/ ended)

\* Every nap ends, also that of a thread which is blocked and resumed in it.
NapsEnd ==
    \A tid \in Tid : tid \in DOMAIN left ~> (tid \notin DOMAIN left \/ ended)

\* The main thread, which cannot be stopped, runs again and again.
MainRunsForever == []<>(running = 0 \/ ended)

=============================================================================
