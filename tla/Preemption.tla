----------------------------- MODULE Preemption -----------------------------
(***************************************************************************)
(* The library at the grain at which SIGVTALRM can interrupt it: the timer,*)
(* the signal mask, the stack of library and handler frames of every       *)
(* thread, and the context (sigjmp_buf) that each of them resumes from.    *)
(*                                                                         *)
(* The critical section of a function, from block_signals to               *)
(* unblock_signals or siglongjmp, is cut wherever its statements leave the *)
(* containers disagreeing, so an interrupt inside of it would be seen.     *)
(* committed is a history variable: the scheduler's data as the last       *)
(* critical section left it.  AtomicSpec says that it behaves as Scheduler.*)
(***************************************************************************)
EXTENDS Scheduler

CONSTANTS
    EntryPoints,   \* what callers pass to uthread_spawn: nullptr, a function
    InitArgs,      \* the ints that callers pass to uthread_init
    MaxFrames      \* bound of the model: frames on one stack

NULLPTR == 0

ASSUME PreemptionAssumption ==
    /\ EntryPoints \subseteq {NULLPTR, 1}
    /\ InitArgs \subseteq Int
    /\ MaxFrames \in Nat \ {0}

VARIABLES
    quantum_usecs,
    sig_blocked,   \* SIGVTALRM is in the signal mask of the process
    pending,       \* the quantum in which the pending SIGVTALRM expired, or 0
    stack,         \* tid -> frames, the innermost first; <<>> is user code
    env_mask,      \* tid -> SIGVTALRM is in the mask saved in thread.env
    committed

data == vars
signals == <<quantum_usecs, sig_blocked, pending, stack, env_mask>>

Now == [threads |-> threads, ready |-> ready_threads, blocked |-> blocked_threads,
        sleeping |-> sleeping_threads, running |-> running_thread_tid,
        total |-> total_quantums, exited |-> exited]

Commit == committed' = Now'

Accepted_Any(usecs) == TRUE

\* uthread_init refuses negative arguments only.
Accepted(usecs) == ~(usecs < 0)

PreemptionInit ==
    /\ Init
    /\ quantum_usecs \in {usecs \in InitArgs : Accepted(usecs)}
    /\ sig_blocked = FALSE
    /\ pending = 0
    /\ stack = [tid \in Tid |-> <<>>]
    /\ env_mask = [tid \in Tid |-> FALSE]
    /\ committed = Now

-----------------------------------------------------------------------------
(* Frames of the running thread.                                           *)

cur == running_thread_tid

InUserCode == ~exited /\ stack[cur] = <<>>
At(pc) == ~exited /\ stack[cur] # <<>> /\ Head(stack[cur]).pc = pc
In(fn, pc) == At(pc) /\ Head(stack[cur]).fn = fn

arg == Head(stack[cur]).arg

AtPc(frames, pc) == <<[Head(frames) EXCEPT !.pc = pc]>> \o Tail(frames)

Push(fn, pc, a) == stack' = [stack EXCEPT ![cur] = <<[fn |-> fn, pc |-> pc, arg |-> a]>> \o @]
Goto(pc) == stack' = [stack EXCEPT ![cur] = AtPc(@, pc)]
Pop == stack' = [stack EXCEPT ![cur] = Tail(@)]

\* A step inside a critical section: neither signals nor contexts change.
Inside == UNCHANGED <<quantum_usecs, sig_blocked, pending, env_mask, committed>>

-----------------------------------------------------------------------------
(* The kernel: the virtual timer and the delivery of its signal.           *)

\* setitimer with a zero it_value disarms the timer.
Armed == quantum_usecs > 0

\* An expiry while one is pending is lost: SIGVTALRM is not queued.
Expire ==
    /\ ~exited /\ Armed /\ pending = 0
    /\ pending' = total_quantums
    /\ UNCHANGED <<data, quantum_usecs, sig_blocked, stack, env_mask, committed>>

\* The kernel runs callback_handler on the running thread's stack, with the
\* signal blocked (change_thread blocks it once more and sets the timer).
Deliver ==
    /\ ~exited /\ pending # 0 /\ ~sig_blocked
    /\ Len(stack[cur]) < MaxFrames
    /\ Push("callback_handler", "save", 0)
    /\ sig_blocked' = TRUE
    /\ pending' = 0
    /\ UNCHANGED <<data, quantum_usecs, env_mask, committed>>

-----------------------------------------------------------------------------
(* Entering and leaving the public functions.                              *)

Call_Unmasked(fn, a) ==
    /\ InUserCode
    /\ Push(fn, "body", a)
    /\ UNCHANGED <<data, quantum_usecs, sig_blocked, pending, env_mask, committed>>

\* A call from user code, up to its block_signals.
Call(fn, a) ==
    /\ InUserCode
    /\ Push(fn, "body", a)
    /\ sig_blocked' = TRUE
    /\ UNCHANGED <<data, quantum_usecs, pending, env_mask, committed>>

\* unblock_signals and the return; for the handler the return to the
\* interrupted code, which ran with the signal unblocked.
Return ==
    /\ At("return")
    /\ Pop
    /\ sig_blocked' = FALSE
    /\ UNCHANGED <<data, quantum_usecs, pending, env_mask>>
    /\ Commit

\* The error returns that forget unblock_signals: a null entry point, and a
\* number of quantums that is not positive.
ReturnBlocked ==
    /\ \/ In("uthread_spawn", "body") /\ arg = NULLPTR
       \/ In("uthread_sleep", "body") /\ arg <= 0
    /\ Pop
    /\ UNCHANGED <<data, quantum_usecs, sig_blocked, pending, env_mask>>
    /\ Commit

\* The getters that block the signal.  Whether the id exists decides about the
\* value that uthread_get_quantums returns, not about what it does.
Getters == {"uthread_get_total_quantums", "uthread_get_quantums"}

\* The other refusals, and the calls without effect.
NoEffect ==
    /\ \/ In("uthread_spawn", "body") /\ arg # NULLPTR /\ Tid \subseteq DOMAIN threads
       \/ In("uthread_terminate", "body") /\ arg # 0 /\ ~check_thread(arg)
       \/ In("uthread_block", "body") /\ ~MayBlock(arg)
       \/ In("uthread_block", "body") /\ MayBlock(arg) /\ threads[arg].state = "BLOCKED"
       \/ In("uthread_resume", "body") /\ ~check_thread(arg)
       \/ In("uthread_resume", "body") /\ check_thread(arg) /\ threads[arg].state # "BLOCKED"
       \/ In("uthread_sleep", "body") /\ arg > 0 /\ cur = 0
       \/ \E fn \in Getters : In(fn, "body")
    /\ Goto("return")
    /\ UNCHANGED data /\ Inside

-----------------------------------------------------------------------------
(* The critical sections up to the switch.                                 *)

new_env_mask_AsSaved == sig_blocked

\* The mask in the context of a new Thread: sigsetjmp saves one in which the
\* signal is blocked, and the constructor empties it.
new_env_mask == FALSE

\* set_thread, then push_back.
Spawn ==
    \/ /\ In("uthread_spawn", "body") /\ arg # NULLPTR
       /\ \E tid \in Tid :
             /\ tid \notin DOMAIN threads
             /\ \A lower \in Tid : lower < tid => lower \in DOMAIN threads
             /\ threads' = [t \in DOMAIN threads \cup {tid} |->
                               IF t = tid THEN [state |-> "READY", quantum_t |-> 0]
                                          ELSE threads[t]]
             /\ env_mask' = [env_mask EXCEPT ![tid] = new_env_mask]
             /\ stack' = [stack EXCEPT ![tid] = <<>>,
                   ![cur] = <<[fn |-> "uthread_spawn", pc |-> "push_back", arg |-> tid]>> \o Tail(@)]
       /\ UNCHANGED <<ready_threads, blocked_threads, sleeping_threads,
                      running_thread_tid, total_quantums, exited>>
       /\ UNCHANGED <<quantum_usecs, sig_blocked, pending, committed>>
    \/ /\ In("uthread_spawn", "push_back")
       /\ ready_threads' = Append(ready_threads, arg)
       /\ UNCHANGED <<threads, blocked_threads, sleeping_threads,
                      running_thread_tid, total_quantums, exited>>
       /\ Goto("return") /\ Inside

\* remove_all and exit.
Exit ==
    /\ In("uthread_terminate", "body") /\ arg = 0
    /\ remove_all /\ handleForcedExit
    /\ UNCHANGED signals
    /\ Commit

\* threads.erase(tid), then what the switch on the removed thread's state does.
Terminate ==
    \/ /\ In("uthread_terminate", "body") /\ arg # 0 /\ check_thread(arg)
       /\ threads' = Without(threads, {arg})
       /\ Goto(CASE threads[arg].state = "READY"    -> "erase_ready"
                 [] threads[arg].state = "BLOCKED"  -> "erase_blocked"
                 [] threads[arg].state = "RUNNNING" -> "switch")
       /\ UNCHANGED <<ready_threads, blocked_threads, sleeping_threads,
                      running_thread_tid, total_quantums, exited>>
       /\ Inside
    \/ /\ In("uthread_terminate", "erase_ready")
       /\ ready_threads' \in remove_thread_from_ready(arg)
       /\ Goto("erase_sleeping")
       /\ UNCHANGED <<threads, blocked_threads, sleeping_threads,
                      running_thread_tid, total_quantums, exited>>
       /\ Inside
    \/ /\ In("uthread_terminate", "erase_blocked")
       /\ blocked_threads' = blocked_threads \ {arg}
       /\ Goto("erase_sleeping")
       /\ UNCHANGED <<threads, ready_threads, sleeping_threads,
                      running_thread_tid, total_quantums, exited>>
       /\ Inside
    \/ /\ In("uthread_terminate", "erase_sleeping")
       /\ sleeping_threads' = Without(sleeping_threads, {arg})
       /\ Goto("return")
       /\ UNCHANGED <<threads, ready_threads, blocked_threads,
                      running_thread_tid, total_quantums, exited>>
       /\ Inside

\* blocked_threads.insert and the state, then the deque of a READY thread, or
\* the context of the running one.
Block ==
    \/ /\ In("uthread_block", "body") /\ MayBlock(arg)
       /\ threads[arg].state \in {"READY", "RUNNNING"}
       /\ blocked_threads' = blocked_threads \cup {arg}
       /\ threads' = [threads EXCEPT ![arg].state = "BLOCKED"]
       /\ Goto(IF threads[arg].state = "READY" THEN "erase_ready" ELSE "save")
       /\ UNCHANGED <<ready_threads, sleeping_threads, running_thread_tid,
                      total_quantums, exited>>
       /\ Inside
    \/ /\ In("uthread_block", "erase_ready")
       /\ ready_threads' \in remove_thread_from_ready(arg)
       /\ Goto("return")
       /\ UNCHANGED <<threads, blocked_threads, sleeping_threads,
                      running_thread_tid, total_quantums, exited>>
       /\ Inside

\* ready_thread, then blocked_threads.erase.
Resume ==
    \/ /\ In("uthread_resume", "body") /\ check_thread(arg) /\ threads[arg].state = "BLOCKED"
       /\ threads' = [threads EXCEPT ![arg].state = "READY"]
       /\ ready_threads' = ready_thread(arg, ready_threads, sleeping_threads)
       /\ Goto("erase_blocked")
       /\ UNCHANGED <<blocked_threads, sleeping_threads, running_thread_tid,
                      total_quantums, exited>>
       /\ Inside
    \/ /\ In("uthread_resume", "erase_blocked")
       /\ blocked_threads' = blocked_threads \ {arg}
       /\ Goto("return")
       /\ UNCHANGED <<threads, ready_threads, sleeping_threads,
                      running_thread_tid, total_quantums, exited>>
       /\ Inside

\* The deadline, then the context, then the state.
Sleep ==
    \/ /\ In("uthread_sleep", "body") /\ MaySleep(arg)
       /\ sleeping_threads' = [t \in DOMAIN sleeping_threads \cup {cur} |->
                                 IF t = cur THEN Deadline(arg) ELSE sleeping_threads[t]]
       /\ Goto("save")
       /\ UNCHANGED <<threads, ready_threads, blocked_threads,
                      running_thread_tid, total_quantums, exited>>
       /\ Inside
    \/ /\ In("uthread_sleep", "saved") /\ threads[cur].state = "RUNNNING"
       /\ threads' = [threads EXCEPT ![cur].state = "READY"]
       /\ UNCHANGED <<ready_threads, blocked_threads, sleeping_threads,
                      running_thread_tid, total_quantums, exited>>
       /\ UNCHANGED stack /\ Inside

-----------------------------------------------------------------------------
(* The switch.                                                             *)

Save_WithoutMask ==
    /\ At("save")
    /\ Goto("saved")
    /\ UNCHANGED <<data, quantum_usecs, sig_blocked, pending, env_mask, committed>>

\* sigsetjmp(env, 1) in save_current_execution_context: it saves the mask, too.
Save ==
    /\ At("save")
    /\ Goto("saved")
    /\ env_mask' = [env_mask EXCEPT ![cur] = sig_blocked]
    /\ UNCHANGED <<data, quantum_usecs, sig_blocked, pending, committed>>

siglongjmp_KeepMask(frames) ==
    /\ sig_blocked' = sig_blocked
    /\ stack' = IF frames[running_thread_tid'] = <<>> THEN frames
                ELSE [frames EXCEPT ![running_thread_tid'] = AtPc(@, "resumed")]
    /\ UNCHANGED <<quantum_usecs, pending, env_mask>>

\* siglongjmp: the next thread continues with its mask, in its entry function
\* the first time and behind its sigsetjmp from then on.
siglongjmp(frames) ==
    LET next == running_thread_tid' IN
    /\ sig_blocked' = env_mask[next]
    /\ stack' = IF frames[next] = <<>> THEN frames
                ELSE [frames EXCEPT ![next] = AtPc(@, "resumed")]
    /\ UNCHANGED <<quantum_usecs, pending, env_mask>>

\* _handle_sleep_threads, and run_next_thread; between them the handler puts
\* the interrupted thread back in the deque.
Switch ==
    /\ \/ /\ In("callback_handler", "saved")
          /\ \E awake \in handle_sleep_threads(threads, sleeping_threads) :
                run_next_thread([threads EXCEPT ![cur].state = "READY"],
                                ready_thread(cur, awake.ready, awake.sleeping),
                                awake.sleeping)
          /\ siglongjmp(stack)
       \/ /\ \/ In("uthread_block", "saved")
             \/ In("uthread_sleep", "saved") /\ threads[cur].state = "READY"
          /\ \E awake \in handle_sleep_threads(threads, sleeping_threads) :
                run_next_thread(threads, awake.ready, awake.sleeping)
          /\ siglongjmp(stack)
       \/ /\ In("uthread_terminate", "switch")
          /\ \E awake \in handle_sleep_threads(threads, sleeping_threads) :
                run_next_thread(threads, awake.ready, awake.sleeping)
          /\ siglongjmp([stack EXCEPT ![cur] = <<>>])
    /\ UNCHANGED <<blocked_threads, exited>>
    /\ Commit

\* Behind sigsetjmp: unblock_signals, then back to the caller.  The frame that
\* siglongjmp goes back to had returned, which is undefined: in the build (-O0)
\* the slot of this in it has been written over by the calls made since, so the
\* set that is unblocked may be another one, and the signal stay blocked.
Resumed ==
    /\ At("resumed")
    /\ Goto("return")
    /\ \E unblocks \in BOOLEAN : sig_blocked' = (sig_blocked /\ ~unblocks)
    /\ UNCHANGED <<data, quantum_usecs, pending, env_mask, committed>>

SystemCallFails_UnblocksFirst ==
    /\ \/ InUserCode \/ At("return") \/ At("resumed")
       \/ In("callback_handler", "save") \/ In("uthread_terminate", "switch")
       \/ In("uthread_block", "saved") \/ In("uthread_sleep", "saved")
    /\ handleErrorSystemCall
    /\ sig_blocked' = FALSE
    /\ UNCHANGED <<quantum_usecs, pending, stack, env_mask>>
    /\ committed' = [committed EXCEPT !.exited = TRUE]

\* A failing sigprocmask (at the beginning and the end of a function) or
\* setitimer (in front of a switch; in the handler right behind its
\* sigprocmask) prints and exits: what the function has done so far is lost.
SystemCallFails ==
    /\ \/ InUserCode \/ At("return") \/ At("resumed")
       \/ In("callback_handler", "save") \/ In("uthread_terminate", "switch")
       \/ In("uthread_block", "saved") \/ In("uthread_sleep", "saved")
    /\ handleErrorSystemCall
    /\ UNCHANGED signals
    /\ committed' = [committed EXCEPT !.exited = TRUE]

PreemptionNext ==
    \/ Expire
    \/ Deliver
    \/ \E fn \in Getters : Call(fn, 0)
    \/ \E entry_point \in EntryPoints : Call("uthread_spawn", entry_point)
    \/ \E fn \in {"uthread_terminate", "uthread_block", "uthread_resume"} :
          \E tid \in TidArgs : Call(fn, tid)
    \/ \E n \in SleepArgs : Call("uthread_sleep", n)
    \/ Return \/ ReturnBlocked \/ NoEffect
    \/ Spawn \/ Exit \/ Terminate \/ Block \/ Resume \/ Sleep
    \/ Save \/ Switch \/ Resumed
    \/ SystemCallFails

PreemptionSpec == PreemptionInit /\ [][PreemptionNext]_<<data, signals, committed>>

Library ==
    \/ Return \/ ReturnBlocked \/ NoEffect
    \/ Spawn \/ Exit \/ Terminate \/ Block \/ Resume \/ Sleep
    \/ Save \/ Switch \/ Resumed

\* The process gets processor time: its virtual clock runs until the timer
\* expires (only a switch restarts it), a function that was entered goes on, and
\* the kernel delivers a pending signal at some time when it is unblocked, though
\* calls may block it again and again.  User code need not call anything.
FairPreemptionSpec ==
    /\ PreemptionSpec
    /\ WF_<<data, signals, committed>>(Expire)
    /\ WF_<<data, signals, committed>>(Library)
    /\ SF_<<data, signals, committed>>(Deliver)

-----------------------------------------------------------------------------
(* Properties.                                                             *)

Frame ==
    [fn : Getters \cup {"uthread_spawn", "uthread_terminate", "uthread_block",
                        "uthread_resume", "uthread_sleep", "callback_handler"},
     pc : {"body", "push_back", "erase_ready", "erase_blocked", "erase_sleeping",
           "save", "saved", "switch", "resumed", "return"},
     arg : Int]

\* Every variable of the signals and the stacks has its type; in particular the
\* interval that uthread_init hands to setitimer is never negative.
PreemptionTypeOK ==
    /\ quantum_usecs \in InitArgs \cap Nat
    /\ sig_blocked \in BOOLEAN
    /\ pending \in 0 .. MaxQuantums
    /\ stack \in [Tid -> Seq(Frame)]
    /\ \A tid \in Tid : Len(stack[tid]) <= MaxFrames
    /\ env_mask \in [Tid -> BOOLEAN]

\* The scheduler's data looked at also when the process has called exit.
Live == INSTANCE Scheduler WITH exited <- FALSE

\* Wherever the handler can run, the scheduler's data is consistent.  This is so,
\* too, when a failing system call has called exit: the exit handlers run with the
\* mask of that moment, and where the call has cut a critical section short,
\* SIGVTALRM is blocked, so that no handler schedules from what it has left.
ConsistentWhenInterruptible ==
    ~sig_blocked =>
        Live!StatesAgree /\ Live!QueueExact /\ Live!SleepersExist /\ Live!MainSchedulable

\* A thread that is not running waits in the frame of its last sigsetjmp, in the
\* critical section (its saved mask blocks the signal, and it unblocks it next)
\* or has never run, and then starts in user code with the signal unblocked.
SuspendedAtSavePoint ==
    \A tid \in DOMAIN threads \ {cur} :
        IF threads[tid].quantum_t = 0
        THEN stack[tid] = <<>> /\ ~env_mask[tid]
        ELSE stack[tid] # <<>> /\ Head(stack[tid]).pc = "saved" /\ env_mask[tid]

\* Whatever thread runs, the timer can preempt its own code: each function
\* that blocks the signal unblocks it before the caller continues, and so does
\* each way to resume.
UserCodePreemptible == InUserCode => ~sig_blocked

\* Whatever a thread does or fails to do, its quantum ends, also when the expiry
\* hits a critical section, a handler, or a thread that has just been resumed.
\* This is the fairness that RoundRobin assumes of the new quantums.
EveryQuantumEnds ==
    \A q \in 1 .. MaxQuantums - 1 :
        total_quantums = q ~> (total_quantums > q \/ exited)

\* The argument of uthread_init "is the length of a quantum": a thread is
\* preempted by the expiry of its own quantum, not by one that expired in the
\* quantum of a thread before it.
PreemptedByOwnExpiry ==
    [][pending # 0 /\ pending' = 0 => pending = total_quantums]_<<data, signals>>

Atomic == INSTANCE Scheduler WITH
    threads <- committed.threads,
    ready_threads <- committed.ready,
    blocked_threads <- committed.blocked,
    sleeping_threads <- committed.sleeping,
    running_thread_tid <- committed.running,
    total_quantums <- committed.total,
    exited <- committed.exited

\* The functions and the handler are atomic: from critical section to critical
\* section, the data changes as the actions of Scheduler change it, also when
\* interrupts arrive between any two statements.
AtomicSpec == Atomic!Spec
=============================================================================
