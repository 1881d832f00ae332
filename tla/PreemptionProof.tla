-------------------------- MODULE PreemptionProof --------------------------
(***************************************************************************)
(* Proofs that the critical sections of Preemption are atomic: wherever    *)
(* SIGVTALRM interrupts the library, it implements Scheduler.              *)
(*                                                                         *)
(* The inductive invariant says how far the critical section of the        *)
(* running thread has come: the containers are those of committed with the *)
(* statements of the innermost frame done that precede its pc.  All other  *)
(* frames wait where nothing is left to do.                                *)
(***************************************************************************)
EXTENDS Preemption, SequenceTheorems, TLAPS

\* The theorems about Scheduler, for the data that critical sections leave.
A == INSTANCE RoundRobinProof WITH
    threads <- committed.threads,
    ready_threads <- committed.ready,
    blocked_threads <- committed.blocked,
    sleeping_threads <- committed.sleeping,
    running_thread_tid <- committed.running,
    total_quantums <- committed.total,
    exited <- committed.exited

top == Head(stack[cur])

-----------------------------------------------------------------------------
(* What the innermost frame f of the running thread has done to the data   *)
(* since the last commit.                                                  *)

SameThreads == threads = committed.threads
SameReady == ready_threads = committed.ready
SameBlocked == blocked_threads = committed.blocked
SameSleeping == sleeping_threads = committed.sleeping

Same == SameThreads /\ SameReady /\ SameBlocked /\ SameSleeping

\* No function moves the running thread or the count before its switch.
SameQuantum ==
    /\ running_thread_tid = committed.running
    /\ total_quantums = committed.total
    /\ exited = committed.exited

StateWas(tid, state) == tid \in DOMAIN committed.threads /\ committed.threads[tid].state = state
StateSet(tid, state) == threads = [committed.threads EXCEPT ![tid].state = state]

\* The deques that remove_thread_from_ready can leave of the deque q.
ErasedFrom(q, tid) ==
    LET erased == CHOOSE E \in SUBSET DOMAIN q :
                     \A i \in DOMAIN q : i \in E <=> q[i] = tid /\ i - 1 \notin E
    IN  {[j \in DOMAIN kept |-> q[kept[j]]] : kept \in Ascending(DOMAIN q \ erased)}

Spawning(f) ==
    /\ f.arg \in Tid \ DOMAIN committed.threads
    /\ \A lower \in Tid : lower < f.arg => lower \in DOMAIN committed.threads
    /\ threads = [t \in DOMAIN committed.threads \cup {f.arg} |->
                     IF t = f.arg THEN [state |-> "READY", quantum_t |-> 0]
                                  ELSE committed.threads[t]]
    /\ \/ f.pc = "push_back" /\ SameReady
       \/ f.pc = "return" /\ ready_threads = Append(committed.ready, f.arg)
    /\ SameBlocked /\ SameSleeping

Removing(f) ==
    /\ f.arg # 0
    /\ threads = Without(committed.threads, {f.arg})
    /\ \/ /\ \/ f.pc = "switch" /\ StateWas(f.arg, "RUNNNING")
             \/ f.pc = "erase_ready" /\ StateWas(f.arg, "READY")
             \/ f.pc = "erase_blocked" /\ StateWas(f.arg, "BLOCKED")
          /\ SameReady /\ SameBlocked /\ SameSleeping
       \/ /\ \/ /\ StateWas(f.arg, "READY")
                /\ ready_threads \in ErasedFrom(committed.ready, f.arg)
                /\ SameBlocked
             \/ /\ StateWas(f.arg, "BLOCKED")
                /\ blocked_threads = committed.blocked \ {f.arg}
                /\ SameReady
          /\ \/ f.pc = "erase_sleeping" /\ SameSleeping
             \/ f.pc = "return" /\ sleeping_threads = Without(committed.sleeping, {f.arg})

Blocking(f) ==
    /\ f.arg # 0
    /\ StateSet(f.arg, "BLOCKED")
    /\ blocked_threads = committed.blocked \cup {f.arg}
    /\ \/ f.pc = "erase_ready" /\ StateWas(f.arg, "READY") /\ SameReady
       \/ /\ f.pc = "return" /\ StateWas(f.arg, "READY")
          /\ ready_threads \in ErasedFrom(committed.ready, f.arg)
       \/ f.pc \in {"save", "saved"} /\ StateWas(f.arg, "RUNNNING") /\ SameReady
    /\ SameSleeping

Resuming(f) ==
    /\ StateWas(f.arg, "BLOCKED")
    /\ StateSet(f.arg, "READY")
    /\ ready_threads = ready_thread(f.arg, committed.ready, committed.sleeping)
    /\ \/ f.pc = "erase_blocked" /\ SameBlocked
       \/ f.pc = "return" /\ blocked_threads = committed.blocked \ {f.arg}
    /\ SameSleeping

Napping(f) ==
    /\ f.arg \in SleepArgs
    /\ MaySleep(f.arg)
    /\ sleeping_threads = [t \in DOMAIN committed.sleeping \cup {cur} |->
                             IF t = cur THEN Deadline(f.arg) ELSE committed.sleeping[t]]
    /\ \/ f.pc \in {"save", "saved"} /\ SameThreads
       \/ f.pc = "saved" /\ StateSet(cur, "READY")
    /\ SameReady /\ SameBlocked

Done(f) ==
    \/ Same /\ f.pc \in {"body", "resumed", "return"}
    \/ Same /\ f.pc \in {"save", "saved"} /\ f.fn = "callback_handler"
    \/ Spawning(f) /\ f.fn = "uthread_spawn"
    \/ Removing(f) /\ f.fn = "uthread_terminate"
    \/ Blocking(f) /\ f.fn = "uthread_block"
    \/ Resuming(f) /\ f.fn = "uthread_resume"
    \/ Napping(f) /\ f.fn = "uthread_sleep"

-----------------------------------------------------------------------------
(* The inductive invariant.                                                *)

\* committed is a record of the data.
Recorded ==
    committed = [threads |-> committed.threads, ready |-> committed.ready,
                 blocked |-> committed.blocked, sleeping |-> committed.sleeping,
                 running |-> committed.running, total |-> committed.total,
                 exited |-> committed.exited]

Progress == IF stack[cur] = <<>> THEN Same ELSE Done(top)

\* The signal is blocked from the first statement of a function to its return,
\* which finds the data committed if it is not.
Masked == stack[cur] # <<>> /\ ~sig_blocked => top.pc = "return" /\ Same

\* A handler has interrupted nothing but a return.
Buried == \A tid \in Tid : \A i \in 2 .. Len(stack[tid]) : stack[tid][i].pc = "return"

\* The running thread has been charged its quantum, and its context, once saved,
\* blocks the signal.
Started ==
    /\ cur \in DOMAIN threads => threads[cur].quantum_t # 0
    /\ stack[cur] # <<>> /\ top.pc = "saved" => env_mask[cur]

\* The arguments of a call are those its caller passes.
Passed ==
    stack[cur] # <<>> /\ top.pc = "body" =>
        /\ top.fn = "uthread_spawn" => top.arg \in EntryPoints
        /\ top.fn = "uthread_sleep" => top.arg \in SleepArgs

Sections ==
    /\ PreemptionTypeOK
    /\ Recorded
    /\ SameQuantum
    /\ Progress
    /\ Masked
    /\ Buried
    /\ Started
    /\ Passed
    /\ SuspendedAtSavePoint

PInv == Sections /\ A!IInv

-----------------------------------------------------------------------------
(* Stacks.                                                                 *)

\* The frames of a stack.
LEMMA Frames ==
    ASSUME NEW frames \in Seq(Frame), frames # <<>>
    PROVE  /\ Head(frames) \in Frame /\ Tail(frames) \in Seq(Frame)
           /\ Len(frames) \in Nat \ {0} /\ Len(Tail(frames)) = Len(frames) - 1
           /\ Head(frames) = frames[1]
           /\ \A i \in 1 .. Len(frames) - 1 : Tail(frames)[i] = frames[i + 1]
<1>1. Len(frames) \in Nat /\ Len(frames) # 0 /\ Head(frames) = frames[1]
  BY EmptySeq, LenProperties
<1>2. Head(frames) \in Frame /\ Tail(frames) \in Seq(Frame)
      /\ Len(Tail(frames)) = Len(frames) - 1
      /\ \A i \in 1 .. Len(frames) - 1 : Tail(frames)[i] = frames[i + 1]
  BY HeadTailProperties
<1>3. QED
  BY <1>1, <1>2

\* A frame on top of a stack.
LEMMA OneMore ==
    ASSUME NEW frames \in Seq(Frame), NEW f \in Frame
    PROVE  LET new == <<f>> \o frames IN
           /\ new \in Seq(Frame) /\ new # <<>> /\ Head(new) = f
           /\ Len(new) = Len(frames) + 1
           /\ \A i \in 2 .. Len(frames) + 1 : new[i] = frames[i - 1]
<1> DEFINE new == <<f>> \o frames
<1>1. <<f>> \in Seq(Frame) /\ Len(<<f>>) = 1 /\ <<f>>[1] = f
  OBVIOUS
<1>2. Len(frames) \in Nat
  BY LenProperties
<1>3. /\ new \in Seq(Frame) /\ Len(new) = Len(frames) + 1
      /\ \A i \in 1 .. Len(frames) + 1 : new[i] = IF i <= 1 THEN f ELSE frames[i - 1]
  BY <1>1, <1>2, ConcatProperties
<1>4. new # <<>>
  BY <1>2, <1>3
<1>5. Head(new) = f
  BY <1>2, <1>3, <1>4, Frames
<1>6. QED
  BY <1>2, <1>3, <1>4, <1>5

\* The same frames with another pc in the innermost one.
LEMMA Moving ==
    ASSUME NEW frames \in Seq(Frame), frames # <<>>, NEW f \in Frame, NEW pc, f.pc = pc,
           f = [Head(frames) EXCEPT !.pc = pc]
    PROVE  LET new == AtPc(frames, pc) IN
           /\ new \in Seq(Frame) /\ new # <<>> /\ Head(new) = f
           /\ Len(new) = Len(frames)
           /\ \A i \in 2 .. Len(frames) : new[i] = frames[i]
<1>1. /\ Tail(frames) \in Seq(Frame)
      /\ Len(frames) \in Nat \ {0} /\ Len(Tail(frames)) = Len(frames) - 1
      /\ \A i \in 1 .. Len(frames) - 1 : Tail(frames)[i] = frames[i + 1]
  BY Frames
<1>2. AtPc(frames, pc) = <<f>> \o Tail(frames)
  BY DEF AtPc
<1>3. QED
  BY <1>1, <1>2, OneMore

-----------------------------------------------------------------------------
(* The operators of the two copies of Scheduler.                           *)

\* The copy in the proof is the one that AtomicSpec names.
LEMMA OneScheduler == [Atomic!Next]_(Atomic!vars) <=> [A!Next]_(A!vars)
BY DEF A!vars, Atomic!vars, A!Next, Atomic!Next, A!OtherCalls, Atomic!OtherCalls,
       A!change_thread, Atomic!change_thread, A!handleErrorSystemCall,
       Atomic!handleErrorSystemCall, A!uthread_spawn, Atomic!uthread_spawn,
       A!uthread_terminate, Atomic!uthread_terminate, A!uthread_block,
       Atomic!uthread_block, A!uthread_resume, Atomic!uthread_resume, A!uthread_sleep,
       Atomic!uthread_sleep, A!TidArgs, Atomic!TidArgs, A!Tid, Atomic!Tid, A!check_thread,
       Atomic!check_thread, A!Without, Atomic!Without, A!handleErrorLibrary,
       Atomic!handleErrorLibrary, A!add_new_thread, Atomic!add_new_thread, A!ready_thread,
       Atomic!ready_thread, A!handle_sleep_threads, Atomic!handle_sleep_threads,
       A!run_next_thread, Atomic!run_next_thread, A!DueSets, Atomic!DueSets, A!IsDue,
       Atomic!IsDue, A!ToInt, Atomic!ToInt, A!INT_MIN, Atomic!INT_MIN,
       A!remove_other_thread, Atomic!remove_other_thread, A!remove_running_thread,
       Atomic!remove_running_thread, A!remove_all, Atomic!remove_all, A!handleForcedExit,
       Atomic!handleForcedExit, A!remove_thread_from_ready,
       Atomic!remove_thread_from_ready, A!ErasedAt, Atomic!ErasedAt, A!block_other_thread,
       Atomic!block_other_thread, A!block_running_thread, Atomic!block_running_thread,
       A!MayBlock, Atomic!MayBlock, A!MaySleep, Atomic!MaySleep, A!unblock_thread,
       Atomic!unblock_thread, A!Deadline, Atomic!Deadline, A!sleep_running_thread,
       Atomic!sleep_running_thread, A!Restrict, Atomic!Restrict, A!Ascending,
       Atomic!Ascending, A!Orders, Atomic!Orders, A!Bijection, Atomic!Bijection,
       A!Injection, Atomic!Injection, A!Surjection, Atomic!Surjection, A!IsInjective,
       Atomic!IsInjective, A!Cardinality, Atomic!Cardinality

\* A loop over the deque, and one over the committed deque.
LEMMA Erasing ==
    ASSUME NEW tid
    PROVE  /\ remove_thread_from_ready(tid) = ErasedFrom(ready_threads, tid)
           /\ A!remove_thread_from_ready(tid) = ErasedFrom(committed.ready, tid)
<1>1. remove_thread_from_ready(tid) = ErasedFrom(ready_threads, tid)
  BY DEF remove_thread_from_ready, ErasedAt, ErasedFrom
<1>2. A!remove_thread_from_ready(tid) = ErasedFrom(committed.ready, tid)
  BY DEF ErasedFrom, A!remove_thread_from_ready, A!ErasedAt, A!Ascending, Ascending,
         A!Orders, Orders, A!Bijection, Bijection, A!Injection, Injection,
         A!Surjection, Surjection, A!IsInjective, IsInjective, A!Cardinality, Cardinality
<1>3. QED
  BY <1>1, <1>2

\* _handle_sleep_threads does the same to the committed deque.
LEMMA SameAwake ==
    ASSUME SameReady, SameQuantum, NEW ths, NEW sl
    PROVE  handle_sleep_threads(ths, sl) = A!handle_sleep_threads(ths, sl)
<1> DEFINE Due(total) ==
             {due \in SUBSET DOMAIN sl :
                \A tid \in DOMAIN sl :
                    ToInt(sl[tid]) # INT_MIN => (tid \in due <=> ToInt(sl[tid]) - 1 <= total)}
           Awake(q, total) ==
             UNION {{[ready |-> q \o woken, sleeping |-> Without(sl, due)] :
                       woken \in Ascending({tid \in due : ths[tid].state = "READY"})} :
                    due \in Due(total)}
<1>1. handle_sleep_threads(ths, sl) = Awake(ready_threads, total_quantums)
  BY DEF handle_sleep_threads, DueSets, IsDue
<1>2. A!handle_sleep_threads(ths, sl) = Awake(committed.ready, committed.total)
  BY DEF A!handle_sleep_threads, A!DueSets, A!IsDue, A!ToInt, ToInt, A!INT_MIN, INT_MIN,
         A!Without, Without, A!Restrict, Restrict, A!Ascending, Ascending, A!Orders, Orders,
         A!Bijection, Bijection, A!Injection, Injection, A!Surjection, Surjection,
         A!IsInjective, IsInjective, A!Cardinality, Cardinality
<1> HIDE DEF Awake
<1>3. QED
  BY <1>1, <1>2 DEF SameReady, SameQuantum

\* Erasing from a map is the same operator in both copies.
LEMMA SameWithout ==
    ASSUME NEW map, NEW S
    PROVE  Without(map, S) = A!Without(map, S)
BY DEF Without, A!Without, Restrict, A!Restrict

\* A switch commits the quantum that it starts.
LEMMA SameDispatch ==
    ASSUME SameQuantum, Commit, NEW ths, NEW ready, NEW sl,
           run_next_thread(ths, ready, sl)
    PROVE  A!run_next_thread(ths, ready, sl)
BY DEF SameQuantum, Commit, Now, run_next_thread, A!run_next_thread

-----------------------------------------------------------------------------
(* What the invariant says about the data.                                 *)

\* The committed data has its types, and the running thread is in it.
LEMMA CommittedData ==
    ASSUME PInv
    PROVE  /\ cur \in Tid
           /\ total_quantums \in 1 .. MaxQuantums
           /\ DOMAIN committed.threads \subseteq Tid
           /\ committed.threads \in [DOMAIN committed.threads -> Thread]
           /\ ~exited =>
                 /\ cur \in DOMAIN committed.threads
                 /\ \A tid \in DOMAIN committed.threads :
                       committed.threads[tid].state = "RUNNNING" <=> tid = cur
<1>1. A!TypeOK /\ A!StatesAgree /\ SameQuantum
  BY DEF PInv, Sections, A!IInv
<1>2. QED
  BY <1>1 DEF A!TypeOK, A!StatesAgree, SameQuantum, cur, A!Tid, Tid, A!Thread, Thread,
              A!State, State

\* The running thread is in the map but where it has removed itself.
LEMMA ThreadsTyped ==
    ASSUME PInv
    PROVE  /\ DOMAIN threads \subseteq Tid
           /\ threads \in [DOMAIN threads -> Thread]
<1> DEFINE c == committed.threads
           Typed == DOMAIN threads \subseteq Tid /\ threads \in [DOMAIN threads -> Thread]
<1>1. DOMAIN c \subseteq Tid /\ c \in [DOMAIN c -> Thread] /\ cur \in Tid
  BY CommittedData
<1>2. ASSUME SameThreads PROVE Typed
  BY <1>1, <1>2 DEF SameThreads
<1>3. ASSUME NEW f, Spawning(f) PROVE Typed
  BY <1>1, <1>3 DEF Spawning, Thread, State
<1>4. ASSUME NEW tid, NEW state \in State, StateSet(tid, state) PROVE Typed
  BY <1>1, <1>4 DEF StateSet, Thread, State
<1>5. ASSUME NEW tid, threads = Without(c, {tid}) PROVE Typed
  BY <1>1, <1>5 DEF Without, Restrict
<1>6. QED
  BY <1>2, <1>3, <1>4, <1>5
     DEF PInv, Sections, Progress, Done, Same, Removing, Blocking, Resuming, Napping, State

Pcs == {"body", "push_back", "erase_ready", "erase_blocked", "erase_sleeping",
        "save", "saved", "switch", "resumed", "return"}

\* The innermost frame of the running thread, and no other, goes to pc.
Moved(pc) ==
    /\ stack' \in [Tid -> Seq(Frame)]
    /\ \A tid \in Tid : Len(stack'[tid]) = Len(stack[tid])
    /\ \A tid \in Tid \ {cur} : stack'[tid] = stack[tid]
    /\ stack'[cur] # <<>>
    /\ Head(stack'[cur]).pc = pc
    /\ Head(stack'[cur]).fn = top.fn
    /\ Head(stack'[cur]).arg = top.arg
    /\ \A i \in 2 .. Len(stack[cur]) : stack'[cur][i] = stack[cur][i]

\* Goto moves the innermost frame, and keeps its function and its argument.
LEMMA GotoMoves ==
    ASSUME PInv, stack[cur] # <<>>, NEW pc \in Pcs, Goto(pc)
    PROVE  Moved(pc)
<1> DEFINE f == [top EXCEPT !.pc = pc]
           new == AtPc(stack[cur], pc)
<1>1. cur \in Tid /\ stack \in [Tid -> Seq(Frame)]
  BY CommittedData DEF PInv, Sections, PreemptionTypeOK
<1>2. top \in Frame
  BY <1>1, Frames DEF top
<1>3. f \in Frame /\ f.pc = pc /\ f.fn = top.fn /\ f.arg = top.arg
  BY <1>2 DEF Frame, Pcs
<1>4. /\ new \in Seq(Frame) /\ new # <<>> /\ Head(new) = f
      /\ Len(new) = Len(stack[cur])
      /\ \A i \in 2 .. Len(stack[cur]) : new[i] = stack[cur][i]
  BY <1>1, <1>3, Moving, ZenonT(30) DEF top
<1>5. stack' = [stack EXCEPT ![cur] = new]
  BY DEF Goto
<1> HIDE DEF f, new
<1>6. QED
  BY <1>1, <1>3, <1>4, <1>5 DEF Moved

\* A step of the running thread that commits nothing and stays in its frame.
LEMMA SectionStep ==
    ASSUME PInv, stack[cur] # <<>>, NEW pc \in Pcs \ {"body"}, Moved(pc),
           UNCHANGED <<running_thread_tid, total_quantums, exited,
                       quantum_usecs, pending, committed>>,
           Done(top)',
           sig_blocked' \in BOOLEAN, sig_blocked' \/ (pc = "return" /\ Same'),
           env_mask' \in [Tid -> BOOLEAN],
           \A tid \in Tid \ {cur} : env_mask'[tid] = env_mask[tid],
           pc = "saved" => env_mask'[cur],
           DOMAIN threads' \subseteq DOMAIN threads,
           \A tid \in DOMAIN threads' : threads'[tid].quantum_t = threads[tid].quantum_t
    PROVE  Sections'
<1>1. /\ cur \in Tid /\ DOMAIN threads \subseteq Tid
      /\ cur' = cur /\ committed' = committed
      /\ stack'[cur] # <<>> /\ top'.pc = pc
      /\ \A tid \in Tid \ {cur} : stack'[tid] = stack[tid]
  BY CommittedData, ThreadsTyped DEF cur, top, Moved
<1>2. PreemptionTypeOK'
  BY DEF PInv, Sections, PreemptionTypeOK, Moved
<1>3. Recorded' /\ SameQuantum'
  BY <1>1 DEF PInv, Sections, Recorded, SameQuantum
<1>4. Progress' /\ Masked' /\ Passed'
  BY <1>1 DEF Progress, Masked, Passed
<1>5. Buried'
  BY <1>1 DEF PInv, Sections, Buried, Moved
<1>6. Started'
  BY <1>1 DEF PInv, Sections, Started
<1>7. SuspendedAtSavePoint'
  BY <1>1 DEF PInv, Sections, SuspendedAtSavePoint
<1>8. QED
  BY <1>2, <1>3, <1>4, <1>5, <1>6, <1>7 DEF Sections

\* Most of them change neither the signals nor the contexts.
LEMMA InsideStep ==
    ASSUME PInv, stack[cur] # <<>>, NEW pc \in Pcs \ {"body"}, Moved(pc), Inside,
           UNCHANGED <<running_thread_tid, total_quantums, exited>>,
           Done(top)', sig_blocked,
           pc = "saved" => env_mask[cur],
           DOMAIN threads' \subseteq DOMAIN threads,
           \A tid \in DOMAIN threads' : threads'[tid].quantum_t = threads[tid].quantum_t
    PROVE  Sections'
<1>1. PreemptionTypeOK
  BY DEF PInv, Sections
<1>2. sig_blocked' \in BOOLEAN /\ env_mask' \in [Tid -> BOOLEAN]
  BY <1>1 DEF PreemptionTypeOK, Inside
<1>3. QED
  BY <1>2, SectionStep DEF Inside

-----------------------------------------------------------------------------
(* The steps inside of the critical sections.                              *)

\* Where the running thread has a frame, its section blocks the signal, but
\* behind its return.
LEMMA AtPoint ==
    ASSUME PInv, NEW pc, At(pc)
    PROVE  /\ ~exited /\ stack[cur] # <<>> /\ top.pc = pc
           /\ Done(top)
           /\ pc # "return" => sig_blocked
           /\ top \in Frame
<1>1. cur \in Tid /\ stack \in [Tid -> Seq(Frame)]
  BY CommittedData DEF PInv, Sections, PreemptionTypeOK
<1>2. ~exited /\ stack[cur] # <<>> /\ top.pc = pc
  BY DEF At, top
<1>3. top \in Frame
  BY <1>1, <1>2, Frames DEF top
<1>4. QED
  BY <1>2, <1>3 DEF PInv, Sections, Progress, Masked

\* A body begins with the data as committed.
LEMMA AtBody ==
    ASSUME PInv, At("body")
    PROVE  Same
BY AtPoint DEF Done, Spawning, Removing, Blocking, Resuming, Napping

\* A refusal and a getter go to their return with nothing done.
LEMMA NoEffectStep == ASSUME PInv, NoEffect PROVE Sections'
<1>1. At("body") /\ Goto("return") /\ UNCHANGED data /\ Inside
  BY DEF NoEffect, In
<1>2. stack[cur] # <<>> /\ sig_blocked /\ Same
  BY <1>1, AtPoint, AtBody
<1>3. Moved("return")
  BY <1>1, <1>2, GotoMoves DEF Pcs
<1>4. Done(top)'
  BY <1>1, <1>2, <1>3
     DEF Moved, top, cur, data, vars, Inside, Done, Same, SameThreads, SameReady, SameBlocked,
         SameSleeping
<1>5. QED
  BY <1>1, <1>2, <1>3, <1>4, InsideStep DEF Pcs, data, vars

\* Each statement of uthread_terminate takes the frame from one form of Removing
\* to the next.
LEMMA TerminateStep == ASSUME PInv, Terminate PROVE Sections'
<1>1. ASSUME In("uthread_terminate", "body"), arg # 0, check_thread(arg),
             threads' = Without(threads, {arg}),
             Goto(CASE threads[arg].state = "READY"    -> "erase_ready"
                    [] threads[arg].state = "BLOCKED"  -> "erase_blocked"
                    [] threads[arg].state = "RUNNNING" -> "switch"),
             UNCHANGED <<ready_threads, blocked_threads, sleeping_threads,
                         running_thread_tid, total_quantums, exited>>,
             Inside
      PROVE  Sections'
  <2> DEFINE pc == CASE threads[arg].state = "READY"    -> "erase_ready"
                     [] threads[arg].state = "BLOCKED"  -> "erase_blocked"
                     [] threads[arg].state = "RUNNNING" -> "switch"
  <2>1. stack[cur] # <<>> /\ sig_blocked /\ Same /\ arg = top.arg /\ top.fn = "uthread_terminate"
    BY <1>1, AtPoint, AtBody DEF In, arg, top
  <2>2. arg \in DOMAIN threads /\ threads[arg].state \in State
    BY <1>1, ThreadsTyped DEF check_thread, Thread
  <2>3. /\ pc \in {"erase_ready", "erase_blocked", "switch"}
        /\ pc = "erase_ready" => threads[arg].state = "READY"
        /\ pc = "erase_blocked" => threads[arg].state = "BLOCKED"
        /\ pc = "switch" => threads[arg].state = "RUNNNING"
    BY <2>2 DEF State
  <2> HIDE DEF pc
  <2>4. Moved(pc)
    BY <1>1, <2>1, <2>3, GotoMoves DEF Pcs, pc
  <2>5. Done(top)'
    <3>1. top'.pc = pc /\ top'.fn = "uthread_terminate" /\ top'.arg = top.arg
      BY <1>1, <2>1, <2>4 DEF Moved, top, cur
    <3>2. Removing(top)'
      BY <1>1, <2>1, <2>2, <2>3, <3>1
         DEF Removing, StateWas, Inside, Same, SameThreads, SameReady, SameBlocked,
             SameSleeping
    <3>3. QED
      BY <3>1, <3>2 DEF Done
  <2>6. /\ DOMAIN threads' \subseteq DOMAIN threads
        /\ \A tid \in DOMAIN threads' : threads'[tid].quantum_t = threads[tid].quantum_t
    BY <1>1 DEF Without, Restrict
  <2>7. QED
    BY <1>1, <2>1, <2>3, <2>4, <2>5, <2>6, InsideStep DEF Pcs
<1>2. ASSUME In("uthread_terminate", "erase_ready"),
             ready_threads' \in remove_thread_from_ready(arg),
             Goto("erase_sleeping"),
             UNCHANGED <<threads, blocked_threads, sleeping_threads,
                         running_thread_tid, total_quantums, exited>>,
             Inside
      PROVE  Sections'
  <2>1. stack[cur] # <<>> /\ sig_blocked /\ arg = top.arg /\ top.fn = "uthread_terminate"
        /\ Done(top) /\ top.pc = "erase_ready"
    BY <1>2, AtPoint DEF In, arg, top
  <2>2. Removing(top) /\ SameReady /\ SameBlocked /\ SameSleeping /\ StateWas(top.arg, "READY")
    BY <2>1 DEF Done, Removing
  <2>3. Moved("erase_sleeping")
    BY <1>2, <2>1, GotoMoves DEF Pcs
  <2>4. top'.pc = "erase_sleeping" /\ top'.fn = "uthread_terminate" /\ top'.arg = top.arg
    BY <1>2, <2>1, <2>3 DEF Moved, top, cur
  <2>5. ready_threads' \in ErasedFrom(committed.ready, top.arg)
    BY <1>2, <2>1, <2>2, Erasing DEF SameReady
  <2>6. Done(top)'
    BY <1>2, <2>2, <2>4, <2>5
       DEF Done, Removing, StateWas, Inside, SameBlocked, SameSleeping
  <2>7. QED
    BY <1>2, <2>1, <2>3, <2>6, InsideStep DEF Pcs
<1>3. ASSUME In("uthread_terminate", "erase_blocked"),
             blocked_threads' = blocked_threads \ {arg},
             Goto("erase_sleeping"),
             UNCHANGED <<threads, ready_threads, sleeping_threads,
                         running_thread_tid, total_quantums, exited>>,
             Inside
      PROVE  Sections'
  <2>1. stack[cur] # <<>> /\ sig_blocked /\ arg = top.arg /\ top.fn = "uthread_terminate"
        /\ Done(top) /\ top.pc = "erase_blocked"
    BY <1>3, AtPoint DEF In, arg, top
  <2>2. Removing(top) /\ SameReady /\ SameBlocked /\ SameSleeping /\ StateWas(top.arg, "BLOCKED")
    BY <2>1 DEF Done, Removing
  <2>3. Moved("erase_sleeping")
    BY <1>3, <2>1, GotoMoves DEF Pcs
  <2>4. top'.pc = "erase_sleeping" /\ top'.fn = "uthread_terminate" /\ top'.arg = top.arg
    BY <1>3, <2>1, <2>3 DEF Moved, top, cur
  <2>5. Done(top)'
    BY <1>3, <2>1, <2>2, <2>4
       DEF Done, Removing, StateWas, Inside, SameReady, SameBlocked, SameSleeping
  <2>6. QED
    BY <1>3, <2>1, <2>3, <2>5, InsideStep DEF Pcs
<1>4. ASSUME In("uthread_terminate", "erase_sleeping"),
             sleeping_threads' = Without(sleeping_threads, {arg}),
             Goto("return"),
             UNCHANGED <<threads, ready_threads, blocked_threads,
                         running_thread_tid, total_quantums, exited>>,
             Inside
      PROVE  Sections'
  <2>1. stack[cur] # <<>> /\ sig_blocked /\ arg = top.arg /\ top.fn = "uthread_terminate"
        /\ Done(top) /\ top.pc = "erase_sleeping"
    BY <1>4, AtPoint DEF In, arg, top
  <2>2. Removing(top) /\ SameSleeping
    BY <2>1 DEF Done, Removing
  <2>3. Moved("return")
    BY <1>4, <2>1, GotoMoves DEF Pcs
  <2>4. top'.pc = "return" /\ top'.fn = "uthread_terminate" /\ top'.arg = top.arg
    BY <1>4, <2>1, <2>3 DEF Moved, top, cur
  <2>5. sleeping_threads' = Without(committed.sleeping, {top.arg})
    BY <1>4, <2>1, <2>2 DEF SameSleeping
  <2>6. Done(top)'
    BY <1>4, <2>1, <2>2, <2>4, <2>5
       DEF Done, Removing, StateWas, Inside, SameReady, SameBlocked, SameSleeping
  <2>7. QED
    BY <1>4, <2>1, <2>3, <2>6, InsideStep DEF Pcs
<1>5. QED
  BY <1>1, <1>2, <1>3, <1>4 DEF Terminate

\* The new thread has a stack of its own, and a context with an empty mask.
LEMMA NewThread ==
    ASSUME PInv, In("uthread_spawn", "body"),
           NEW tid \in Tid, tid \notin DOMAIN threads,
           \A lower \in Tid : lower < tid => lower \in DOMAIN threads,
           threads' = [t \in DOMAIN threads \cup {tid} |->
                         IF t = tid THEN [state |-> "READY", quantum_t |-> 0] ELSE threads[t]],
           env_mask' = [env_mask EXCEPT ![tid] = new_env_mask],
           stack' = [stack EXCEPT ![tid] = <<>>,
               ![cur] = <<[fn |-> "uthread_spawn", pc |-> "push_back", arg |-> tid]>> \o Tail(@)],
           UNCHANGED <<ready_threads, blocked_threads, sleeping_threads,
                       running_thread_tid, total_quantums, exited>>,
           UNCHANGED <<quantum_usecs, sig_blocked, pending, committed>>
    PROVE  Sections'
<1> DEFINE f == [fn |-> "uthread_spawn", pc |-> "push_back", arg |-> tid]
           new == <<f>> \o Tail(stack[cur])
<1>1. /\ ~exited /\ stack[cur] # <<>> /\ sig_blocked /\ Same
      /\ SuspendedAtSavePoint /\ Started /\ Buried /\ PreemptionTypeOK
      /\ Recorded /\ SameQuantum
  BY AtPoint, AtBody DEF In, PInv, Sections
<1>2. cur \in DOMAIN threads /\ cur \in Tid /\ tid # cur /\ DOMAIN threads \subseteq Tid
  BY <1>1, CommittedData DEF Same, SameThreads
<1>3. f \in Frame /\ f.pc = "push_back" /\ f.fn = "uthread_spawn" /\ f.arg = tid
  BY DEF Frame, Tid
<1> HIDE DEF f
<1>4. /\ Tail(stack[cur]) \in Seq(Frame)
      /\ Len(stack[cur]) \in Nat \ {0} /\ Len(Tail(stack[cur])) = Len(stack[cur]) - 1
      /\ \A i \in 1 .. Len(stack[cur]) - 1 : Tail(stack[cur])[i] = stack[cur][i + 1]
  BY <1>1, <1>2, Frames DEF PreemptionTypeOK
<1>5. /\ new \in Seq(Frame) /\ new # <<>> /\ Head(new) = f
      /\ Len(new) = Len(stack[cur])
      /\ \A i \in 2 .. Len(stack[cur]) : new[i] = stack[cur][i]
  BY <1>3, <1>4, OneMore
<1>6. /\ stack'[cur] = new /\ stack'[tid] = <<>>
      /\ \A t \in Tid \ {cur, tid} : stack'[t] = stack[t]
      /\ stack' \in [Tid -> Seq(Frame)]
      /\ Len(<<>>) = 0 /\ <<>> \in Seq(Frame)
  <2>1. stack' = [stack EXCEPT ![tid] = <<>>, ![cur] = new]
    BY <1>2 DEF f
  <2>2. Len(<<>>) = 0 /\ <<>> \in Seq(Frame)
    OBVIOUS
  <2> HIDE DEF new
  <2>3. stack \in [Tid -> Seq(Frame)]
    BY <1>1 DEF PreemptionTypeOK
  <2>4. QED
    BY <2>1, <2>2, <2>3, <1>2, <1>5
<1> HIDE DEF new
<1>7. cur' = cur /\ top' = f /\ env_mask'[tid] = FALSE
      /\ \A t \in Tid \ {tid} : env_mask'[t] = env_mask[t]
  BY <1>1, <1>5, <1>6 DEF cur, top, PreemptionTypeOK, new_env_mask
<1>8. PreemptionTypeOK'
  <2>1. ASSUME NEW t \in Tid PROVE Len(stack'[t]) <= MaxFrames
    <3>1. \A u \in Tid : Len(stack[u]) <= MaxFrames
      BY <1>1 DEF PreemptionTypeOK
    <3>2. CASE t = tid
      BY <3>2, <1>6, PreemptionAssumption
    <3>3. CASE t # tid
      BY <3>1, <3>3, <1>2, <1>5, <1>6
    <3>4. QED
      BY <3>2, <3>3
  <2>2. env_mask' \in [Tid -> BOOLEAN]
    BY <1>1 DEF PreemptionTypeOK, new_env_mask
  <2>3. QED
    BY <1>1, <1>6, <2>1, <2>2 DEF PreemptionTypeOK
<1>9. Recorded' /\ SameQuantum'
  BY <1>1 DEF Recorded, SameQuantum
<1>10. Progress'
  BY <1>1, <1>3, <1>5, <1>6, <1>7
     DEF Progress, Done, Spawning, Same, SameThreads, SameReady, SameBlocked, SameSleeping
<1>11. Masked' /\ Passed'
  BY <1>1, <1>3, <1>7 DEF Masked, Passed
<1>12. Buried'
  BY <1>1, <1>5, <1>6, <1>2 DEF Buried
<1>13. Started'
  BY <1>1, <1>2, <1>3, <1>7 DEF Started
<1>14. SuspendedAtSavePoint'
  BY <1>1, <1>2, <1>6, <1>7 DEF SuspendedAtSavePoint
<1>15. QED
  BY <1>8, <1>9, <1>10, <1>11, <1>12, <1>13, <1>14 DEF Sections

\* set_thread and push_back are the two halves of Spawning.
LEMMA SpawnStep == ASSUME PInv, Spawn PROVE Sections'
<1>1. CASE In("uthread_spawn", "body")
  BY <1>1, NewThread DEF Spawn, In, At
<1>2. ASSUME In("uthread_spawn", "push_back"),
             ready_threads' = Append(ready_threads, arg),
             UNCHANGED <<threads, blocked_threads, sleeping_threads,
                         running_thread_tid, total_quantums, exited>>,
             Goto("return"), Inside
      PROVE  Sections'
  <2>1. stack[cur] # <<>> /\ sig_blocked /\ arg = top.arg /\ top.fn = "uthread_spawn"
        /\ Done(top) /\ top.pc = "push_back"
    BY <1>2, AtPoint DEF In, arg, top
  <2>2. Spawning(top) /\ SameReady
    BY <2>1 DEF Done, Spawning
  <2>3. Moved("return")
    BY <1>2, <2>1, GotoMoves DEF Pcs
  <2>4. top'.pc = "return" /\ top'.fn = "uthread_spawn" /\ top'.arg = top.arg
    BY <1>2, <2>1, <2>3 DEF Moved, top, cur
  <2>5. Done(top)'
    BY <1>2, <2>1, <2>2, <2>4 DEF Done, Spawning, Inside, SameReady, SameBlocked, SameSleeping
  <2>6. QED
    BY <1>2, <2>1, <2>3, <2>5, InsideStep DEF Pcs
<1>3. QED
  BY <1>1, <1>2 DEF Spawn

\* uthread_block of a READY thread erases it from the deque, of the running one
\* it goes on to its sigsetjmp.
LEMMA BlockStep == ASSUME PInv, Block PROVE Sections'
<1>1. ASSUME In("uthread_block", "body"), MayBlock(arg),
             threads[arg].state \in {"READY", "RUNNNING"},
             blocked_threads' = blocked_threads \cup {arg},
             threads' = [threads EXCEPT ![arg].state = "BLOCKED"],
             Goto(IF threads[arg].state = "READY" THEN "erase_ready" ELSE "save"),
             UNCHANGED <<ready_threads, sleeping_threads, running_thread_tid,
                         total_quantums, exited>>,
             Inside
      PROVE  Sections'
  <2> DEFINE pc == IF threads[arg].state = "READY" THEN "erase_ready" ELSE "save"
  <2>1. stack[cur] # <<>> /\ sig_blocked /\ Same /\ arg = top.arg /\ top.fn = "uthread_block"
    BY <1>1, AtPoint, AtBody DEF In, arg, top
  <2>2. arg \in DOMAIN threads /\ arg # 0 /\ threads[arg] \in Thread
    BY <1>1, ThreadsTyped DEF MayBlock, check_thread
  <2>3. /\ pc \in {"erase_ready", "save"}
        /\ pc = "erase_ready" => threads[arg].state = "READY"
        /\ pc = "save" => threads[arg].state = "RUNNNING"
    BY <1>1
  <2> HIDE DEF pc
  <2>4. Moved(pc)
    BY <1>1, <2>1, <2>3, GotoMoves DEF Pcs, pc
  <2>5. Done(top)'
    <3>1. top'.pc = pc /\ top'.fn = "uthread_block" /\ top'.arg = top.arg
      BY <1>1, <2>1, <2>4 DEF Moved, top, cur
    <3>2. Blocking(top)'
      BY <1>1, <2>1, <2>2, <2>3, <3>1
         DEF Blocking, StateWas, StateSet, Inside, Same, SameThreads, SameReady, SameBlocked,
             SameSleeping
    <3>3. QED
      BY <3>1, <3>2 DEF Done
  <2>6. /\ DOMAIN threads' \subseteq DOMAIN threads
        /\ \A tid \in DOMAIN threads' : threads'[tid].quantum_t = threads[tid].quantum_t
    BY <1>1, <2>2 DEF Thread
  <2>7. QED
    BY <1>1, <2>1, <2>3, <2>4, <2>5, <2>6, InsideStep DEF Pcs
<1>2. ASSUME In("uthread_block", "erase_ready"),
             ready_threads' \in remove_thread_from_ready(arg),
             Goto("return"),
             UNCHANGED <<threads, blocked_threads, sleeping_threads,
                         running_thread_tid, total_quantums, exited>>,
             Inside
      PROVE  Sections'
  <2>1. stack[cur] # <<>> /\ sig_blocked /\ arg = top.arg /\ top.fn = "uthread_block"
        /\ Done(top) /\ top.pc = "erase_ready"
    BY <1>2, AtPoint DEF In, arg, top
  <2>2. Blocking(top) /\ SameReady /\ StateWas(top.arg, "READY")
    BY <2>1 DEF Done, Blocking
  <2>3. Moved("return")
    BY <1>2, <2>1, GotoMoves DEF Pcs
  <2>4. top'.pc = "return" /\ top'.fn = "uthread_block" /\ top'.arg = top.arg
    BY <1>2, <2>1, <2>3 DEF Moved, top, cur
  <2>5. ready_threads' \in ErasedFrom(committed.ready, top.arg)
    BY <1>2, <2>1, <2>2, Erasing DEF SameReady
  <2>6. Done(top)'
    BY <1>2, <2>2, <2>4, <2>5 DEF Done, Blocking, StateWas, StateSet, Inside, SameSleeping
  <2>7. QED
    BY <1>2, <2>1, <2>3, <2>6, InsideStep DEF Pcs
<1>3. QED
  BY <1>1, <1>2 DEF Block

\* unblock_thread queues the thread, and then erases it from blocked_threads.
LEMMA ResumeStep == ASSUME PInv, Resume PROVE Sections'
<1>1. ASSUME In("uthread_resume", "body"), check_thread(arg), threads[arg].state = "BLOCKED",
             threads' = [threads EXCEPT ![arg].state = "READY"],
             ready_threads' = ready_thread(arg, ready_threads, sleeping_threads),
             Goto("erase_blocked"),
             UNCHANGED <<blocked_threads, sleeping_threads, running_thread_tid,
                         total_quantums, exited>>,
             Inside
      PROVE  Sections'
  <2>1. stack[cur] # <<>> /\ sig_blocked /\ Same /\ arg = top.arg /\ top.fn = "uthread_resume"
    BY <1>1, AtPoint, AtBody DEF In, arg, top
  <2>2. arg \in DOMAIN threads /\ threads[arg] \in Thread
    BY <1>1, ThreadsTyped DEF check_thread
  <2>3. Moved("erase_blocked")
    BY <1>1, <2>1, GotoMoves DEF Pcs
  <2>4. top'.pc = "erase_blocked" /\ top'.fn = "uthread_resume" /\ top'.arg = top.arg
    BY <1>1, <2>1, <2>3 DEF Moved, top, cur
  <2>5. Done(top)'
    BY <1>1, <2>1, <2>2, <2>4
       DEF Done, Resuming, StateWas, StateSet, Inside, Same, SameThreads, SameReady,
           SameBlocked, SameSleeping, ready_thread
  <2>6. /\ DOMAIN threads' \subseteq DOMAIN threads
        /\ \A tid \in DOMAIN threads' : threads'[tid].quantum_t = threads[tid].quantum_t
    BY <1>1, <2>2 DEF Thread
  <2>7. QED
    BY <1>1, <2>1, <2>3, <2>5, <2>6, InsideStep DEF Pcs
<1>2. ASSUME In("uthread_resume", "erase_blocked"),
             blocked_threads' = blocked_threads \ {arg},
             Goto("return"),
             UNCHANGED <<threads, ready_threads, sleeping_threads,
                         running_thread_tid, total_quantums, exited>>,
             Inside
      PROVE  Sections'
  <2>1. stack[cur] # <<>> /\ sig_blocked /\ arg = top.arg /\ top.fn = "uthread_resume"
        /\ Done(top) /\ top.pc = "erase_blocked"
    BY <1>2, AtPoint DEF In, arg, top
  <2>2. Resuming(top) /\ SameBlocked
    BY <2>1 DEF Done, Resuming
  <2>3. Moved("return")
    BY <1>2, <2>1, GotoMoves DEF Pcs
  <2>4. top'.pc = "return" /\ top'.fn = "uthread_resume" /\ top'.arg = top.arg
    BY <1>2, <2>1, <2>3 DEF Moved, top, cur
  <2>5. Done(top)'
    BY <1>2, <2>1, <2>2, <2>4
       DEF Done, Resuming, StateWas, StateSet, Inside, SameBlocked, SameSleeping
  <2>6. QED
    BY <1>2, <2>1, <2>3, <2>5, InsideStep DEF Pcs
<1>3. QED
  BY <1>1, <1>2 DEF Resume

\* The deadline is stored in front of the sigsetjmp, the state set behind it.
LEMMA SleepStep == ASSUME PInv, Sleep PROVE Sections'
<1>1. ASSUME In("uthread_sleep", "body"), MaySleep(arg),
             sleeping_threads' = [t \in DOMAIN sleeping_threads \cup {cur} |->
                                    IF t = cur THEN Deadline(arg) ELSE sleeping_threads[t]],
             Goto("save"),
             UNCHANGED <<threads, ready_threads, blocked_threads,
                         running_thread_tid, total_quantums, exited>>,
             Inside
      PROVE  Sections'
  <2>1. stack[cur] # <<>> /\ sig_blocked /\ Same /\ arg = top.arg /\ top.fn = "uthread_sleep"
        /\ top.arg \in SleepArgs
    BY <1>1, AtPoint, AtBody DEF In, arg, top, PInv, Sections, Passed
  <2>2. Moved("save")
    BY <1>1, <2>1, GotoMoves DEF Pcs
  <2>3. top'.pc = "save" /\ top'.fn = "uthread_sleep" /\ top'.arg = top.arg
    BY <1>1, <2>1, <2>2 DEF Moved, top, cur
  <2>4. Done(top)'
    BY <1>1, <2>1, <2>3
       DEF Done, Napping, MaySleep, Deadline, Inside, Same, SameThreads, SameReady, SameBlocked,
           SameSleeping, cur
  <2>5. QED
    BY <1>1, <2>1, <2>2, <2>4, InsideStep DEF Pcs
<1>2. ASSUME In("uthread_sleep", "saved"), threads[cur].state = "RUNNNING",
             threads' = [threads EXCEPT ![cur].state = "READY"],
             UNCHANGED <<ready_threads, blocked_threads, sleeping_threads,
                         running_thread_tid, total_quantums, exited>>,
             UNCHANGED stack, Inside
      PROVE  Sections'
  <2>1. stack[cur] # <<>> /\ sig_blocked /\ top.fn = "uthread_sleep" /\ ~exited
        /\ Done(top) /\ top.pc = "saved"
    BY <1>2, AtPoint DEF In, top
  <2>2. cur \in DOMAIN committed.threads /\ committed.threads[cur] \in Thread
    BY <2>1, CommittedData
  <2>3. Napping(top) /\ SameThreads
    BY <1>2, <2>1, <2>2 DEF Done, Napping, StateSet, Thread
  <2>4. Moved("saved")
    BY <1>2, <2>1, CommittedData DEF Moved, top, PInv, Sections, PreemptionTypeOK
  <2>5. Done(top)'
    BY <1>2, <2>1, <2>3
       DEF Done, Napping, StateSet, MaySleep, Deadline, Inside, SameThreads, SameReady,
           SameBlocked, top, cur
  <2>6. /\ DOMAIN threads' \subseteq DOMAIN threads
        /\ \A tid \in DOMAIN threads' : threads'[tid].quantum_t = threads[tid].quantum_t
    BY <1>2, <2>2, <2>3 DEF Thread, SameThreads
  <2>7. env_mask[cur]
    BY <2>1 DEF PInv, Sections, Started
  <2>8. QED
    BY <1>2, <2>1, <2>4, <2>5, <2>6, <2>7, InsideStep DEF Pcs
<1>3. QED
  BY <1>1, <1>2 DEF Sleep

\* The mask that is saved blocks the signal.
LEMMA SaveStep == ASSUME PInv, Save PROVE Sections'
<1>1. stack[cur] # <<>> /\ sig_blocked /\ Done(top) /\ top.pc = "save" /\ cur \in Tid
  BY AtPoint, CommittedData DEF Save
<1>2. Moved("saved")
  BY <1>1, GotoMoves DEF Save, Pcs
<1>3. top'.pc = "saved" /\ top'.fn = top.fn /\ top'.arg = top.arg
  BY <1>1, <1>2 DEF Moved, top, cur, Save, data, vars
<1>4. Done(top)'
  BY <1>1, <1>3
     DEF Done, Spawning, Removing, Blocking, Resuming, Napping, StateWas, StateSet, MaySleep,
         Deadline, Same, SameThreads, SameReady, SameBlocked, SameSleeping, cur, Save, data, vars
<1>5. env_mask \in [Tid -> BOOLEAN] /\ sig_blocked \in BOOLEAN
  BY DEF PInv, Sections, PreemptionTypeOK
<1>6. /\ env_mask' \in [Tid -> BOOLEAN] /\ env_mask'[cur]
      /\ \A tid \in Tid \ {cur} : env_mask'[tid] = env_mask[tid]
      /\ sig_blocked' /\ sig_blocked' \in BOOLEAN
  BY <1>1, <1>5 DEF Save
<1>7. QED
  BY <1>1, <1>2, <1>4, <1>6, SectionStep DEF Save, Pcs, data, vars

\* Behind sigsetjmp nothing is left to do but to unblock the signal.
LEMMA ResumedStep == ASSUME PInv, Resumed PROVE Sections'
<1>1. stack[cur] # <<>> /\ Done(top) /\ top.pc = "resumed" /\ cur \in Tid
  BY AtPoint, CommittedData DEF Resumed
<1>2. Same
  BY <1>1 DEF Done, Spawning, Removing, Blocking, Resuming, Napping
<1>3. Moved("return")
  BY <1>1, GotoMoves DEF Resumed, Pcs
<1>4. top'.pc = "return" /\ Same'
  BY <1>1, <1>2, <1>3
     DEF Moved, top, cur, Resumed, data, vars, Same, SameThreads, SameReady, SameBlocked,
         SameSleeping
<1>5. sig_blocked' \in BOOLEAN
  BY DEF Resumed, PInv, Sections, PreemptionTypeOK
<1>6. env_mask' = env_mask /\ env_mask \in [Tid -> BOOLEAN]
  BY DEF Resumed, PInv, Sections, PreemptionTypeOK
<1>7. QED
  BY <1>1, <1>3, <1>4, <1>5, <1>6, SectionStep DEF Resumed, Pcs, data, vars, Done

-----------------------------------------------------------------------------
(* Signals, calls and returns.                                             *)

\* An expiry only makes the signal pending.
LEMMA ExpireStep == ASSUME PInv, Expire PROVE Sections'
<1>1. /\ UNCHANGED <<threads, ready_threads, blocked_threads, sleeping_threads,
                    running_thread_tid, total_quantums, exited>>
      /\ UNCHANGED <<quantum_usecs, sig_blocked, stack, env_mask, committed>>
      /\ cur' = cur /\ top' = top
      /\ pending' \in 0 .. MaxQuantums
  BY CommittedData DEF Expire, data, vars, cur, top
<1>2. PreemptionTypeOK'
  BY <1>1 DEF PInv, Sections, PreemptionTypeOK
<1>3. Progress'
  BY <1>1, ZenonT(30)
     DEF PInv, Sections, Progress, Done, Spawning, Removing, Blocking, Resuming, Napping,
         StateWas, StateSet, MaySleep, Deadline, Same, SameThreads, SameReady, SameBlocked,
         SameSleeping, cur, top
<1>4. Recorded' /\ SameQuantum' /\ SuspendedAtSavePoint'
  BY <1>1 DEF PInv, Sections, Recorded, SameQuantum, SuspendedAtSavePoint
<1>5. Masked' /\ Buried' /\ Started' /\ Passed'
  BY <1>1
     DEF PInv, Sections, Masked, Buried, Started, Passed, Same, SameThreads, SameReady,
         SameBlocked, SameSleeping
<1>6. QED
  BY <1>2, <1>3, <1>4, <1>5 DEF Sections

\* A new frame on the stack of a thread which has no section open.
LEMMA PushStep ==
    ASSUME PInv, NEW fn, NEW pc, NEW a, [fn |-> fn, pc |-> pc, arg |-> a] \in Frame,
           Push(fn, pc, a), Len(stack[cur]) < MaxFrames,
           stack[cur] # <<>> => top.pc = "return",
           Same, pc = "body" \/ (pc = "save" /\ fn = "callback_handler"),
           fn = "uthread_spawn" => a \in EntryPoints,
           fn = "uthread_sleep" => a \in SleepArgs,
           sig_blocked' = TRUE, pending' \in 0 .. MaxQuantums,
           UNCHANGED <<data, quantum_usecs, env_mask, committed>>
    PROVE  Sections'
<1> DEFINE f == [fn |-> fn, pc |-> pc, arg |-> a]
           new == <<f>> \o stack[cur]
<1>1. cur \in Tid /\ DOMAIN threads \subseteq Tid
  BY CommittedData, ThreadsTyped
<1>2. PreemptionTypeOK /\ stack \in [Tid -> Seq(Frame)]
  BY DEF PInv, Sections, PreemptionTypeOK
<1>3. f \in Frame /\ f.pc = pc /\ f.fn = fn /\ f.arg = a
  OBVIOUS
<1>4. Len(stack[cur]) \in Nat /\ (stack[cur] # <<>> => top = stack[cur][1])
  BY <1>1, <1>2, LenProperties, Frames DEF top
<1>5. stack' = [stack EXCEPT ![cur] = new]
  BY DEF Push
<1> HIDE DEF f
<1>6. /\ new \in Seq(Frame) /\ new # <<>> /\ Head(new) = f
      /\ Len(new) = Len(stack[cur]) + 1
      /\ \A i \in 2 .. Len(stack[cur]) + 1 : new[i] = stack[cur][i - 1]
  BY <1>1, <1>2, <1>3, OneMore
<1> HIDE DEF new
<1>7. /\ cur' = cur /\ top' = f /\ stack'[cur] = new /\ stack' \in [Tid -> Seq(Frame)]
      /\ \A tid \in Tid \ {cur} : stack'[tid] = stack[tid]
  BY <1>1, <1>2, <1>5, <1>6 DEF cur, top, data, vars
<1>8. PreemptionTypeOK'
  <2>1. ASSUME NEW tid \in Tid PROVE Len(stack'[tid]) <= MaxFrames
    <3>1. \A u \in Tid : Len(stack[u]) <= MaxFrames
      BY <1>2 DEF PreemptionTypeOK
    <3>2. CASE tid = cur
      BY <3>2, <1>4, <1>6, <1>7, PreemptionAssumption
    <3>3. CASE tid # cur
      BY <3>1, <3>3, <1>7
    <3>4. QED
      BY <3>2, <3>3
  <2>2. QED
    BY <1>2, <1>7, <2>1 DEF PreemptionTypeOK
<1>9. Recorded' /\ SameQuantum'
  BY DEF PInv, Sections, Recorded, SameQuantum, data, vars
<1>10. Progress' /\ Masked' /\ Passed'
  BY <1>3, <1>6, <1>7
     DEF Progress, Masked, Passed, Done, Same, SameThreads, SameReady, SameBlocked,
         SameSleeping, data, vars
<1>11. Buried'
  <2>1. ASSUME NEW tid \in Tid, NEW i \in 2 .. Len(stack'[tid])
        PROVE  stack'[tid][i].pc = "return"
    <3>1. CASE tid # cur
      BY <3>1, <1>7 DEF PInv, Sections, Buried
    <3>2. CASE tid = cur
      <4>1. stack'[tid][i] = stack[cur][i - 1] /\ i \in 2 .. Len(stack[cur]) + 1
        BY <3>2, <1>6, <1>7
      <4>2. CASE i = 2
        <5>1. stack[cur] # <<>>
          BY <4>1, <4>2, <1>4
        <5>2. QED
          BY <4>1, <4>2, <5>1, <1>4
      <4>3. CASE i # 2
        BY <4>1, <4>3, <1>1, <1>4 DEF PInv, Sections, Buried
      <4>4. QED
        BY <4>2, <4>3
    <3>3. QED
      BY <3>1, <3>2
  <2>2. QED
    BY <2>1 DEF Buried
<1>12. Started'
  BY <1>3, <1>7 DEF PInv, Sections, Started, data, vars
<1>13. SuspendedAtSavePoint'
  BY <1>1, <1>7 DEF PInv, Sections, SuspendedAtSavePoint, data, vars
<1>14. QED
  BY <1>8, <1>9, <1>10, <1>11, <1>12, <1>13 DEF Sections

\* The handler interrupts user code or a return.
LEMMA DeliverStep == ASSUME PInv, Deliver PROVE Sections'
<1>1. [fn |-> "callback_handler", pc |-> "save", arg |-> 0] \in Frame
  BY DEF Frame
<1>2. Same /\ (stack[cur] # <<>> => top.pc = "return")
  BY DEF Deliver, PInv, Sections, Masked, Progress
<1>3. 0 \in 0 .. MaxQuantums
  BY ConstantsAssumption
<1>4. QED
  BY <1>1, <1>2, <1>3, PushStep DEF Deliver

\* A function begins with nothing done and the signal blocked.
LEMMA CallStep ==
    ASSUME PInv, NEW fn, NEW a, Call(fn, a), a \in Int,
           fn \in Getters \cup {"uthread_spawn", "uthread_terminate", "uthread_block",
                                "uthread_resume", "uthread_sleep"},
           fn = "uthread_spawn" => a \in EntryPoints,
           fn = "uthread_sleep" => a \in SleepArgs
    PROVE  Sections'
<1>1. [fn |-> fn, pc |-> "body", arg |-> a] \in Frame
  BY DEF Frame
<1>2. stack[cur] = <<>> /\ Same
  BY DEF Call, InUserCode, PInv, Sections, Progress
<1>3. Len(stack[cur]) < MaxFrames
  BY <1>2, PreemptionAssumption
<1>4. pending \in 0 .. MaxQuantums
  BY DEF PInv, Sections, PreemptionTypeOK
<1>5. QED
  BY <1>1, <1>2, <1>3, <1>4, PushStep DEF Call

\* The innermost frame goes, and the data is committed.
LEMMA PopStep ==
    ASSUME PInv, stack[cur] # <<>>, Pop, Commit, sig_blocked' \in BOOLEAN,
           UNCHANGED <<data, quantum_usecs, pending, env_mask>>
    PROVE  Sections'
<1> DEFINE new == Tail(stack[cur])
<1>1. cur \in Tid /\ DOMAIN threads \subseteq Tid
  BY CommittedData, ThreadsTyped
<1>2. PreemptionTypeOK /\ stack \in [Tid -> Seq(Frame)]
  BY DEF PInv, Sections, PreemptionTypeOK
<1>3. /\ new \in Seq(Frame) /\ Len(stack[cur]) \in Nat \ {0}
      /\ Len(new) = Len(stack[cur]) - 1
      /\ \A i \in 1 .. Len(stack[cur]) - 1 : new[i] = stack[cur][i + 1]
  BY <1>1, <1>2, Frames
<1>4. new # <<>> => Head(new) = new[1] /\ Len(new) \in Nat \ {0}
  BY <1>3, Frames
<1>5. stack' = [stack EXCEPT ![cur] = new]
  BY DEF Pop
<1> HIDE DEF new
<1>6. /\ cur' = cur /\ stack'[cur] = new /\ stack' \in [Tid -> Seq(Frame)]
      /\ \A tid \in Tid \ {cur} : stack'[tid] = stack[tid]
  BY <1>1, <1>2, <1>3, <1>5 DEF cur, data, vars
<1>7. new # <<>> => top'.pc = "return"
  BY <1>1, <1>3, <1>4, <1>6 DEF PInv, Sections, Buried, top
<1>8. Same' /\ Recorded' /\ SameQuantum'
  BY DEF Commit, Now, Same, SameThreads, SameReady, SameBlocked, SameSleeping, Recorded,
         SameQuantum
<1>9. PreemptionTypeOK'
  <2>1. ASSUME NEW tid \in Tid PROVE Len(stack'[tid]) <= MaxFrames
    <3>1. \A u \in Tid : Len(stack[u]) <= MaxFrames
      BY <1>2 DEF PreemptionTypeOK
    <3>2. CASE tid = cur
      BY <3>1, <3>2, <1>1, <1>3, <1>6, PreemptionAssumption
    <3>3. CASE tid # cur
      BY <3>1, <3>3, <1>6
    <3>4. QED
      BY <3>2, <3>3
  <2>2. QED
    BY <1>2, <1>6, <2>1 DEF PreemptionTypeOK, data, vars
<1>10. Progress' /\ Masked' /\ Passed'
  BY <1>6, <1>7, <1>8 DEF Progress, Masked, Passed, Done
<1>11. Buried'
  BY <1>1, <1>3, <1>6, SMTT(30) DEF PInv, Sections, Buried
<1>12. Started'
  BY <1>6, <1>7 DEF PInv, Sections, Started, data, vars
<1>13. SuspendedAtSavePoint'
  BY <1>1, <1>6 DEF PInv, Sections, SuspendedAtSavePoint, data, vars
<1>14. QED
  BY <1>8, <1>9, <1>10, <1>11, <1>12, <1>13 DEF Sections

\* Both kinds of return, with the signal unblocked or left blocked.
LEMMA ReturnStep == ASSUME PInv, Return \/ ReturnBlocked PROVE Sections'
<1>1. PreemptionTypeOK
  BY DEF PInv, Sections
<1>2. stack[cur] # <<>> /\ sig_blocked' \in BOOLEAN
  BY <1>1 DEF Return, ReturnBlocked, In, At, PreemptionTypeOK
<1>3. QED
  BY <1>2, PopStep DEF Return, ReturnBlocked, data, vars

\* The process ends in the middle of a function.
LEMMA ExitStep == ASSUME PInv, Exit PROVE Sections'
<1>1. At("body") /\ sig_blocked /\ stack[cur] # <<>> /\ top.pc = "body"
  BY AtPoint DEF Exit, In
<1>2. DOMAIN threads' = {} /\ cur' = cur /\ top' = top /\ UNCHANGED signals
  BY DEF Exit, remove_all, Without, Restrict, cur, top, signals
<1>3. Same' /\ Recorded' /\ SameQuantum'
  BY DEF Exit, Commit, Now, Same, SameThreads, SameReady, SameBlocked, SameSleeping, Recorded,
         SameQuantum
<1>4. PreemptionTypeOK' /\ Buried' /\ Passed'
  BY <1>2 DEF PInv, Sections, PreemptionTypeOK, Buried, Passed, signals
<1>5. Progress' /\ Masked' /\ Started' /\ SuspendedAtSavePoint'
  BY <1>1, <1>2, <1>3 DEF Progress, Done, Masked, Started, SuspendedAtSavePoint, signals
<1>6. QED
  BY <1>3, <1>4, <1>5 DEF Sections

\* A failing system call marks the committed data as exited, too.
LEMMA FailStep == ASSUME PInv, SystemCallFails PROVE Sections'
<1>1. /\ UNCHANGED <<threads, ready_threads, blocked_threads, sleeping_threads,
                     running_thread_tid, total_quantums>>
      /\ exited' = TRUE /\ UNCHANGED signals
      /\ committed' = [committed EXCEPT !.exited = TRUE]
  BY DEF SystemCallFails, handleErrorSystemCall
<1>2. /\ committed'.threads = committed.threads /\ committed'.ready = committed.ready
      /\ committed'.blocked = committed.blocked /\ committed'.sleeping = committed.sleeping
      /\ committed'.running = committed.running /\ committed'.total = committed.total
      /\ committed'.exited = TRUE /\ Recorded'
  BY <1>1 DEF PInv, Sections, Recorded
<1>3. cur' = cur /\ top' = top
  BY <1>1 DEF cur, top, signals
<1>4. PreemptionTypeOK' /\ Buried' /\ Passed' /\ Started' /\ SuspendedAtSavePoint' /\ SameQuantum'
  BY <1>1, <1>2, <1>3
     DEF PInv, Sections, PreemptionTypeOK, Buried, Passed, Started, SuspendedAtSavePoint,
         SameQuantum, signals
<1>5. Same => Same'
  BY <1>1, <1>2 DEF Same, SameThreads, SameReady, SameBlocked, SameSleeping
<1>6. Progress' /\ Masked'
  BY <1>1, <1>2, <1>3, <1>5
     DEF PInv, Sections, Progress, Masked, Done, Spawning, Removing, Blocking, Resuming,
         Napping, StateWas, StateSet, MaySleep, Deadline, SameThreads, SameReady,
         SameBlocked, SameSleeping, cur, signals
<1>7. QED
  BY <1>2, <1>4, <1>6 DEF Sections

-----------------------------------------------------------------------------
(* The switch.                                                             *)

\* The threads of ths can be resumed from the frames and the masks.
Suspended(ths, frames) ==
    \A tid \in DOMAIN ths :
        IF ths[tid].quantum_t = 0
        THEN frames[tid] = <<>> /\ ~env_mask[tid]
        ELSE frames[tid] # <<>> /\ Head(frames[tid]).pc = "saved" /\ env_mask[tid]

\* The stacks are well-formed.
Stacks(frames) ==
    /\ frames \in [Tid -> Seq(Frame)]
    /\ \A tid \in Tid : Len(frames[tid]) <= MaxFrames
    /\ \A tid \in Tid : \A i \in 2 .. Len(frames[tid]) : frames[tid][i].pc = "return"

\* User code that a switch starts runs with the signal unblocked.
Unmasked == stack[cur] = <<>> => ~sig_blocked

\* The thread that a switch resumes continues behind its sigsetjmp, with the
\* signal blocked, or starts in user code.
LEMMA SwitchSections ==
    ASSUME PInv, A!IInv', Commit, ~exited,
           NEW ths, DOMAIN ths \subseteq Tid, ths \in [DOMAIN ths -> Thread],
           NEW ready, NEW sl, run_next_thread(ths, ready, sl),
           NEW frames, Stacks(frames), Suspended(ths, frames), siglongjmp(frames),
           UNCHANGED <<blocked_threads, exited>>
    PROVE  Sections' /\ Unmasked'
<1> DEFINE next == running_thread_tid'
           new == AtPc(frames[next], "resumed")
<1>1. /\ next = Head(ready) /\ total_quantums' \in Nat /\ exited' = FALSE
      /\ threads' = [ths EXCEPT ![next] = [state |-> "RUNNNING", quantum_t |-> @.quantum_t + 1]]
      /\ cur' = next
  BY CommittedData DEF run_next_thread, cur, PInv, Sections, PreemptionTypeOK
<1>2. Recorded' /\ SameQuantum' /\ Same'
  BY DEF Commit, Now, Same, SameThreads, SameReady, SameBlocked, SameSleeping, Recorded,
         SameQuantum
<1>3. next \in DOMAIN ths /\ next \in Tid
  BY <1>1, <1>2 DEF A!IInv, A!StatesAgree, SameQuantum, Same, SameThreads
<1> HIDE DEF next
<1>4. /\ threads'[next].quantum_t # 0 /\ DOMAIN threads' = DOMAIN ths
      /\ \A tid \in DOMAIN ths \ {next} : threads'[tid] = ths[tid]
  <2>1. ths[next].quantum_t \in Nat
    BY <1>3 DEF Thread
  <2>2. QED
    BY <1>1, <1>3, <2>1
<1>5. /\ stack' \in [Tid -> Seq(Frame)]
      /\ \A tid \in Tid \ {next} : stack'[tid] = frames[tid]
      /\ \A tid \in Tid : Len(stack'[tid]) = Len(frames[tid])
      /\ \A tid \in Tid : \A i \in 2 .. Len(stack'[tid]) : stack'[tid][i] = frames[tid][i]
      /\ frames[next] = <<>> => stack'[next] = <<>>
      /\ frames[next] # <<>> => stack'[next] # <<>> /\ Head(stack'[next]).pc = "resumed"
  <2>1. CASE frames[next] = <<>>
    BY <2>1 DEF siglongjmp, Stacks, next
  <2>2. CASE frames[next] # <<>>
    <3> DEFINE f == [Head(frames[next]) EXCEPT !.pc = "resumed"]
    <3>1. frames[next] \in Seq(Frame) /\ frames \in [Tid -> Seq(Frame)]
      BY <1>3 DEF Stacks
    <3>2. Head(frames[next]) \in Frame
      BY <3>1, <2>2, Frames
    <3>3. f \in Frame /\ f.pc = "resumed"
      BY <3>2 DEF Frame
    <3>4. /\ new \in Seq(Frame) /\ new # <<>> /\ Head(new) = f
          /\ Len(new) = Len(frames[next])
          /\ \A i \in 2 .. Len(frames[next]) : new[i] = frames[next][i]
      BY <2>2, <3>1, <3>3, Moving, ZenonT(60)
    <3>5. stack' = [frames EXCEPT ![next] = new]
      BY <2>2 DEF siglongjmp, next
    <3> HIDE DEF f, new
    <3>6. QED
      BY <1>3, <2>2, <3>1, <3>3, <3>4, <3>5
  <2>3. QED
    BY <2>1, <2>2
<1>6. sig_blocked' = env_mask[next] /\ UNCHANGED <<quantum_usecs, pending, env_mask>>
  BY DEF siglongjmp, next
<1>7. PreemptionTypeOK'
  BY <1>3, <1>5, <1>6 DEF PInv, Sections, PreemptionTypeOK, Stacks
<1>8. Progress' /\ Passed'
  BY <1>1, <1>2, <1>3, <1>5 DEF Progress, Passed, Done, top
<1>9. Masked'
  BY <1>1, <1>3, <1>5, <1>6 DEF Masked, Suspended
<1>10. Buried'
  BY <1>5 DEF Buried, Stacks
<1>11. Started'
  BY <1>1, <1>3, <1>4, <1>5 DEF Started, top
<1>12. SuspendedAtSavePoint'
  BY <1>1, <1>3, <1>4, <1>5, <1>6 DEF SuspendedAtSavePoint, Suspended
<1>13. Unmasked'
  BY <1>1, <1>3, <1>5, <1>6 DEF Unmasked, Suspended
<1>14. QED
  BY <1>2, <1>7, <1>8, <1>9, <1>10, <1>11, <1>12, <1>13 DEF Sections

\* Each of the three switches leaves every thread where it can be resumed.
LEMMA SwitchStep == ASSUME PInv, Switch, A!IInv' PROVE Sections' /\ Unmasked'
<1>1. /\ UNCHANGED <<blocked_threads, exited>> /\ Commit
      /\ DOMAIN threads \subseteq Tid /\ threads \in [DOMAIN threads -> Thread]
      /\ cur \in Tid /\ ~exited /\ stack[cur] # <<>> /\ Done(top)
  BY CommittedData, ThreadsTyped, AtPoint DEF Switch, In
<1>2. Stacks(stack)
  BY DEF PInv, Sections, PreemptionTypeOK, Buried, Stacks
<1>3. ASSUME top.pc = "saved" PROVE Suspended(threads, stack)
  BY <1>1, <1>3 DEF PInv, Sections, SuspendedAtSavePoint, Started, Suspended, top
<1>4. ASSUME In("callback_handler", "saved"),
             NEW awake,
             run_next_thread([threads EXCEPT ![cur].state = "READY"],
                             ready_thread(cur, awake.ready, awake.sleeping),
                             awake.sleeping),
             siglongjmp(stack)
      PROVE  Sections' /\ Unmasked'
  <2> DEFINE ths == [threads EXCEPT ![cur].state = "READY"]
             ready == ready_thread(cur, awake.ready, awake.sleeping)
  <2>1. top.pc = "saved" /\ Suspended(threads, stack)
    BY <1>3, <1>4, AtPoint DEF In
  <2>2. /\ DOMAIN ths = DOMAIN threads /\ ths \in [DOMAIN ths -> Thread]
        /\ \A tid \in DOMAIN ths : ths[tid].quantum_t = threads[tid].quantum_t
    BY <1>1 DEF Thread, State
  <2>3. Suspended(ths, stack)
    BY <2>1, <2>2 DEF Suspended
  <2>4. run_next_thread(ths, ready, awake.sleeping)
    BY <1>4
  <2> HIDE DEF ths, ready
  <2>5. QED
    BY <1>1, <1>2, <1>4, <2>2, <2>3, <2>4, SwitchSections
<1>5. ASSUME top.pc = "saved", NEW awake,
             run_next_thread(threads, awake.ready, awake.sleeping),
             siglongjmp(stack)
      PROVE  Sections' /\ Unmasked'
  BY <1>1, <1>2, <1>3, <1>5, SwitchSections
<1>6. ASSUME In("uthread_terminate", "switch"), NEW awake,
             run_next_thread(threads, awake.ready, awake.sleeping),
             siglongjmp([stack EXCEPT ![cur] = <<>>])
      PROVE  Sections' /\ Unmasked'
  <2> DEFINE frames == [stack EXCEPT ![cur] = <<>>]
  <2>1. Removing(top)
    BY <1>1, <1>6, AtPoint DEF In, top, Done
  <2>2. cur \notin DOMAIN threads
    BY <1>1, <1>6, <2>1, AtPoint, CommittedData
       DEF In, Removing, StateWas, Without, Restrict
  <2>3. Len(<<>>) = 0 /\ <<>> \in Seq(Frame)
    OBVIOUS
  <2>4. /\ frames \in [Tid -> Seq(Frame)] /\ frames[cur] = <<>>
        /\ \A tid \in Tid \ {cur} : frames[tid] = stack[tid]
    BY <1>1, <1>2, <2>3 DEF Stacks
  <2>5. siglongjmp(frames)
    BY <1>6
  <2> HIDE DEF frames
  <2>6. Stacks(frames)
    <3>1. ASSUME NEW tid \in Tid
          PROVE  /\ Len(frames[tid]) <= MaxFrames
                 /\ \A i \in 2 .. Len(frames[tid]) : frames[tid][i].pc = "return"
      <4>1. CASE tid = cur
        BY <4>1, <2>3, <2>4, PreemptionAssumption
      <4>2. CASE tid # cur
        BY <4>2, <1>2, <2>4 DEF Stacks
      <4>3. QED
        BY <4>1, <4>2
    <3>2. QED
      BY <2>4, <3>1 DEF Stacks
  <2>7. Suspended(threads, frames)
    BY <1>1, <2>2, <2>4 DEF PInv, Sections, SuspendedAtSavePoint, Suspended
  <2>8. QED
    BY <1>1, <1>6, <2>5, <2>6, <2>7, SwitchSections
<1>7. QED
  BY <1>4, <1>5, <1>6, AtPoint DEF Switch, In

-----------------------------------------------------------------------------
(* What commits is a step of Scheduler.                                    *)

\* A return commits what the function of its frame has done.
LEMMA ReturnRefines == ASSUME PInv, Return PROVE [A!Next]_(A!vars)
<1> DEFINE tid == top.arg
<1>1. /\ ~exited /\ stack[cur] # <<>> /\ Done(top) /\ top.pc = "return"
      /\ UNCHANGED data /\ Commit /\ SameQuantum
  BY AtPoint DEF Return, PInv, Sections
<1>2. /\ committed'.threads = threads /\ committed'.ready = ready_threads
      /\ committed'.blocked = blocked_threads /\ committed'.sleeping = sleeping_threads
      /\ committed'.running = committed.running /\ committed'.total = committed.total
      /\ committed'.exited = committed.exited /\ ~committed.exited
  BY <1>1 DEF Commit, Now, data, vars, SameQuantum
<1>3. DOMAIN committed.threads \subseteq Tid /\ Tid \subseteq TidArgs
  BY CommittedData, ConstantsAssumption DEF Tid, TidArgs
<1>4. CASE Same
  BY <1>2, <1>4 DEF A!vars, Same, SameThreads, SameReady, SameBlocked, SameSleeping
<1>5. CASE Spawning(top)
  <2>1. A!add_new_thread(tid)
    BY <1>1, <1>2, <1>5 DEF Spawning, SameBlocked, SameSleeping, A!add_new_thread, Tid, A!Tid
  <2>2. tid \in A!Tid
    BY <1>5 DEF Spawning, Tid, A!Tid
  <2>3. QED
    BY <1>2, <2>1, <2>2 DEF A!Next, A!OtherCalls, A!uthread_spawn
<1>6. CASE Removing(top)
  <2>1. /\ tid # 0 /\ tid \in DOMAIN committed.threads
        /\ threads = A!Without(committed.threads, {tid})
        /\ sleeping_threads = A!Without(committed.sleeping, {tid})
        /\ \/ /\ committed.threads[tid].state = "READY"
              /\ ready_threads \in A!remove_thread_from_ready(tid)
              /\ blocked_threads = committed.blocked
           \/ /\ committed.threads[tid].state = "BLOCKED"
              /\ blocked_threads = committed.blocked \ {tid}
              /\ ready_threads = committed.ready
    BY <1>1, <1>6, SameWithout, Erasing DEF Removing, StateWas, SameReady, SameBlocked
  <2>2. A!remove_other_thread(tid)
    BY <1>2, <2>1 DEF A!remove_other_thread
  <2>3. A!uthread_terminate(tid)
    BY <1>2, <2>1, <2>2 DEF A!uthread_terminate, A!check_thread
  <2>4. tid \in A!TidArgs
    BY <1>3, <2>1 DEF A!TidArgs, TidArgs
  <2>5. QED
    BY <2>3, <2>4 DEF A!Next, A!OtherCalls
<1>7. CASE Blocking(top)
  <2>1. /\ tid # 0 /\ tid \in DOMAIN committed.threads
        /\ committed.threads[tid].state = "READY"
        /\ threads = [committed.threads EXCEPT ![tid].state = "BLOCKED"]
        /\ blocked_threads = committed.blocked \cup {tid}
        /\ ready_threads \in A!remove_thread_from_ready(tid)
        /\ sleeping_threads = committed.sleeping
    BY <1>1, <1>7, Erasing DEF Blocking, StateWas, StateSet, SameSleeping
  <2>2. A!block_other_thread(tid)
    BY <1>2, <2>1 DEF A!block_other_thread
  <2>3. A!uthread_block(tid)
    BY <1>2, <2>1, <2>2 DEF A!uthread_block, A!MayBlock, A!check_thread
  <2>4. tid \in A!TidArgs
    BY <1>3, <2>1 DEF A!TidArgs, TidArgs
  <2>5. QED
    BY <2>3, <2>4 DEF A!Next, A!OtherCalls
<1>8. CASE Resuming(top)
  <2>1. /\ tid \in DOMAIN committed.threads
        /\ committed.threads[tid].state = "BLOCKED"
        /\ threads = [committed.threads EXCEPT ![tid].state = "READY"]
        /\ blocked_threads = committed.blocked \ {tid}
        /\ ready_threads = A!ready_thread(tid, committed.ready, committed.sleeping)
        /\ sleeping_threads = committed.sleeping
    BY <1>1, <1>8 DEF Resuming, StateWas, StateSet, SameSleeping, ready_thread, A!ready_thread
  <2>2. A!unblock_thread(tid)
    BY <1>2, <2>1 DEF A!unblock_thread
  <2>3. A!uthread_resume(tid)
    BY <1>2, <2>1, <2>2 DEF A!uthread_resume, A!check_thread
  <2>4. tid \in A!TidArgs
    BY <1>3, <2>1 DEF A!TidArgs, TidArgs
  <2>5. QED
    BY <2>3, <2>4 DEF A!Next, A!OtherCalls
<1>9. QED
  BY <1>1, <1>4, <1>5, <1>6, <1>7, <1>8 DEF Done, Napping

\* A refused call commits nothing new.
LEMMA RefusalRefines == ASSUME PInv, ReturnBlocked PROVE UNCHANGED A!vars
<1>1. Same /\ SameQuantum /\ UNCHANGED data /\ Commit
  BY AtBody DEF ReturnBlocked, In, PInv, Sections
<1>2. QED
  BY <1>1 DEF Same, SameThreads, SameReady, SameBlocked, SameSleeping, SameQuantum, Commit, Now,
              data, vars, A!vars

\* uthread_terminate(0), and the end of the process in the middle of a function.
LEMMA ExitRefines == ASSUME PInv, Exit \/ SystemCallFails PROVE A!Next
<1>1. SameQuantum
  BY DEF PInv, Sections
<1>2. CASE Exit
  <2>1. Same /\ ~exited
    BY <1>2, AtBody, AtPoint DEF Exit, In
  <2>2. /\ committed'.threads = A!Without(committed.threads, DOMAIN committed.threads)
        /\ committed'.ready = committed.ready /\ committed'.blocked = committed.blocked
        /\ committed'.sleeping = committed.sleeping /\ committed'.running = committed.running
        /\ committed'.total = committed.total /\ committed'.exited = TRUE /\ ~committed.exited
    BY <1>1, <1>2, <2>1, SameWithout
       DEF Exit, remove_all, handleForcedExit, Commit, Now, Same, SameThreads, SameReady,
           SameBlocked, SameSleeping, SameQuantum
  <2>3. A!uthread_terminate(0)
    BY <2>2 DEF A!uthread_terminate, A!remove_all, A!handleForcedExit
  <2>4. 0 \in A!TidArgs
    BY ConstantsAssumption DEF A!TidArgs
  <2>5. QED
    BY <2>3, <2>4 DEF A!Next, A!OtherCalls
<1>3. CASE SystemCallFails
  <2>1. ~exited /\ committed' = [committed EXCEPT !.exited = TRUE] /\ Recorded
    BY <1>3 DEF SystemCallFails, handleErrorSystemCall, PInv, Sections
  <2>2. /\ committed'.threads = committed.threads /\ committed'.ready = committed.ready
        /\ committed'.blocked = committed.blocked /\ committed'.sleeping = committed.sleeping
        /\ committed'.running = committed.running /\ committed'.total = committed.total
        /\ committed'.exited = TRUE /\ ~committed.exited
    BY <1>1, <2>1 DEF Recorded, SameQuantum
  <2>3. A!handleErrorSystemCall
    BY <2>2 DEF A!handleErrorSystemCall
  <2>4. QED
    BY <2>3 DEF A!Next, A!OtherCalls
<1>4. QED
  BY <1>2, <1>3

\* The handler is change_thread.
LEMMA HandlerRefines ==
    ASSUME PInv, Commit, In("callback_handler", "saved"),
           UNCHANGED <<blocked_threads, exited>>,
           NEW awake \in handle_sleep_threads(threads, sleeping_threads),
           run_next_thread([threads EXCEPT ![cur].state = "READY"],
                           ready_thread(cur, awake.ready, awake.sleeping),
                           awake.sleeping)
    PROVE  A!Next
<1> DEFINE run == committed.running
<1>1. SameQuantum /\ ~exited /\ Same
  <2>1. /\ SameQuantum /\ ~exited /\ Done(top) /\ top.pc = "saved"
        /\ top.fn = "callback_handler"
    BY AtPoint DEF In, top, PInv, Sections
  <2>2. QED
    BY <2>1 DEF Done
<1>2. /\ run = cur /\ ~committed.exited
      /\ committed'.blocked = committed.blocked /\ committed'.exited = committed.exited
  BY <1>1 DEF SameQuantum, Same, SameBlocked, Commit, Now, cur
<1>3. awake \in A!handle_sleep_threads(committed.threads, committed.sleeping)
  BY <1>1, SameAwake DEF Same, SameThreads, SameSleeping
<1>4. A!run_next_thread([threads EXCEPT ![cur].state = "READY"],
                        ready_thread(cur, awake.ready, awake.sleeping), awake.sleeping)
  BY <1>1, SameDispatch
<1>5. A!run_next_thread([committed.threads EXCEPT ![run].state = "READY"],
                        A!ready_thread(run, awake.ready, awake.sleeping), awake.sleeping)
  BY <1>1, <1>2, <1>4 DEF Same, SameThreads, ready_thread, A!ready_thread
<1>6. A!change_thread
  BY <1>2, <1>3, <1>5 DEF A!change_thread
<1>7. QED
  BY <1>6 DEF A!Next, A!OtherCalls

\* The switches of a thread that blocks, sleeps or removes itself.
LEMMA YieldRefines ==
    ASSUME PInv, Commit,
           \/ In("uthread_block", "saved")
           \/ In("uthread_sleep", "saved") /\ threads[cur].state = "READY"
           \/ In("uthread_terminate", "switch"),
           UNCHANGED <<blocked_threads, exited>>,
           NEW awake \in handle_sleep_threads(threads, sleeping_threads),
           run_next_thread(threads, awake.ready, awake.sleeping)
    PROVE  A!Next
<1> DEFINE tid == top.arg
<1>1. /\ SameQuantum /\ ~exited /\ Done(top) /\ cur \in DOMAIN committed.threads
      /\ committed.threads \in [DOMAIN committed.threads -> Thread]
      /\ \A t \in DOMAIN committed.threads :
            committed.threads[t].state = "RUNNNING" <=> t = cur
      /\ DOMAIN committed.threads \subseteq Tid /\ Tid \subseteq TidArgs
  BY AtPoint, CommittedData, ConstantsAssumption DEF In, PInv, Sections, Tid, TidArgs
<1>2. /\ committed.running = cur /\ ~committed.exited
      /\ committed'.blocked = blocked_threads /\ committed'.exited = committed.exited
  BY <1>1 DEF SameQuantum, Commit, Now, cur
<1>3. A!run_next_thread(threads, awake.ready, awake.sleeping)
  BY <1>1, SameDispatch
<1>4. ASSUME SameReady
      PROVE  awake \in A!handle_sleep_threads(threads, sleeping_threads)
  BY <1>1, <1>4, SameAwake
<1>5. CASE In("uthread_block", "saved")
  <2>1. Blocking(top) /\ top.pc = "saved"
    BY <1>1, <1>5, AtPoint DEF In, Done, top
  <2>2. /\ tid # 0 /\ tid \in DOMAIN committed.threads
        /\ committed.threads[tid].state = "RUNNNING"
        /\ threads = [committed.threads EXCEPT ![tid].state = "BLOCKED"]
        /\ blocked_threads = committed.blocked \cup {tid}
        /\ SameReady /\ sleeping_threads = committed.sleeping
    BY <2>1 DEF Blocking, StateWas, StateSet, SameSleeping
  <2>3. A!block_running_thread(tid)
    BY <1>2, <1>3, <1>4, <2>2 DEF A!block_running_thread
  <2>4. A!uthread_block(tid)
    BY <1>2, <2>2, <2>3 DEF A!uthread_block, A!MayBlock, A!check_thread
  <2>5. tid \in A!TidArgs
    BY <1>1, <2>2 DEF A!TidArgs, TidArgs
  <2>6. QED
    BY <2>4, <2>5 DEF A!Next, A!OtherCalls
<1>6. CASE In("uthread_sleep", "saved") /\ threads[cur].state = "READY"
  <2>1. Napping(top)
    BY <1>1, <1>6, AtPoint DEF In, Done, top
  <2>2. StateSet(cur, "READY")
    BY <1>1, <1>6, <2>1 DEF Napping, SameThreads
  <2>3. /\ top.arg \in SleepArgs /\ top.arg > 0 /\ cur # 0
        /\ sleeping_threads = [t \in DOMAIN committed.sleeping \cup {cur} |->
              IF t = cur THEN A!Deadline(top.arg) ELSE committed.sleeping[t]]
        /\ SameReady /\ SameBlocked
    BY <1>1, <2>1 DEF Napping, MaySleep, Deadline, A!Deadline, SameQuantum, cur
  <2>4. A!sleep_running_thread(top.arg)
    BY <1>2, <1>3, <1>4, <2>2, <2>3 DEF A!sleep_running_thread, StateSet, SameBlocked
  <2>5. A!uthread_sleep(top.arg)
    BY <1>2, <2>3, <2>4 DEF A!uthread_sleep, A!MaySleep
  <2>6. QED
    BY <2>3, <2>5 DEF A!Next
<1>7. CASE In("uthread_terminate", "switch")
  <2>1. Removing(top) /\ top.pc = "switch"
    BY <1>1, <1>7, AtPoint DEF In, Done, top
  <2>2. /\ tid # 0 /\ tid \in DOMAIN committed.threads
        /\ committed.threads[tid].state = "RUNNNING"
        /\ threads = A!Without(committed.threads, {tid})
        /\ SameReady /\ SameBlocked /\ sleeping_threads = committed.sleeping
    BY <2>1, SameWithout DEF Removing, StateWas, SameSleeping
  <2>3. A!remove_running_thread(tid)
    BY <1>2, <1>3, <1>4, <2>2 DEF A!remove_running_thread, SameBlocked
  <2>4. A!uthread_terminate(tid)
    BY <1>2, <2>2, <2>3 DEF A!uthread_terminate, A!check_thread
  <2>5. tid \in A!TidArgs
    BY <1>1, <2>2 DEF A!TidArgs, TidArgs
  <2>6. QED
    BY <2>4, <2>5 DEF A!Next, A!OtherCalls
<1>8. QED
  BY <1>5, <1>6, <1>7

\* A switch commits the new quantum with all that its function did before it.
LEMMA SwitchRefines == ASSUME PInv, Switch PROVE A!Next
<1>1. Commit /\ UNCHANGED <<blocked_threads, exited>>
  BY DEF Switch
<1>2. QED
  BY <1>1, HandlerRefines, YieldRefines DEF Switch

-----------------------------------------------------------------------------
(* All steps.                                                              *)

\* uthread_init leaves the main thread in user code, with its data committed.
LEMMA PreemptionInitInv == PreemptionInit => PInv /\ Atomic!Init
<1> SUFFICES ASSUME PreemptionInit PROVE PInv /\ Atomic!Init
  OBVIOUS
<1>1. /\ Init /\ committed = Now /\ sig_blocked = FALSE /\ pending = 0
      /\ quantum_usecs \in {usecs \in InitArgs : Accepted(usecs)}
      /\ stack = [tid \in Tid |-> <<>>] /\ env_mask = [tid \in Tid |-> FALSE]
  BY DEF PreemptionInit
<1>2. Recorded /\ SameQuantum /\ Same
  BY <1>1 DEF Now, Recorded, SameQuantum, Same, SameThreads, SameReady, SameBlocked,
              SameSleeping
<1>3. A!Init /\ Atomic!Init
  BY <1>1 DEF Init, Now, A!Init, Atomic!Init
<1>4. cur = 0 /\ 0 \in Tid /\ DOMAIN threads = {0} /\ threads[0].quantum_t = 1
  BY <1>1, ConstantsAssumption DEF Init, cur, Tid
<1>5. Len(<<>>) = 0 /\ <<>> \in Seq(Frame)
  OBVIOUS
<1>6. /\ stack \in [Tid -> Seq(Frame)] /\ env_mask \in [Tid -> BOOLEAN]
      /\ \A tid \in Tid : stack[tid] = <<>> /\ Len(stack[tid]) = 0
  BY <1>1, <1>5
<1>7. PreemptionTypeOK
  <2>1. quantum_usecs \in InitArgs \cap Nat
    BY <1>1, PreemptionAssumption DEF Accepted
  <2>2. pending \in 0 .. MaxQuantums
    BY <1>1, ConstantsAssumption
  <2>3. \A tid \in Tid : Len(stack[tid]) <= MaxFrames
    BY <1>6, PreemptionAssumption
  <2>4. QED
    BY <1>1, <1>6, <2>1, <2>2, <2>3 DEF PreemptionTypeOK
<1>8. Progress /\ Masked /\ Buried /\ Started /\ Passed /\ SuspendedAtSavePoint
  BY <1>2, <1>4, <1>6
     DEF Progress, Masked, Buried, Started, Passed, SuspendedAtSavePoint
<1>9. A!IInv
  BY <1>3, A!InitInv, ConstantsAssumption
<1>10. QED
  BY <1>2, <1>3, <1>7, <1>8, <1>9 DEF PInv, Sections

\* Every step is one of Scheduler on the committed data, or leaves it alone.
LEMMA StepRefines ==
    PInv /\ [PreemptionNext]_<<data, signals, committed>> => [A!Next]_(A!vars)
<1> SUFFICES ASSUME PInv, [PreemptionNext]_<<data, signals, committed>>
             PROVE  [A!Next]_(A!vars)
  OBVIOUS
<1>1. ASSUME committed' = committed PROVE UNCHANGED A!vars
  BY <1>1 DEF A!vars
<1>2. CASE UNCHANGED <<data, signals, committed>>
  BY <1>1, <1>2
<1>3. CASE Expire \/ Deliver
  BY <1>1, <1>3 DEF Expire, Deliver
<1>4. ASSUME NEW fn, NEW a, Call(fn, a) PROVE committed' = committed
  BY <1>4 DEF Call
<1>5. CASE NoEffect \/ Spawn \/ Terminate \/ Block \/ Resume \/ Sleep \/ Save \/ Resumed
  BY <1>1, <1>5
     DEF NoEffect, Spawn, Terminate, Block, Resume, Sleep, Save, Resumed, Inside
<1>6. CASE Return \/ ReturnBlocked
  BY <1>6, ReturnRefines, RefusalRefines
<1>7. CASE Exit \/ SystemCallFails \/ Switch
  BY <1>7, ExitRefines, SwitchRefines
<1>8. QED
  BY <1>1, <1>2, <1>3, <1>4, <1>5, <1>6, <1>7 DEF PreemptionNext

\* So what SchedulerProof shows of the data holds of what is committed, and the
\* sections stay where the invariant has them.
LEMMA PreemptionNextInv ==
    PInv /\ [PreemptionNext]_<<data, signals, committed>> => PInv'
<1> SUFFICES ASSUME PInv, [PreemptionNext]_<<data, signals, committed>>
             PROVE  PInv'
  OBVIOUS
<1>1. A!IInv'
  <2>1. A!IInv /\ [A!Next]_(A!vars)
    BY StepRefines DEF PInv
  <2>2. QED
    BY <2>1, A!NextInv, ConstantsAssumption
<1>2. ASSUME UNCHANGED <<data, signals, committed>> PROVE Sections'
  <2>1. /\ UNCHANGED <<threads, ready_threads, blocked_threads, sleeping_threads,
                       running_thread_tid, total_quantums, exited>>
        /\ UNCHANGED <<quantum_usecs, sig_blocked, pending, stack, env_mask, committed>>
        /\ cur' = cur /\ top' = top
    BY <1>2 DEF data, vars, signals, cur, top
  <2>2. Progress'
    BY <2>1, ZenonT(30)
       DEF PInv, Sections, Progress, Done, Spawning, Removing, Blocking, Resuming, Napping,
           StateWas, StateSet, MaySleep, Deadline, Same, SameThreads, SameReady, SameBlocked,
           SameSleeping, cur, top
  <2>3. PreemptionTypeOK' /\ Recorded' /\ SameQuantum' /\ SuspendedAtSavePoint'
    BY <2>1 DEF PInv, Sections, PreemptionTypeOK, Recorded, SameQuantum, SuspendedAtSavePoint
  <2>4. Masked' /\ Buried' /\ Started' /\ Passed'
    BY <2>1
       DEF PInv, Sections, Masked, Buried, Started, Passed, Same, SameThreads, SameReady,
           SameBlocked, SameSleeping
  <2>5. QED
    BY <2>2, <2>3, <2>4 DEF Sections
<1>3. ASSUME NEW fn \in Getters, Call(fn, 0) PROVE Sections'
  <2>1. fn # "uthread_spawn" /\ fn # "uthread_sleep"
    BY DEF Getters
  <2>2. QED
    BY <1>3, <2>1, CallStep
<1>4. ASSUME NEW entry_point \in EntryPoints, Call("uthread_spawn", entry_point)
      PROVE  Sections'
  <2>1. entry_point \in Int
    BY PreemptionAssumption DEF NULLPTR
  <2>2. QED
    BY <1>4, <2>1, CallStep
<1>5. ASSUME NEW fn \in {"uthread_terminate", "uthread_block", "uthread_resume"},
             NEW tid \in TidArgs, Call(fn, tid)
      PROVE  Sections'
  <2>1. tid \in Int
    BY ConstantsAssumption DEF TidArgs
  <2>2. fn # "uthread_spawn" /\ fn # "uthread_sleep"
    OBVIOUS
  <2>3. QED
    BY <1>5, <2>1, <2>2, CallStep
<1>6. ASSUME NEW n \in SleepArgs, Call("uthread_sleep", n) PROVE Sections'
  <2>1. n \in Int
    BY ConstantsAssumption
  <2>2. QED
    BY <1>6, <2>1, CallStep
<1>7. ASSUME Expire \/ Deliver \/ Return \/ ReturnBlocked \/ NoEffect PROVE Sections'
  BY <1>7, ExpireStep, DeliverStep, ReturnStep, NoEffectStep
<1>8. ASSUME Spawn \/ Exit \/ Terminate \/ Block \/ Resume \/ Sleep PROVE Sections'
  BY <1>8, SpawnStep, ExitStep, TerminateStep, BlockStep, ResumeStep, SleepStep
<1>9. ASSUME Save \/ Resumed \/ SystemCallFails \/ Switch PROVE Sections'
  BY <1>1, <1>9, SaveStep, ResumedStep, FailStep, SwitchStep
<1>10. Sections'
  <2>1. CASE UNCHANGED <<data, signals, committed>>
    BY <1>2, <2>1
  <2>2. CASE PreemptionNext
    BY <2>2, <1>3, <1>4, <1>5, <1>6, <1>7, <1>8, <1>9 DEF PreemptionNext
  <2>3. QED
    BY <2>1, <2>2
<1>11. QED
  BY <1>1, <1>10 DEF PInv

-----------------------------------------------------------------------------
(* The theorems.                                                           *)

\* The sections and the data they leave are as the invariant says.
THEOREM SectionsInvariant == PreemptionSpec => []PInv
<1>1. PreemptionInit => PInv
  BY PreemptionInitInv
<1>2. QED
  BY <1>1, PreemptionNextInv, PTL DEF PreemptionSpec

\* The timer, the signal mask, the stacks and the saved contexts keep their
\* types: the interval that uthread_init accepted is never negative.
THEOREM PreemptionTypeCorrect == PreemptionSpec => []PreemptionTypeOK
<1>1. PInv => PreemptionTypeOK
  BY DEF PInv, Sections
<1>2. QED
  BY <1>1, SectionsInvariant, PTL

\* The functions and the handler are atomic: what the critical sections commit
\* behaves as Scheduler, wherever SIGVTALRM arrives.
THEOREM SectionsAtomic == PreemptionSpec => AtomicSpec
<1>1. PInv /\ [PreemptionNext]_<<data, signals, committed>> => [Atomic!Next]_(Atomic!vars)
  BY StepRefines, OneScheduler
<1>2. PreemptionInit => Atomic!Init
  BY PreemptionInitInv
<1>3. QED
  BY <1>1, <1>2, SectionsInvariant, PTL DEF PreemptionSpec, AtomicSpec, Atomic!Spec

\* While the process lives, the data is what the last critical section left
\* wherever the signal is unblocked.
LEMMA ConsistentAlive == ASSUME PInv, ~exited PROVE ConsistentWhenInterruptible
<1> SUFFICES ASSUME ~sig_blocked
             PROVE  Live!StatesAgree /\ Live!QueueExact /\ Live!SleepersExist
                    /\ Live!MainSchedulable
  BY DEF ConsistentWhenInterruptible
<1>1. Same /\ SameQuantum
  BY DEF PInv, Sections, Progress, Masked
<1>2. A!StatesAgree /\ A!QueueExact /\ A!SleepersExist /\ A!MainSchedulable
  BY DEF PInv, A!IInv
<1>3. /\ threads = committed.threads /\ ready_threads = committed.ready
      /\ blocked_threads = committed.blocked /\ sleeping_threads = committed.sleeping
      /\ running_thread_tid = committed.running /\ ~committed.exited
  BY <1>1 DEF Same, SameThreads, SameReady, SameBlocked, SameSleeping, SameQuantum
<1>4. Live!StatesAgree
  BY <1>2, <1>3 DEF Live!StatesAgree, A!StatesAgree
<1>5. Live!QueueExact
  BY <1>2, <1>3
     DEF Live!QueueExact, A!QueueExact, Live!IsInjective, A!IsInjective, Live!Range, A!Range
<1>6. Live!SleepersExist
  BY <1>2, <1>3 DEF Live!SleepersExist, A!SleepersExist
<1>7. Live!MainSchedulable
  BY <1>2, <1>3 DEF Live!MainSchedulable, A!MainSchedulable, Live!Range, A!Range
<1>8. QED
  BY <1>4, <1>5, <1>6, <1>7

\* The process ends in two actions only, and nothing happens behind them.
LEMMA EndsTwice ==
    ASSUME PreemptionNext, ~Exit, ~SystemCallFails
    PROVE  ~exited /\ ~exited'
<1>1. CASE Expire \/ Deliver \/ \E fn, a : Call(fn, a)
  BY <1>1 DEF Expire, Deliver, Call, InUserCode, data, vars
<1>2. CASE Return \/ ReturnBlocked \/ NoEffect
  BY <1>2 DEF Return, ReturnBlocked, NoEffect, In, At, data, vars
<1>3. CASE Spawn \/ Terminate \/ Block
  BY <1>3 DEF Spawn, Terminate, Block, In, At
<1>4. CASE Resume \/ Sleep
  BY <1>4 DEF Resume, Sleep, In, At
<1>5. CASE Save \/ Switch \/ Resumed
  BY <1>5 DEF Save, Switch, Resumed, In, At, data, vars
<1>6. QED
  BY <1>1, <1>2, <1>3, <1>4, <1>5 DEF PreemptionNext

\* A step behind which the process has called exit.
LEMMA ConsistentAtExit ==
    ASSUME PInv, ConsistentWhenInterruptible, [PreemptionNext]_<<data, signals, committed>>,
           exited'
    PROVE  ConsistentWhenInterruptible'
<1>1. ASSUME UNCHANGED <<threads, ready_threads, blocked_threads, sleeping_threads,
                         running_thread_tid, sig_blocked>>
      PROVE  ConsistentWhenInterruptible'
  BY <1>1
     DEF ConsistentWhenInterruptible, Live!StatesAgree, Live!QueueExact, Live!SleepersExist,
         Live!MainSchedulable, Live!IsInjective, Live!Range
<1>2. CASE SystemCallFails
  BY <1>1, <1>2 DEF SystemCallFails, handleErrorSystemCall, signals
<1>3. CASE Exit
  <2>1. At("body")
    BY <1>3 DEF Exit, In
  <2>2. sig_blocked
    BY <2>1, AtPoint
  <2>3. QED
    BY <1>3, <2>2 DEF Exit, signals, ConsistentWhenInterruptible
<1>4. CASE UNCHANGED <<data, signals, committed>>
  BY <1>1, <1>4 DEF data, vars, signals
<1>5. QED
  BY <1>2, <1>3, <1>4, EndsTwice

\* Wherever the handler can interrupt the process, in user code, between
\* unblock_signals and the return, or while a failing system call makes it exit,
\* it finds the containers consistent.
THEOREM AlwaysConsistentWhenInterruptible ==
    PreemptionSpec => []ConsistentWhenInterruptible
<1>1. PreemptionInit => PInv /\ ~exited
  BY PreemptionInitInv DEF PreemptionInit, Init
<1>2. PInv /\ ~exited => ConsistentWhenInterruptible
  BY ConsistentAlive
<1>3. PInv /\ ConsistentWhenInterruptible /\ [PreemptionNext]_<<data, signals, committed>>
      /\ exited' => ConsistentWhenInterruptible'
  BY ConsistentAtExit
<1>4. QED
  BY <1>1, <1>2, <1>3, SectionsInvariant, PTL DEF PreemptionSpec

\* Every thread that is not running has a context it can be resumed from: it
\* waits at its last sigsetjmp with the signal blocked, or has never run.
THEOREM AlwaysSuspendedAtSavePoint == PreemptionSpec => []SuspendedAtSavePoint
<1>1. PInv => SuspendedAtSavePoint
  BY DEF PInv, Sections
<1>2. QED
  BY <1>1, SectionsInvariant, PTL

-----------------------------------------------------------------------------
(* User code can be preempted.                                             *)

\* The two calls that return with the signal blocked are not made.
NoRefusedCalls == NULLPTR \notin EntryPoints /\ \A n \in SleepArgs : n > 0

\* A function that goes on is still on the stack.
LEMMA StillInside ==
    ASSUME PInv, stack[cur] # <<>>, NEW pc, Goto(pc)
    PROVE  stack'[cur] # <<>>
<1> DEFINE f == [Head(stack[cur]) EXCEPT !.pc = pc]
<1>1. cur \in Tid /\ stack \in [Tid -> Seq(Frame)]
  BY CommittedData DEF PInv, Sections, PreemptionTypeOK
<1>2. Tail(stack[cur]) \in Seq(Frame)
  BY <1>1, Frames
<1>3. stack'[cur] = <<f>> \o Tail(stack[cur])
  BY <1>1 DEF Goto, AtPc
<1> HIDE DEF f
<1>4. <<f>> \o Tail(stack[cur]) # <<>>
  BY <1>2
<1>5. QED
  BY <1>3, <1>4

\* Without them, nothing returns with the signal blocked.
LEMMA NotRefused == ASSUME NoRefusedCalls, PInv PROVE ~ReturnBlocked
<1> SUFFICES ASSUME ReturnBlocked PROVE FALSE
  OBVIOUS
<1>1. stack[cur] # <<>> /\ top.pc = "body" /\ arg = top.arg /\ Passed
  BY DEF ReturnBlocked, In, At, top, arg, PInv, Sections
<1>2. \/ top.fn = "uthread_spawn" /\ top.arg = NULLPTR
      \/ top.fn = "uthread_sleep" /\ top.arg <= 0
  BY <1>1 DEF ReturnBlocked, In, top
<1>3. CASE top.fn = "uthread_spawn" /\ top.arg = NULLPTR
  BY <1>1, <1>3 DEF Passed, NoRefusedCalls
<1>4. CASE top.fn = "uthread_sleep" /\ top.arg <= 0
  <2>1. top.arg \in SleepArgs
    BY <1>1, <1>4 DEF Passed
  <2>2. \A n \in SleepArgs : ~(n <= 0)
    BY ConstantsAssumption DEF NoRefusedCalls
  <2>3. QED
    BY <1>4, <2>1, <2>2
<1>5. QED
  BY <1>2, <1>3, <1>4

\* Every other way back into user code unblocks the signal.
LEMMA PreemptibleStep ==
    ASSUME PInv, PInv', UserCodePreemptible, ~ReturnBlocked,
           [PreemptionNext]_<<data, signals, committed>>
    PROVE  UserCodePreemptible'
<1>1. /\ stack \in [Tid -> Seq(Frame)] /\ cur \in Tid
      /\ ~exited => cur \in DOMAIN committed.threads
  BY CommittedData DEF PInv, Sections, PreemptionTypeOK
<1>2. CASE UNCHANGED <<data, signals, committed>> \/ Expire \/ Exit \/ SystemCallFails
  BY <1>2
     DEF UserCodePreemptible, InUserCode, cur, data, vars, signals, Expire, Exit,
         handleForcedExit, SystemCallFails, handleErrorSystemCall
<1>3. ASSUME NEW fn, NEW pc, NEW a, Push(fn, pc, a), UNCHANGED data PROVE stack'[cur'] # <<>>
  BY <1>1, <1>3 DEF Push, cur, data, vars
<1>4. CASE Return
  BY <1>4 DEF Return, UserCodePreemptible
<1>5. ~ReturnBlocked
  OBVIOUS
<1>6. ASSUME stack[cur] # <<>>, cur' = cur, NEW pc, Goto(pc) PROVE UserCodePreemptible'
  BY <1>6, StillInside DEF UserCodePreemptible, InUserCode
<1>7. CASE NoEffect \/ Save \/ Resumed
  BY <1>6, <1>7 DEF NoEffect, Save, Resumed, In, At, cur, data, vars
<1>8. CASE Terminate \/ Block \/ Resume
  BY <1>6, <1>8 DEF Terminate, Block, Resume, In, At, cur
<1>9. CASE Sleep
  BY <1>6, <1>9 DEF Sleep, In, At, cur, UserCodePreemptible, InUserCode
<1>10. CASE Spawn
  <2>1. CASE In("uthread_spawn", "body")
    <3>1. Same /\ ~exited
      BY <2>1, AtPoint, AtBody DEF In
    <3>2. PICK tid \in Tid :
             /\ tid \notin DOMAIN threads
             /\ stack' = [stack EXCEPT ![tid] = <<>>,
                    ![cur] = <<[fn |-> "uthread_spawn", pc |-> "push_back", arg |-> tid]>>
                                 \o Tail(@)]
      BY <1>10, <2>1 DEF Spawn, In, At
    <3> DEFINE f == [fn |-> "uthread_spawn", pc |-> "push_back", arg |-> tid]
    <3>3. tid # cur /\ Tail(stack[cur]) \in Seq(Frame)
      BY <1>1, <2>1, <3>1, <3>2, Frames DEF In, At, Same, SameThreads
    <3>4. stack'[cur] = <<f>> \o Tail(stack[cur])
      BY <1>1, <3>2, <3>3
    <3> HIDE DEF f
    <3>5. <<f>> \o Tail(stack[cur]) # <<>>
      BY <3>3
    <3>6. stack'[cur] # <<>>
      BY <3>4, <3>5
    <3>7. QED
      BY <1>10, <3>6 DEF Spawn, UserCodePreemptible, InUserCode, cur, In, At
  <2>2. CASE ~In("uthread_spawn", "body")
    BY <1>6, <1>10, <2>2 DEF Spawn, In, At, cur
  <2>3. QED
    BY <2>1, <2>2
<1>11. CASE Switch
  BY <1>11, SwitchStep DEF PInv, Unmasked, UserCodePreemptible, InUserCode
<1>12. QED
  BY <1>2, <1>3, <1>4, <1>5, <1>7, <1>8, <1>9, <1>10, <1>11
     DEF PreemptionNext, Deliver, Call, UserCodePreemptible, InUserCode

\* Every thread that runs code of its own can be preempted, if no call is made
\* with an argument that uthread_spawn and uthread_sleep refuse with the signal
\* blocked: all other returns, and every switch, unblock it.
THEOREM AlwaysPreemptible ==
    ASSUME NoRefusedCalls
    PROVE  PreemptionSpec => []UserCodePreemptible
<1>1. PreemptionInit => UserCodePreemptible
  BY DEF PreemptionInit, UserCodePreemptible
<1>2. PInv /\ PInv' /\ UserCodePreemptible /\ [PreemptionNext]_<<data, signals, committed>>
      => UserCodePreemptible'
  BY PreemptibleStep, NotRefused
<1>3. QED
  BY <1>1, <1>2, SectionsInvariant, PTL DEF PreemptionSpec

\* User code that could be preempted is left with the signal blocked.
LeavesBlocked == UserCodePreemptible /\ ~UserCodePreemptible'

\* With such calls, too, these two returns are the only steps that leave user code
\* with the signal blocked: the calls, the handler and the switches never do.
THEOREM OnlyRefusalsBlock ==
    PreemptionSpec =>
        [][LeavesBlocked => ReturnBlocked]_<<data, signals, committed>>
<1>1. PInv /\ PInv' /\ [PreemptionNext]_<<data, signals, committed>>
      => (LeavesBlocked => ReturnBlocked)
  BY PreemptibleStep DEF LeavesBlocked
<1>2. QED
  BY <1>1, SectionsInvariant, PTL DEF PreemptionSpec

\* What is committed behaves as Scheduler does.
LEMMA CommittedSpec == PreemptionSpec => A!Spec
<1>1. PInv /\ [PreemptionNext]_<<data, signals, committed>> => [A!Next]_(A!vars)
  BY StepRefines
<1>2. PreemptionInit => A!Init
  BY PreemptionInitInv DEF A!Init, Atomic!Init
<1>3. QED
  BY <1>1, <1>2, SectionsInvariant, PTL DEF PreemptionSpec, A!Spec

\* What Scheduler promises of deadlines, of quantums and of the order of the
\* threads holds of the committed data: also where interrupts cut the functions,
\* no thread sleeps beyond its deadline, each new quantum is charged to the thread
\* that starts it, and no thread is overtaken or falls back in the deque.
THEOREM PromisesKept ==
    PreemptionSpec =>
        ([]A!NoOversleep) /\ A!QuantumCharged /\ A!NoOvertaking /\ A!WaitersAdvance
BY CommittedSpec, A!NeverOversleeps, A!EveryQuantumCharged, A!NeverOvertaken,
   A!NobodyFallsBack, ConstantsAssumption, PTL

\* Statement by statement, with timer, signal mask and contexts, the library is a
\* round robin, if no deadline goes beyond INT_MAX.
THEOREM PreemptiveRoundRobin ==
    ASSUME A!NoDeadlineWraps
    PROVE  PreemptionSpec => A!RoundRobinSpec
BY CommittedSpec, A!ImplementsRoundRobin, ConstantsAssumption, PTL
=============================================================================
