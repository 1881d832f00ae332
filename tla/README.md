# A TLA+ verification of the uthreads library

The repository implements user-level threads in one kernel thread: a public C API
(`uthreads.h`), a round-robin scheduler driven by `SIGVTALRM`, and context switches with
`sigsetjmp`/`siglongjmp`. This directory holds TLA+ models of it, the TLC runs that check
them, and proofs that TLAPS checks. Line numbers refer to files under `src/`.

## Inventory

| Component | State | Operations | Interacts by |
|---|---|---|---|
| Public API, `uthreads.cpp` | the global `scheduler` | `uthread_init`, `spawn`, `terminate`, `block`, `resume`, `sleep`, getters | blocks SIGVTALRM, calls `Scheduler`, unblocks SIGVTALRM |
| Scheduler, `Scheduler.cpp` | `threads`, `ready_threads`, `blocked_threads`, `sleeping_threads`, `running_thread_tid`, `total_quantums` | `add_new_thread`, `remove_thread`, `block_thread`, `unblock_thread`, `sleep_running_thread`, `_handle_sleep_threads`, `run_next_thread`, `change_thread`, `remove_all` | called by the API and, as `change_thread`, by the signal handler |
| Preemption, in both files | virtual timer, pending signal, signal mask, one stack and one `sigjmp_buf` per thread | expiry, delivery, `block_signals`, `unblock_signals`, `save_current_execution_context`, `siglongjmp` | interrupts any unmasked statement; `siglongjmp` moves the mask from thread to thread |
| Thread objects, `Thread.cpp` | `state`, `quantum_t`, `stack`, `env` | constructor, destructor | created by `add_new_thread` and `init_scheduler`, deleted by `remove_all` only |
| Error handling, `Handle.cpp` | none | print and return -1, print and exit | called on each refusal, and on each failing system call |
| Tests, `tests_to_be_ran_separately.cpp` | statics of each test, local variables of each thread | `Test1` to `Test16`, `threadQuantumSleep`, `doOperation` | call the API and check what it returns |
| Demos, build files | | | not used by the library, or no behaviour |

What is hard in it: the handler can run between any two statements where the signal is not
blocked; a critical section starts in one thread and ends in another, behind that thread's
`sigsetjmp`, with the mask saved there; four paths lead to a new quantum (the timer, a
thread that blocks, sleeps, or terminates itself), one of them from a thread that is
already gone; a thread can be blocked and asleep at once; ids are used again. What makes
each component correct:

* Scheduler: the containers agree about every thread; each ready thread is queued, once,
  and in its turn; there always is a thread to run; sleepers wake neither early nor late;
  quantums are counted exactly.
* Preemption: the functions and the handler are atomic; suspended threads resume where they
  stopped and with the right mask; user code can be preempted, by its own quantum's expiry.
* Thread objects: allocated once, released once, never executed on after that.
* All together: the processor goes round; every ready thread runs again, every nap ends.
* Tests: what they expect is what the functions return, and they end.

## Modules

| Module | Models | Kind |
|---|---|---|
| `Listings` | the order in which a loop visits a container | operators |
| `Scheduler` | the API and the handler, each call one action | specification and properties |
| `SleepContract` | what `uthread_sleep` promises, as a history variable beside `Scheduler` | composition |
| `WaitContract` | what the end of the ready deque promises, as a history variable beside `SleepContract` | composition |
| `RoundRobin` | what the scheduler promises, without counters and thread objects | abstract specification, liveness |
| `RoundRobinMapping` | | `Scheduler` implements `RoundRobin` |
| `Preemption` | the same code statement by statement with timer, mask, stacks, contexts | specification; implements `Scheduler` |
| `ThreadMemory` | the heap of Thread objects and stacks beside `Preemption` | composition |
| `Clients` | the repository's tests as client programs of `Scheduler` | composition |
| `ListingsProof` | | lemmas about sequences that list a set |
| `SchedulerProof`, `RoundRobinProof`, `ContractsProof`, `RoundRobinInvariant`, `PreemptionProof`, `MemoryProof`, `ClientsProof` | | theorems |
| `MCScheduler`, `MCContracts`, `MCRoundRobin`, `MCPreemption`, `MCThreadMemory`, `MCClients` | | constants for TLC |

    RoundRobin  <==  Scheduler  <==  Preemption       (<== : is implemented by)
                      |     |            |
          SleepContract   Clients   ThreadMemory      (extend the one above)
                |
          WaitContract

**Scheduler.** The variables are the fields of `class Scheduler`, except that `threads` maps
a tid to `[state, quantum_t]`. `Init` is the state in which `uthread_init` returns 0. The
actions bear the names of the public functions, the operators in them the names of the
`Scheduler` methods. `remove_thread` and `block_thread` are cut in two, `..._other_thread`
and `..._running_thread`, along the `switch` on the thread's state, since one path returns
and the other starts a quantum. The loops are relational: `Ascending` is the order in which
a `std::map` or an index is visited, `ErasedAt` the positions that
`remove_thread_from_ready` erases, given that it skips the element behind each erased one
(:207-211). `ToInt` is the cast of :55, `DueSets` leaves both outcomes open for the deadline
whose decrement overflows. A refusal is `handleErrorLibrary`, which changes nothing; a
failing system call is `handleErrorSystemCall`, which may happen in every call and, like
`handleForcedExit`, ends the behaviour in `exited`.

**SleepContract.** `nap[tid]` is the first quantum in which an accepted sleeper may run,
counted as the documentation of `uthread_sleep` does, until that quantum has started or the
thread is gone.

**WaitContract.** `turn[tid]` is the quantum in which a thread in the deque runs at the latest:
when it comes to the deque (spawned, resumed, woken up or preempted) behind n others,
the (n + 1)st from then on. uthreads.h:37 and :88 say that it comes to the end.

**RoundRobin.** The queue, the blocked threads, the running one, and for each nap the number
of quantums left of it. `NextQuantum` is every way to start a quantum: naps go on or end,
who wakes up or yields comes to the queue in an order left open, its front runs. Nothing
counts up, so the state space is finite without a bound on quantums, which a liveness
property needs to be worth checking. `RoundRobinMapping` gives the mapping: the deque is
the queue, and what is left of a nap is its deadline less `total_quantums`.

**Preemption.** Each thread has a stack of frames `[fn, pc, arg]`; the empty stack is user
code. A call pushes a frame and blocks the signal; the body is cut wherever its statements
leave the containers disagreeing; `Save` is `sigsetjmp`, which saves the mask, too;
`Switch` is `_handle_sleep_threads` and `run_next_thread` with `siglongjmp`; `Resumed` is
the code behind `sigsetjmp` (whose `unblock_signals` works on a frame that was left, so
whether it unblocks is left open); `Return` unblocks and returns (for the handler, the kernel's
return to the interrupted code). The getters are calls that block and unblock and change
nothing; `SystemCallFails` is a failure of any `sigprocmask` or `setitimer` where it is
called; it ends the process, and since the exit handlers run with the mask of that moment,
`ConsistentWhenInterruptible` looks at the data behind it, too (`Live`). `Deliver` pushes a
handler frame on the running thread's stack, user code or not. `ReturnBlocked` are the two error returns that forget to unblock.
The history variable `committed` holds the scheduler's data as the last critical section
left it, and `AtomicSpec` states that it behaves as `Scheduler`: this is what justifies
that `Scheduler` makes each call one action.

**ThreadMemory.** Which object a tid was last given, how many were allocated, which were
deleted. `NewObject` goes with `Spawn`, `DeleteAll` (`remove_all`) with `Exit`, and nothing
with `Terminate`, since `remove_thread` only erases the pointer. A thread executes on the
stack of the last object of its tid, also after it has left the map.

**Clients.** Each test is a record of step lists, one for the main thread and one for each
entry function; a step is a call with the value that the test expects (`EXPECT_EQ`, or -1
with a message) or a statement on the test's statics. `Returns` is what each public function
returns. `BusyWait` is `threadQuantumSleep`, which compares for equality. The timed tests
rely on quantums that are long beside all else, so their timer expires in busy waits only;
`Test4` and `Test5`, with a quantum of a microsecond (`Quick`), meet it anywhere. `Tests` are
the numbers of the tests that a run executes.

* `Test4`: `Shuffle` draws `SPAWN_COUNT \div 3` of the spawned ids in any order
  (`threadsToRemove`) and appends `Removal`: each of them is terminated in that order, and
  each is expected of a spawn in ascending order. `MAX_THREAD_NUM` is 100 in the repository
  and scales the test: with the 7 of the run, two of six threads are removed.
* `Test5`: `Random` is `doOperation` with the test's own set `activeThreads`. It spawns if the
  set is empty or, as drawn, if it has room (`MaySpawn`), adds what `uthread_spawn` returns to
  the set, and terminates, blocks and resumes threads of that set, not of the library's map.
  `RandomExpects` is what it expects of the call it may draw next (:382, :392, :398, :403), so a
  thread that the library lost or gave out twice would show. The number of calls is any instead
  of 1000; `MaxActive` bounds the threads that it has at a time.

An operator `F_Variant` is `F` with a plausible mistake. No action uses it; each property
was seen to fail when the variant takes `F`'s place.

## Runs

| Run | Bounds | Shows |
|---|---|---|
| `core` | 4 ids, 9 quantums, INT_MAX 9, sleeps 0, 1, 3, INT_MAX | `TypeOK`, `StatesAgree`, `QueueExact`, `SleepersExist`, `MainSchedulable`, `NoOversleep`, `NoOvertaking`, `QuantumCharged` |
| `contracts` | 4 ids, 8 quantums, sleeps 0, 1, 3, no deadline beyond INT_MAX | `SleepHonoured`: nobody runs before its nap is over; `TurnsKept`: nobody waits for longer than it had threads in front of it; `RoundRobinSpec`: the scheduler is a round robin |
| `sleep_wraps` | 2 ids, sleeps 1, INT_MAX | `SleepHonoured` violated: finding 1 |
| `round_robin` | 5 ids, naps 1, 2, any number of quantums | `RoundRobinTypeOK`; `ReadyThreadsRun`, `NapsEnd`, `MainRunsForever` |
| `preemption` | 3 ids, 5 quantums, 3 frames, refused calls included, `uthread_init` of -1, 0, 1 | `PreemptionTypeOK`, `ConsistentWhenInterruptible`, `SuspendedAtSavePoint`, `AtomicSpec` |
| `preemptible` | 3 ids, 5 quantums, 3 frames, no refused null entry point or sleep, fair | `UserCodePreemptible`, `EveryQuantumEnds` |
| `refused_call` | as `preemptible`, with the null entry point | `UserCodePreemptible` violated: finding 2 |
| `stale_expiry` | as `preemptible` | `PreemptedByOwnExpiry` violated: finding 3 |
| `memory` | 3 ids, 4 quantums, 2 frames, 4 objects | `NoUseAfterDelete`: no thread executes on a deleted stack or shares one |
| `leak` | as `memory` | `TerminatedReleased` violated: finding 4 |
| `exit_stack` | as `memory` | `ExitsOnLiveStack` violated: finding 5 |
| `clients` | 7 ids, 40 quantums, 12 in the quick tests, `Test5` with 3 threads at a time | `Expectations`: the sixteen tests find what they expect; `TestsEnd`: the timed ones end |

Why the bounds are enough. With four ids two threads can be in any two of the deque, the
blocked set and the sleeping map while a third one acts on them, all ids can be taken, and a
freed id is given away again. The deque has up to three elements, so an erase can hit its
front, its middle and its back. Nine quantums let a sleep of three start, overlap with
others, be blocked and resumed, and end, twice. Eight quantums let sleeps of one and three
end, also together, in front of and behind a thread that waits, which a spawn or a resume
can put at any place of the deque. INT_MAX is as small as the number of quantums so that
deadlines of INT_MAX, INT_MAX + 1 and beyond all occur. The containers never look at more
than two threads at once, and the theorems below hold for all bounds. In `Preemption`, three
frames hold a function, a handler that interrupted its return, and a handler nested in that
one; five quantums let each of three threads run, be suspended in either way, and run again.
`ThreadMemory` gives one id to a second and a third object. The longest timed test in
`Clients` ends before its fortieth quantum, so there the bound on quantums is none. Seven
ids are the least with which `Test4` removes more than one thread, and so the least for
which the order matters in which they are removed and spawned again; of the eleven expiries
that its timer can have, each spawned thread needs one to run. `Test5` with three threads at
a time has each of them queued behind the others, blocked, resumed, terminated and replaced,
whatever the order, and never uses the other ids; that `Test4` does, and the theorem holds
whatever `MaxActive` is. The bounds appear as guards only: `MaxQuantums` in `run_next_thread`,
`MaxFrames` in `Deliver`, `MaxObjects` in `NewObject`, `QuickQuantums` in `Timer`,
`MaxActive` in `Random`. Deadlock is not checked: `exit` ends the process, and the last
quantum of the bound ends the behaviour.

### Fairness

* `RoundRobin`, `FairSpec`: weak fairness of `NewQuantum`, that is, every quantum ends somehow.
  Fairness of `Expire` alone would be too much to ask, since each function that gives up the
  processor restarts the timer and threads that do so often keep it from ever expiring
  (Scheduler.cpp:70). That each quantum ends is not taken for granted, it is what
  `EveryQuantumEnds` checks one level further down.
* `Preemption`, `FairPreemptionSpec`: weak fairness of `Expire` (the virtual clock runs while
  the process does, and only a switch restarts it) and of library code (a function that was
  entered goes on); strong fairness of `Deliver`, because a thread that calls functions in a
  loop blocks the signal again and again, and the kernel delivers it at one of the moments
  between. User code is not assumed to do anything. A behaviour of the model stops at
  `MaxQuantums`, so the property speaks of the quantums before.
* `Clients`, `ClientSpec`: weak fairness of the whole: the process runs.

### Findings

1. `uthread_sleep` of nearly INT_MAX quantums ends at once: the deadline (`size_t`, :258) is
   cast to `int` (:55) and wraps around. Run `sleep_wraps`.
2. `uthread_spawn(nullptr)` (uthreads.cpp:53) and `uthread_sleep(n)` with n <= 0 (:146)
   return with SIGVTALRM blocked; the caller is not preempted until its next call that
   unblocks it. Run `refused_call`.
3. A timer expiry inside a critical section that switches threads stays pending and ends the
   next thread's quantum as it begins; `setitimer` does not discard it. Run `stale_expiry`.
4. A terminated thread's object and stack are never released (Scheduler.cpp:185), which
   uthreads.h:51 promises. Run `leak`. To delete the object right there would be worse for a
   thread that terminates itself: it would run on a deleted stack, which `NoUseAfterDelete`
   shows.
5. `uthread_terminate(0)` by another thread than the main one deletes the stack on which the
   rest of it, and the exit handlers, execute (Scheduler.cpp:271). Run `exit_stack`.

Seen in the code and not given a run, because one line shows them: `uthread_init(0)` succeeds
and disarms the timer, while the header calls a non-positive argument an error
(uthreads.cpp:28); the threads of `Test4` increment `ranAtLeastOnce` without protection, so an
increment can be lost and the main thread wait forever (`TestsEnd` leaves that test out).

## Proofs

`SchedulerProof` proves, for every value of the constants that satisfies
`ConstantsAssumption` (at least one id, a positive INT_MAX, sleep arguments that are ints but
INT_MIN, a bound on quantums of at most INT_MAX):

* `Invariance`: `Spec => []IInv`, `IInv` being the conjunction of `TypeOK`, `StatesAgree`,
  `QueueExact`, `SleepersExist` and `MainSchedulable`; and, from it, each of the five
  (`TypeCorrect`, `StatesAlwaysAgree`, `QueueAlwaysExact`, `SleepersAlwaysExist`,
  `MainAlwaysSchedulable`).
* `NeverOversleeps`: `Spec => []NoOversleep`, inductive beside `IInv`.
* `EveryQuantumCharged`: `Spec => QuantumCharged`, an action property.
* `DeadlinesAlwaysFit`: `Spec => []DeadlinesFit`, each deadline lies ahead of the running
  quantum and the cast of :55 is the identity on it. It assumes `NoDeadlineWraps`, that
  `MaxQuantums + n + 1 <= INT_MAX` for each sleep argument n. Finding 1 shows that this is
  necessary.

Even the types need the conjunction: that `Head` and `Tail` of the deque are defined needs a
thread in it, which is `MainSchedulable`; that a terminated or blocked thread has left the
deque needs it to be there once (`QueueExact`), because the erasing loop skips elements; that
the queue stays exact when threads wake up needs every sleeper to be a thread and none of
them to be queued (`SleepersExist`, `QueueExact`), and when the caller stops, the states to
agree (`StatesAgree`).

The argument: the lemmas of `ListingsProof`, and for the deque `AppendLists`, `ConcatLists`,
`TailLists` and `EraseLists`, say what the deque operations do to a sequence that lists a set
without repetition; `AscendingLists` that the visiting order of a container is such a
sequence. `WakeUp` applies them to `_handle_sleep_threads`, `Dispatch` to `run_next_thread`:
from maps in which no thread runs and the main thread waits, `run_next_thread` establishes
`IInv`. `WakeAndDispatch` joins the two for the three functions that give up the processor.
Each action then has one lemma, and `SameQuantum` serves those that start no quantum.

`RoundRobinProof` proves how the deque moves and what that implements:

* `NeverOvertaken`: `Spec => NoOvertaking`. Every operation on the deque leaves a subsequence
  of it with new threads behind, and such a sequence keeps the order (`SubsequenceInOrder`).
  The proof needs `IInv'` too: only because the new deque lists nobody twice do positions tell
  threads apart.
* `NobodyFallsBack`: `Spec => WaitersAdvance`. No step moves a waiting thread backwards, and a
  new quantum, whichever of the four ways leads to it, moves each that goes on waiting at least
  one place forward. Two facts are behind it: the k-th number of an ascending list of positive
  numbers is k at least (`AscendingNumbers`), and the deque that `run_next_thread` takes the
  front of begins with what is left of the old one (`SubsequenceAdvances`).
* `ImplementsRoundRobin`, with `NoDeadlineWraps`: `Spec => RoundRobinSpec`. Initial states map to initial states; one
  lemma for each action shows that it maps to an action of `RoundRobin` or to a stutter, and
  `QuantumMaps` serves the four ways to a new quantum. What makes it hold is `IInv` (the
  threads of the abstract queue, blocked set and naps are those of the map) and
  `DeadlinesFit` (a nap ends in the quantum in which `_handle_sleep_threads` sees it end).

`ContractsProof` proves what single threads are promised:

* `SleepAlwaysHonoured`: `ContractSpec => []SleepHonoured`, with `NoDeadlineWraps`. The
  inductive invariant is that the naps promised are the deadlines kept (`NapsAreDeadlines`), so
  the running thread, which by `SleepersExist` has no deadline, has no nap.
* `TurnsAlwaysKept`: `WaitSpec => []TurnsKept`, bounded waiting: a thread that comes to the
  deque behind n others runs within n + 1 quantums, without any assumption on the arguments.
  `TurnsKept` is not inductive: a thread at the second place whose turn is the next quantum
  would miss it. The invariant is `TurnsAhead`, the turn of the thread at place i is i quantums away or more; that
  it stays is `NobodyFallsBack` for those that waited and the definition of `turn` for those
  that come. That no turn is further than `MAX_THREAD_NUM - 1` quantums away is `DequeRoom`: the
  deque lists nobody twice and not the running thread, so it has room for no more.

`RoundRobinInvariant` proves `OnePlaceEach`: `Spec => []RoundRobinTypeOK` for the abstract
round robin, from `RoundRobinAssumption` (at least one id, positive naps). The invariant is
inductive as it stands; `QuantumKeepsApart` is the one fact behind the four ways to a new
quantum.

`PreemptionProof` takes `ConstantsAssumption` and `PreemptionAssumption` (entry points are null
or not, `uthread_init` gets ints, at least one frame). Its inductive invariant `PInv` has two
halves.

* `A!IInv`: the invariant of `SchedulerProof`, instantiated with `committed` for the data.
* `Sections`: how far the running thread's critical section has come. In user code the data
  equals `committed` (`Same`). Otherwise it is `committed` with those statements done that
  precede the innermost frame's pc: `Spawning`, `Removing`, `Blocking`, `Resuming` and
  `Napping` say this for each function and each of its points, and `Done` which of them holds
  of a frame. All other frames wait where nothing is left to do: below the innermost one at a
  return (`Buried`), on other threads' stacks at a `sigsetjmp` (`SuspendedAtSavePoint`). The
  signal is blocked from the first statement to the return (`Masked`). `Recorded`,
  `SameQuantum`, `Started` and `Passed` say that a commit writes all the data, that the
  counters move in a switch only, that the running thread has been charged and saves a blocked
  signal, and that arguments are those the callers pass.

One lemma for each action (`...Step`) shows that `Sections` stays. The two halves need each
other. A step either leaves `committed` alone or commits, and then `Done` says that it is an
action of `Scheduler` on `committed` (`ReturnRefines`, `ExitRefines`, `SwitchRefines`;
`StepRefines` for all). So `A!NextInv` gives `A!IInv'`, and that is what tells where a switch
goes: to a thread of the map, whose context `SuspendedAtSavePoint` describes. From `PInv`:

* `SectionsAtomic`: `PreemptionSpec => AtomicSpec`. `AtomicSpec` names its own instance of
  `Scheduler`; `OneScheduler` says that it is the one of the proof.
* `AlwaysConsistentWhenInterruptible`: where the signal is unblocked, the data is `committed`,
  of which `IInv` holds (`ConsistentAlive`). Behind an exit, too: only `Exit` and
  `SystemCallFails` end the process (`EndsTwice`), the one with the signal blocked, the other
  with mask and data as they were in the live state before (`ConsistentAtExit`).
* `AlwaysSuspendedAtSavePoint` and `PreemptionTypeCorrect`.
* `OnlyRefusalsBlock`: no step but `ReturnBlocked` (finding 2) leaves user code with the signal
  blocked, without any assumption on the arguments; and so `AlwaysPreemptible`:
  `PreemptionSpec => []UserCodePreemptible` if `NoRefusedCalls`, that is, no caller passes a
  null entry point or a number of quantums that is not positive. Run `refused_call` shows that
  the assumption is necessary.
* `PromisesKept`: what is proved of `Scheduler` carries over, here `NoOversleep`,
  `QuantumCharged`, `NoOvertaking` and `WaitersAdvance` of the committed data.
* `PreemptiveRoundRobin`: with `NoDeadlineWraps`, `PreemptionSpec => A!RoundRobinSpec`: from the
  statements, the timer and the contexts up to the round robin in one theorem.

`MemoryProof` proves, with `MemoryAssumption`, `NeverUsedAfterDelete`:
`MemorySpec => []NoUseAfterDelete`. Its invariant `HInv` adds to `PInv` that no object has a
number beyond the last one allocated, so that a new one is nobody else's, and that nothing is
deleted while the process lives. `PInv` is needed in the switch, which must go to a thread of
the map also when the thread that ran has left it; that it may be used is the lemma
`MemoryBehaves`, which follows from the way `ThreadMemory` is built: each of its steps is one
of `Preemption` with an effect on the heap (and `MaxObjects` leaves out the spawns beyond it).

`ClientsProof` assumes `ConstantsAssumption` and `ClientsAssumption` (the numbers that the
tests sleep are in `SleepArgs`, and there are two thread ids at least, without which `Test4` and
`Test5` could not spawn a thread): it holds for the 100 of uthreads.h as for the 7 of the
run.

* `ClientsUseScheduler`: `ClientSpec => Spec /\ []IInv /\ []CodeLegal`. Every step of a test is
  a step of `Scheduler` or changes nothing there, so all that is proved above holds while the
  tests run. The invariant `CodeLegal` says of the steps that are left to each thread that they
  sleep for a number in `SleepArgs` and spawn a function of the test; it is shown of the sixteen
  programs one by one (`LegalTest1` and so on), and a tail of a legal list is legal. The
  ids in the programs, where a call has one, need not be in `TidArgs`: a call with an id
  outside of it is refused and changes nothing (`AnyTid`).
* `QuickTestsPass`: `ClientSpec => [](Quick => Expectations)`. `Test4` and `Test5` find what they
  expect wherever the timer expires. The invariant `QuickInv` says that no thread but the main
  one makes a call (`Silent`), and where the main thread is.
  In `Test4` it is `Filling(k)`, with k steps done the ids 0 to k are taken; or, behind the
  shuffle, `Refilling(order, sorted, k)`, with k steps of the removal done all ids are taken but
  those in `Missing(order, sorted, k)`: the drawn ones that have been terminated and those not
  yet spawned again. That a spawn returns `sorted[j]` is that it is the lowest that is missing
  (`MissingNext`), which is where the order of the sorted copy comes in; that a drawn thread can
  be terminated, that nobody else has removed it.
  In `Test5` (`Test5At`) the set that the test keeps is the library's map without the main
  thread. A spawn then finds a free id while the set has room, by counting, and a lowest one,
  by the well-foundedness of the numbers (`SomeLowestFree`).
  Both end with an exit, which needs the main thread to be in the map, `MainSchedulable`.

Only model-checked:

* the liveness properties (`EveryQuantumEnds`, `ReadyThreadsRun`, `NapsEnd`,
  `MainRunsForever`, `TestsEnd`), because liveness under fairness is out of the prover's reach;
* `Expectations` for the fourteen timed tests: fixed programs with fixed numbers, of which a
  proof could only enumerate the states that TLC enumerates.

## Not modelled, and why

* Real time: an armed timer may expire at any moment, so `setitimer` restarting it has no
  effect on the model beyond arming it.
* A handler that runs inside `exit` after a failing system call: behaviours end in `exited`.
  Shown is only that it would find the containers consistent.
* Machine contexts: the mangled registers of `env`, and that `siglongjmp` returns into a
  frame (`save_current_execution_context`) that has been left, which is undefined; the model
  resumes behind `sigsetjmp`, as the build does, and leaves open whether the signal is
  unblocked there.
* The depth of nested handlers, which the code does not limit: `MaxFrames` does.
* `total_quantums` beyond INT_MAX, an overflow that is undefined: `MaxQuantums` is at most
  INT_MAX.
* The allocator: the handler allocates and may have interrupted an allocation of user code.
* Messages to stderr.
* A thread whose entry function returns: it has no return address, the clients always
  terminate their threads.
* Demos and build files: not part of the library. Most lines of C and C++ under `src/` are
  the compiler probes that CMake generated in `cmake-build-debug`, which no model could be
  about; the library and its tests are what the modules cover.

## Plan

Done: `Scheduler`, `SleepContract`, `WaitContract`, `Preemption`, the abstract `RoundRobin` with
its liveness and the refinement, liveness of quantums in `Preemption`, `ThreadMemory`,
`Clients`; the proofs of every invariant, action property and refinement that the runs check,
`Expectations` for the quick tests only.

Left: nothing that these tools reach and that would say more about the library.
