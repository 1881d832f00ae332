------------------------------- MODULE Clients -------------------------------
(***************************************************************************)
(* The programs of tests/tests_to_be_ran_separately.cpp as clients of      *)
(* Scheduler.  Each thread executes a list of steps; a step is a call with *)
(* its argument and the value the test expects of it, or a statement on    *)
(* the static variables of the test, and its third part is then what the   *)
(* test expects to find.                                                   *)
(*                                                                         *)
(* The tests of the timed kind rely, as their comments say, on quantums    *)
(* that are long beside everything but a busy wait: in them the timer      *)
(* expires in busy waits only.  Those of the quick kind (Test4 and Test5)  *)
(* have a quantum of a microsecond: their timer expires anywhere.          *)
(***************************************************************************)
EXTENDS Scheduler

CONSTANTS
    Tests,          \* the numbers of the tests that are run
    QuickQuantums,  \* bound of the model: quantums of a quick test
    MaxActive       \* bound of the model: threads of Test5 at a time

VARIABLES
    test,           \* the number of the test that runs
    code,           \* tid -> its steps that are left
    end,            \* tid -> the quantums that end its busy wait, 0 outside of one
    flags,          \* the static bools of the test that are true
    offset,         \* the static int of Test8 and Test9
    ran,            \* Test4's ranAtLeastOnce
    loaded,         \* tid -> the value of it that the thread has in a register
    activeThreads   \* Test5's set of the threads that it takes to exist

statics == <<flags, offset, ran, loaded, activeThreads>>
client == <<test, code, end, statics>>

-----------------------------------------------------------------------------
(* The tests.                                                              *)

Exit == <<"terminate", 0, 0>>
Spawn(fn, tid) == <<"spawn", fn, tid>>
Wait(n) == <<"wait", n, 0>>
True(flag) == <<"flags", {flag}, {{flag}}>>
False(flag) == <<"flags", {flag}, {{}}>>
Flags(all, true) == <<"flags", all, {true}>>

\* Sleeps of f and g in the tests.
sleep_f == 5
sleep_g == 10

ASSUME ClientsAssumption ==
    /\ MAX_THREAD_NUM > 1
    /\ Tests \subseteq 1 .. 16
    /\ QuickQuantums \in Nat
    /\ MaxActive \in Nat \ {0}
    /\ {sleep_f, sleep_g} \subseteq SleepArgs

Test1 == [
    main |-> <<<<"block", 0, -1>>, <<"quantums", 0, 1>>, Spawn("f", 1), <<"total", 0, 1>>,
               <<"quantums", 0, 1>>, Wait(1), True("f"), <<"quantums", 0, 2>>,
               <<"total", 0, 3>>, <<"quantums", 1, -1>>, <<"block", 1, -1>>,
               <<"resume", 1, -1>>, <<"terminate", 1, -1>>, Exit>>,
    f |-> <<<<"tid", 0, 1>>, <<"quantums", 1, 1>>, <<"quantums", 0, 1>>, <<"total", 0, 2>>,
            <<"set", "f", 0>>, <<"terminate", 1, 0>>>>]

Test2 == [
    main |-> <<Spawn("f", 1), Spawn("g", 2), <<"block", 1, 0>>, Wait(1), <<"set", "middle", 0>>,
               Wait(1), True("f"), <<"total", 0, 5>>, Exit>>,
    f |-> <<True("middle"), <<"set", "f", 0>>, <<"terminate", 1, 0>>>>,
    g |-> <<<<"resume", 1, 0>>, <<"terminate", 2, 0>>>>]

\* The totals of the three loops are the table expectedQuantumsToTids.
Loop(tid, totals) ==
    [k \in 1 .. 12 |->
        LET i == (k + 2) \div 3 IN
        CASE k % 3 = 1 -> <<"quantums", tid, i>>
          [] k % 3 = 2 -> <<"total", 0, totals[i]>>
          [] k % 3 = 0 -> <<"block", tid, 0>>] \o <<<<"terminate", tid, 0>>>>

Test3 == [
    main |-> <<Spawn("f", 1), Spawn("g", 2)>> \o
             [k \in 1 .. 24 |->
                LET i == (k + 5) \div 6 IN
                CASE k % 6 = 1 -> <<"tid", 0, 0>>
                  [] k % 6 = 2 -> <<"resume", 2, 0>>
                  [] k % 6 = 3 -> <<"resume", 1, 0>>
                  [] k % 6 = 4 -> <<"quantums", 0, i>>
                  [] k % 6 = 5 -> <<"total", 0, <<1, 4, 7, 10>>[i]>>
                  [] k % 6 = 0 -> Wait(1)] \o <<<<"total", 0, 13>>, Exit>>,
    f |-> Loop(1, <<2, 6, 9, 12>>),
    g |-> Loop(2, <<3, 5, 8, 11>>)]

SPAWN_COUNT == MAX_THREAD_NUM - 1

\* Every id is taken, in ascending order, and one more spawn fails.
Test4 == [
    main |-> [i \in 1 .. SPAWN_COUNT |-> Spawn("f", i)] \o
             <<<<"await", SPAWN_COUNT, 0>>, Spawn("f", -1), <<"shuffle", 0, 0>>>>,
    f |-> <<<<"load", 0, 0>>, <<"store", 0, 0>>, <<"spin", 0, 0>>>>]

\* The rest of it: threadsToRemove is terminated, and as many threads are spawned
\* again, whose ids are expected in sorted order.
Removal(threadsToRemove, sorted) ==
    [i \in DOMAIN threadsToRemove |-> <<"terminate", threadsToRemove[i], 0>>] \o
    [i \in DOMAIN sorted |-> Spawn("f", sorted[i])] \o <<Exit>>

Test5 == [
    main |-> <<<<"random", 0, 0>>, Exit>>,
    f |-> <<<<"spin", 0, 0>>>>]

Sleeper(tid, first, last) == <<
    <<"set", "reached", 0>>, <<"total", 0, first>>, <<"sleep", sleep_f, 0>>, <<"total", 0, last>>,
    <<"set", "f", 0>>, <<"terminate", tid, 0>>>>

Test6 == [
    main |-> <<Spawn("f", 1), <<"total", 0, 1>>, Wait(6), True("f"), Exit>>,
    f |-> Sleeper(1, 2, 8)]

\* f is not seen again before the test ends.
Test7 == [
    main |-> <<Spawn("f", 1), <<"total", 0, 1>>, Wait(4), <<"total", 0, 6>>, <<"resume", 1, 0>>,
               True("reached"), False("f"), Exit>>,
    f |-> Sleeper(1, 2, 6)]

Test8 == [
    main |-> <<Spawn("f", 1), <<"total", 0, 1>>, Wait(4), <<"block", 1, 0>>, <<"resume", 1, 0>>,
               Wait(1), <<"total", 0, 7>>, True("reached"), False("f"), Wait(1), True("f"),
               Spawn("f", 1), <<"offset_total", 0, 0>>, <<"clear", {"reached", "f"}, 0>>, Wait(4),
               True("reached"), <<"block", 1, 0>>, Wait(10), False("f"), Exit>>,
    f |-> Sleeper(1, 2, 8)]

Test9 == [
    main |-> <<Spawn("f", 1), <<"total", 0, 1>>, Wait(2), True("reached"), <<"block", 1, 0>>,
               Wait(4), <<"total", 0, 8>>, Wait(5), False("f"), <<"resume", 1, 0>>,
               <<"offset", 6, 0>>, Wait(1), True("f"), Exit>>,
    f |-> Sleeper(1, 2, 8)]

Napper(tid, reached, flag, n) == <<
    <<"set", reached, 0>>, <<"sleep", n, 0>>, <<"more", 0, n>>, <<"set", flag, 0>>,
    <<"terminate", tid, 0>>>>

Two(main, sleep) == [
    main |-> <<Spawn("f", 1), Spawn("g", 2), <<"total", 0, 1>>>> \o main \o <<Exit>>,
    f |-> Napper(1, "reached_f", "f", sleep_f),
    g |-> Napper(2, "reached_g", "g", sleep)]

Test10 == Two(<<Wait(6), <<"flags", {"f", "g"}, {{"f"}, {"g"}, {"f", "g"}}>>, Wait(6),
                Flags({"f", "g"}, {"f", "g"})>>, sleep_f)

Test11 == Two(<<Wait(6), Flags({"f", "g"}, {"f"}), Wait(11),
                Flags({"f", "g"}, {"f", "g"})>>, sleep_g)

Test12 == Two(<<<<"block", 2, 0>>, Wait(6), Flags({"f", "g"}, {"f"}), Wait(11),
                Flags({"f", "g"}, {"f"})>>, sleep_g)

Test13 == Two(<<<<"block", 1, 0>>, <<"block", 2, 0>>, Wait(6), Flags({"f", "g"}, {}),
                Wait(11), Flags({"f", "g"}, {})>>, sleep_g)

Test14 == Two(<<<<"block", 2, 0>>, Wait(6), Flags({"f", "g"}, {"f"}), <<"resume", 2, 0>>,
                Wait(11), Flags({"f", "g"}, {"f", "g"})>>, sleep_g)

Test15 == Two(<<<<"block", 1, 0>>, <<"block", 2, 0>>, Wait(1),
                Flags({"reached_f", "reached_g"}, {}), <<"resume", 1, 0>>, Wait(1),
                Flags({"reached_f", "reached_g"}, {"reached_f"}), <<"resume", 2, 0>>, Wait(22),
                Flags({"f", "g"}, {"f", "g"})>>, sleep_g)

Test16 == [
    main |-> <<Spawn("f", 1), <<"total", 0, 1>>, Wait(1), True("reached"), <<"terminate", 1, 0>>,
               Wait(6), False("f"), Exit>>,
    f |-> Sleeper(1, 2, 5)]

Programs == <<Test1, Test2, Test3, Test4, Test5, Test6, Test7, Test8, Test9, Test10, Test11,
              Test12, Test13, Test14, Test15, Test16>>
Program == Programs[test]

Quick == test \in {4, 5}

-----------------------------------------------------------------------------
(* The steps.                                                              *)

ClientInit ==
    /\ Init
    /\ test \in Tests
    /\ code = [tid \in Tid |-> IF tid = 0 THEN Program.main ELSE <<>>]
    /\ end = [tid \in Tid |-> 0]
    /\ flags = {}
    /\ offset = 0
    /\ ran = 0
    /\ loaded = [tid \in Tid |-> 0]
    /\ activeThreads = {}

me == running_thread_tid

\* The running thread's next step is op.
At(op) == ~exited /\ code[me] # <<>> /\ Head(code[me])[1] = op
arg == Head(code[me])[2]
expected == Head(code[me])[3]

Done == code' = [code EXCEPT ![me] = Tail(@)]

\* The values that the public functions return of the argument a.
Returns(op, a) ==
    CASE op = "spawn"     -> IF Tid \subseteq DOMAIN threads THEN -1
                             ELSE CHOOSE tid \in Tid \ DOMAIN threads :
                                     \A lower \in Tid : lower < tid => lower \in DOMAIN threads
      [] op = "terminate" -> IF check_thread(a) THEN 0 ELSE -1
      [] op = "block"     -> IF MayBlock(a) THEN 0 ELSE -1
      [] op = "resume"    -> IF check_thread(a) THEN 0 ELSE -1
      [] op = "sleep"     -> IF MaySleep(a) THEN 0 ELSE -1
      [] op = "tid"       -> running_thread_tid
      [] op = "total"     -> total_quantums
      [] op = "quantums"  -> IF check_thread(a) THEN threads[a].quantum_t ELSE -1

\* The steps once a new thread is about to enter the function fn.
Entered(fn) ==
    [tid \in Tid |-> IF tid \in DOMAIN threads' \ DOMAIN threads THEN Program[fn] ELSE code[tid]]

\* A call that changes the scheduler.
Change ==
    /\ \/ At("terminate") /\ uthread_terminate(arg) /\ Done
       \/ At("block") /\ uthread_block(arg) /\ Done
       \/ At("resume") /\ uthread_resume(arg) /\ Done
       \/ At("sleep") /\ uthread_sleep(arg) /\ Done
       \/ At("spawn") /\ uthread_spawn /\ code' = [Entered(arg) EXCEPT ![me] = Tail(@)]
    /\ UNCHANGED <<test, end, statics>>

\* Test4 shuffles the ids, takes the first third of them, in that order, and
\* sorts a copy.
Shuffle ==
    /\ At("shuffle")
    /\ \E threadsToRemove \in Injection(1 .. SPAWN_COUNT \div 3, 1 .. SPAWN_COUNT) :
       \E sorted \in Ascending(Range(threadsToRemove)) :
          code' = [code EXCEPT ![me] = Removal(threadsToRemove, sorted)]
    /\ UNCHANGED <<vars, test, end, statics>>

\* When doOperation may spawn; with no thread left it has to.
MaySpawn == activeThreads = {} \/ Cardinality(activeThreads) < MAX_THREAD_NUM - 1

\* Test5's doOperation: a call drawn at random, or none, for a thread drawn from
\* the test's own set; and the end of its iterations.  Nothing else looks at the
\* set, so whether the timer expires between the call and the set's update makes
\* no difference.
Random ==
    /\ At("random")
    /\ \/ /\ MaySpawn /\ Cardinality(activeThreads) < MaxActive
          /\ uthread_spawn /\ code' = Entered("f")
          /\ activeThreads' = activeThreads \cup {Returns("spawn", 0)}
       \/ \E tid \in activeThreads :
             /\ \/ uthread_terminate(tid) /\ activeThreads' = activeThreads \ {tid}
                \/ (uthread_block(tid) \/ uthread_resume(tid)) /\ UNCHANGED activeThreads
             /\ UNCHANGED code
       \/ UNCHANGED <<vars, activeThreads>> /\ Done
    /\ UNCHANGED <<test, end, flags, offset, ran, loaded>>

\* A getter, or an expectation about the flags: what it has to find is the
\* property Expectations.
Look ==
    /\ At("tid") \/ At("total") \/ At("more") \/ At("quantums") \/ At("flags")
    /\ Done
    /\ UNCHANGED <<vars, test, end, statics>>

\* The static variables of the tests.
Store ==
    /\ \/ At("set") /\ flags' = flags \cup {arg} /\ UNCHANGED <<offset, ran, loaded>>
       \/ At("clear") /\ flags' = flags \ arg /\ UNCHANGED <<offset, ran, loaded>>
       \/ At("offset") /\ offset' = arg /\ UNCHANGED <<flags, ran, loaded>>
       \/ At("offset_total") /\ offset' = total_quantums - 1 /\ UNCHANGED <<flags, ran, loaded>>
       \/ At("load") /\ loaded' = [loaded EXCEPT ![me] = ran] /\ UNCHANGED <<flags, offset, ran>>
       \/ At("store") /\ ran' = loaded[me] + 1 /\ UNCHANGED <<flags, offset, loaded>>
    /\ Done
    /\ UNCHANGED <<vars, test, end, activeThreads>>

\* threadQuantumSleep: it computes the end and compares for equality.
BusyWait ==
    /\ \/ /\ At("wait") /\ end[me] = 0
          /\ end' = [end EXCEPT ![me] = threads[me].quantum_t + arg]
          /\ UNCHANGED code
       \/ /\ At("wait") /\ end[me] = threads[me].quantum_t
          /\ end' = [end EXCEPT ![me] = 0]
          /\ Done
       \/ At("await") /\ ran = arg /\ UNCHANGED end /\ Done
    /\ UNCHANGED <<vars, test, statics>>

Spinning == At("wait") /\ end[me] \notin {0, threads[me].quantum_t}

\* The timer expires.
Timer ==
    /\ \/ Quick /\ total_quantums < QuickQuantums
       \/ Spinning
    /\ change_thread
    /\ UNCHANGED client

ClientNext == Change \/ Shuffle \/ Random \/ Look \/ Store \/ BusyWait \/ Timer

\* The process runs.
ClientSpec ==
    /\ ClientInit
    /\ [][ClientNext]_<<vars, client>>
    /\ WF_<<vars, client>>(ClientNext)

-----------------------------------------------------------------------------
(* Properties.                                                             *)

\* What doOperation expects of the calls it may make next: a new thread as long
\* as the set has room for one, and success for each thread of the set.
RandomExpects ==
    /\ MaySpawn => Returns("spawn", 0) > 0
    /\ \A tid \in activeThreads, op \in {"terminate", "block", "resume"} : Returns(op, tid) = 0

\* Whenever a thread has come to a call, the call returns what the test expects
\* (EXPECT_EQ, EXPECT_GT, expect_thread_library_error), whatever calls and
\* expiries of the timer came before, and the statics are as it expects.
Expectations ==
    /\ \A op \in {"spawn", "terminate", "block", "resume", "sleep", "tid", "quantums"} :
          At(op) => Returns(op, arg) = expected
    /\ At("total") => Returns("total", 0) = expected + offset
    /\ At("more") => Returns("total", 0) > expected
    /\ At("flags") => flags \cap arg \in expected
    /\ At("random") => RandomExpects

\* Every test of the timed kind comes to its end: no busy wait misses its end, no
\* thread it waits for is forgotten.
TestsEnd == ~Quick => <>exited

=============================================================================
