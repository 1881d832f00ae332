---------------------------- MODULE ClientsProof ----------------------------
(***************************************************************************)
(* Proofs that the test programs of Clients use the scheduler as Scheduler *)
(* says, so that all theorems about Scheduler hold while they run, and     *)
(* that the quick tests find what they expect with any number of thread    *)
(* ids from two on, 100 as in the repository or any other.                 *)
(***************************************************************************)
EXTENDS Clients, SchedulerProof, WellFoundedInduction

-----------------------------------------------------------------------------
(* The steps of the programs.                                              *)

\* A call of uthread_sleep has an argument that is meant to occur, and a new
\* thread enters a function of the test.
Legal(step, fns) ==
    /\ step[1] = "sleep" => step[2] \in SleepArgs
    /\ step[1] = "spawn" => step[2] \in fns

\* The steps that are left to a thread of a test with the functions fns.
LegalCode(steps, fns) ==
    /\ steps \in Seq(Range(steps))
    /\ \A step \in Range(steps) : Legal(step, fns)

LegalTest(program) ==
    LET fns == DOMAIN program \ {"main"} IN
    /\ {"main", "f"} \subseteq DOMAIN program
    /\ \A fn \in DOMAIN program : LegalCode(program[fn], fns)

\* A sequence of legal steps, from whatever set they come.
LEMMA LegalSteps ==
    ASSUME NEW S, NEW steps \in Seq(S), NEW fns, \A i \in DOMAIN steps : Legal(steps[i], fns)
    PROVE  LegalCode(steps, fns)
<1>1. Len(steps) \in Nat /\ DOMAIN steps = 1 .. Len(steps) /\ steps \in [1 .. Len(steps) -> S]
  BY LenProperties
<1>2. steps \in [1 .. Len(steps) -> Range(steps)]
  BY <1>1 DEF Range
<1>3. steps \in Seq(Range(steps))
  BY <1>1, <1>2, SeqDef
<1>4. QED
  BY <1>3 DEF LegalCode, Range

\* A function on the first numbers is a sequence.
LEMMA LegalList ==
    ASSUME NEW fns, NEW n \in Nat, NEW S, NEW steps \in [1 .. n -> S],
           \A i \in 1 .. n : Legal(steps[i], fns)
    PROVE  LegalCode(steps, fns)
<1>1. steps \in Seq(S) /\ DOMAIN steps = 1 .. n
  BY SeqDef
<1>2. QED
  BY <1>1, LegalSteps

LEMMA LegalConcat ==
    ASSUME NEW fns, NEW p, LegalCode(p, fns), NEW q, LegalCode(q, fns)
    PROVE  LegalCode(p \o q, fns)
<1> DEFINE S == Range(p) \cup Range(q)
<1>1. p \in Seq(S) /\ q \in Seq(S)
  BY SeqMonotonic DEF LegalCode
<1>2. /\ p \o q \in Seq(S)
      /\ \A i \in DOMAIN (p \o q) : (p \o q)[i] \in S
  BY <1>1, ConcatProperties, LenProperties
<1>3. \A i \in DOMAIN (p \o q) : Legal((p \o q)[i], fns)
  BY <1>2 DEF LegalCode
<1>4. QED
  BY <1>2, <1>3, LegalSteps

LEMMA LegalTail ==
    ASSUME NEW fns, NEW p, LegalCode(p, fns), p # <<>>
    PROVE  LegalCode(Tail(p), fns) /\ Head(p) \in Range(p)
<1>1. p \in Seq(Range(p)) /\ Tail(p) \in Seq(Range(p)) /\ Head(p) \in Range(p)
  BY HeadTailProperties DEF LegalCode
<1>2. \A i \in DOMAIN Tail(p) : Tail(p)[i] \in Range(p)
  BY <1>1, LenProperties
<1>3. QED
  BY <1>1, <1>2, LegalSteps DEF LegalCode

-----------------------------------------------------------------------------
(* The programs.                                                           *)

\* A test with one function beside main.
LEMMA LegalPair ==
    ASSUME NEW p, DOMAIN p = {"main", "f"}, LegalCode(p.main, {"f"}), LegalCode(p.f, {"f"})
    PROVE  LegalTest(p)
BY DEF LegalTest

\* And one with two.
LEMMA LegalTriple ==
    ASSUME NEW p, DOMAIN p = {"main", "f", "g"}, LegalCode(p.main, {"f", "g"}),
           LegalCode(p.f, {"f", "g"}), LegalCode(p.g, {"f", "g"})
    PROVE  LegalTest(p)
BY DEF LegalTest

LEMMA LegalSleeper == ASSUME NEW tid, NEW first, NEW last
                      PROVE  LegalCode(Sleeper(tid, first, last), {"f"})
BY ClientsAssumption DEF Sleeper, LegalCode, Legal, Range

LEMMA LegalTwo ==
    ASSUME NEW main, LegalCode(main, {"f", "g"}), NEW sleep \in {sleep_f, sleep_g}
    PROVE  LegalTest(Two(main, sleep))
<1> DEFINE fns == {"f", "g"}
<1>1. LegalCode(<<Spawn("f", 1), Spawn("g", 2), <<"total", 0, 1>>>>, fns)
  BY DEF Spawn, LegalCode, Legal, Range
<1>2. LegalCode(<<Exit>>, fns)
  BY DEF Exit, LegalCode, Legal, Range
<1>3. LegalCode(Two(main, sleep).main, fns)
  BY <1>1, <1>2, LegalConcat DEF Two
<1>4. ASSUME NEW tid, NEW reached, NEW flag, NEW n \in {sleep_f, sleep_g}
      PROVE  LegalCode(Napper(tid, reached, flag, n), fns)
  BY <1>4, ClientsAssumption DEF Napper, LegalCode, Legal, Range
<1>5. LegalCode(Two(main, sleep).f, fns) /\ LegalCode(Two(main, sleep).g, fns)
  BY <1>4 DEF Two
<1>6. QED
  BY <1>3, <1>5, LegalTriple DEF Two

LEMMA LegalTest1 == LegalTest(Test1)
<1>1. LegalCode(Test1.main, {"f"})
  BY DEF Test1, Spawn, Exit, True, False, Wait, LegalCode, Legal, Range
<1>2. LegalCode(Test1.f, {"f"})
  BY DEF Test1, True, LegalCode, Legal, Range
<1>3. QED
  BY <1>1, <1>2, LegalPair DEF Test1

LEMMA LegalTest2 == LegalTest(Test2)
<1>1. LegalCode(Test2.main, {"f", "g"})
  BY DEF Test2, Spawn, Exit, True, False, Wait, LegalCode, Legal, Range
<1>2. LegalCode(Test2.f, {"f", "g"}) /\ LegalCode(Test2.g, {"f", "g"})
  BY DEF Test2, True, LegalCode, Legal, Range
<1>3. QED
  BY <1>1, <1>2, LegalTriple DEF Test2

LEMMA LegalTest6 == LegalTest(Test6)
<1>1. LegalCode(Test6.main, {"f"})
  BY DEF Test6, Spawn, Exit, True, False, Wait, LegalCode, Legal, Range
<1>2. LegalCode(Test6.f, {"f"})
  BY LegalSleeper DEF Test6
<1>3. QED
  BY <1>1, <1>2, LegalPair DEF Test6

LEMMA LegalTest7 == LegalTest(Test7)
<1>1. LegalCode(Test7.main, {"f"})
  BY DEF Test7, Spawn, Exit, True, False, Wait, LegalCode, Legal, Range
<1>2. LegalCode(Test7.f, {"f"})
  BY LegalSleeper DEF Test7
<1>3. QED
  BY <1>1, <1>2, LegalPair DEF Test7

LEMMA LegalTest8 == LegalTest(Test8)
<1>1. LegalCode(Test8.main, {"f"})
  <2>1. Test8.main \in Seq(Range(Test8.main))
    BY DEF Test8, Range
  <2>2. \A i \in DOMAIN Test8.main : Legal(Test8.main[i], {"f"})
    BY DEF Test8, Spawn, Exit, True, False, Wait, Legal
  <2>3. QED
    BY <2>1, <2>2, LegalSteps
<1>2. LegalCode(Test8.f, {"f"})
  BY LegalSleeper DEF Test8
<1>3. QED
  BY <1>1, <1>2, LegalPair DEF Test8

LEMMA LegalTest9 == LegalTest(Test9)
<1>1. LegalCode(Test9.main, {"f"})
  BY DEF Test9, Spawn, Exit, True, False, Wait, LegalCode, Legal, Range
<1>2. LegalCode(Test9.f, {"f"})
  BY LegalSleeper DEF Test9
<1>3. QED
  BY <1>1, <1>2, LegalPair DEF Test9

LEMMA LegalTest16 == LegalTest(Test16)
<1>1. LegalCode(Test16.main, {"f"})
  BY DEF Test16, Spawn, Exit, True, False, Wait, LegalCode, Legal, Range
<1>2. LegalCode(Test16.f, {"f"})
  BY LegalSleeper DEF Test16
<1>3. QED
  BY <1>1, <1>2, LegalPair DEF Test16

LEMMA LegalTest10 == LegalTest(Test10)
<1> DEFINE main == <<Wait(6), <<"flags", {"f", "g"}, {{"f"}, {"g"}, {"f", "g"}}>>, Wait(6),
                 Flags({"f", "g"}, {"f", "g"})>>
<1>1. LegalCode(main, {"f", "g"})
  BY DEF Wait, Flags, LegalCode, Legal, Range
<1>2. QED
  BY <1>1, LegalTwo DEF Test10

LEMMA LegalTest11 == LegalTest(Test11)
<1> DEFINE main == <<Wait(6), Flags({"f", "g"}, {"f"}), Wait(11),
                 Flags({"f", "g"}, {"f", "g"})>>
<1>1. LegalCode(main, {"f", "g"})
  BY DEF Wait, Flags, LegalCode, Legal, Range
<1>2. QED
  BY <1>1, LegalTwo DEF Test11

LEMMA LegalTest12 == LegalTest(Test12)
<1> DEFINE main == <<<<"block", 2, 0>>, Wait(6), Flags({"f", "g"}, {"f"}), Wait(11),
                 Flags({"f", "g"}, {"f"})>>
<1>1. LegalCode(main, {"f", "g"})
  BY DEF Wait, Flags, LegalCode, Legal, Range
<1>2. QED
  BY <1>1, LegalTwo DEF Test12

LEMMA LegalTest13 == LegalTest(Test13)
<1> DEFINE main == <<<<"block", 1, 0>>, <<"block", 2, 0>>, Wait(6), Flags({"f", "g"}, {}),
                 Wait(11), Flags({"f", "g"}, {})>>
<1>1. LegalCode(main, {"f", "g"})
  BY DEF Wait, Flags, LegalCode, Legal, Range
<1>2. QED
  BY <1>1, LegalTwo DEF Test13

LEMMA LegalTest14 == LegalTest(Test14)
<1> DEFINE main == <<<<"block", 2, 0>>, Wait(6), Flags({"f", "g"}, {"f"}), <<"resume", 2, 0>>,
                 Wait(11), Flags({"f", "g"}, {"f", "g"})>>
<1>1. LegalCode(main, {"f", "g"})
  BY DEF Wait, Flags, LegalCode, Legal, Range
<1>2. QED
  BY <1>1, LegalTwo DEF Test14

LEMMA LegalTest15 == LegalTest(Test15)
<1> DEFINE main == <<<<"block", 1, 0>>, <<"block", 2, 0>>, Wait(1),
                 Flags({"reached_f", "reached_g"}, {}), <<"resume", 1, 0>>, Wait(1),
                 Flags({"reached_f", "reached_g"}, {"reached_f"}), <<"resume", 2, 0>>, Wait(22),
                 Flags({"f", "g"}, {"f", "g"})>>
<1>1. LegalCode(main, {"f", "g"})
  BY DEF Wait, Flags, LegalCode, Legal, Range
<1>2. QED
  BY <1>1, LegalTwo DEF Test15

LEMMA LegalTest3 == LegalTest(Test3)
<1> DEFINE fns == {"f", "g"}
<1>1. ASSUME NEW tid, NEW totals PROVE LegalCode(Loop(tid, totals), fns)
  <2> DEFINE loop == [k \in 1 .. 12 |->
                LET i == (k + 2) \div 3 IN
                CASE k % 3 = 1 -> <<"quantums", tid, i>>
                  [] k % 3 = 2 -> <<"total", 0, totals[i]>>
                  [] k % 3 = 0 -> <<"block", tid, 0>>]
  <2>1. \A k \in 1 .. 12 : Legal(loop[k], fns)
    <3> TAKE k \in 1 .. 12
    <3>1. k % 3 \in 0 .. 2
      OBVIOUS
    <3>2. loop[k][1] \notin {"sleep", "spawn"}
      BY <3>1
    <3>3. QED
      BY <3>2 DEF Legal
  <2>2. loop \in Seq(Range(loop))
    BY SeqDef DEF Range
  <2>3. LegalCode(loop, fns)
    BY <2>1, <2>2, LegalSteps
  <2> HIDE DEF loop
  <2>4. LegalCode(<<<<"terminate", tid, 0>>>>, fns)
    BY DEF LegalCode, Legal, Range
  <2>5. QED
    BY <2>3, <2>4, LegalConcat DEF Loop, loop
<1>2. LegalCode(Test3.main, fns)
  <2> DEFINE loop == [k \in 1 .. 24 |->
                LET i == (k + 5) \div 6 IN
                CASE k % 6 = 1 -> <<"tid", 0, 0>>
                  [] k % 6 = 2 -> <<"resume", 2, 0>>
                  [] k % 6 = 3 -> <<"resume", 1, 0>>
                  [] k % 6 = 4 -> <<"quantums", 0, i>>
                  [] k % 6 = 5 -> <<"total", 0, <<1, 4, 7, 10>>[i]>>
                  [] k % 6 = 0 -> Wait(1)]
  <2>1. \A k \in 1 .. 24 : Legal(loop[k], fns)
    <3> TAKE k \in 1 .. 24
    <3>1. k % 6 \in 0 .. 5
      OBVIOUS
    <3>2. loop[k][1] \notin {"sleep", "spawn"}
      BY <3>1 DEF Wait
    <3>3. QED
      BY <3>2 DEF Legal
  <2>2. loop \in Seq(Range(loop))
    BY SeqDef DEF Range
  <2>3. LegalCode(loop, fns)
    BY <2>1, <2>2, LegalSteps
  <2> HIDE DEF loop
  <2>4. LegalCode(<<Spawn("f", 1), Spawn("g", 2)>>, fns)
    BY DEF Spawn, LegalCode, Legal, Range
  <2>5. LegalCode(<<<<"total", 0, 13>>, Exit>>, fns)
    BY DEF Exit, LegalCode, Legal, Range
  <2>6. QED
    BY <2>3, <2>4, <2>5, LegalConcat DEF Test3, loop
<1>3. LegalCode(Test3.f, fns) /\ LegalCode(Test3.g, fns)
  BY <1>1 DEF Test3
<1>4. QED
  BY <1>2, <1>3, LegalTriple DEF Test3

LEMMA LegalTest4 == LegalTest(Test4)
<1> DEFINE fns == {"f"}
           spawns == [i \in 1 .. SPAWN_COUNT |-> Spawn("f", i)]
           last == <<<<"await", SPAWN_COUNT, 0>>, Spawn("f", -1), <<"shuffle", 0, 0>>>>
<1>1. LegalCode(spawns, fns)
  <2>1. SPAWN_COUNT \in Nat
    BY ConstantsAssumption DEF SPAWN_COUNT
  <2>2. spawns \in [1 .. SPAWN_COUNT -> {Spawn("f", i) : i \in 1 .. SPAWN_COUNT}]
    OBVIOUS
  <2>3. \A i \in 1 .. SPAWN_COUNT : Legal(spawns[i], fns)
    BY DEF Spawn, Legal
  <2> HIDE DEF spawns
  <2>4. QED
    BY <2>1, <2>2, <2>3, LegalList
<1>2. LegalCode(last, fns)
  BY DEF Spawn, LegalCode, Legal, Range
<1>3. LegalCode(Test4.main, fns)
  BY <1>1, <1>2, LegalConcat DEF Test4
<1>4. LegalCode(Test4.f, fns)
  BY DEF Test4, LegalCode, Legal, Range
<1>5. QED
  BY <1>3, <1>4, LegalPair DEF Test4

\* Its second half, whatever the first one has drawn.
LEMMA LegalRemoval ==
    ASSUME NEW fns, "f" \in fns, NEW n \in Nat, NEW order, DOMAIN order = 1 .. n,
           NEW m \in Nat, NEW sorted, DOMAIN sorted = 1 .. m
    PROVE  LegalCode(Removal(order, sorted), fns)
<1> DEFINE terminates == [i \in DOMAIN order |-> <<"terminate", order[i], 0>>]
           spawns == [i \in DOMAIN sorted |-> Spawn("f", sorted[i])]
<1>1. LegalCode(terminates, fns)
  <2>1. terminates \in [1 .. n -> {<<"terminate", order[i], 0>> : i \in 1 .. n}]
    OBVIOUS
  <2>2. \A i \in 1 .. n : Legal(terminates[i], fns)
    BY DEF Legal
  <2> HIDE DEF terminates
  <2>3. QED
    BY <2>1, <2>2, LegalList
<1>2. LegalCode(spawns, fns)
  <2>1. spawns \in [1 .. m -> {Spawn("f", sorted[i]) : i \in 1 .. m}]
    OBVIOUS
  <2>2. \A i \in 1 .. m : Legal(spawns[i], fns)
    BY DEF Spawn, Legal
  <2> HIDE DEF spawns
  <2>3. QED
    BY <2>1, <2>2, LegalList
<1>3. LegalCode(<<Exit>>, fns)
  BY DEF Exit, LegalCode, Legal, Range
<1>4. Removal(order, sorted) = (terminates \o spawns) \o <<Exit>>
  BY DEF Removal
<1> HIDE DEF terminates, spawns
<1>5. QED
  BY <1>1, <1>2, <1>3, <1>4, LegalConcat

LEMMA LegalTest5 == LegalTest(Test5)
<1>1. LegalCode(Test5.main, {"f"}) /\ LegalCode(Test5.f, {"f"})
  BY DEF Test5, Exit, LegalCode, Legal, Range
<1>2. QED
  BY <1>1, LegalPair DEF Test5

LEMMA ProgramsAre ==
    \A n \in 1 .. 16 :
        Programs[n] \in {Test1, Test2, Test3, Test4, Test5, Test6, Test7, Test8, Test9, Test10,
                        Test11, Test12, Test13, Test14, Test15, Test16}
BY DEF Programs

\* Whichever test runs.
LEMMA LegalProgram == test \in 1 .. 16 => LegalTest(Program)
BY ProgramsAre, LegalTest1, LegalTest2, LegalTest3, LegalTest4, LegalTest5, LegalTest6,
   LegalTest7, LegalTest8, LegalTest9, LegalTest10, LegalTest11, LegalTest12, LegalTest13,
   LegalTest14, LegalTest15, LegalTest16 DEF Program

\* What Test4 draws: the ids, in the order in which they are drawn, and in
\* ascending order.
LEMMA Drawn ==
    ASSUME NEW order \in Injection(1 .. SPAWN_COUNT \div 3, 1 .. SPAWN_COUNT),
           NEW sorted \in Ascending(Range(order))
    PROVE  /\ Len(order) \in Nat /\ DOMAIN order = 1 .. Len(order) /\ IsInjective(order)
           /\ \A i \in DOMAIN order : order[i] \in 1 .. SPAWN_COUNT
           /\ Len(sorted) \in Nat /\ DOMAIN sorted = 1 .. Len(sorted)
           /\ Range(sorted) = Range(order)
           /\ \A i, j \in DOMAIN sorted : i < j => sorted[i] < sorted[j]
<1>1. SPAWN_COUNT \in Nat /\ SPAWN_COUNT \div 3 \in Nat
  BY ConstantsAssumption DEF SPAWN_COUNT
<1>2. order \in [1 .. SPAWN_COUNT \div 3 -> 1 .. SPAWN_COUNT] /\ IsInjective(order)
  BY DEF Injection
<1>3. Range(order) \subseteq 1 .. SPAWN_COUNT
  BY <1>2 DEF Range
<1>4. IsFiniteSet(Range(order))
  <2>1. IsFiniteSet(1 .. SPAWN_COUNT)
    BY <1>1, FS_Interval
  <2>2. QED
    BY <1>3, <2>1, FS_Subset
<1>5. sorted \in Seq(Range(order)) /\ Range(sorted) = Range(order)
  BY <1>4, AscendingLists
<1>6. \A i, j \in DOMAIN sorted : i < j => sorted[i] < sorted[j]
  BY DEF Ascending
<1>7. Len(sorted) \in Nat /\ DOMAIN sorted = 1 .. Len(sorted)
  BY <1>5, LenProperties
<1>8. Len(order) \in Nat /\ DOMAIN order = 1 .. Len(order)
  <2> DEFINE third == SPAWN_COUNT \div 3
  <2>1. third \in Nat /\ order \in [1 .. third -> 1 .. SPAWN_COUNT]
    BY <1>1, <1>2
  <2> HIDE DEF third
  <2>2. order \in Seq(1 .. SPAWN_COUNT)
    BY <2>1, SeqDef
  <2>3. QED
    BY <2>2, LenProperties
<1>9. QED
  BY <1>2, <1>5, <1>6, <1>7, <1>8

-----------------------------------------------------------------------------
(* The tests are clients of the scheduler.                                 *)

Fns == DOMAIN Program \ {"main"}

\* What is left of the programs is legal.
CodeLegal ==
    /\ test \in 1 .. 16
    /\ DOMAIN code = Tid
    /\ \A tid \in Tid : LegalCode(code[tid], Fns)

\* Every int can be passed as a thread id: an id that is none is refused.
LEMMA AnyTid ==
    ASSUME IInv, NEW tid, uthread_terminate(tid) \/ uthread_block(tid) \/ uthread_resume(tid)
    PROVE  [Next]_vars
<1>1. DOMAIN threads \subseteq TidArgs /\ 0 \in TidArgs
  BY ConstantsAssumption DEF IInv, TypeOK, Tid, TidArgs
<1>2. CASE tid \in TidArgs
  BY <1>2 DEF Next, OtherCalls
<1>3. CASE tid \notin TidArgs
  BY <1>1, <1>3
     DEF uthread_terminate, uthread_block, uthread_resume, MayBlock, check_thread,
         handleErrorLibrary, vars
<1>4. QED
  BY <1>2, <1>3

\* The step of the running thread is legal.
LEMMA StepAtHand ==
    ASSUME IInv, CodeLegal, NEW op, At(op)
    PROVE  /\ me \in Tid /\ me \in DOMAIN threads /\ ~exited /\ code[me] # <<>>
           /\ Legal(Head(code[me]), Fns) /\ LegalCode(Tail(code[me]), Fns)
<1>1. me \in Tid /\ me \in DOMAIN threads /\ ~exited /\ code[me] # <<>>
  BY DEF At, me, IInv, TypeOK, StatesAgree
<1>2. LegalCode(code[me], Fns)
  BY <1>1 DEF CodeLegal
<1>3. QED
  BY <1>1, <1>2, LegalTail DEF LegalCode

LEMMA ClientUses ==
    ASSUME IInv, CodeLegal, ClientNext
    PROVE  [Next]_vars
<1>1. CASE Change
  <2>1. ASSUME At("sleep"), uthread_sleep(arg) PROVE Next
    <3>1. arg \in SleepArgs
      BY <2>1, StepAtHand DEF At, arg, Legal
    <3>2. QED
      BY <2>1, <3>1 DEF Next
  <2>2. uthread_spawn => Next
    BY DEF Next, OtherCalls
  <2>3. QED
    BY <1>1, <2>1, <2>2, AnyTid DEF Change
<1>2. CASE Random
  <2>1. uthread_spawn => Next
    BY DEF Next, OtherCalls
  <2>2. QED
    BY <1>2, <2>1, AnyTid DEF Random
<1>3. CASE Shuffle \/ Look \/ Store \/ BusyWait
  BY <1>3 DEF Shuffle, Look, Store, BusyWait
<1>4. CASE Timer
  BY <1>4 DEF Timer, Next, OtherCalls
<1>5. QED
  BY <1>1, <1>2, <1>3, <1>4 DEF ClientNext

\* A new thread enters a legal function.
LEMMA EntersLegal ==
    ASSUME CodeLegal, NEW fn \in Fns
    PROVE  /\ DOMAIN Entered(fn) = Tid
           /\ \A tid \in Tid : LegalCode(Entered(fn)[tid], Fns)
           /\ \A tid \in Tid \cap DOMAIN threads : Entered(fn)[tid] = code[tid]
<1>1. LegalCode(Program[fn], Fns)
  BY LegalProgram DEF CodeLegal, LegalTest, Fns
<1>2. QED
  BY <1>1 DEF Entered, CodeLegal

LEMMA StillLegal ==
    ASSUME CodeLegal, UNCHANGED test, DOMAIN code' = Tid,
           \A tid \in Tid : LegalCode(code'[tid], Fns)
    PROVE  CodeLegal'
<1>1. test' \in 1 .. 16 /\ Fns' = Fns
  BY DEF CodeLegal, Fns, Program
<1>2. QED
  BY <1>1 DEF CodeLegal

\* The steps of a thread that goes on, and of one that has spawned another.
LEMMA DoneLegal ==
    ASSUME IInv, CodeLegal, UNCHANGED test, NEW op, At(op), Done
    PROVE  CodeLegal'
<1>1. DOMAIN code' = Tid /\ \A tid \in Tid : LegalCode(code'[tid], Fns)
  BY StepAtHand DEF Done, CodeLegal
<1>2. QED
  BY <1>1, StillLegal

LEMMA SpawnLegal ==
    ASSUME IInv, CodeLegal, UNCHANGED test, NEW fn \in Fns, At("spawn"),
           code' = [Entered(fn) EXCEPT ![me] = Tail(@)]
    PROVE  CodeLegal'
<1>1. me \in Tid /\ LegalCode(Tail(code[me]), Fns) /\ Entered(fn)[me] = code[me]
  BY EntersLegal, StepAtHand
<1>2. DOMAIN code' = Tid /\ code'[me] = Tail(code[me])
      /\ \A tid \in Tid \ {me} : code'[tid] = Entered(fn)[tid]
  BY <1>1, EntersLegal
<1>3. \A tid \in Tid : LegalCode(code'[tid], Fns)
  BY <1>1, <1>2, EntersLegal
<1>4. QED
  BY <1>2, <1>3, StillLegal

LEMMA ShuffleLegal ==
    ASSUME IInv, CodeLegal, Shuffle
    PROVE  CodeLegal'
<1>1. UNCHANGED test
  BY DEF Shuffle
<1>2. PICK order \in Injection(1 .. SPAWN_COUNT \div 3, 1 .. SPAWN_COUNT) :
      \E sorted \in Ascending(Range(order)) :
         code' = [code EXCEPT ![me] = Removal(order, sorted)]
  BY DEF Shuffle
<1>3. PICK sorted \in Ascending(Range(order)) :
         code' = [code EXCEPT ![me] = Removal(order, sorted)]
  BY <1>2
<1>4. "f" \in Fns
  BY LegalProgram DEF CodeLegal, LegalTest, Fns
<1>5. LegalCode(Removal(order, sorted), Fns)
  BY <1>4, Drawn, LegalRemoval
<1>6. DOMAIN code' = Tid /\ \A tid \in Tid : LegalCode(code'[tid], Fns)
  BY <1>3, <1>5 DEF CodeLegal
<1>7. QED
  BY <1>1, <1>6, StillLegal

LEMMA SameLegal ==
    ASSUME CodeLegal, UNCHANGED <<test, code>>
    PROVE  CodeLegal'
BY StillLegal DEF CodeLegal

LEMMA LegalStep ==
    ASSUME IInv, CodeLegal, ClientNext
    PROVE  CodeLegal'
<1>1. CASE Change
  <2>1. CASE At("spawn") /\ code' = [Entered(arg) EXCEPT ![me] = Tail(@)]
    <3>1. arg \in Fns
      BY <2>1, StepAtHand DEF At, arg, Legal
    <3>2. UNCHANGED test
      BY <1>1 DEF Change
    <3>3. QED
      BY <2>1, <3>1, <3>2, SpawnLegal
  <2>2. QED
    BY <1>1, <2>1, DoneLegal DEF Change
<1>2. CASE Random
  <2>1. "f" \in Fns
    BY LegalProgram DEF CodeLegal, LegalTest, Fns
  <2>2. CASE code' = Entered("f")
    BY <1>2, <2>1, <2>2, EntersLegal, StillLegal DEF Random
  <2>3. QED
    BY <1>2, <2>2, SameLegal, DoneLegal DEF Random
<1>3. CASE Look
  BY <1>3, DoneLegal DEF Look
<1>4. CASE Store
  BY <1>4, DoneLegal DEF Store
<1>5. CASE BusyWait
  BY <1>5, SameLegal, DoneLegal DEF BusyWait
<1>6. CASE Timer
  BY <1>6, SameLegal DEF Timer, client
<1>7. CASE Shuffle
  BY <1>7, ShuffleLegal
<1>8. QED
  BY <1>1, <1>2, <1>3, <1>4, <1>5, <1>6, <1>7 DEF ClientNext

\* The initial steps are the whole of main.
LEMMA ClientInitLegal == ClientInit => CodeLegal
<1> SUFFICES ASSUME ClientInit PROVE CodeLegal
  OBVIOUS
<1>1. test \in 1 .. 16 /\ LegalTest(Program)
  BY LegalProgram, ClientsAssumption DEF ClientInit
<1>2. LegalCode(Program.main, Fns)
  BY <1>1 DEF LegalTest, Fns
<1>3. LegalCode(<<>>, Fns)
  BY DEF LegalCode, Range
<1>4. QED
  BY <1>1, <1>2, <1>3 DEF ClientInit, CodeLegal

\* A test is a client of the scheduler whose calls, also those that are refused,
\* are those of Scheduler: all that is proved of Scheduler holds while it runs.
THEOREM ClientsUseScheduler == ClientSpec => Spec /\ []IInv /\ []CodeLegal
<1>1. ClientInit => Init /\ IInv /\ CodeLegal
  BY InitInv, ClientInitLegal DEF ClientInit
<1>2. IInv /\ CodeLegal /\ [ClientNext]_<<vars, client>> => [Next]_vars /\ CodeLegal'
  <2> SUFFICES ASSUME IInv, CodeLegal, [ClientNext]_<<vars, client>>
               PROVE  [Next]_vars /\ CodeLegal'
    OBVIOUS
  <2>1. CASE ClientNext
    BY <2>1, ClientUses, LegalStep
  <2>2. CASE UNCHANGED <<vars, client>>
    BY <2>2, SameLegal DEF client
  <2>3. QED
    BY <2>1, <2>2
<1>3. IInv /\ [Next]_vars => IInv'
  BY NextInv
<1>4. QED
  BY <1>1, <1>2, <1>3, PTL DEF ClientSpec, Spec

-----------------------------------------------------------------------------
(* The quick tests find what they expect.                                  *)

\* Main has done the first k of the steps p.
Did(p, k) ==
    /\ Len(code[0]) = Len(p) - k
    /\ \A i \in 1 .. Len(p) - k : code[0][i] = p[k + i]

\* Test4's main has done k steps of its first half.
Filling(k) ==
    /\ Did(Test4.main, k)
    /\ DOMAIN threads = {tid \in Tid : tid <= k}

\* The ids that are free when main has done k steps of a removal.
Missing(order, sorted, k) ==
    {order[i] : i \in {i \in DOMAIN order : i <= k}} \
    {sorted[i] : i \in {i \in DOMAIN sorted : Len(order) + i <= k}}

Refilling(order, sorted, k) ==
    /\ Did(Removal(order, sorted), k)
    /\ DOMAIN threads = Tid \ Missing(order, sorted, k)

Test4At ==
    \/ \E k \in 0 .. SPAWN_COUNT + 2 : Filling(k)
    \/ \E order \in Injection(1 .. SPAWN_COUNT \div 3, 1 .. SPAWN_COUNT) :
       \E sorted \in Ascending(Range(order)) :
       \E k \in 0 .. Len(order) + Len(sorted) : Refilling(order, sorted, k)

\* Only the main thread makes calls.
Silent(steps) == \A i \in DOMAIN steps : steps[i][1] \in {"load", "store", "spin"}

\* Test5's own set is the library's map without the main thread.
Test5At ==
    /\ code[0] \in {Test5.main, <<Exit>>}
    /\ activeThreads = DOMAIN threads \ {0}

QuickInv ==
    Quick =>
        /\ \A tid \in Tid \ {0} : Silent(code[tid])
        /\ test = 4 /\ ~exited => Test4At
        /\ test = 5 /\ ~exited => Test5At

LEMMA QuickPrograms ==
    /\ test = 4 => Program = Test4
    /\ test = 5 => Program = Test5
    /\ Quick => Fns = {"f"} /\ Silent(Program.f)
<1>1. /\ test = 4 => Program = Test4
      /\ test = 5 => Program = Test5
  BY DEF Program, Programs
<1>2. DOMAIN Test4 = {"main", "f"} /\ Silent(Test4.f)
  BY DEF Test4, Silent
<1>3. DOMAIN Test5 = {"main", "f"} /\ Silent(Test5.f)
  BY DEF Test5, Silent
<1>4. QED
  BY <1>1, <1>2, <1>3 DEF Quick, Fns

LEMMA Sizes == SPAWN_COUNT \in Nat \ {0} /\ Tid = 0 .. SPAWN_COUNT /\ 0 \in Tid
BY ConstantsAssumption, ClientsAssumption DEF SPAWN_COUNT, Tid

LEMMA ConcatAt ==
    ASSUME NEW S, NEW p \in Seq(S), NEW q \in Seq(S)
    PROVE  /\ Len(p \o q) = Len(p) + Len(q)
           /\ \A i \in 1 .. Len(p) : (p \o q)[i] = p[i]
           /\ \A i \in 1 .. Len(q) : (p \o q)[Len(p) + i] = q[i]
<1>1. Len(p) \in Nat /\ Len(q) \in Nat
  BY LenProperties
<1>2. ASSUME NEW i \in 1 .. Len(p) PROVE (p \o q)[i] = p[i]
  BY <1>1, ConcatProperties
<1>3. ASSUME NEW i \in 1 .. Len(q) PROVE (p \o q)[Len(p) + i] = q[i]
  <2>1. /\ Len(p) + i \in 1 .. Len(p) + Len(q)
        /\ ~(Len(p) + i <= Len(p)) /\ (Len(p) + i) - Len(p) = i
    BY <1>1
  <2>2. QED
    BY <2>1, ConcatProperties
<1>4. QED
  BY <1>2, <1>3, ConcatProperties

\* The steps of Test4's first half.
LEMMA Test4Main ==
    /\ Len(Test4.main) = SPAWN_COUNT + 3
    /\ \A k \in 1 .. SPAWN_COUNT : Test4.main[k] = <<"spawn", "f", k>>
    /\ Test4.main[SPAWN_COUNT + 1] = <<"await", SPAWN_COUNT, 0>>
    /\ Test4.main[SPAWN_COUNT + 2] = <<"spawn", "f", -1>>
    /\ Test4.main[SPAWN_COUNT + 3] = <<"shuffle", 0, 0>>
<1> DEFINE spawns == [i \in 1 .. SPAWN_COUNT |-> Spawn("f", i)]
           last == <<<<"await", SPAWN_COUNT, 0>>, Spawn("f", -1), <<"shuffle", 0, 0>>>>
           steps == Range(spawns) \cup Range(last)
<1>0. SPAWN_COUNT \in Nat
  BY Sizes
<1>1. Test4.main = spawns \o last
  BY DEF Test4
<1>2. spawns \in Seq(steps) /\ Len(spawns) = SPAWN_COUNT
  BY <1>0, SeqDef, LenProperties DEF Range
<1>3. last \in Seq(steps) /\ Len(last) = 3
  BY DEF Range
<1>4. \A k \in 1 .. SPAWN_COUNT : spawns[k] = <<"spawn", "f", k>>
  BY DEF Spawn
<1>5. /\ last[1] = <<"await", SPAWN_COUNT, 0>> /\ last[2] = <<"spawn", "f", -1>>
      /\ last[3] = <<"shuffle", 0, 0>>
  BY DEF Spawn
<1> HIDE DEF spawns, last, steps
<1>6. /\ Len(spawns \o last) = Len(spawns) + Len(last)
      /\ \A i \in 1 .. Len(spawns) : (spawns \o last)[i] = spawns[i]
      /\ \A i \in 1 .. Len(last) : (spawns \o last)[Len(spawns) + i] = last[i]
  <2>1. ASSUME NEW p \in Seq(steps), NEW q \in Seq(steps)
        PROVE  /\ Len(p \o q) = Len(p) + Len(q)
               /\ \A i \in 1 .. Len(p) : (p \o q)[i] = p[i]
               /\ \A i \in 1 .. Len(q) : (p \o q)[Len(p) + i] = q[i]
    BY ConcatAt
  <2>2. QED
    BY <1>2, <1>3, <2>1
<1>7. /\ Len(Test4.main) = SPAWN_COUNT + 3
      /\ \A k \in 1 .. SPAWN_COUNT : Test4.main[k] = spawns[k]
      /\ \A i \in 1 .. 3 : Test4.main[SPAWN_COUNT + i] = last[i]
  BY <1>0, <1>1, <1>2, <1>3, <1>6
<1>8. QED
  BY <1>4, <1>5, <1>7

\* And those of the second one: n calls of uthread_terminate, m of uthread_spawn.
RemovalList(p, order, n, sorted, m) ==
    /\ Len(p) = n + m + 1
    /\ \A k \in 1 .. n : p[k] = <<"terminate", order[k], 0>>
    /\ \A k \in 1 .. m : p[n + k] = <<"spawn", "f", sorted[k]>>
    /\ p[n + m + 1] = <<"terminate", 0, 0>>

LEMMA RemovalSteps ==
    ASSUME NEW order, NEW n \in Nat, DOMAIN order = 1 .. n,
           NEW sorted, NEW m \in Nat, DOMAIN sorted = 1 .. m
    PROVE  RemovalList(Removal(order, sorted), order, n, sorted, m)
<1> DEFINE terminates == [i \in DOMAIN order |-> <<"terminate", order[i], 0>>]
           spawns == [i \in DOMAIN sorted |-> Spawn("f", sorted[i])]
           last == <<Exit>>
           S == Range(terminates) \cup Range(spawns) \cup Range(last)
           both == terminates \o spawns
           p == Removal(order, sorted)
<1>1. p = both \o last
  BY DEF Removal
<1>2. terminates \in Seq(S) /\ Len(terminates) = n
  BY SeqDef, LenProperties DEF Range
<1>3. spawns \in Seq(S) /\ Len(spawns) = m
  BY SeqDef, LenProperties DEF Range
<1>4. last \in Seq(S) /\ Len(last) = 1 /\ last[1] = <<"terminate", 0, 0>>
  BY DEF Range, Exit
<1>5. /\ \A k \in 1 .. n : terminates[k] = <<"terminate", order[k], 0>>
      /\ \A k \in 1 .. m : spawns[k] = <<"spawn", "f", sorted[k]>>
  BY DEF Spawn
<1> HIDE DEF terminates, spawns, last, S
<1>6. both \in Seq(S)
  BY <1>2, <1>3, ConcatProperties
<1>concat. ASSUME NEW r \in Seq(S), NEW q \in Seq(S)
           PROVE  /\ Len(r \o q) = Len(r) + Len(q)
                  /\ \A i \in 1 .. Len(r) : (r \o q)[i] = r[i]
                  /\ \A i \in 1 .. Len(q) : (r \o q)[Len(r) + i] = q[i]
  BY ConcatAt
<1>7. /\ Len(both) = n + m
      /\ \A k \in 1 .. n : both[k] = terminates[k]
      /\ \A k \in 1 .. m : both[n + k] = spawns[k]
  BY <1>2, <1>3, <1>concat
<1> HIDE DEF both, p
<1>8. /\ Len(both \o last) = n + m + 1
      /\ \A k \in 1 .. n + m : (both \o last)[k] = both[k]
      /\ (both \o last)[n + m + 1] = last[1]
  <2>1. /\ Len(both \o last) = Len(both) + Len(last)
        /\ \A i \in 1 .. Len(both) : (both \o last)[i] = both[i]
        /\ \A i \in 1 .. Len(last) : (both \o last)[Len(both) + i] = last[i]
    BY <1>4, <1>6, <1>concat
  <2>2. QED
    BY <1>4, <1>7, <2>1
<1>9. ASSUME NEW k \in 1 .. n PROVE p[k] = <<"terminate", order[k], 0>>
  <2>1. k \in 1 .. n + m
    OBVIOUS
  <2>2. p[k] = terminates[k]
    BY <1>1, <1>7, <1>8, <2>1
  <2>3. QED
    BY <1>5, <2>2
<1>10. ASSUME NEW k \in 1 .. m PROVE p[n + k] = <<"spawn", "f", sorted[k]>>
  <2>1. n + k \in 1 .. n + m
    OBVIOUS
  <2>2. p[n + k] = spawns[k]
    BY <1>1, <1>7, <1>8, <2>1
  <2>3. QED
    BY <1>5, <2>2
<1>11. Len(p) = n + m + 1 /\ p[n + m + 1] = <<"terminate", 0, 0>>
  BY <1>1, <1>4, <1>8
<1>12. RemovalList(p, order, n, sorted, m)
  BY <1>9, <1>10, <1>11 DEF RemovalList
<1>13. QED
  BY <1>12 DEF p

\* The step at hand when main runs, and what it leaves.
LEMMA MainAt ==
    ASSUME CodeLegal, ~exited, me = 0,
           NEW p, Len(p) \in Nat, NEW k \in 0 .. Len(p) - 1, Did(p, k)
    PROVE  /\ code[0] # <<>> /\ Head(code[0]) = p[k + 1]
           /\ \A op : At(op) <=> op = p[k + 1][1]
           /\ arg = p[k + 1][2] /\ expected = p[k + 1][3]
           /\ code'[0] = Tail(code[0]) => Did(p, k + 1)'
<1>1. code[0] \in Seq(Range(code[0])) /\ Len(code[0]) = Len(p) - k
  BY Sizes DEF CodeLegal, LegalCode, Did
<1>2. code[0] # <<>> /\ Head(code[0]) = code[0][1]
      /\ Len(Tail(code[0])) = Len(p) - (k + 1)
      /\ \A i \in 1 .. Len(p) - (k + 1) : Tail(code[0])[i] = code[0][i + 1]
  BY <1>1, HeadTailProperties
<1>3. code[0][1] = p[k + 1]
  BY DEF Did
<1>4. ASSUME NEW i \in 1 .. Len(p) - (k + 1)
      PROVE  Tail(code[0])[i] = p[(k + 1) + i]
  <2>1. i + 1 \in 1 .. Len(p) - k /\ k + (i + 1) = (k + 1) + i
    OBVIOUS
  <2>2. code[0][i + 1] = p[k + (i + 1)]
    BY <2>1 DEF Did
  <2>3. QED
    BY <1>2, <2>1, <2>2
<1>5. code'[0] = Tail(code[0]) => Did(p, k + 1)'
  BY <1>2, <1>4 DEF Did
<1>6. QED
  BY <1>2, <1>3, <1>5 DEF At, arg, expected

\* A thread beside main is at no call and at no expectation.
LEMMA SilentAt ==
    ASSUME IInv, CodeLegal, Quick, QuickInv, me # 0, NEW op, At(op)
    PROVE  op \in {"load", "store", "spin"}
<1>1. me \in Tid \ {0} /\ code[me] # <<>>
  BY StepAtHand
<1>2. Silent(code[me]) /\ code[me] \in Seq(Range(code[me]))
  BY <1>1 DEF QuickInv, CodeLegal, LegalCode
<1>3. Head(code[me]) = code[me][1] /\ 1 \in DOMAIN code[me]
  BY <1>1, <1>2, HeadTailProperties, LenProperties
<1>4. QED
  BY <1>2, <1>3 DEF Silent, At

-----------------------------------------------------------------------------
(* What a spawn returns.                                                   *)

LowestFree(new) ==
    /\ new \in Tid \ DOMAIN threads
    /\ \A lower \in Tid : lower < new => lower \in DOMAIN threads

\* The new thread has the lowest free id, and the call returns it.
LEMMA SpawnReturns ==
    ASSUME IInv, NEW new, LowestFree(new)
    PROVE  /\ Returns("spawn", 0) = new
           /\ uthread_spawn => DOMAIN threads' = DOMAIN threads \cup {new}
<1>1. \A tid \in Tid \ DOMAIN threads :
         (\A lower \in Tid : lower < tid => lower \in DOMAIN threads) <=> tid = new
  BY Sizes DEF LowestFree
<1>2. new \in Tid \ DOMAIN threads
  BY DEF LowestFree
<1>3. (CHOOSE tid \in Tid \ DOMAIN threads :
          \A lower \in Tid : lower < tid => lower \in DOMAIN threads) = new
  BY <1>1, <1>2
<1>4. Returns("spawn", 0) = new
  BY <1>2, <1>3 DEF Returns
<1>5. ASSUME uthread_spawn PROVE DOMAIN threads' = DOMAIN threads \cup {new}
  <2>1. PICK tid \in Tid : add_new_thread(tid)
    BY <1>2, <1>5 DEF uthread_spawn
  <2>2. tid = new
    BY <1>1, <2>1 DEF add_new_thread
  <2>3. QED
    BY <2>1, <2>2 DEF add_new_thread
<1>6. QED
  BY <1>4, <1>5

\* With every id taken there is no new thread.
LEMMA SpawnFails ==
    ASSUME DOMAIN threads = Tid
    PROVE  /\ Returns("spawn", 0) = -1
           /\ uthread_spawn => DOMAIN threads' = Tid
<1>1. uthread_spawn => UNCHANGED threads
  BY DEF uthread_spawn, add_new_thread, handleErrorLibrary, vars
<1>2. QED
  BY <1>1 DEF Returns

\* If not all ids are taken, one of the free ones is the lowest.
LEMMA SomeLowestFree ==
    ASSUME NEW free \in Tid \ DOMAIN threads
    PROVE  \E new : LowestFree(new)
<1> DEFINE F == Tid \ DOMAIN threads
           R == OpToRel(<, Nat)
<1>1. IsWellFoundedOn(R, Nat)
  BY NatLessThanWellFounded
<1>2. F \subseteq Nat /\ F # {}
  BY Sizes
<1> HIDE DEF R
<1>3. PICK new \in F : \A y \in F : ~(<<y, new>> \in R)
  BY <1>1, <1>2, WFMin
<1>4. \A y \in F : ~(y < new)
  BY <1>2, <1>3 DEF OpToRel, R
<1>5. QED
  BY <1>3, <1>4 DEF LowestFree

\* Below its limit Test5's set leaves an id free.
LEMMA MaySpawnFree ==
    ASSUME IInv, activeThreads = DOMAIN threads \ {0}, MaySpawn
    PROVE  \E new : LowestFree(new)
<1> SUFFICES ASSUME Tid \subseteq DOMAIN threads PROVE FALSE
  BY SomeLowestFree
<1>1. activeThreads = 1 .. SPAWN_COUNT
  BY Sizes DEF IInv, TypeOK
<1>2. Cardinality(1 .. SPAWN_COUNT) = SPAWN_COUNT
  BY Sizes, FS_Interval
<1>3. activeThreads # {}
  BY <1>1, Sizes
<1>4. Cardinality(activeThreads) = MAX_THREAD_NUM - 1
  BY <1>1, <1>2, Zenon DEF SPAWN_COUNT
<1>5. QED
  BY <1>3, <1>4, ConstantsAssumption DEF MaySpawn

\* The ids that a removal takes away, and then gives back from the lowest one on.
LEMMA MissingNext ==
    ASSUME NEW order \in Injection(1 .. SPAWN_COUNT \div 3, 1 .. SPAWN_COUNT),
           NEW sorted \in Ascending(Range(order)), NEW k \in 0 .. Len(order) + Len(sorted)
    PROVE  /\ Missing(order, sorted, 0) = {}
           /\ Missing(order, sorted, k) \subseteq 1 .. SPAWN_COUNT
           /\ k < Len(order) =>
                /\ order[k + 1] \in 1 .. SPAWN_COUNT \ Missing(order, sorted, k)
                /\ Missing(order, sorted, k + 1) = Missing(order, sorted, k) \cup {order[k + 1]}
           /\ Len(order) <= k /\ k < Len(order) + Len(sorted) =>
                /\ sorted[k - Len(order) + 1] \in Missing(order, sorted, k)
                /\ \A tid \in Missing(order, sorted, k) : sorted[k - Len(order) + 1] <= tid
                /\ Missing(order, sorted, k + 1) =
                      Missing(order, sorted, k) \ {sorted[k - Len(order) + 1]}
           /\ k = Len(order) + Len(sorted) => Missing(order, sorted, k) = {}
<1> DEFINE n == Len(order)
           m == Len(sorted)
<1>1. /\ n \in Nat /\ DOMAIN order = 1 .. n
      /\ \A i \in 1 .. n : order[i] \in 1 .. SPAWN_COUNT
      /\ \A i, j \in 1 .. n : order[i] = order[j] => i = j
  BY Drawn DEF IsInjective
<1>2. /\ m \in Nat /\ DOMAIN sorted = 1 .. m
      /\ \A i, j \in 1 .. m : i < j => sorted[i] < sorted[j]
  BY Drawn
<1>3. {order[i] : i \in 1 .. n} = {sorted[j] : j \in 1 .. m}
  BY <1>1, <1>2, Drawn DEF Range
<1>4. \A i \in 1 .. m : sorted[i] \in 1 .. SPAWN_COUNT
  <2>1. \A j \in 1 .. m : \E i \in 1 .. n : order[i] = sorted[j]
    BY <1>3
  <2>2. QED
    BY <1>1, <2>1
<1>5. \A l : Missing(order, sorted, l) =
                {order[i] : i \in {i \in 1 .. n : i <= l}} \
                {sorted[i] : i \in {i \in 1 .. m : n + i <= l}}
  BY <1>1, <1>2 DEF Missing
<1> HIDE DEF n, m
<1>6. Missing(order, sorted, 0) = {} /\ Missing(order, sorted, k) \subseteq 1 .. SPAWN_COUNT
  BY <1>1, <1>2, <1>5
<1>7. ASSUME k < n
      PROVE  /\ order[k + 1] \in 1 .. SPAWN_COUNT \ Missing(order, sorted, k)
             /\ Missing(order, sorted, k + 1) = Missing(order, sorted, k) \cup {order[k + 1]}
  <2>1. k \in Nat /\ k + 1 \in 1 .. n
    BY <1>1, <1>7
  <2>2. {i \in 1 .. m : n + i <= k} = {} /\ {i \in 1 .. m : n + i <= k + 1} = {}
    BY <1>1, <1>2, <1>7, <2>1
  <2>3. Missing(order, sorted, k) = {order[i] : i \in 1 .. k}
        /\ Missing(order, sorted, k + 1) = {order[i] : i \in 1 .. k + 1}
    <3>1. {i \in 1 .. n : i <= k} = 1 .. k /\ {i \in 1 .. n : i <= k + 1} = 1 .. k + 1
      BY <1>1, <2>1
    <3>2. Missing(order, sorted, k) = {order[i] : i \in 1 .. k} \ {sorted[i] : i \in {}}
      BY <1>5, <2>2, <3>1, Zenon
    <3>3. Missing(order, sorted, k + 1) = {order[i] : i \in 1 .. k + 1} \ {sorted[i] : i \in {}}
      BY <1>5, <2>2, <3>1, Zenon
    <3>4. QED
      BY <3>2, <3>3
  <2>4. 1 .. k + 1 = (1 .. k) \cup {k + 1} /\ k + 1 \notin 1 .. k /\ 1 .. k \subseteq 1 .. n
    BY <1>1, <2>1
  <2>5. QED
    BY <1>1, <2>1, <2>3, <2>4
<1>8. ASSUME n <= k, NEW l \in {k, k + 1}
      PROVE  Missing(order, sorted, l) = {sorted[j] : j \in {j \in 1 .. m : l - n < j}}
  <2>1. k \in Nat /\ {i \in 1 .. n : i <= l} = 1 .. n
    BY <1>1, <1>2, <1>8
  <2>2. \A i \in 1 .. m : n + i <= l <=> ~(l - n < i)
    BY <1>1, <1>2, <1>8, <2>1
  <2>3. \A i, j \in 1 .. m : sorted[i] = sorted[j] => i = j
    BY <1>2, <1>4
  <2>4. {i \in 1 .. m : n + i <= l} = {i \in 1 .. m : ~(l - n < i)}
    BY <2>2
  <2>5. Missing(order, sorted, l) =
           {sorted[j] : j \in 1 .. m} \ {sorted[i] : i \in {i \in 1 .. m : ~(l - n < i)}}
    BY <1>3, <1>5, <2>1, <2>4, Zenon
  <2>6. QED
    BY <2>3, <2>5
<1>9. ASSUME n <= k, k < n + m
      PROVE  /\ sorted[k - n + 1] \in Missing(order, sorted, k)
             /\ \A tid \in Missing(order, sorted, k) : sorted[k - n + 1] <= tid
             /\ Missing(order, sorted, k + 1) =
                   Missing(order, sorted, k) \ {sorted[k - n + 1]}
  <2>1. PICK j \in 1 .. m : j = k - n + 1
    BY <1>1, <1>2, <1>9
  <2>2. /\ {i \in 1 .. m : k - n < i} = {i \in 1 .. m : j <= i}
        /\ {i \in 1 .. m : (k + 1) - n < i} = {i \in 1 .. m : j < i}
    BY <1>1, <1>2, <2>1
  <2>3. Missing(order, sorted, k) = {sorted[i] : i \in {i \in 1 .. m : j <= i}}
    BY <1>8, <1>9, <2>2, Zenon
  <2>4. Missing(order, sorted, k + 1) = {sorted[i] : i \in {i \in 1 .. m : j < i}}
    BY <1>8, <1>9, <2>2, Zenon
  <2>5. sorted[j] \in Missing(order, sorted, k)
        /\ \A tid \in Missing(order, sorted, k) : sorted[j] <= tid
    BY <1>2, <1>4, <2>3
  <2>6. Missing(order, sorted, k + 1) = Missing(order, sorted, k) \ {sorted[j]}
    BY <1>2, <1>4, <2>3, <2>4
  <2>7. QED
    BY <2>1, <2>5, <2>6
<1>10. ASSUME k = n + m PROVE Missing(order, sorted, k) = {}
  <2>1. Missing(order, sorted, k) = {sorted[j] : j \in {j \in 1 .. m : k - n < j}}
    BY <1>1, <1>2, <1>8, <1>10
  <2>2. QED
    BY <1>1, <1>2, <1>10, <2>1
<1>11. QED
  BY <1>6, <1>7, <1>9, <1>10 DEF n, m

-----------------------------------------------------------------------------
(* What the tests expect.                                                  *)

\* Main at one of Test4's steps.
LEMMA MainExpects ==
    ASSUME IInv, CodeLegal, ~exited, me = 0,
           NEW p, Len(p) \in Nat, NEW k \in 0 .. Len(p) - 1, Did(p, k),
           \/ p[k + 1][1] \in {"await", "shuffle"}
           \/ p[k + 1][1] = "spawn" /\ Returns("spawn", 0) = p[k + 1][3]
           \/ p[k + 1][1] = "terminate" /\ p[k + 1][2] \in DOMAIN threads /\ p[k + 1][3] = 0
    PROVE  Expectations
<1>1. /\ \A op : At(op) <=> op = p[k + 1][1]
      /\ arg = p[k + 1][2] /\ expected = p[k + 1][3]
  BY MainAt
<1>2. \A op \in {"total", "more", "flags", "random"} : ~At(op)
  BY <1>1
<1>3. ASSUME NEW op \in {"spawn", "terminate", "block", "resume", "sleep", "tid", "quantums"},
             At(op)
      PROVE  Returns(op, arg) = expected
  <2>1. op = p[k + 1][1]
    BY <1>1, <1>3
  <2>2. CASE op = "spawn"
    BY <1>1, <2>1, <2>2 DEF Returns
  <2>3. CASE op = "terminate"
    BY <1>1, <2>1, <2>3 DEF Returns, check_thread
  <2>4. QED
    BY <1>3, <2>1, <2>2, <2>3
<1>4. QED
  BY <1>2, <1>3 DEF Expectations

\* In its first half.
LEMMA FillingExpects ==
    ASSUME IInv, CodeLegal, ~exited, me = 0, NEW k \in 0 .. SPAWN_COUNT + 2, Filling(k)
    PROVE  Expectations
<1>1. SPAWN_COUNT \in Nat /\ Len(Test4.main) \in Nat /\ k \in 0 .. Len(Test4.main) - 1
  BY Sizes, Test4Main
<1>2. CASE k < SPAWN_COUNT
  <2>1. k + 1 \in 1 .. SPAWN_COUNT
    BY <1>1, <1>2
  <2>2. Test4.main[k + 1] = <<"spawn", "f", k + 1>>
    BY <2>1, Test4Main
  <2>3. LowestFree(k + 1)
    BY <1>1, <2>1, Sizes DEF Filling, LowestFree
  <2>4. Returns("spawn", 0) = k + 1
    BY <2>3, SpawnReturns
  <2>5. QED
    BY <1>1, <2>2, <2>4, MainExpects DEF Filling
<1>3. CASE k = SPAWN_COUNT
  <2>1. Test4.main[k + 1][1] = "await"
    BY <1>3, Test4Main
  <2>2. QED
    BY <1>1, <2>1, MainExpects DEF Filling
<1>4. CASE k = SPAWN_COUNT + 1
  <2>1. k + 1 = SPAWN_COUNT + 2
    BY <1>1, <1>4
  <2>2. Test4.main[k + 1] = <<"spawn", "f", -1>>
    BY <2>1, Test4Main
  <2>3. DOMAIN threads = Tid
    BY <1>1, <1>4, Sizes DEF Filling
  <2>4. Returns("spawn", 0) = -1
    BY <2>3, SpawnFails
  <2>5. QED
    BY <1>1, <2>2, <2>4, MainExpects DEF Filling
<1>5. CASE k = SPAWN_COUNT + 2
  <2>1. k + 1 = SPAWN_COUNT + 3
    BY <1>1, <1>5
  <2>2. Test4.main[k + 1][1] = "shuffle"
    BY <2>1, Test4Main
  <2>3. QED
    BY <1>1, <2>2, MainExpects DEF Filling
<1>6. QED
  BY <1>1, <1>2, <1>3, <1>4, <1>5

\* In its second half: which step is at hand, and what is known of the ids.
LEMMA RefillingAt ==
    ASSUME IInv,
           NEW order \in Injection(1 .. SPAWN_COUNT \div 3, 1 .. SPAWN_COUNT),
           NEW sorted \in Ascending(Range(order)), NEW k \in 0 .. Len(order) + Len(sorted),
           Refilling(order, sorted, k)
    PROVE  LET p == Removal(order, sorted) IN
           /\ Len(order) \in Nat /\ Len(sorted) \in Nat
           /\ Len(p) \in Nat /\ k \in 0 .. Len(p) - 1
           /\ k < Len(order) =>
                 /\ p[k + 1] = <<"terminate", order[k + 1], 0>>
                 /\ order[k + 1] \in DOMAIN threads \ {0}
           /\ Len(order) <= k /\ k < Len(order) + Len(sorted) =>
                 /\ p[k + 1] = <<"spawn", "f", sorted[k - Len(order) + 1]>>
                 /\ LowestFree(sorted[k - Len(order) + 1])
           /\ k = Len(order) + Len(sorted) => p[k + 1] = <<"terminate", 0, 0>>
<1> DEFINE n == Len(order)
           m == Len(sorted)
           p == Removal(order, sorted)
<1>1. n \in Nat /\ DOMAIN order = 1 .. n /\ m \in Nat /\ DOMAIN sorted = 1 .. m
  BY Drawn
<1>2. /\ Missing(order, sorted, k) \subseteq 1 .. SPAWN_COUNT
      /\ k < n => order[k + 1] \in 1 .. SPAWN_COUNT \ Missing(order, sorted, k)
      /\ n <= k /\ k < n + m =>
           /\ sorted[k - n + 1] \in Missing(order, sorted, k)
           /\ \A tid \in Missing(order, sorted, k) : sorted[k - n + 1] <= tid
  BY MissingNext
<1>3. DOMAIN threads = Tid \ Missing(order, sorted, k)
  BY DEF Refilling
<1> HIDE DEF n, m, p
<1>4. /\ Len(p) = n + m + 1
      /\ \A i \in 1 .. n : p[i] = <<"terminate", order[i], 0>>
      /\ \A i \in 1 .. m : p[n + i] = <<"spawn", "f", sorted[i]>>
      /\ p[n + m + 1] = <<"terminate", 0, 0>>
  <2>1. RemovalList(p, order, n, sorted, m)
    BY <1>1, RemovalSteps DEF p
  <2>2. QED
    BY <2>1 DEF RemovalList
<1>5. k \in 0 .. n + m
  BY DEF n, m
<1>6. Len(p) \in Nat /\ k \in 0 .. Len(p) - 1
  BY <1>1, <1>4, <1>5
<1>7. ASSUME k < n
      PROVE  /\ p[k + 1] = <<"terminate", order[k + 1], 0>>
             /\ order[k + 1] \in DOMAIN threads \ {0}
  <2>1. k + 1 \in 1 .. n
    BY <1>1, <1>5, <1>7
  <2>2. order[k + 1] \in 1 .. SPAWN_COUNT /\ order[k + 1] \notin Missing(order, sorted, k)
    BY <1>2, <1>7
  <2>3. order[k + 1] \in DOMAIN threads \ {0}
    BY <1>3, <2>2, Sizes
  <2>4. QED
    BY <1>4, <2>1, <2>3
<1>8. ASSUME n <= k, k < n + m
      PROVE  /\ p[k + 1] = <<"spawn", "f", sorted[k - n + 1]>>
             /\ LowestFree(sorted[k - n + 1])
  <2>1. PICK i \in 1 .. m : i = k - n + 1 /\ n + i = k + 1
    BY <1>1, <1>5, <1>8
  <2>2. p[k + 1] = <<"spawn", "f", sorted[i]>>
    BY <1>4, <2>1
  <2>3. sorted[i] \in Missing(order, sorted, k)
        /\ \A tid \in Missing(order, sorted, k) : sorted[i] <= tid
    BY <1>2, <1>8, <2>1
  <2>4. LowestFree(sorted[i])
    BY <1>2, <1>3, <2>3, Sizes DEF LowestFree
  <2>5. QED
    BY <2>1, <2>2, <2>4
<1>9. QED
  BY <1>1, <1>4, <1>6, <1>7, <1>8 DEF n, m, p

LEMMA RefillingExpects ==
    ASSUME IInv, CodeLegal, ~exited, me = 0,
           NEW order \in Injection(1 .. SPAWN_COUNT \div 3, 1 .. SPAWN_COUNT),
           NEW sorted \in Ascending(Range(order)), NEW k \in 0 .. Len(order) + Len(sorted),
           Refilling(order, sorted, k)
    PROVE  Expectations
<1> DEFINE p == Removal(order, sorted)
<1>1. /\ Len(order) \in Nat /\ Len(sorted) \in Nat
      /\ Len(p) \in Nat /\ k \in 0 .. Len(p) - 1 /\ Did(p, k)
  BY RefillingAt DEF Refilling
<1> HIDE DEF p
<1>2. CASE k < Len(order)
  <2>1. /\ p[k + 1] = <<"terminate", order[k + 1], 0>>
        /\ order[k + 1] \in DOMAIN threads
    BY <1>2, RefillingAt DEF p
  <2>2. QED
    BY <1>1, <2>1, MainExpects
<1>3. CASE Len(order) <= k /\ k < Len(order) + Len(sorted)
  <2>1. PICK tid : p[k + 1] = <<"spawn", "f", tid>> /\ LowestFree(tid)
    BY <1>3, RefillingAt DEF p
  <2>2. Returns("spawn", 0) = tid
    BY <2>1, SpawnReturns
  <2>3. QED
    BY <1>1, <2>1, <2>2, MainExpects
<1>4. CASE k = Len(order) + Len(sorted)
  <2>1. p[k + 1] = <<"terminate", 0, 0>> /\ 0 \in DOMAIN threads
    BY <1>4, RefillingAt DEF p, IInv, MainSchedulable
  <2>2. QED
    BY <1>1, <2>1, MainExpects
<1>5. QED
  BY <1>1, <1>2, <1>3, <1>4

\* Test5's main: any of its random calls, and its exit.
LEMMA Test5Expects ==
    ASSUME IInv, CodeLegal, ~exited, me = 0, Test5At
    PROVE  Expectations
<1>1. 0 \in DOMAIN threads /\ 0 \in Tid
  BY Sizes DEF IInv, MainSchedulable
<1>2. \/ code[0] = <<<<"random", 0, 0>>, <<"terminate", 0, 0>>>>
      \/ code[0] = <<<<"terminate", 0, 0>>>>
  BY DEF Test5At, Test5, Exit
<1>3. CASE code[0] = <<<<"random", 0, 0>>, <<"terminate", 0, 0>>>>
  <2>1. \A op : At(op) <=> op = "random"
    BY <1>3 DEF At
  <2>2. MaySpawn => Returns("spawn", 0) > 0
    <3> SUFFICES ASSUME MaySpawn PROVE Returns("spawn", 0) > 0
      OBVIOUS
    <3>1. PICK new : LowestFree(new)
      BY MaySpawnFree DEF Test5At
    <3>2. new \in Tid /\ new # 0
      BY <1>1, <3>1 DEF LowestFree
    <3>3. Returns("spawn", 0) = new
      BY <3>1, SpawnReturns
    <3>4. QED
      BY <3>2, <3>3, Sizes
  <2>3. \A tid \in activeThreads, op \in {"terminate", "block", "resume"} : Returns(op, tid) = 0
    <3>1. ASSUME NEW tid \in activeThreads PROVE tid \in DOMAIN threads /\ tid # 0
      BY DEF Test5At
    <3>2. QED
      BY <3>1 DEF Returns, check_thread, MayBlock
  <2>4. QED
    BY <2>1, <2>2, <2>3 DEF Expectations, RandomExpects
<1>4. CASE code[0] = <<<<"terminate", 0, 0>>>>
  <2>1. (\A op : At(op) <=> op = "terminate") /\ arg = 0 /\ expected = 0
    BY <1>4 DEF At, arg, expected
  <2>2. QED
    BY <1>1, <2>1 DEF Expectations, Returns, check_thread
<1>5. QED
  BY <1>2, <1>3, <1>4

\* Whichever thread runs.
LEMMA QuickExpects ==
    ASSUME IInv, CodeLegal, Quick, QuickInv
    PROVE  Expectations
<1> SUFFICES ASSUME ~exited PROVE Expectations
  BY DEF Expectations, At
<1>1. CASE me # 0
  BY <1>1, SilentAt DEF Expectations
<1>2. CASE me = 0 /\ test = 4
  <2>1. Test4At
    BY <1>2 DEF QuickInv
  <2>2. QED
    BY <1>2, <2>1, FillingExpects, RefillingExpects DEF Test4At
<1>3. CASE me = 0 /\ test = 5
  BY <1>3, Test5Expects DEF QuickInv
<1>4. QED
  BY <1>1, <1>2, <1>3 DEF Quick

-----------------------------------------------------------------------------
(* The steps of the quick tests.                                           *)

LEMMA SilentTail ==
    ASSUME NEW S, NEW steps \in Seq(S), steps # <<>>, Silent(steps)
    PROVE  Silent(Tail(steps))
<1>1. /\ Len(steps) \in Nat \ {0} /\ DOMAIN steps = 1 .. Len(steps)
      /\ Tail(steps) \in Seq(S) /\ Len(Tail(steps)) = Len(steps) - 1
      /\ \A i \in 1 .. Len(Tail(steps)) : Tail(steps)[i] = steps[i + 1]
  BY HeadTailProperties, LenProperties, EmptySeq
<1>2. DOMAIN Tail(steps) = 1 .. Len(steps) - 1
  BY <1>1, LenProperties
<1>3. QED
  BY <1>1, <1>2 DEF Silent

\* A step takes the running thread's list on, starts new threads, or does neither,
\* unless main has drawn the ids to remove.
LEMMA CodeStep ==
    ASSUME IInv, CodeLegal, ClientNext, Quick, ~Shuffle
    PROVE  /\ UNCHANGED test
           /\ \A tid \in Tid :
                 \/ code'[tid] = code[tid]
                 \/ tid = me /\ code[tid] # <<>> /\ code'[tid] = Tail(code[tid])
                 \/ tid \notin DOMAIN threads /\ code'[tid] = Program.f
<1>1. UNCHANGED test
  BY DEF ClientNext, Change, Random, Look, Store, BusyWait, Timer, client
<1>2. ASSUME NEW op, At(op), Done
      PROVE  \A tid \in Tid : \/ code'[tid] = code[tid]
                              \/ tid = me /\ code[tid] # <<>> /\ code'[tid] = Tail(code[tid])
  BY <1>2 DEF Done, At, CodeLegal
<1>3. ASSUME NEW tid \in Tid
      PROVE  \/ Entered("f")[tid] = code[tid]
             \/ tid \notin DOMAIN threads /\ Entered("f")[tid] = Program.f
  BY DEF Entered
<1>4. CASE At("spawn") /\ code' = [Entered(arg) EXCEPT ![me] = Tail(@)]
  <2>1. arg = "f"
    BY <1>4, StepAtHand, QuickPrograms DEF At, arg, Legal
  <2>2. me \in DOMAIN threads /\ me \in Tid /\ code[me] # <<>>
        /\ DOMAIN Entered("f") = Tid /\ Entered("f")[me] = code[me]
    BY <1>4, StepAtHand DEF Entered
  <2>3. QED
    BY <1>1, <1>3, <1>4, <2>1, <2>2
<1>5. CASE code' = Entered("f")
  BY <1>1, <1>3, <1>5
<1>6. CASE UNCHANGED code
  BY <1>1, <1>6
<1>7. CASE \E op : At(op) /\ Done
  BY <1>1, <1>2, <1>7
<1>8. QED
  <2>1. CASE Change
    BY <1>4, <1>7, <2>1 DEF Change
  <2>2. CASE Random
    BY <1>5, <1>6, <1>7, <2>2 DEF Random
  <2>3. CASE Look \/ Store \/ BusyWait
    BY <1>6, <1>7, <2>3 DEF Look, Store, BusyWait
  <2>4. CASE Timer
    BY <1>6, <2>4 DEF Timer, client
  <2>5. QED
    BY <2>1, <2>2, <2>3, <2>4 DEF ClientNext

\* While another thread runs, main's steps, the threads and Test5's set stay.
LEMMA OthersStep ==
    ASSUME IInv, CodeLegal, ClientNext, Quick, QuickInv, me # 0
    PROVE  UNCHANGED <<test, activeThreads, DOMAIN threads>> /\ code'[0] = code[0]
<1>1. \A op : At(op) => op \in {"load", "store", "spin"}
  BY SilentAt
<1>2. Store \/ Timer
  BY <1>1 DEF ClientNext, Change, Shuffle, Random, Look, BusyWait, Spinning
<1>3. CASE Store
  BY <1>3, Sizes DEF Store, Done, CodeLegal, vars
<1>4. CASE Timer
  BY <1>4 DEF Timer, change_thread, run_next_thread, client, statics
<1>5. QED
  BY <1>2, <1>3, <1>4

\* The threads beside main still make no calls.
LEMMA SilentStep ==
    ASSUME IInv, CodeLegal, ClientNext, Quick, QuickInv
    PROVE  \A tid \in Tid \ {0} : Silent(code'[tid])
<1> SUFFICES ASSUME NEW tid \in Tid \ {0} PROVE Silent(code'[tid])
  OBVIOUS
<1>1. Silent(code[tid]) /\ code[tid] \in Seq(Range(code[tid])) /\ Silent(Program.f)
  BY QuickPrograms DEF QuickInv, CodeLegal, LegalCode
<1>2. code[tid] # <<>> => Silent(Tail(code[tid]))
  BY <1>1, SilentTail
<1>3. CASE Shuffle
  <2>1. me = 0
    BY <1>3, SilentAt DEF Shuffle
  <2>2. code'[tid] = code[tid]
    BY <1>3, <2>1 DEF Shuffle, CodeLegal
  <2>3. QED
    BY <1>1, <2>2
<1>4. QED
  BY <1>1, <1>2, <1>3, CodeStep

\* When main comes to a call, either the timer expires or the call is made.
LEMMA MainStep ==
    ASSUME IInv, CodeLegal, ClientNext, Quick, me = 0, NEW op, \A o : At(o) <=> o = op
    PROVE  \/ UNCHANGED <<code, activeThreads, DOMAIN threads>>
           \/ op = "spawn" /\ uthread_spawn /\ code'[0] = Tail(code[0])
           \/ op = "terminate" /\ uthread_terminate(arg) /\ code'[0] = Tail(code[0])
           \/ op = "shuffle" /\ Shuffle
           \/ op = "random" /\ Random
           \/ op \notin {"spawn", "terminate", "shuffle", "random"}
<1>1. CASE Timer
  BY <1>1 DEF Timer, change_thread, run_next_thread, client, statics
<1>2. CASE Change
  <2>1. 0 \in Tid /\ 0 \in DOMAIN threads /\ DOMAIN code = Tid
    BY <1>2, StepAtHand DEF Change, CodeLegal
  <2>2. Done => code'[0] = Tail(code[0])
    BY <2>1 DEF Done
  <2>3. code' = [Entered(arg) EXCEPT ![me] = Tail(@)] => code'[0] = Tail(code[0])
    BY <2>1 DEF Entered
  <2>4. QED
    BY <1>2, <2>2, <2>3 DEF Change
<1>3. CASE Shuffle \/ Random
  BY <1>3 DEF Shuffle, Random
<1>4. CASE Look \/ Store \/ BusyWait
  BY <1>4 DEF Look, Store, BusyWait
<1>5. QED
  BY <1>1, <1>2, <1>3, <1>4 DEF ClientNext

\* Test4's first half goes on, or the ids to remove are drawn.
LEMMA FillingStep ==
    ASSUME IInv, CodeLegal, ClientNext, Quick, ~exited, me = 0,
           NEW k \in 0 .. SPAWN_COUNT + 2, Filling(k)
    PROVE  Test4At'
<1> DEFINE step == Test4.main[k + 1]
<1>1. SPAWN_COUNT \in Nat /\ Len(Test4.main) = SPAWN_COUNT + 3
      /\ k \in 0 .. Len(Test4.main) - 1 /\ Did(Test4.main, k)
      /\ DOMAIN threads = {tid \in Tid : tid <= k}
  BY Sizes, Test4Main DEF Filling
<1>2. /\ \A op : At(op) <=> op = step[1]
      /\ arg = step[2]
      /\ code'[0] = Tail(code[0]) => Did(Test4.main, k + 1)'
  BY <1>1, MainAt
<1>3. CASE UNCHANGED <<code, DOMAIN threads>>
  <2>1. Filling(k)'
    BY <1>1, <1>3 DEF Filling, Did
  <2>2. QED
    BY <2>1 DEF Test4At
<1>4. ASSUME k < SPAWN_COUNT + 2, code'[0] = Tail(code[0]),
             DOMAIN threads' = {tid \in Tid : tid <= k + 1}
      PROVE  Test4At'
  <2>1. Filling(k + 1)'
    BY <1>2, <1>4 DEF Filling
  <2>2. k + 1 \in 0 .. SPAWN_COUNT + 2
    BY <1>1, <1>4
  <2>3. QED
    BY <2>1, <2>2 DEF Test4At
<1> HIDE DEF step
<1>5. CASE k < SPAWN_COUNT
  <2>1. k + 1 \in 1 .. SPAWN_COUNT
    BY <1>1, <1>5
  <2>2. step = <<"spawn", "f", k + 1>>
    BY <2>1, Test4Main DEF step
  <2>3. LowestFree(k + 1)
    BY <1>1, <2>1, Sizes DEF LowestFree
  <2>4. CASE uthread_spawn /\ code'[0] = Tail(code[0])
    <3>1. DOMAIN threads' = DOMAIN threads \cup {k + 1}
      BY <2>3, <2>4, SpawnReturns
    <3>2. DOMAIN threads' = {tid \in Tid : tid <= k + 1}
      BY <1>1, <2>1, <3>1, Sizes
    <3>3. QED
      BY <1>1, <1>4, <1>5, <2>4, <3>2
  <2>5. QED
    BY <1>2, <1>3, <2>2, <2>4, MainStep
<1>6. CASE k = SPAWN_COUNT
  <2>1. step = <<"await", SPAWN_COUNT, 0>>
    BY <1>6, Test4Main DEF step
  <2>2. \A op : At(op) => op = "await"
    BY <1>2, <2>1
  <2>3. BusyWait \/ Timer
    BY <2>2 DEF ClientNext, Change, Shuffle, Random, Look, Store
  <2>4. CASE BusyWait
    <3>1. UNCHANGED threads /\ Done
      BY <2>2, <2>4 DEF BusyWait, vars
    <3>2. code'[0] = Tail(code[0])
      BY <3>1, Sizes DEF Done, CodeLegal
    <3>3. DOMAIN threads' = {tid \in Tid : tid <= k + 1}
      BY <1>1, <1>6, <3>1, Sizes
    <3>4. QED
      BY <1>1, <1>4, <1>6, <3>2, <3>3
  <2>5. CASE Timer
    BY <1>3, <2>5 DEF Timer, change_thread, run_next_thread, client
  <2>6. QED
    BY <2>3, <2>4, <2>5
<1>7. CASE k = SPAWN_COUNT + 1
  <2>1. k + 1 = SPAWN_COUNT + 2
    BY <1>1, <1>7
  <2>2. step = <<"spawn", "f", -1>>
    BY <2>1, Test4Main DEF step
  <2>3. DOMAIN threads = Tid
    BY <1>1, <1>7, Sizes
  <2>4. CASE uthread_spawn /\ code'[0] = Tail(code[0])
    <3>1. DOMAIN threads' = Tid
      BY <2>3, <2>4, SpawnFails
    <3>2. DOMAIN threads' = {tid \in Tid : tid <= k + 1}
      BY <1>1, <1>7, <3>1, Sizes
    <3>3. QED
      BY <1>1, <1>4, <1>7, <2>4, <3>2
  <2>5. QED
    BY <1>2, <1>3, <2>2, <2>4, MainStep
<1>8. CASE k = SPAWN_COUNT + 2
  <2>1. k + 1 = SPAWN_COUNT + 3
    BY <1>1, <1>8
  <2>2. step = <<"shuffle", 0, 0>>
    BY <2>1, Test4Main DEF step
  <2>3. CASE Shuffle
    <3>1. PICK order \in Injection(1 .. SPAWN_COUNT \div 3, 1 .. SPAWN_COUNT) :
             \E sorted \in Ascending(Range(order)) :
                code' = [code EXCEPT ![me] = Removal(order, sorted)]
      BY <2>3 DEF Shuffle
    <3>2. PICK sorted \in Ascending(Range(order)) :
                code' = [code EXCEPT ![me] = Removal(order, sorted)]
      BY <3>1
    <3>3. code'[0] = Removal(order, sorted)
      BY <3>2, Sizes DEF CodeLegal
    <3>4. Len(order) \in Nat /\ Len(sorted) \in Nat /\ Len(Removal(order, sorted)) \in Nat
      <4>1. /\ Len(order) \in Nat /\ DOMAIN order = 1 .. Len(order)
            /\ Len(sorted) \in Nat /\ DOMAIN sorted = 1 .. Len(sorted)
        BY Drawn
      <4>2. RemovalList(Removal(order, sorted), order, Len(order), sorted, Len(sorted))
        BY <4>1, RemovalSteps
      <4>3. QED
        BY <4>1, <4>2 DEF RemovalList
    <3>5. Did(Removal(order, sorted), 0)'
      BY <3>3, <3>4 DEF Did
    <3>6. DOMAIN threads' = Tid
      BY <1>1, <1>8, <2>3, Sizes DEF Shuffle, vars
    <3>7. Missing(order, sorted, 0) = {}
      BY <3>4, MissingNext
    <3>8. Refilling(order, sorted, 0)'
      BY <3>5, <3>6, <3>7 DEF Refilling
    <3>9. 0 \in 0 .. Len(order) + Len(sorted)
      BY <3>4
    <3>10. QED
      BY <3>8, <3>9 DEF Test4At
  <2>4. QED
    BY <1>2, <1>3, <2>2, <2>3, MainStep
<1>9. QED
  BY <1>1, <1>5, <1>6, <1>7, <1>8

\* Another thread than the caller and main is terminated.
LEMMA TerminateRemoves ==
    ASSUME IInv, ~exited, NEW tid \in DOMAIN threads \ {0, me}, uthread_terminate(tid)
    PROVE  DOMAIN threads' = DOMAIN threads \ {tid}
<1>1. threads[tid].state # "RUNNNING"
  BY DEF IInv, StatesAgree, me
<1>2. remove_other_thread(tid)
  BY <1>1 DEF uthread_terminate, check_thread, remove_running_thread
<1>3. QED
  BY <1>2 DEF remove_other_thread, Without, Restrict

\* Test4's second half goes on.
LEMMA RefillingStep ==
    ASSUME IInv, CodeLegal, ClientNext, Quick, ~exited, ~exited', me = 0,
           NEW order \in Injection(1 .. SPAWN_COUNT \div 3, 1 .. SPAWN_COUNT),
           NEW sorted \in Ascending(Range(order)), NEW k \in 0 .. Len(order) + Len(sorted),
           Refilling(order, sorted, k)
    PROVE  Test4At'
<1> DEFINE p == Removal(order, sorted)
           n == Len(order)
           m == Len(sorted)
<1>1. /\ n \in Nat /\ m \in Nat /\ k \in 0 .. n + m
      /\ Len(p) \in Nat /\ k \in 0 .. Len(p) - 1 /\ Did(p, k)
      /\ DOMAIN threads = Tid \ Missing(order, sorted, k)
  BY RefillingAt DEF Refilling
<1>2. /\ k < n => p[k + 1] = <<"terminate", order[k + 1], 0>>
                  /\ order[k + 1] \in DOMAIN threads \ {0}
      /\ n <= k /\ k < n + m => p[k + 1] = <<"spawn", "f", sorted[k - n + 1]>>
                                /\ LowestFree(sorted[k - n + 1])
      /\ k = n + m => p[k + 1] = <<"terminate", 0, 0>>
  BY RefillingAt
<1>3. /\ k < n => Missing(order, sorted, k + 1) = Missing(order, sorted, k) \cup {order[k + 1]}
      /\ n <= k /\ k < n + m =>
            /\ Missing(order, sorted, k + 1) =
                  Missing(order, sorted, k) \ {sorted[k - n + 1]}
            /\ sorted[k - n + 1] \in Missing(order, sorted, k)
  BY MissingNext
<1>4. CASE UNCHANGED <<code, DOMAIN threads>>
  <2>1. Refilling(order, sorted, k)'
    BY <1>4 DEF Refilling, Did
  <2>2. QED
    BY <2>1 DEF Test4At
<1>5. ASSUME k < n + m, code'[0] = Tail(code[0]),
             DOMAIN threads' = Tid \ Missing(order, sorted, k + 1)
      PROVE  Test4At'
  <2>1. Did(p, k + 1)'
    BY <1>1, <1>5, MainAt
  <2>2. Refilling(order, sorted, k + 1)'
    BY <1>5, <2>1 DEF Refilling
  <2>3. k + 1 \in 0 .. n + m
    BY <1>1, <1>5
  <2>4. QED
    BY <2>2, <2>3 DEF Test4At
<1> HIDE DEF p, n, m
<1>6. (\A op : At(op) <=> op = p[k + 1][1]) /\ arg = p[k + 1][2]
  BY <1>1, MainAt
<1>7. CASE k < n
  <2>1. PICK tid \in DOMAIN threads \ {0} : tid = order[k + 1]
    BY <1>2, <1>7
  <2>2. (\A op : At(op) <=> op = "terminate") /\ arg = tid
    BY <1>2, <1>6, <1>7, <2>1
  <2>3. CASE uthread_terminate(tid) /\ code'[0] = Tail(code[0])
    <3>1. DOMAIN threads' = DOMAIN threads \ {tid}
      BY <2>1, <2>3, TerminateRemoves
    <3>2. DOMAIN threads' = Tid \ Missing(order, sorted, k + 1)
      BY <1>1, <1>3, <1>7, <2>1, <3>1
    <3>3. QED
      BY <1>1, <1>5, <1>7, <2>3, <3>2
  <2>4. QED
    BY <1>4, <2>2, <2>3, MainStep
<1>8. CASE n <= k /\ k < n + m
  <2>1. PICK tid : tid = sorted[k - n + 1] /\ LowestFree(tid)
    BY <1>2, <1>8
  <2>2. \A op : At(op) <=> op = "spawn"
    BY <1>2, <1>6, <1>8
  <2>3. CASE uthread_spawn /\ code'[0] = Tail(code[0])
    <3>1. DOMAIN threads' = DOMAIN threads \cup {tid} /\ tid \in Tid
      BY <2>1, <2>3, SpawnReturns DEF LowestFree
    <3>2. DOMAIN threads' = Tid \ Missing(order, sorted, k + 1)
      BY <1>1, <1>3, <1>8, <2>1, <3>1
    <3>3. QED
      BY <1>5, <1>8, <2>3, <3>2
  <2>4. QED
    BY <1>4, <2>2, <2>3, MainStep
<1>9. CASE k = n + m
  <2>1. (\A op : At(op) <=> op = "terminate") /\ arg = 0
    BY <1>2, <1>6, <1>9
  <2>2. ~uthread_terminate(0)
    BY DEF uthread_terminate, handleForcedExit
  <2>3. QED
    BY <1>4, <2>1, <2>2, MainStep
<1>10. QED
  BY <1>1, <1>7, <1>8, <1>9

\* Test5's main goes on.
LEMMA Test5Step ==
    ASSUME IInv, CodeLegal, ClientNext, Quick, ~exited, ~exited', me = 0, Test5At
    PROVE  Test5At'
<1>1. 0 \in Tid /\ 0 \in DOMAIN threads /\ DOMAIN code = Tid
  BY Sizes DEF IInv, MainSchedulable, CodeLegal
<1>2. /\ activeThreads = DOMAIN threads \ {0}
      /\ \/ code[0] = <<<<"random", 0, 0>>, <<"terminate", 0, 0>>>>
         \/ code[0] = <<<<"terminate", 0, 0>>>>
  BY DEF Test5At, Test5, Exit
<1>3. CASE UNCHANGED <<code, activeThreads, DOMAIN threads>>
  BY <1>3 DEF Test5At
<1>4. CASE code[0] = <<<<"random", 0, 0>>, <<"terminate", 0, 0>>>>
  <2>1. \A op : At(op) <=> op = "random"
    BY <1>4 DEF At
  <2>2. CASE Random
    <3>1. ASSUME MaySpawn, uthread_spawn, code' = Entered("f"),
                 activeThreads' = activeThreads \cup {Returns("spawn", 0)}
          PROVE  Test5At'
      <4>1. PICK new : LowestFree(new)
        BY <1>2, <3>1, MaySpawnFree
      <4>2. DOMAIN threads' = DOMAIN threads \cup {new} /\ Returns("spawn", 0) = new
        BY <3>1, <4>1, SpawnReturns
      <4>3. new # 0
        BY <1>1, <4>1 DEF LowestFree
      <4>4. code'[0] = code[0]
        BY <1>1, <3>1 DEF Entered
      <4>5. QED
        BY <1>2, <3>1, <4>2, <4>3, <4>4 DEF Test5At
    <3>2. ASSUME NEW tid \in activeThreads, uthread_terminate(tid), UNCHANGED code,
                 activeThreads' = activeThreads \ {tid}
          PROVE  Test5At'
      <4>1. DOMAIN threads' = DOMAIN threads \ {tid}
        BY <1>2, <3>2, TerminateRemoves
      <4>2. QED
        BY <1>2, <3>2, <4>1 DEF Test5At
    <3>3. ASSUME NEW tid \in activeThreads, uthread_block(tid) \/ uthread_resume(tid),
                 UNCHANGED <<code, activeThreads>>
          PROVE  Test5At'
      <4>1. DOMAIN threads' = DOMAIN threads
        BY <3>3 DEF uthread_block, uthread_resume, block_other_thread, block_running_thread,
                    unblock_thread, run_next_thread, handleErrorLibrary, vars
      <4>2. QED
        BY <1>3, <3>3, <4>1
    <3>4. ASSUME UNCHANGED <<vars, activeThreads>>, Done
          PROVE  Test5At'
      <4>1. code'[0] = <<<<"terminate", 0, 0>>>>
        <5>1. code'[0] = Tail(code[0])
          BY <1>1, <3>4 DEF Done
        <5>2. QED
          BY <1>4, <5>1
      <4>2. QED
        BY <1>2, <3>4, <4>1 DEF Test5At, Exit, vars
    <3>5. QED
      BY <2>2, <3>1, <3>2, <3>3, <3>4 DEF Random
  <2>3. QED
    BY <1>3, <2>1, <2>2, MainStep
<1>5. CASE code[0] = <<<<"terminate", 0, 0>>>>
  <2>1. (\A op : At(op) <=> op = "terminate") /\ arg = 0
    BY <1>5 DEF At, arg
  <2>2. ~uthread_terminate(0)
    BY DEF uthread_terminate, handleForcedExit
  <2>3. QED
    BY <1>3, <2>1, <2>2, MainStep
<1>6. QED
  BY <1>2, <1>4, <1>5

LEMMA QuickInit == ClientInit => QuickInv
<1> SUFFICES ASSUME ClientInit, Quick PROVE QuickInv
  BY DEF QuickInv
<1>1. \A tid \in Tid \ {0} : Silent(code[tid])
  BY DEF ClientInit, Silent
<1>2. code[0] = Program.main /\ DOMAIN threads = {0} /\ activeThreads = {}
  BY Sizes DEF ClientInit, Init
<1>3. ASSUME test = 4 PROVE Test4At
  <2>1. code[0] = Test4.main
    BY <1>2, <1>3, QuickPrograms
  <2>2. SPAWN_COUNT \in Nat /\ Len(Test4.main) \in Nat
    BY Sizes, Test4Main
  <2>3. Did(Test4.main, 0)
    BY <2>1, <2>2 DEF Did
  <2>4. Filling(0)
    BY <1>2, <2>3, Sizes DEF Filling
  <2>5. 0 \in 0 .. SPAWN_COUNT + 2
    BY <2>2
  <2>6. QED
    BY <2>4, <2>5 DEF Test4At
<1>4. ASSUME test = 5 PROVE Test5At
  BY <1>2, <1>4, QuickPrograms DEF Test5At
<1>5. QED
  BY <1>1, <1>3, <1>4 DEF QuickInv

LEMMA QuickStep ==
    ASSUME IInv, CodeLegal, QuickInv, [ClientNext]_<<vars, client>>
    PROVE  QuickInv'
<1>1. CASE UNCHANGED <<vars, client>>
  BY <1>1 DEF vars, client, statics, QuickInv, Quick, Silent, Test4At, Filling, Refilling, Did,
              Test5At
<1>2. UNCHANGED test
  BY DEF ClientNext, Change, Shuffle, Random, Look, Store, BusyWait, Timer, client
<1>3. CASE ClientNext /\ Quick
  <2>1. \A tid \in Tid \ {0} : Silent(code'[tid])
    BY <1>3, SilentStep
  <2>2. ~exited
    BY <1>3 DEF ClientNext, Change, Shuffle, Random, Look, Store, BusyWait, Timer, At, Spinning,
                change_thread
  <2>3. ASSUME test = 4, ~exited' PROVE Test4At'
    <3>1. Test4At
      BY <1>3, <2>2, <2>3 DEF QuickInv
    <3>2. CASE me # 0
      <4>1. UNCHANGED <<code[0], DOMAIN threads>>
        BY <1>3, <3>2, OthersStep
      <4>2. QED
        BY <3>1, <4>1 DEF Test4At, Filling, Refilling, Did
    <3>3. CASE me = 0
      BY <1>3, <2>2, <2>3, <3>1, <3>3, FillingStep, RefillingStep DEF Test4At
    <3>4. QED
      BY <3>2, <3>3
  <2>4. ASSUME test = 5, ~exited' PROVE Test5At'
    <3>1. Test5At
      BY <1>3, <2>2, <2>4 DEF QuickInv
    <3>2. CASE me # 0
      BY <1>3, <3>1, <3>2, OthersStep DEF Test5At
    <3>3. CASE me = 0
      BY <1>3, <2>2, <2>4, <3>1, <3>3, Test5Step
    <3>4. QED
      BY <3>2, <3>3
  <2>5. QED
    BY <1>2, <2>1, <2>3, <2>4 DEF QuickInv
<1>4. CASE ~Quick
  BY <1>2, <1>4 DEF QuickInv, Quick
<1>5. QED
  BY <1>1, <1>3, <1>4

\* However many thread ids there are (two at least; 100 in uthreads.h), and
\* whenever the timer expires: in Test4 the ids are given in ascending order, the
\* spawn beyond the last one fails, each thread of the third that is drawn can be
\* terminated, in whatever order they were drawn, and the same number of spawns
\* returns their ids in sorted order.  In Test5 a spawn succeeds as long as the
\* test's own set has room, each thread of that set can be terminated, blocked and
\* resumed after whatever random calls came before, and the test can be exited.
THEOREM QuickTestsPass == ClientSpec => [](Quick => Expectations)
<1>1. ClientInit => QuickInv
  BY QuickInit
<1>2. IInv /\ CodeLegal /\ QuickInv /\ [ClientNext]_<<vars, client>> => QuickInv'
  BY QuickStep
<1>3. IInv /\ CodeLegal /\ QuickInv => (Quick => Expectations)
  BY QuickExpects
<1>4. QED
  BY <1>1, <1>2, <1>3, ClientsUseScheduler, PTL DEF ClientSpec
=============================================================================
