------------------------ MODULE RoundRobinInvariant -------------------------
(***************************************************************************)
(* Proof that no thread is in two places in the round robin, for every     *)
(* number of threads and every set of naps.                                *)
(*                                                                         *)
(* The invariant is inductive: that those who come to the queue are not in *)
(* it follows from the queue, the naps and the running thread being        *)
(* disjoint, and from a stopped thread not coming when its nap ends.       *)
(***************************************************************************)
EXTENDS RoundRobin, ListingsProof

\* The threads are finitely many, and so is every set of them.
LEMMA ThreadsFinite ==
    ASSUME NEW S \in SUBSET Tid
    PROVE  IsFiniteSet(S)
<1>1. IsFiniteSet(Tid)
  BY RoundRobinAssumption, FS_Interval DEF Tid
<1>2. QED
  BY <1>1, FS_Subset

\* A thread that is taken out of the queue is not in it, and all others are.
LEMMA RemovedListing ==
    ASSUME NEW S, ListsIn(Tid, queue, S), NEW tid, NEW q \in Removed(queue, tid)
    PROVE  ListsIn(Tid, q, S \ {tid})
<1> DEFINE P == {i \in DOMAIN queue : queue[i] # tid}
<1>1. PICK kept \in Ascending(P) : q = [j \in DOMAIN kept |-> queue[kept[j]]]
  BY DEF Removed
<1>2. ListsIn(Tid, q, {queue[i] : i \in P})
  BY <1>1, KeptListing
<1>3. {queue[i] : i \in P} = S \ {tid}
  BY DEF ListsIn, Range
<1>4. QED
  BY <1>2, <1>3

\* A new quantum, when nobody who yields, naps or is stopped waits in the queue,
\* and who yields is not stopped and does not nap.
LEMMA QuantumKeepsApart ==
    ASSUME RoundRobinTypeOK, NEW yielding \in SUBSET Tid, NEW stopped \in SUBSET Tid,
           NEW naps, DOMAIN naps \subseteq Tid, \A tid \in DOMAIN naps : naps[tid] \in Nat,
           Range(queue) \cap (yielding \cup stopped \cup DOMAIN naps) = {},
           yielding \cap (stopped \cup DOMAIN naps) = {},
           NextQuantum(yielding, stopped, naps), blocked' = stopped, UNCHANGED ended
    PROVE  RoundRobinTypeOK'
<1> DEFINE came == (Over(naps) \ stopped) \cup yielding
           S == Range(queue) \cup came
<1>1. ListsIn(Tid, queue, Range(queue))
  BY DEF RoundRobinTypeOK, ListsIn
<1>2. PICK come \in Orders(came) :
         /\ queue \o come # <<>>
         /\ running' = Head(queue \o come)
         /\ queue' = Tail(queue \o come)
         /\ left' = [tid \in DOMAIN naps \ Over(naps) |-> naps[tid] - 1]
  BY DEF NextQuantum
<1>3. came \subseteq Tid /\ Range(queue) \cap came = {}
  BY DEF Over
<1>4. ListsIn(Tid, come, came)
  <2>1. come \in Seq(came) /\ IsInjective(come) /\ Range(come) = came
    BY <1>2, <1>3, ThreadsFinite, OrdersList
  <2>2. come \in Seq(Tid)
    BY <1>3, <2>1, SeqMonotonic
  <2>3. QED
    BY <2>1, <2>2 DEF ListsIn
<1>5. ListsIn(Tid, queue \o come, S)
  BY <1>1, <1>3, <1>4, ConcatListings
<1>6. S # {}
  <2>1. queue \o come \in Seq(Tid) /\ Range(queue \o come) = S
    BY <1>5 DEF ListsIn
  <2>2. 1 \in DOMAIN (queue \o come)
    BY <1>2, <2>1
  <2>3. QED
    BY <2>1, <2>2, ZenonT(30) DEF Range
<1>7. running' \in S /\ ListsIn(Tid, queue', S \ {running'})
  BY <1>2, <1>5, <1>6, TailListing
<1> HIDE DEF came
<1>8. S \subseteq Tid
  <2>1. Range(queue) \subseteq Tid
    BY DEF RoundRobinTypeOK, Range
  <2>2. QED
    BY <1>3, <2>1
<1>9. DOMAIN left' \subseteq DOMAIN naps \ Over(naps)
      /\ \A tid \in DOMAIN left' : left'[tid] \in Nat
  BY <1>2 DEF Over
<1>10. S \cap (stopped \cup (DOMAIN naps \ Over(naps))) = {}
  BY DEF came, Over
<1> HIDE DEF S
<1>11. /\ queue' \in Seq(Tid) /\ IsInjective(queue') /\ Range(queue') = S \ {running'}
  BY <1>7 DEF ListsIn
<1>12. Range(queue') \cap ({running'} \cup blocked' \cup DOMAIN left') = {}
       /\ running' \notin blocked' \cup DOMAIN left'
  BY <1>7, <1>9, <1>10, <1>11
<1>13. blocked' \subseteq Tid /\ DOMAIN left' \subseteq Tid /\ running' \in Tid
       /\ ended' \in BOOLEAN
  BY <1>7, <1>8, <1>9 DEF RoundRobinTypeOK
<1>14. QED
  BY <1>9, <1>11, <1>12, <1>13 DEF RoundRobinTypeOK

\* The four ways into a new quantum.
LEMMA NewQuantumKeepsApart ==
    ASSUME RoundRobinTypeOK, NewQuantum PROVE RoundRobinTypeOK'
<1>1. CASE Expire
  BY <1>1, QuantumKeepsApart DEF Expire, RoundRobinTypeOK
<1>2. ASSUME NEW n \in Naps, Sleep(n) PROVE RoundRobinTypeOK'
  <2> DEFINE naps == [tid \in DOMAIN left \cup {running} |->
                        IF tid = running THEN n + 1 ELSE left[tid]]
  <2>1. DOMAIN naps \subseteq Tid /\ \A tid \in DOMAIN naps : naps[tid] \in Nat
    BY RoundRobinAssumption DEF RoundRobinTypeOK
  <2>2. DOMAIN naps = DOMAIN left \cup {running} /\ NextQuantum({}, blocked, naps)
        /\ UNCHANGED <<blocked, ended>>
    BY <1>2 DEF Sleep
  <2> HIDE DEF naps
  <2>3. QED
    BY <2>1, <2>2, QuantumKeepsApart DEF RoundRobinTypeOK
<1>3. CASE BlockItself
  <2>1. blocked' = blocked \cup {running} /\ NextQuantum({}, blocked \cup {running}, left)
        /\ UNCHANGED ended
    BY <1>3 DEF BlockItself
  <2>2. QED
    BY <2>1, QuantumKeepsApart DEF RoundRobinTypeOK
<1>4. CASE TerminateItself
  BY <1>4, QuantumKeepsApart DEF TerminateItself, RoundRobinTypeOK
<1>5. QED
  BY <1>1, <1>2, <1>3, <1>4 DEF NewQuantum

\* What the running thread does to the others leaves each in one place.
LEMMA SameQuantumKeepsApart ==
    ASSUME RoundRobinTypeOK, SameQuantum PROVE RoundRobinTypeOK'
<1>1. ListsIn(Tid, queue, Range(queue))
  BY DEF RoundRobinTypeOK, ListsIn
<1>2. ASSUME NEW tid \in Tid, Spawn(tid) PROVE RoundRobinTypeOK'
  <2>1. tid \notin {running} \cup Range(queue) \cup blocked \cup DOMAIN left
    BY <1>2 DEF Spawn, Alive
  <2>2. ListsIn(Tid, queue', Range(queue) \cup {tid})
    BY <1>1, <1>2, <2>1, AppendListing DEF Spawn
  <2>3. QED
    BY <1>2, <2>1, <2>2 DEF Spawn, RoundRobinTypeOK, ListsIn
<1>3. ASSUME NEW tid \in Tid, Terminate(tid) PROVE RoundRobinTypeOK'
  <2>1. ListsIn(Tid, queue', Range(queue) \ {tid})
    BY <1>1, <1>3, RemovedListing DEF Terminate
  <2>2. /\ DOMAIN left' = DOMAIN left \ {tid}
        /\ \A t \in DOMAIN left' : left'[t] = left[t]
    BY <1>3 DEF Terminate, Restrict
  <2>3. QED
    BY <1>3, <2>1, <2>2 DEF Terminate, RoundRobinTypeOK, ListsIn
<1>4. ASSUME NEW tid \in Tid, Block(tid) PROVE RoundRobinTypeOK'
  <2>1. ListsIn(Tid, queue', Range(queue) \ {tid}) /\ tid # running
    BY <1>1, <1>4, RemovedListing DEF Block
  <2>2. QED
    BY <1>4, <2>1 DEF Block, RoundRobinTypeOK, ListsIn
<1>5. ASSUME NEW tid \in Tid, Resume(tid) PROVE RoundRobinTypeOK'
  <2>1. tid # running /\ tid \notin Range(queue)
    BY <1>5 DEF Resume, RoundRobinTypeOK
  <2>2. CASE tid \in DOMAIN left
    BY <1>5, <2>2 DEF Resume, RoundRobinTypeOK
  <2>3. CASE tid \notin DOMAIN left
    <3>1. ListsIn(Tid, queue', Range(queue) \cup {tid})
      BY <1>1, <1>5, <2>1, <2>3, AppendListing DEF Resume
    <3>2. QED
      BY <1>5, <2>1, <2>3, <3>1 DEF Resume, RoundRobinTypeOK, ListsIn
  <2>4. QED
    BY <2>2, <2>3
<1>6. CASE End
  BY <1>6 DEF End, RoundRobinTypeOK
<1>7. QED
  BY <1>2, <1>3, <1>4, <1>5, <1>6 DEF SameQuantum

\* In the round robin a thread that waits for the processor does so once, and
\* neither has it nor is blocked or asleep.
THEOREM OnePlaceEach == Spec => []RoundRobinTypeOK
<1>1. Init => RoundRobinTypeOK
  <2> SUFFICES ASSUME Init PROVE RoundRobinTypeOK
    OBVIOUS
  <2>1. 0 \in Tid
    BY RoundRobinAssumption DEF Tid
  <2>2. <<>> \in Seq(Tid) /\ DOMAIN <<>> = {}
    OBVIOUS
  <2>3. QED
    BY <2>1, <2>2 DEF Init, RoundRobinTypeOK, IsInjective, Range
<1>2. RoundRobinTypeOK /\ [Next]_vars => RoundRobinTypeOK'
  <2> SUFFICES ASSUME RoundRobinTypeOK, [Next]_vars PROVE RoundRobinTypeOK'
    OBVIOUS
  <2>1. CASE Next
    BY <2>1, NewQuantumKeepsApart, SameQuantumKeepsApart DEF Next
  <2>2. CASE UNCHANGED vars
    BY <2>2 DEF vars, RoundRobinTypeOK
  <2>3. QED
    BY <2>1, <2>2
<1>3. QED
  BY <1>1, <1>2, PTL DEF Spec
=============================================================================
