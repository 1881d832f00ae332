---------------------------- MODULE ThreadMemory ----------------------------
(***************************************************************************)
(* The heap behind Preemption: which Thread object, with its stack, a tid  *)
(* owns, and which objects have been deleted.  Objects are numbered in the *)
(* order of their allocation.  A thread executes on the stack of the last  *)
(* object that its tid was given, also between the statement that erases   *)
(* it from the map and the switch to the next thread.                      *)
(***************************************************************************)
EXTENDS Preemption

CONSTANT MaxObjects   \* bound of the model: Thread objects allocated

ASSUME MemoryAssumption == MaxObjects \in Nat \ {0}

VARIABLES
    object,      \* tid -> the Thread object it was last given, 0 before
    allocated,   \* how many objects have been allocated
    deleted

heap == <<object, allocated, deleted>>

\* init_scheduler allocates the object of the main thread, which has no stack
\* of its own: the main thread runs on the stack of the process.
MemoryInit ==
    /\ PreemptionInit
    /\ object = [tid \in Tid |-> IF tid = 0 THEN 1 ELSE 0]
    /\ allocated = 1
    /\ deleted = {}

\* add_new_thread: a new Thread with a new stack.
NewObject ==
    LET born == DOMAIN threads' \ DOMAIN threads IN
    /\ allocated' = allocated + Cardinality(born)
    /\ allocated' <= MaxObjects
    /\ object' = [tid \in Tid |-> IF tid \in born THEN allocated' ELSE object[tid]]
    /\ UNCHANGED deleted

\* delete of each of the objects; the destructor deletes its stack.
Delete(objects) ==
    /\ deleted' = deleted \cup objects
    /\ UNCHANGED <<object, allocated>>

\* remove_all deletes the objects of the map, whoever calls it.
DeleteAll == Delete({object[tid] : tid \in DOMAIN threads})

TerminateObject_Delete == Delete({object[tid] : tid \in DOMAIN threads \ DOMAIN threads'})

\* remove_thread erases the pointer from the map and keeps the object.
TerminateObject == UNCHANGED heap

MemoryNext ==
    \/ Spawn /\ NewObject
    \/ Exit /\ DeleteAll
    \/ Terminate /\ TerminateObject
    \/ /\ \/ Expire \/ Deliver \/ Return \/ ReturnBlocked \/ NoEffect
          \/ Block \/ Resume \/ Sleep \/ Save \/ Switch \/ Resumed \/ SystemCallFails
          \/ \E fn \in Getters : Call(fn, 0)
          \/ \E entry_point \in EntryPoints : Call("uthread_spawn", entry_point)
          \/ \E fn \in {"uthread_terminate", "uthread_block", "uthread_resume"} :
                \E tid \in TidArgs : Call(fn, tid)
          \/ \E n \in SleepArgs : Call("uthread_sleep", n)
       /\ UNCHANGED heap

MemorySpec == MemoryInit /\ [][MemoryNext]_<<data, signals, committed, heap>>

-----------------------------------------------------------------------------
(* Properties.                                                             *)

\* While the process lives, no thread that can still execute, be it the one
\* that has just removed itself from the map, loses its object or its stack, and
\* no two of them share one.  To delete the object in remove_thread, where it is
\* leaked, would break this: run_next_thread still runs on the removed stack.
NoUseAfterDelete ==
    ~exited =>
        \A tid \in DOMAIN threads \cup {cur} :
            /\ object[tid] \notin deleted
            /\ \A other \in DOMAIN threads \cup {cur} :
                  object[tid] = object[other] => tid = other

\* uthreads.h on uthread_terminate: "All the resources allocated by the library
\* for this thread should be released."  Once a call has returned, no object is
\* left that neither belongs to a thread nor was deleted.
TerminatedReleased ==
    InUserCode => 1 .. allocated \subseteq deleted \cup {object[tid] : tid \in DOMAIN threads}

\* uthreads.h on uthread_terminate(0): the process ends "using exit(0) (after
\* releasing the assigned library memory)".  handleForcedExit is called on a
\* stack that still exists.
ExitsOnLiveStack == cur = 0 \/ object[cur] \notin deleted

=============================================================================
