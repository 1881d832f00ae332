--------------------------- MODULE MCPreemption ----------------------------
(***************************************************************************)
(* Preemption with three thread ids.  A stack of three frames holds a      *)
(* function, an interrupt of its return, and an interrupt of that.         *)
(***************************************************************************)
EXTENDS Preemption

FunctionOnly == {1}
NullAndFunction == {NULLPTR, 1}

\* A refused argument and a short sleep.
SleepShort == {1}
SleepAndRefusal == {0, 1}

Positive == {1}
AnySign == {-1, 0, 1}
=============================================================================
