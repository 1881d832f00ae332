--------------------------- MODULE MCThreadMemory ---------------------------
(* ThreadMemory with three thread ids and four objects, so that an id is   *)
(* given to a second and a third object.                                   *)
EXTENDS ThreadMemory

NullAndFunction == {NULLPTR, 1}
SleepAndRefusal == {0, 1}
Positive == {1}
=============================================================================
