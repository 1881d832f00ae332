----------------------------- MODULE MCContracts -----------------------------
(***************************************************************************)
(* What the scheduler promises to single threads, and what it implements   *)
(* as long as no deadline goes beyond INT_MAX, with two sets of arguments. *)
(* AnySleep has the longest nap a caller can ask for, INT_MAX quantums.    *)
(***************************************************************************)
EXTENDS WaitContract, RoundRobinMapping

\* A refused argument, and naps that no deadline of the run takes beyond INT_MAX.
ShortSleep == {0, 1, 3}

AnySleep == {1, INT_MAX}
=============================================================================
