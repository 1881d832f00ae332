---------------------------- MODULE MCScheduler ----------------------------
(***************************************************************************)
(* Scheduler with four thread ids: three threads besides the main one, so  *)
(* that two of them overlap in the deque, the blocked set or the sleeping  *)
(* map while a third acts on them, all ids can be taken, and an id can be  *)
(* used again.  INT_MAX is as small as the number of quantums, so that the *)
(* deadlines of _handle_sleep_threads wrap around, too.                    *)
(***************************************************************************)
EXTENDS Scheduler

\* A refused argument, the shortest sleep, one that others overlap (and whose
\* deadline can be INT_MAX + 1), and the longest.
MCSleepArgs == {0, 1, 3, INT_MAX}
=============================================================================
