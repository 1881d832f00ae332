---------------------------- MODULE MCRoundRobin ----------------------------
(* RoundRobin with a shortest nap and one that others overlap.             *)
EXTENDS RoundRobin

MCNaps == {1, 2}
=============================================================================
