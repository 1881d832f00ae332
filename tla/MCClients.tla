------------------------------ MODULE MCClients ------------------------------
(* Clients with seven ids, where Test4 removes two threads of six.         *)
EXTENDS Clients

MCSleepArgs == {sleep_f, sleep_g}
AllTests == 1 .. 16
=============================================================================
