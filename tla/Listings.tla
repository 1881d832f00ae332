------------------------------ MODULE Listings ------------------------------
(***************************************************************************)
(* Sequences that list a finite set: what a loop over a container of the   *)
(* C++ library visits, and in which order.                                 *)
(***************************************************************************)
EXTENDS Integers, Sequences, FiniteSets, Functions

\* The sequences that list S, each element once, in any order.
Orders(S) == Bijection(1 .. Cardinality(S), S)

\* The sequences (exactly one for a finite set of numbers) that list S in
\* ascending order, the order in which a std::map or an index loop visits it.
Ascending(S) ==
    {s \in Orders(S) : \A i, j \in DOMAIN s : i < j => s[i] < s[j]}

=============================================================================
