---------------------------- MODULE MCNegotiation ----------------------------
(***************************************************************************)
(* Negotiation on small instances.                                         *)
(***************************************************************************)
EXTENDS Negotiation, TLC

\* Rows of one table are interchangeable until a handler tells them apart.
Symmetry == Permutations(JobReqs) \union Permutations(DriverReqs)
=============================================================================
