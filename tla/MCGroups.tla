------------------------------ MODULE MCGroups ------------------------------
(* Groups on small sets, for TLC.                                          *)
EXTENDS Groups, TLC

Symmetry == Permutations(Requests)
=============================================================================
