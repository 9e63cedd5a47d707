------------------------------ MODULE MCAccess ------------------------------
(* Access on small sets, for TLC.                                          *)
EXTENDS Access, TLC

\* Accounts, requests, tabs and tokens are alike.
Symmetry == Permutations(Admins) \cup Permutations(Requests)
              \cup Permutations(Clients) \cup Permutations(Tokens)
=============================================================================
