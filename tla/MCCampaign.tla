----------------------------- MODULE MCCampaign -----------------------------
(* Campaign on small sets, for TLC.                                        *)
EXTENDS Campaign, TLC

\* Groups are alike, and so are requests: states that differ by a renaming
\* of either are the same (used where no liveness is checked).
Symmetry == Permutations(Groups) \cup Permutations(Requests)
=============================================================================
