----------------------------- MODULE MCContest -----------------------------
(* Contest on small sets, for TLC. *)
EXTENDS Contest
=============================================================================
