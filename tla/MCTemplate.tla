---------------------------- MODULE MCTemplate -----------------------------
(* Template on small sets, for TLC. *)
EXTENDS Template
=============================================================================
