---------------------------- MODULE MCModeration ----------------------------
(* Moderation on small sets, for TLC: its admins are alike.                *)
EXTENDS Moderation, TLC

Symmetry == Permutations(Admins)
=============================================================================
