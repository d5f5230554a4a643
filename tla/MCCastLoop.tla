---------------------------- MODULE MCCastLoop ----------------------------
(* CastLoop on small instances. *)
EXTENDS CastLoop, TLC

UserSymmetry == Permutations(Users)
=============================================================================
