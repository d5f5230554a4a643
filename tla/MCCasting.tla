----------------------------- MODULE MCCasting -----------------------------
(* Casting on small instances. *)
EXTENDS Casting, TLC

UserSymmetry == Permutations(Users)

\* Qualified for nothing, or for the first position (a setup may lack it).
FirstOrNone == {{}, {1}}

\* Every user qualified for the first position throughout.
FirstOnly == {{1}}
=============================================================================
