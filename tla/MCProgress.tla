------------------------------ MODULE MCProgress ------------------------------
(* A small instance of Progress for TLC.                                   *)
EXTENDS Progress, TLC

\* Users and slots are interchangeable.
Symmetry == Permutations(User) \cup Permutations(Slot)
=============================================================================
