------------------------------ MODULE MCClient ------------------------------
(* Model-checking instance of Client.  Words are interchangeable: nothing   *)
(* compares them but with each other, and only invariants are checked.      *)
EXTENDS Client, TLC

MCSymmetry == Permutations(Words)
=============================================================================
