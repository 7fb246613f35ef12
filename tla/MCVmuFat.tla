------------------------------ MODULE MCVmuFat ------------------------------
(* The files of the model of VmuFat are interchangeable.                   *)
EXTENDS VmuFat

MCSymmetry == Permutations(Names)
=============================================================================
