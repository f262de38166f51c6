------------------------------ MODULE MCServer ------------------------------
(***************************************************************************)
(* Instances of Server for TLC: the calls of Start are interchangeable.    *)
(***************************************************************************)
EXTENDS Server, TLC

StartSymmetry == Permutations(Starts)
=============================================================================
