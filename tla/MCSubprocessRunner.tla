------------------------ MODULE MCSubprocessRunner --------------------------
(***************************************************************************)
(* Instances of SubprocessRunner for TLC. Calls, the dynamic keys and the  *)
(* dynamic addresses are interchangeable model values; the symmetry is     *)
(* used by the runs that check safety only.                                *)
(***************************************************************************)
EXTENDS SubprocessRunner, TLC

DynSymmetry ==
    Permutations(Calls) \cup Permutations(Keys \ StaticKeys)
                        \cup Permutations(DynAddrs)
=============================================================================
