--------------------------- MODULE MCHidEmulator ---------------------------
(* Constants of the runs of HidEmulator.  One axis is enough: the axes do  *)
(* not interact outside InputMerger.                                       *)
EXTENDS HidEmulator, TLC

OneAxis == {"dx"}
Deltas  == {0, 2}

HostSymmetry == Permutations(Host)
=============================================================================
