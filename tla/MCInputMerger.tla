--------------------------- MODULE MCInputMerger ---------------------------
(* Constants of the runs of InputMerger: with ClampMax = 2, the deltas     *)
(* reach both clamps, their remainders and a cancellation.                 *)
EXTENDS InputMerger

BothAxes == {"dx", "dy"}
Deltas   == {-3, 1, 5}
=============================================================================
