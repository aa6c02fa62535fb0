----------------------- MODULE MCInputMergerThreads -----------------------
(* Constants of the runs of InputMergerThreads: with ClampMax = 1 a delta  *)
(* of -2 leaves a remainder, and +1 cancels part of it before or after a   *)
(* flush.                                                                  *)
EXTENDS InputMergerThreads

Deltas == {-2, 1}
=============================================================================
