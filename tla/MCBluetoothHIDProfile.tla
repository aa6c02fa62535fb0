----------------------- MODULE MCBluetoothHIDProfile -----------------------
(* Constants of the runs of BluetoothHIDProfile: three hosts fill a queue  *)
(* of two, and a button X has no bit in a report.                          *)
EXTENDS HostPairing, TLC

HostSymmetry == Permutations(Host)
=============================================================================
