---------------------------- MODULE HostPairing ----------------------------
(***************************************************************************)
(* Which hosts the two channels of a connection belong to.  Nothing in     *)
(* bt_hid_profile.py compares the addresses that its two accept() calls    *)
(* return: only the order of the queues and their being empty at the start *)
(* keep the channels of different hosts apart.  BluetoothHIDProfile with a *)
(* history of what the hosts did during the present call.                  *)
(***************************************************************************)
EXTENDS BluetoothHIDProfile

VARIABLE disturbed  \* history: during this call hosts did not come one by one

pairVars == <<vars, disturbed>>

HalfConnected(h) == HasLink(h, "control") /\ ~HasLink(h, "interrupt")

\* A host opens its control channel between the two channels of another one.
Overtakes(h) ==
  HostConnect(h, "control") /\ \E g \in Host \ {h} : HalfConnected(g)

\* A host goes whose control channel is accepted.
Abandons(h) ==
  (HostLeave(h) \/ LinkTimeout(h)) /\ client["control"] = Socket(h)

PairInit == Init /\ disturbed = FALSE

PairNext ==
  /\ Next
  /\ disturbed' =
       \/ \E h \in Host : Overtakes(h) \/ Abandons(h)
       \/ disturbed /\ ~WaitForConnection

PairSpec == PairInit /\ [][PairNext]_pairVars
-----------------------------------------------------------------------------
(***************************************************************************)
(* "Blocks until a device connects on both the control and interrupt       *)
(* channels" (bt_hid_profile.py:321): both channels are those of one host, *)
(* provided that no host comes between the two channels of another, and    *)
(* none goes between the two accepts.  What earlier calls left behind, or  *)
(* any number of hosts that come one by one, does not mix a connection.    *)
(***************************************************************************)
SameDevice ==
  connected /\ ~disturbed =>
    client["control"].peer = client["interrupt"].peer
=============================================================================
