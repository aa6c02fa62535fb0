------------------------ MODULE BluetoothHIDProfile ------------------------
(***************************************************************************)
(* The connection of linux-hid-emulator/bt_hid_profile.py: the two L2CAP   *)
(* server sockets, the client sockets accepted on them, and the hosts that *)
(* connect and go away meanwhile.  One thread calls the methods, and only  *)
(* wait_for_connection() takes more than one step, because it blocks.      *)
(*                                                                         *)
(* The hosts and the kernel are external: a host opens control before      *)
(* interrupt and has one connection per channel, a listening socket queues *)
(* up to Backlog connections, and a connection that goes down while it is  *)
(* queued is never accepted.  The kernel keeps the links of a host out of  *)
(* range, and takes reports for it, until it gives them up.                *)
(***************************************************************************)
EXTENDS Integers, Sequences, SequencesExt

CONSTANTS
  Host,       \* the devices that may connect
  Button,     \* the bits a caller may set in a button mask
  HidButton,  \* the bits 0-2, which a report has room for
  Backlog     \* connections the kernel queues for accept()

ASSUME HidButtonAssumption == HidButton \subseteq Button
ASSUME BacklogAssumption == Backlog \in Nat \ {0}

VARIABLES
  phase,      \* where the thread is in wait_for_connection()
  server,     \* whether _ctrl_sock and _intr_sock listen
  backlog,    \* connections queued on each of them
  client,     \* _ctrl_client and _intr_client
  connected,  \* _connected
  away,       \* external: hosts out of range whose links the kernel still keeps
  taken,      \* external: the buttons in the last report the kernel took
  hostHeld    \* external: the buttons the interrupt peer sees pressed

external == <<away, taken, hostHeld>>
vars == <<phase, server, backlog, client, connected, external>>

Channel == {"control", "interrupt"}

Phase == {"idle", "listen control", "listen interrupt",
          "accept control", "accept interrupt"}
Listening == [control |-> "listen control", interrupt |-> "listen interrupt"]
Accepting == [control |-> "accept control", interrupt |-> "accept interrupt"]
AfterListen == [control |-> "listen interrupt", interrupt |-> "accept control"]
AfterAccept == [control |-> "accept interrupt", interrupt |-> "idle"]

NoSocket == [peer |-> {}, up |-> FALSE]
Socket(h) == [peer |-> {h}, up |-> TRUE]
DeadSocket(h) == [peer |-> {h}, up |-> FALSE]
IsOpen(ch) == client[ch] # NoSocket

\* The kernel takes reports for the peer, and the peer receives them.
LinkUp == client["interrupt"].up
HostHears == LinkUp /\ client["interrupt"].peer \intersect away = {}

\* Mutant: the mask is not cut to the bits of a report.
PackedWhole(b) == b

\* What "buttons & 0x07" leaves of a mask.
Packed(b) == b \intersect HidButton

Init ==
  /\ phase     = "idle"
  /\ server    = [ch \in Channel |-> FALSE]
  /\ backlog   = [ch \in Channel |-> <<>>]
  /\ client    = [ch \in Channel |-> NoSocket]
  /\ connected = FALSE
  /\ away = {} /\ taken = {} /\ hostHeld = {}
-----------------------------------------------------------------------------
\* _close_server_sockets(): the kernel drops what was still queued.
CloseServers ==
  /\ server'  = [ch \in Channel |-> FALSE]
  /\ backlog' = [ch \in Channel |-> <<>>]

\* Mutant: the flag is left to the caller.
CloseClientsOnly ==
  /\ client' = [ch \in Channel |-> NoSocket]
  /\ UNCHANGED connected

\* _close_client_sockets()
CloseClients ==
  /\ client'    = [ch \in Channel |-> NoSocket]
  /\ connected' = FALSE

\* Mutant: the sockets of the previous call are not closed first.
WaitForConnectionKeepsServers ==
  /\ phase = "idle"
  /\ CloseClients
  /\ phase' = "listen control"
  /\ UNCHANGED <<server, backlog, external>>

WaitForConnection ==
  /\ phase = "idle"
  /\ CloseServers
  /\ CloseClients
  /\ phase' = "listen control"
  /\ UNCHANGED external

\* socket(), bind() and listen() for one channel.
Listen(ch) ==
  /\ phase = Listening[ch]
  /\ server' = [server EXCEPT ![ch] = TRUE]
  /\ phase' = AfterListen[ch]
  /\ UNCHANGED <<backlog, client, connected, external>>

ListenFails ==
  /\ phase \in {"listen control", "listen interrupt"}
  /\ CloseServers
  /\ phase' = "idle"
  /\ UNCHANGED <<client, connected, external>>

\* A host that has just connected sees no button pressed.
Accept(ch) ==
  /\ phase = Accepting[ch]
  /\ backlog[ch] # <<>>
  /\ client'    = [client EXCEPT ![ch] = Socket(Head(backlog[ch]))]
  /\ backlog'   = [backlog EXCEPT ![ch] = Tail(@)]
  /\ phase'     = AfterAccept[ch]
  /\ connected' = (ch = "interrupt")
  /\ taken' = {} /\ hostHeld' = {}
  /\ UNCHANGED <<server, away>>

\* The except clause of the accepts leaves the server sockets listening.
AcceptFails ==
  /\ phase \in {"accept control", "accept interrupt"}
  /\ CloseClients
  /\ phase' = "idle"
  /\ UNCHANGED <<server, backlog, external>>

IsConnected == connected /\ IsOpen("interrupt")

\* send() succeeds when the kernel takes the report, for a host out of range as
\* well; the motion in it is the caller's business.
SendReport(b) ==
  /\ phase = "idle" /\ IsConnected /\ LinkUp
  /\ taken' = Packed(b)
  /\ hostHeld' = IF HostHears THEN Packed(b) ELSE hostHeld
  /\ UNCHANGED <<phase, server, backlog, client, connected, away>>

\* send() raises: always on a link that is given up, but any OSError counts.
SendReportFails ==
  /\ phase = "idle" /\ IsConnected
  /\ connected' = FALSE
  /\ UNCHANGED <<phase, server, backlog, client, external>>

\* Without a connection it returns False and changes nothing.
SendReportRefused ==
  /\ phase = "idle" /\ ~IsConnected
  /\ UNCHANGED vars

Disconnect ==
  /\ phase = "idle"
  /\ CloseClients
  /\ CloseServers
  /\ UNCHANGED <<phase, external>>
-----------------------------------------------------------------------------
HasLink(h, ch) ==
  Contains(backlog[ch], h) \/ client[ch] = Socket(h)

HostConnect(h, ch) ==
  /\ server[ch] /\ Len(backlog[ch]) < Backlog
  /\ ~HasLink(h, ch) /\ h \notin away
  /\ ch = "interrupt" => HasLink(h, "control")
  /\ backlog' = [backlog EXCEPT ![ch] = Append(@, h)]
  /\ UNCHANGED <<phase, server, client, connected, external>>

\* Where a host waits in a queue; it is in there at most once.
Place(h, ch) == CHOOSE i \in DOMAIN backlog[ch] : backlog[ch][i] = h

\* The kernel drops the links of a host.
DropLinks(h) ==
  /\ backlog' = [ch \in Channel |->
                   IF Contains(backlog[ch], h) THEN RemoveAt(backlog[ch], Place(h, ch))
                                               ELSE backlog[ch]]
  /\ client'  = [ch \in Channel |->
                   IF client[ch] = Socket(h) THEN DeadSocket(h) ELSE client[ch]]
  /\ UNCHANGED <<phase, server, connected, taken, hostHeld>>

\* The host switches off or is told to disconnect, and says so.
HostLeave(h) ==
  /\ h \notin away /\ \E ch \in Channel : HasLink(h, ch)
  /\ DropLinks(h)
  /\ UNCHANGED away

\* The host walks out of range: nobody is told.
HostFades(h) ==
  /\ h \notin away /\ \E ch \in Channel : HasLink(h, ch)
  /\ away' = away \union {h}
  /\ UNCHANGED <<phase, server, backlog, client, connected, taken, hostHeld>>

\* It is back in time and receives what the kernel has queued for it.
HostReturns(h) ==
  /\ h \in away
  /\ away' = away \ {h}
  /\ hostHeld' = IF client["interrupt"] = Socket(h) THEN taken ELSE hostHeld
  /\ UNCHANGED <<phase, server, backlog, client, connected, taken>>

\* The kernel has heard nothing of the host for too long.
LinkTimeout(h) ==
  /\ h \in away
  /\ DropLinks(h)
  /\ away' = away \ {h}

Profile ==
  \/ WaitForConnection
  \/ \E ch \in Channel : Listen(ch) \/ Accept(ch)
  \/ ListenFails \/ AcceptFails
  \/ \E b \in SUBSET Button : SendReport(b)
  \/ SendReportFails \/ SendReportRefused
  \/ Disconnect

HostMoves(h) == HostLeave(h) \/ HostFades(h) \/ HostReturns(h) \/ LinkTimeout(h)

Hosts == \E h \in Host : HostMoves(h) \/ \E ch \in Channel : HostConnect(h, ch)

Next == Profile \/ Hosts

Spec == Init /\ [][Next]_vars
-----------------------------------------------------------------------------
(***************************************************************************)
(* The types of the fields; a report shows the host the bits 0-2 only.     *)
(***************************************************************************)
TypeOK ==
  /\ phase     \in Phase
  /\ server    \in [Channel -> BOOLEAN]
  /\ backlog   \in [Channel -> Seq(Host)]
  /\ client    \in [Channel -> [peer : {{}} \union {{h} : h \in Host}, up : BOOLEAN]]
  /\ connected \in BOOLEAN
  /\ away      \in SUBSET Host
  /\ taken     \in SUBSET HidButton
  /\ hostHeld  \in SUBSET HidButton

(***************************************************************************)
(* "Blocks until a device connects on both the control and interrupt       *)
(* channels": _connected is never set while either socket is missing, so   *)
(* neither the dispatch loop nor send_report() meets half a connection,    *)
(* whatever failed, was closed or was retried before.                      *)
(***************************************************************************)
ConnectedOnBoth ==
  connected => phase = "idle" /\ \A ch \in Channel : IsOpen(ch)

(***************************************************************************)
(* A connection handed out by accept() was made to a server socket of this *)
(* call: outside a call that waits, or after one, a new call starts from   *)
(* empty queues, although a failed accept leaves the old sockets           *)
(* listening and a host may have connected to them since.                  *)
(***************************************************************************)
NoStaleAccept ==
  [][\A ch \in Channel :
       Listen(ch) => backlog[ch] = <<>> /\ ~IsOpen(ch) /\ ~server[ch]]_vars
=============================================================================
