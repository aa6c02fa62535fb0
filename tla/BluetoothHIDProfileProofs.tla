--------------------- MODULE BluetoothHIDProfileProofs ---------------------
(***************************************************************************)
(* Proofs about the connection of bt_hid_profile.py, for any set of hosts  *)
(* and any length of the queues.                                           *)
(***************************************************************************)
EXTENDS BluetoothHIDProfile, TLAPS

\* An accepted socket is not None, with its link up or dead.
LEMMA SocketsAreOpen ==
  ASSUME NEW h
  PROVE  Socket(h) # NoSocket /\ DeadSocket(h) # NoSocket
<1>1. {h} # {}
  OBVIOUS
<1> QED
  BY <1>1 DEF Socket, DeadSocket, NoSocket

(***************************************************************************)
(* What keeps ConnectedOnBoth: the flag is down in the whole of a call     *)
(* that waits, and the call accepts interrupt after control.               *)
(***************************************************************************)
ConnectionInv ==
  /\ connected \in BOOLEAN
  /\ client = [ch \in Channel |-> client[ch]]
  /\ ConnectedOnBoth
  /\ phase = "accept interrupt" => IsOpen("control")

\* The actions that leave no socket and no flag behind.
LEMMA ClosedKeeps ==
  ASSUME CloseClients, phase' # "accept interrupt" PROVE ConnectionInv'
BY DEF CloseClients, ConnectionInv, ConnectedOnBoth

\* The actions that leave phase and sockets alone and do not set the flag.
LEMMA FlagKeeps ==
  ASSUME ConnectionInv, phase' = phase, client' = client,
         connected' = FALSE \/ connected' = connected
  PROVE  ConnectionInv'
<1>1. CASE connected' = FALSE
  BY <1>1 DEF ConnectionInv, ConnectedOnBoth, IsOpen
<1>2. CASE connected' = connected
  BY <1>2 DEF ConnectionInv, ConnectedOnBoth, IsOpen
<1> QED
  BY <1>1, <1>2

\* A thread that listens is not connected, and is not yet at the second accept().
LEMMA ListenKeeps ==
  ASSUME ConnectionInv, ListenFails \/ \E ch \in Channel : Listen(ch)
  PROVE  ConnectionInv'
<1>1. phase # "idle" /\ phase' # "accept interrupt"
  <2>1. CASE ListenFails
    BY <2>1 DEF ListenFails
  <2>2. CASE Listen("control")
    BY <2>2 DEF Listen, Listening, AfterListen
  <2>3. CASE Listen("interrupt")
    BY <2>3 DEF Listen, Listening, AfterListen
  <2> QED
    BY <2>1, <2>2, <2>3 DEF Channel
<1>2. connected' = connected /\ client' = client
  BY DEF ListenFails, Listen
<1>3. connected = FALSE
  BY <1>1 DEF ConnectionInv, ConnectedOnBoth
<1> QED
  BY <1>1, <1>2, <1>3 DEF ConnectionInv, ConnectedOnBoth

\* The second accept() finds the control channel accepted.
LEMMA AcceptKeeps ==
  ASSUME ConnectionInv, NEW ch \in Channel, Accept(ch)
  PROVE  ConnectionInv'
<1> DEFINE s == Socket(Head(backlog[ch]))
<1>1. s # NoSocket
  BY SocketsAreOpen
<1>2. client' = [client EXCEPT ![ch] = s]
  BY DEF Accept
<1> HIDE DEF s
<1>3. client = [c \in Channel |-> client[c]]
  BY DEF ConnectionInv
<1>4. client' = [c \in Channel |-> client'[c]]
  BY <1>2, <1>3
<1>5. client'[ch] = s /\ \A c \in Channel : c # ch => client'[c] = client[c]
  BY <1>2, <1>3
<1>6. CASE ch = "control"
  <2>1. phase' = "accept interrupt" /\ connected' = FALSE
    BY <1>6 DEF Accept, AfterAccept
  <2> QED
    BY <1>1, <1>4, <1>5, <1>6, <2>1 DEF ConnectionInv, ConnectedOnBoth, IsOpen
<1>7. CASE ch = "interrupt"
  <2>1. phase = "accept interrupt" /\ phase' = "idle" /\ connected' \in BOOLEAN
    BY <1>7 DEF Accept, Accepting, AfterAccept
  <2>2. client["control"] # NoSocket
    BY <2>1 DEF ConnectionInv, IsOpen
  <2>3. client'["control"] # NoSocket /\ client'["interrupt"] # NoSocket
    BY <1>1, <1>5, <1>7, <2>2 DEF Channel
  <2> QED
    BY <1>4, <2>1, <2>3 DEF ConnectionInv, ConnectedOnBoth, IsOpen, Channel
<1> QED
  BY <1>6, <1>7 DEF Channel

\* A peer on a dead link stays in its socket.
LEMMA DropKeeps ==
  ASSUME ConnectionInv, NEW h \in Host, DropLinks(h)
  PROVE  ConnectionInv'
<1>1. client' = [c \in Channel |->
                   IF client[c] = Socket(h) THEN DeadSocket(h) ELSE client[c]]
  BY DEF DropLinks
<1>2. \A c \in Channel : client[c] # NoSocket => client'[c] # NoSocket
  BY <1>1, SocketsAreOpen
<1>3. client' = [c \in Channel |-> client'[c]]
  BY <1>1
<1>4. UNCHANGED <<phase, connected>>
  BY DEF DropLinks
<1>5. connected' \in BOOLEAN
  BY <1>4 DEF ConnectionInv
<1>6. ConnectedOnBoth'
  BY <1>2, <1>4 DEF ConnectionInv, ConnectedOnBoth, IsOpen
<1>7. phase' = "accept interrupt" => IsOpen("control")'
  BY <1>2, <1>4 DEF ConnectionInv, IsOpen, Channel
<1> QED
  BY <1>3, <1>5, <1>6, <1>7 DEF ConnectionInv

\* No step of the thread or of a host breaks ConnectionInv.
LEMMA ConnectionStep == ConnectionInv /\ [Next]_vars => ConnectionInv'
<1> SUFFICES ASSUME ConnectionInv, [Next]_vars PROVE ConnectionInv'
  OBVIOUS
<1>1. CASE WaitForConnection
  BY <1>1, ClosedKeeps DEF WaitForConnection
<1>2. CASE AcceptFails
  BY <1>2, ClosedKeeps DEF AcceptFails
<1>3. CASE Disconnect
  BY <1>3, ClosedKeeps DEF Disconnect
<1>4. CASE ListenFails \/ \E ch \in Channel : Listen(ch)
  BY <1>4, ListenKeeps
<1>5. CASE \E ch \in Channel : Accept(ch)
  BY <1>5, AcceptKeeps
<1>6. CASE \E b \in SUBSET Button : SendReport(b)
  BY <1>6, FlagKeeps DEF SendReport
<1>7. CASE SendReportFails \/ SendReportRefused
  BY <1>7, FlagKeeps DEF SendReportFails, SendReportRefused, vars
<1>8. CASE \E h \in Host, ch \in Channel : HostConnect(h, ch)
  BY <1>8, FlagKeeps DEF HostConnect
<1>9. CASE \E h \in Host : HostLeave(h) \/ LinkTimeout(h)
  BY <1>9, DropKeeps DEF HostLeave, LinkTimeout
<1>10. CASE \E h \in Host : HostFades(h) \/ HostReturns(h)
  BY <1>10, FlagKeeps DEF HostFades, HostReturns
<1>11. CASE UNCHANGED vars
  BY <1>11, FlagKeeps DEF vars
<1> QED
  BY <1>1, <1>2, <1>3, <1>4, <1>5, <1>6, <1>7, <1>8, <1>9, <1>10, <1>11
  DEF Next, Profile, Hosts, HostMoves

(***************************************************************************)
(* _connected implies two accepted sockets and a thread outside            *)
(* wait_for_connection(), whatever fails and whatever the hosts do.        *)
(***************************************************************************)
THEOREM ConnectedOnBothChannels == Spec => []ConnectedOnBoth
<1>1. Init => ConnectionInv
  BY DEF Init, ConnectionInv, ConnectedOnBoth
<1>2. ConnectionInv => ConnectedOnBoth
  BY DEF ConnectionInv
<1> QED
  BY <1>1, <1>2, ConnectionStep, PTL DEF Spec
-----------------------------------------------------------------------------
(***************************************************************************)
(* Why a call of wait_for_connection() starts from empty queues: a channel *)
(* whose server socket is closed has nothing queued, and the channels that *)
(* are still to be listened on are closed.                                 *)
(***************************************************************************)
FreshInv ==
  /\ \A ch \in Channel : ~server[ch] => backlog[ch] = <<>>
  /\ phase = "listen control" => \A ch \in Channel : ~server[ch]
  /\ phase = "listen interrupt" => ~server["interrupt"]
  /\ phase \in {"listen control", "listen interrupt"} =>
       \A ch \in Channel : ~IsOpen(ch)

ProfileInv == TypeOK /\ FreshInv

\* The values a client socket takes.
LEMMA SocketTypes ==
  ASSUME NEW h \in Host
  PROVE  /\ Socket(h) \in [peer : {{}} \union {{x} : x \in Host}, up : BOOLEAN]
         /\ DeadSocket(h) \in [peer : {{}} \union {{x} : x \in Host}, up : BOOLEAN]
         /\ NoSocket \in [peer : {{}} \union {{x} : x \in Host}, up : BOOLEAN]
BY DEF Socket, DeadSocket, NoSocket

\* Taking an element out of a sequence leaves a sequence over the same set.
LEMMA RemoveAtType ==
  ASSUME NEW S, NEW s \in Seq(S), NEW i \in 1 .. Len(s)
  PROVE  RemoveAt(s, i) \in Seq(S)
BY DEF RemoveAt

\* A host that is queued has a place in the queue.
LEMMA PlaceType ==
  ASSUME TypeOK, NEW ch \in Channel, NEW h, Contains(backlog[ch], h)
  PROVE  Place(h, ch) \in 1 .. Len(backlog[ch])
<1>1. backlog[ch] \in Seq(Host)
  BY DEF TypeOK
<1>2. \E i \in DOMAIN backlog[ch] : backlog[ch][i] = h
  BY <1>1 DEF Contains
<1>3. Place(h, ch) \in DOMAIN backlog[ch]
  BY <1>2 DEF Place
<1> QED
  BY <1>1, <1>3

\* Empty queues are queues of hosts.
LEMMA NoneQueued == [ch \in Channel |-> <<>>] \in [Channel -> Seq(Host)]
OBVIOUS

\* A new object has no sockets, so nothing is queued.
LEMMA InitProfile == Init => ProfileInv
<1> SUFFICES ASSUME Init PROVE ProfileInv
  OBVIOUS
<1>1. backlog \in [Channel -> Seq(Host)]
  BY NoneQueued DEF Init
<1>2. client \in [Channel -> [peer : {{}} \union {{x} : x \in Host}, up : BOOLEAN]]
  BY DEF Init, NoSocket
<1>3. TypeOK
  BY <1>1, <1>2 DEF Init, TypeOK, Phase
<1>4. FreshInv
  BY DEF Init, FreshInv, IsOpen
<1> QED
  BY <1>3, <1>4 DEF ProfileInv

\* The calls that close sockets empty the queues of those they close.
LEMMA CallProfile ==
  ASSUME ProfileInv, WaitForConnection \/ Disconnect \/ AcceptFails
  PROVE  ProfileInv'
<1> USE DEF ProfileInv, TypeOK
<1>1. /\ client' = [ch \in Channel |-> NoSocket] /\ connected' = FALSE
      /\ UNCHANGED <<away, taken, hostHeld>>
  BY DEF WaitForConnection, Disconnect, AcceptFails, CloseClients, external
<1>2. CASE WaitForConnection \/ Disconnect
  <2>1. server' = [ch \in Channel |-> FALSE] /\ backlog' = [ch \in Channel |-> <<>>]
    BY <1>2 DEF WaitForConnection, Disconnect, CloseServers
  <2>2. phase' \in {"idle", "listen control"}
    BY <1>2 DEF WaitForConnection, Disconnect
  <2>3. TypeOK'
    BY <1>1, <2>1, <2>2, NoneQueued DEF Phase, NoSocket
  <2> QED
    BY <1>1, <2>1, <2>2, <2>3 DEF FreshInv, IsOpen
<1>3. CASE AcceptFails
  <2>1. phase' = "idle" /\ UNCHANGED <<server, backlog>>
    BY <1>3 DEF AcceptFails
  <2>2. TypeOK'
    BY <1>1, <2>1 DEF Phase, NoSocket
  <2> QED
    BY <2>1, <2>2 DEF FreshInv
<1> QED
  BY <1>2, <1>3

\* A channel that begins to listen starts with an empty queue.
LEMMA ListenProfile ==
  ASSUME ProfileInv, ListenFails \/ \E ch \in Channel : Listen(ch)
  PROVE  ProfileInv'
<1> USE DEF ProfileInv, TypeOK
<1>1. CASE ListenFails
  <2>1. /\ server' = [ch \in Channel |-> FALSE] /\ backlog' = [ch \in Channel |-> <<>>]
        /\ phase' = "idle" /\ UNCHANGED <<client, connected, away, taken, hostHeld>>
    BY <1>1 DEF ListenFails, CloseServers, external
  <2> QED
    BY <2>1, NoneQueued DEF Phase, FreshInv
<1>2. ASSUME NEW ch \in Channel, Listen(ch) PROVE ProfileInv'
  <2>1. /\ server' = [server EXCEPT ![ch] = TRUE] /\ phase' = AfterListen[ch]
        /\ phase = Listening[ch]
        /\ UNCHANGED <<backlog, client, connected, away, taken, hostHeld>>
    BY <1>2 DEF Listen, external
  <2>2. CASE ch = "control"
    <3>1. phase = "listen control" /\ phase' = "listen interrupt"
      BY <2>1, <2>2 DEF Listening, AfterListen, Channel
    <3> QED
      BY <2>1, <2>2, <3>1 DEF Phase, FreshInv, IsOpen, Channel
  <2>3. CASE ch = "interrupt"
    <3>1. phase' = "accept control"
      BY <2>1, <2>3 DEF AfterListen, Channel
    <3> QED
      BY <2>1, <2>3, <3>1 DEF Phase, FreshInv, IsOpen, Channel
  <2> QED
    BY <2>2, <2>3 DEF Channel
<1> QED
  BY <1>1, <1>2

\* accept() takes the oldest connection out of its queue.
LEMMA AcceptProfile ==
  ASSUME ProfileInv, NEW ch \in Channel, Accept(ch)
  PROVE  ProfileInv'
<1> USE DEF ProfileInv, TypeOK
<1> DEFINE q == backlog[ch]
<1>1. q \in Seq(Host) /\ q # <<>>
  BY DEF Accept
<1>2. Head(q) \in Host /\ Tail(q) \in Seq(Host)
  BY <1>1
<1>3. /\ client' = [client EXCEPT ![ch] = Socket(Head(q))]
      /\ backlog' = [backlog EXCEPT ![ch] = Tail(q)]
      /\ phase' = AfterAccept[ch] /\ connected' = (ch = "interrupt")
      /\ taken' = {} /\ hostHeld' = {}
      /\ UNCHANGED <<server, away>>
  BY DEF Accept
<1>4. phase' \in {"accept interrupt", "idle"}
  <2>1. CASE ch = "control"
    BY <1>3, <2>1 DEF AfterAccept
  <2>2. CASE ch = "interrupt"
    BY <1>3, <2>2 DEF AfterAccept
  <2> QED
    BY <2>1, <2>2 DEF Channel
<1>5. Socket(Head(q)) \in [peer : {{}} \union {{x} : x \in Host}, up : BOOLEAN]
  BY <1>2, SocketTypes
<1>6. TypeOK'
  <2>1. client' \in [Channel -> [peer : {{}} \union {{x} : x \in Host}, up : BOOLEAN]]
    BY <1>3, <1>5
  <2>2. backlog' \in [Channel -> Seq(Host)]
    BY <1>2, <1>3
  <2> QED
    BY <1>3, <1>4, <2>1, <2>2 DEF Phase
<1>7. server[ch]
  BY <1>1 DEF FreshInv
<1> QED
  BY <1>3, <1>4, <1>6, <1>7 DEF FreshInv

\* A host whose links go down is taken out of the queues it is in.
LEMMA DropProfile ==
  ASSUME ProfileInv, NEW h \in Host, DropLinks(h), away' \in SUBSET Host
  PROVE  ProfileInv'
<1> USE DEF ProfileInv
<1>1. /\ backlog' = [ch \in Channel |->
                       IF Contains(backlog[ch], h) THEN RemoveAt(backlog[ch], Place(h, ch))
                                                   ELSE backlog[ch]]
      /\ client' = [ch \in Channel |->
                      IF client[ch] = Socket(h) THEN DeadSocket(h) ELSE client[ch]]
      /\ UNCHANGED <<phase, server, connected, taken, hostHeld>>
  BY DEF DropLinks
<1>2. backlog' \in [Channel -> Seq(Host)]
  <2>1. ASSUME NEW ch \in Channel PROVE backlog'[ch] \in Seq(Host)
    <3>1. backlog[ch] \in Seq(Host)
      BY DEF TypeOK
    <3>2. CASE Contains(backlog[ch], h)
      BY <1>1, <3>1, <3>2, PlaceType, RemoveAtType
    <3> QED
      BY <1>1, <3>1, <3>2
  <2> QED
    BY <1>1, <2>1
<1>3. client' \in [Channel -> [peer : {{}} \union {{x} : x \in Host}, up : BOOLEAN]]
  BY <1>1, SocketTypes DEF TypeOK
<1>4. TypeOK'
  BY <1>1, <1>2, <1>3 DEF TypeOK
<1>5. ASSUME NEW ch \in Channel, backlog[ch] = <<>> PROVE backlog'[ch] = <<>>
  <2>1. ~Contains(backlog[ch], h)
    BY <1>5 DEF Contains
  <2> QED
    BY <1>1, <1>5, <2>1
<1>6. ASSUME NEW ch \in Channel, ~IsOpen(ch) PROVE ~IsOpen(ch)'
  BY <1>1, <1>6, SocketsAreOpen DEF IsOpen
<1> QED
  BY <1>1, <1>4, <1>5, <1>6 DEF FreshInv

\* A host is queued only on a channel that listens and has room.
LEMMA ConnectProfile ==
  ASSUME ProfileInv, NEW h \in Host, NEW ch \in Channel, HostConnect(h, ch)
  PROVE  ProfileInv'
<1>1. /\ backlog' = [backlog EXCEPT ![ch] = Append(@, h)]
      /\ server[ch] /\ UNCHANGED <<phase, server, client, connected, away, taken, hostHeld>>
  BY DEF HostConnect, external
<1>2. backlog' \in [Channel -> Seq(Host)]
  BY <1>1 DEF ProfileInv, TypeOK
<1>3. TypeOK'
  BY <1>1, <1>2 DEF ProfileInv, TypeOK
<1> QED
  BY <1>1, <1>3 DEF ProfileInv, TypeOK, FreshInv, IsOpen

\* A report, sent or failed, leaves the queues alone, and so does a host that is
\* out of range or returns.
LEMMA ReportProfile ==
  ASSUME ProfileInv, UNCHANGED <<phase, server, backlog, client>>,
         connected' \in BOOLEAN, away' \in SUBSET Host,
         taken' \in SUBSET HidButton, hostHeld' \in SUBSET HidButton
  PROVE  ProfileInv'
BY DEF ProfileInv, TypeOK, FreshInv, IsOpen

\* No step of the thread or of a host breaks ProfileInv.
LEMMA ProfileStep == ProfileInv /\ [Next]_vars => ProfileInv'
<1> SUFFICES ASSUME ProfileInv, [Next]_vars PROVE ProfileInv'
  OBVIOUS
<1>1. CASE WaitForConnection \/ Disconnect \/ AcceptFails
  BY <1>1, CallProfile
<1>2. CASE ListenFails \/ \E ch \in Channel : Listen(ch)
  BY <1>2, ListenProfile
<1>3. CASE \E ch \in Channel : Accept(ch)
  BY <1>3, AcceptProfile
<1>4. CASE SendReportFails \/ SendReportRefused \/ \E b \in SUBSET Button : SendReport(b)
  BY <1>4, ReportProfile
  DEF ProfileInv, TypeOK, SendReportFails, SendReportRefused, SendReport, Packed,
      external, vars
<1>5. CASE \E h \in Host, ch \in Channel : HostConnect(h, ch)
  BY <1>5, ConnectProfile
<1>6. CASE \E h \in Host : HostLeave(h) \/ LinkTimeout(h)
  BY <1>6, DropProfile DEF ProfileInv, TypeOK, HostLeave, LinkTimeout
<1>7. CASE \E h \in Host : HostFades(h) \/ HostReturns(h)
  BY <1>7, ReportProfile DEF ProfileInv, TypeOK, HostFades, HostReturns
<1>8. CASE UNCHANGED vars
  BY <1>8, ReportProfile DEF ProfileInv, TypeOK, vars, external
<1> QED
  BY <1>1, <1>2, <1>3, <1>4, <1>5, <1>6, <1>7, <1>8 DEF Next, Profile, Hosts, HostMoves

\* ProfileInv is an invariant.
LEMMA ProfileAlways == Spec => []ProfileInv
BY InitProfile, ProfileStep, PTL DEF Spec

(***************************************************************************)
(* The fields of BluetoothHIDProfile keep their types, and the host is     *)
(* shown the bits 0-2 only, for any hosts, buttons and queue length.       *)
(***************************************************************************)
THEOREM TypeCorrect == Spec => []TypeOK
<1>1. ProfileInv => TypeOK
  BY DEF ProfileInv
<1> QED
  BY <1>1, ProfileAlways, PTL

(***************************************************************************)
(* listen() never meets a connection that an earlier call has queued or    *)
(* accepted: _close_server_sockets() and _close_client_sockets() at the    *)
(* start of the call see to it, whatever failed before.                    *)
(***************************************************************************)
THEOREM AcceptsAreFresh == Spec => NoStaleAccept
<1>1. ProfileInv /\ [Next]_vars =>
        [\A ch \in Channel :
           Listen(ch) => backlog[ch] = <<>> /\ ~IsOpen(ch) /\ ~server[ch]]_vars
  <2> SUFFICES ASSUME ProfileInv, NEW ch \in Channel, Listen(ch)
               PROVE  backlog[ch] = <<>> /\ ~IsOpen(ch) /\ ~server[ch]
    OBVIOUS
  <2>1. phase = Listening[ch]
    BY DEF Listen
  <2>2. phase = "listen control" \/ (phase = "listen interrupt" /\ ch = "interrupt")
    <3>1. CASE ch = "control"
      BY <2>1, <3>1 DEF Listening
    <3>2. CASE ch = "interrupt"
      BY <2>1, <3>2 DEF Listening
    <3> QED
      BY <3>1, <3>2 DEF Channel
  <2> QED
    BY <2>2 DEF ProfileInv, FreshInv, Channel
<1> QED
  BY <1>1, ProfileAlways, PTL DEF NoStaleAccept, Spec
=============================================================================
