---------------------------- MODULE NetworkInput ----------------------------
(***************************************************************************)
(* The way of an injected mouse event from the primary PC to the merger:   *)
(* MouseHook::handle_mouse() and NetworkTransmitter::send_packet(), UDP,   *)
(* and the thread of udp_listener.py with protocol.py.                     *)
(*                                                                         *)
(* Windows calls the hook for one event at a time, before the cursor moves.*)
(* The axes are alike, so there is one.  The wheel and the extra buttons   *)
(* pass the hook and change nothing here.  The network is external: it     *)
(* loses, duplicates and reorders datagrams.                               *)
(***************************************************************************)
EXTENDS Integers, Sequences, SequencesExt

CONSTANTS
  Point,      \* screen coordinates
  Button,     \* the left, right and middle button
  Limit,      \* values of dx: 2^16
  SeqValues,  \* values of seq: 256
  Inbox,      \* datagrams the receive buffer holds
  MaxEvents,  \* bound: mouse events in a run
  MaxFaults   \* bound: faults of sockets and network in a run

ASSUME PointAssumption == Point \subseteq Int
ASSUME LimitAssumption == Limit \in Nat \ {0}
ASSUME SeqAssumption == SeqValues \in Nat \ {0} /\ MaxEvents \in Nat
ASSUME InboxAssumption == Inbox \in Nat
ASSUME MaxFaultsAssumption == MaxFaults \in Nat

VARIABLES
  cursor, appHeld,  \* external: the cursor, the buttons the application holds
  buttons, seq,     \* MouseHook: buttons_ and seq_
  relative,         \* its configuration: use_relative_deltas
  wire, inbox,      \* external: the network and the receive buffer
  running, pc,      \* UDPListener: _running and where the thread is
  bound,            \* whether its socket is bound
  network, total,   \* InputMerger: _buttons_network, the motion from this source
  wanted, wide,     \* history: motion injected, whether a step was too wide
  lost, extra,      \* history: motion of packets lost and of duplicates
  clean,            \* history: every packet has arrived so far, in order
  events, faults    \* counters for the bounds

application == <<cursor, appHeld>>
hook     == <<buttons, seq, relative>>
channel  == <<wire, inbox>>
listener == <<running, pc, bound>>
merger   == <<network, total>>
sums     == <<wanted, wide, lost, extra>>
vars == <<application, hook, channel, listener, merger, sums, clean, events, faults>>

\* Mutants: the difference is not cut to the field, the field is read as unsigned.
EncodeWhole(v) == v
DecodeUnsigned(u) == u

\* int16_t on the wire, and struct's "h" that reads it.
Encode(v) == v % Limit
Decode(u) == IF 2 * u >= Limit THEN u - Limit ELSE u
Fits(v)   == -Limit <= 2 * v /\ 2 * v < Limit

\* What the receiver makes of a datagram; Junk fails the size or magic test.
Junk == [valid |-> FALSE, dx |-> 0, buttons |-> {}, seq |-> 0]
Parsed(p) == [move |-> Decode(p.dx), held |-> p.buttons]

\* The motion in the first 0, 1, 2... datagrams of a queue, and in all of them.
Sums(q) ==
  LET sum[i \in 0 .. Len(q)] == IF i = 0 THEN 0 ELSE sum[i - 1] + Parsed(q[i]).move
  IN  sum
Motion(q) == Sums(q)[Len(q)]

Init ==
  /\ cursor \in Point /\ appHeld \in SUBSET Button
  /\ buttons = {} /\ seq = 0 /\ relative \in BOOLEAN
  /\ wire = <<>> /\ inbox = <<>>
  /\ running = FALSE /\ pc = "start" /\ bound = FALSE
  /\ network = {} /\ total = 0
  /\ wanted = 0 /\ wide = FALSE /\ lost = 0 /\ extra = 0
  /\ clean = (appHeld = {})
  /\ events = 0 /\ faults = 0
-----------------------------------------------------------------------------
Packet(dx, held) == [valid |-> TRUE, dx |-> Encode(dx), buttons |-> held, seq |-> seq]

\* sendto() on the non-blocking socket; nobody looks at its result.
Transmit(p) ==
  \/ /\ wire' = Append(wire, p)
     /\ UNCHANGED <<lost, clean, faults>>
  \/ /\ faults < MaxFaults
     /\ faults' = faults + 1
     /\ lost' = lost + Parsed(p).move
     /\ clean' = FALSE
     /\ UNCHANGED wire

Forward(p) ==
  /\ Transmit(p)
  /\ seq' = (seq + 1) % SeqValues
  /\ UNCHANGED relative

\* An injected WM_MOUSEMOVE is suppressed: the cursor stays where it is.
InjectMove(pt) ==
  /\ events < MaxEvents
  /\ Forward(Packet(IF relative THEN pt - cursor ELSE pt, buttons))
  /\ wanted' = wanted + (pt - cursor)
  /\ wide' = (wide \/ ~Fits(pt - cursor))
  /\ events' = events + 1
  /\ UNCHANGED <<application, buttons, inbox, listener, merger, extra>>

\* Mutant: the packet takes the mask from before the event.
InjectButtonStale(held, b) ==
  /\ events < MaxEvents
  /\ appHeld' = held
  /\ buttons' = b
  /\ Forward(Packet(0, buttons))
  /\ events' = events + 1
  /\ UNCHANGED <<cursor, inbox, listener, merger, wanted, wide, extra>>

InjectButton(held, b) ==
  /\ events < MaxEvents
  /\ appHeld' = held
  /\ buttons' = b
  /\ Forward(Packet(0, b))
  /\ events' = events + 1
  /\ UNCHANGED <<cursor, inbox, listener, merger, wanted, wide, extra>>

Press(b)   == b \notin appHeld /\ InjectButton(appHeld \union {b}, buttons \union {b})
Release(b) == b \in appHeld /\ InjectButton(appHeld \ {b}, buttons \ {b})

\* A physical mouse, the emulated one included, passes the hook.
PhysicalMove(pt) ==
  /\ pt # cursor /\ events < MaxEvents
  /\ cursor' = pt
  /\ events' = events + 1
  /\ UNCHANGED <<appHeld, hook, channel, listener, merger, sums, clean, faults>>
-----------------------------------------------------------------------------
\* The i-th datagram under way arrives; without a socket, or with a full
\* receive buffer, it is dropped.
Arrive(i) ==
  /\ wire' = RemoveAt(wire, i)
  /\ \/ /\ bound /\ Len(inbox) < Inbox
        /\ inbox' = Append(inbox, wire[i])
        /\ clean' = (clean /\ i = 1)
        /\ UNCHANGED lost
     \/ /\ ~bound \/ Len(inbox) >= Inbox
        /\ lost' = lost + Parsed(wire[i]).move
        /\ clean' = (clean /\ ~wire[i].valid)
        /\ UNCHANGED inbox
  /\ UNCHANGED <<application, hook, listener, merger, wanted, wide, extra, events>>

Deliver == wire # <<>> /\ Arrive(1) /\ UNCHANGED faults

Fault == faults < MaxFaults /\ faults' = faults + 1

Overtake(i) == Fault /\ i # 1 /\ Arrive(i)

Lose(i) ==
  /\ Fault
  /\ wire' = RemoveAt(wire, i)
  /\ lost' = lost + Parsed(wire[i]).move
  /\ clean' = FALSE
  /\ UNCHANGED <<application, hook, inbox, listener, merger, wanted, wide, extra, events>>

Duplicate(i) ==
  /\ Fault
  /\ wire' = Append(wire, wire[i])
  /\ extra' = extra + Parsed(wire[i]).move
  /\ clean' = FALSE
  /\ UNCHANGED <<application, hook, inbox, listener, merger, wanted, wide, lost, events>>

Stray ==
  /\ Fault
  /\ wire' = Append(wire, Junk)
  /\ UNCHANGED <<application, hook, inbox, listener, merger, sums, clean, events>>
-----------------------------------------------------------------------------
Bind ==
  /\ pc = "start"
  /\ running' = TRUE /\ bound' = TRUE
  /\ pc' = "loop"
  /\ UNCHANGED <<application, hook, channel, merger, sums, clean, events, faults>>

\* The thread ends; main() is not told.
BindFails ==
  /\ pc = "start" /\ Fault
  /\ running' = TRUE
  /\ pc' = "done"
  /\ UNCHANGED <<application, hook, channel, bound, merger, sums, clean, events>>

Loop ==
  /\ pc = "loop" /\ running
  /\ pc' = "recv"
  /\ UNCHANGED <<application, hook, channel, running, bound, merger, sums, clean, events, faults>>

\* Mutant: the masks of packets add up.
AccumulateOr(r) ==
  /\ total'   = total + r.move
  /\ network' = network \union r.held

\* InputMerger.accumulate(), source 'network'
Accumulate(r) ==
  /\ total'   = total + r.move
  /\ network' = r.held

Receive ==
  /\ pc = "recv" /\ inbox # <<>>
  /\ inbox' = Tail(inbox)
  /\ \/ Head(inbox).valid /\ Accumulate(Parsed(Head(inbox)))
     \/ ~Head(inbox).valid /\ UNCHANGED merger
  /\ pc' = "loop"
  /\ UNCHANGED <<application, hook, wire, running, bound, sums, clean, events, faults>>

\* Mutant: recvfrom() is repeated without a look at _running.
TimeoutRetries == pc = "recv" /\ inbox = <<>> /\ UNCHANGED vars

Timeout ==
  /\ pc = "recv" /\ inbox = <<>>
  /\ pc' = "loop"
  /\ UNCHANGED <<application, hook, channel, running, bound, merger, sums, clean, events, faults>>

\* _cleanup() after the loop; the receive buffer goes with the socket.
Cleanup ==
  /\ bound' = FALSE
  /\ inbox' = <<>>
  /\ lost'  = lost + Motion(inbox)
  /\ clean' = (clean /\ inbox = <<>>)
  /\ pc' = "done"
  /\ UNCHANGED <<application, hook, wire, running, merger, wanted, wide, extra, events>>

ReceiveFails == pc = "recv" /\ Fault /\ Cleanup

LeaveLoop == pc = "loop" /\ ~running /\ Cleanup /\ UNCHANGED faults

\* stop(); main() calls it long after run() has begun.
Stop ==
  /\ pc # "start" /\ running
  /\ running' = FALSE
  /\ UNCHANGED <<application, hook, channel, pc, bound, merger, sums, clean, events, faults>>

Hook ==
  \/ \E pt \in Point : InjectMove(pt) \/ PhysicalMove(pt)
  \/ \E b \in Button : Press(b) \/ Release(b)

Network ==
  \/ Deliver \/ Stray
  \/ \E i \in DOMAIN wire : Overtake(i) \/ Lose(i) \/ Duplicate(i)

Listener == Bind \/ Loop \/ Receive \/ Timeout \/ LeaveLoop

Terminated == pc = "done" /\ UNCHANGED vars

Next == Hook \/ Network \/ Listener \/ BindFails \/ ReceiveFails \/ Stop \/ Terminated

\* The listener's thread is never starved; the network promises nothing.
Spec == Init /\ [][Next]_vars /\ WF_vars(Listener)
-----------------------------------------------------------------------------
(***************************************************************************)
(* The types; datagrams wait for a bound socket only, and the fields of a  *)
(* packet fit its layout.                                                  *)
(***************************************************************************)
Datagram ==
  [valid : {TRUE}, dx : 0 .. Limit - 1, buttons : SUBSET Button, seq : 0 .. SeqValues - 1]
    \union {Junk}

TypeOK ==
  /\ cursor \in Point /\ appHeld \in SUBSET Button
  /\ buttons \in SUBSET Button /\ seq \in 0 .. SeqValues - 1 /\ relative \in BOOLEAN
  /\ wire \in Seq(Datagram) /\ inbox \in Seq(Datagram)
  /\ Len(inbox) <= Inbox /\ (inbox # <<>> => bound)
  /\ running \in BOOLEAN /\ pc \in {"start", "loop", "recv", "done"}
  /\ bound \in BOOLEAN /\ (bound <=> pc \in {"loop", "recv"})
  /\ network \in SUBSET Button /\ total \in Int
  /\ wanted \in Int /\ wide \in BOOLEAN /\ lost \in Int /\ extra \in Int
  /\ clean \in BOOLEAN /\ events \in 0 .. MaxEvents /\ faults \in 0 .. MaxFaults

(***************************************************************************)
(* With relative deltas the motion the application asks for arrives at the *)
(* merger, but for what the network and the sockets lose or double: to the *)
(* unit as long as every step fits the field, and modulo Limit when one    *)
(* does not.  The absolute mode is left out: it puts coordinates into the  *)
(* field, and the merger adds them up like differences.                    *)
(***************************************************************************)
MotionAccounted ==
  LET gap == (wanted + extra) - (total + Motion(wire) + Motion(inbox) + lost)
  IN  relative => gap % Limit = 0 /\ (~wide => gap = 0)

(***************************************************************************)
(* As long as every packet arrives in order, the merger lags behind the    *)
(* application by the packets under way and by nothing else: with none     *)
(* under way it holds exactly the buttons the application holds.           *)
(***************************************************************************)
NetworkFollowsApp ==
  clean /\ wire = <<>> /\ inbox = <<>> => network = appHeld

(***************************************************************************)
(* Whatever was lost, doubled or overtaken before: the newest packet sets  *)
(* the merger right, because it carries all the buttons.  The property     *)
(* tells packets apart by their number, so it speaks of runs with fewer    *)
(* events than numbers.                                                    *)
(***************************************************************************)
Newest(p) == p.valid /\ (p.seq + 1) % SeqValues = seq

NewestHeals == [][Receive /\ Newest(Head(inbox)) => network' = buttons]_vars

(***************************************************************************)
(* stop() ends the thread and closes its socket, with or without traffic.  *)
(***************************************************************************)
StopEnds == ~running /\ pc # "start" ~> pc = "done" /\ ~bound
=============================================================================
