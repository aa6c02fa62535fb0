---------------------------- MODULE HidEmulator ----------------------------
(***************************************************************************)
(* main() of linux-hid-emulator/hid_emulator.py: the loop that waits for a *)
(* host, dispatches the merged input to it and reconnects, composed of     *)
(* InputMerger (its calls are atomic, see InputMergerThreads) and          *)
(* BluetoothHIDProfile.  The two input threads appear as calls of          *)
(* accumulate() at any moment, the signal handler as a write of _running.  *)
(***************************************************************************)
EXTENDS Integers, Sequences

CONSTANTS
  Axis, Button, ClampMax, Delta, MaxTotal,  \* as in InputMerger
  Host, HidButton, Backlog,                 \* as in BluetoothHIDProfile
  MaxInputs,  \* bound: calls of accumulate() in a run
  MaxFaults   \* bound: hosts that leave and socket calls that fail in a run

ASSUME ClampMaxAssumption == ClampMax \in Nat \ {0}
ASSUME DeltaAssumption == Delta \subseteq Int
ASSUME MaxTotalAssumption == MaxTotal \in Nat
ASSUME HidButtonAssumption == HidButton \subseteq Button
ASSUME BacklogAssumption == Backlog \in Nat \ {0}
ASSUME MaxInputsAssumption == MaxInputs \in Nat
ASSUME MaxFaultsAssumption == MaxFaults \in Nat

VARIABLES
  motion, buttons, report, accepted, emitted,               \* InputMerger
  phase, server, backlog, client, connected,                \* BluetoothHIDProfile
  away, taken, hostHeld,
  running,        \* _running
  pc,             \* where main() is
  last_buttons,   \* the mask of the last report sent on this connection
  sent,           \* history: the motion of the reports that send() took
  lost,           \* history: the motion of reports that it refused
  inputs, faults  \* counters for the bounds

mergerVars  == <<motion, buttons, report, accepted, emitted>>
profileVars == <<phase, server, backlog, client, connected, away, taken, hostHeld>>
mainVars    == <<running, pc, last_buttons>>
history     == <<sent, lost>>
vars == <<mergerVars, profileVars, mainVars, history, inputs, faults>>

Merger  == INSTANCE InputMerger
Profile == INSTANCE BluetoothHIDProfile

PC == {"setup", "outer", "waiting", "tick", "send", "after", "done"}
InLoop == pc \in {"tick", "send"}

Init ==
  /\ Merger!Init
  /\ Profile!Init
  /\ running = TRUE
  /\ pc = "setup"
  /\ last_buttons = {}
  /\ sent = Merger!NoMotion /\ lost = Merger!NoMotion
  /\ inputs = 0 /\ faults = 0
-----------------------------------------------------------------------------
\* setup(), which meets the handlers installed and the input threads started.
\* The commands and D-Bus calls that fail in it are logged and ignored.
SetUp ==
  /\ pc = "setup"
  /\ pc' = "outer"
  /\ UNCHANGED <<mergerVars, profileVars, running, last_buttons, history, inputs, faults>>

\* But for sdptool: when it is missing or times out, the exception goes through
\* setup() and main(), past _shutdown(), and the process ends.
SetUpRaises ==
  /\ pc = "setup" /\ faults < MaxFaults
  /\ pc' = "done"
  /\ faults' = faults + 1
  /\ UNCHANGED <<mergerVars, profileVars, running, last_buttons, history, inputs>>

\* while _running: wait_for_connection() is called, or main() cleans up.
Outer ==
  /\ pc = "outer" /\ running
  /\ Profile!WaitForConnection
  /\ pc' = "waiting"
  /\ UNCHANGED <<mergerVars, running, last_buttons, history, inputs, faults>>

\* Its steps that return nothing yet.
Waiting ==
  /\ pc = "waiting"
  /\ (\E ch \in Profile!Channel : Profile!Listen(ch)) \/ Profile!Accept("control")
  /\ UNCHANGED <<mergerVars, mainVars, history, inputs, faults>>

Connected ==
  /\ pc = "waiting"
  /\ Profile!Accept("interrupt")
  /\ pc' = "tick"
  /\ last_buttons' = {}
  /\ UNCHANGED <<mergerVars, running, history, inputs, faults>>

\* Mutant: a failed attempt ends the outer loop ("break" for "continue").
NotConnectedGivesUp ==
  /\ pc = "waiting" /\ faults < MaxFaults
  /\ Profile!ListenFails \/ Profile!AcceptFails
  /\ pc' = "done"
  /\ faults' = faults + 1
  /\ UNCHANGED <<mergerVars, running, last_buttons, history, inputs>>

\* It returns False; the loop sleeps two seconds and tries again.
NotConnected ==
  /\ pc = "waiting" /\ faults < MaxFaults
  /\ Profile!ListenFails \/ Profile!AcceptFails
  /\ pc' = "outer"
  /\ faults' = faults + 1
  /\ UNCHANGED <<mergerVars, running, last_buttons, history, inputs>>

Tick ==
  /\ pc = "tick" /\ running /\ Profile!IsConnected
  /\ Merger!Flush
  /\ pc' = "send"
  /\ UNCHANGED <<profileVars, running, last_buttons, history, inputs, faults>>

\* Mutant: only a change of the buttons is worth a report.
WorthSendingButtons == report.held # last_buttons

\* Mutant: only motion is worth a report.
WorthSendingMotion == report.move # Merger!NoMotion

WorthSending ==
  report.move # Merger!NoMotion \/ report.held # last_buttons

Skip ==
  /\ pc = "send" /\ ~WorthSending
  /\ pc' = "tick"
  /\ UNCHANGED <<mergerVars, profileVars, running, last_buttons, history, inputs, faults>>

\* Mutant: last_buttons is not updated.
SendForgetsButtons ==
  /\ pc = "send" /\ WorthSending
  /\ Profile!SendReport(report.held)
  /\ sent' = Merger!Plus(sent, report.move)
  /\ pc' = "tick"
  /\ UNCHANGED <<mergerVars, running, last_buttons, lost, inputs, faults>>

Send ==
  /\ pc = "send" /\ WorthSending
  /\ Profile!SendReport(report.held)
  /\ last_buttons' = report.held
  /\ sent' = Merger!Plus(sent, report.move)
  /\ pc' = "tick"
  /\ UNCHANGED <<mergerVars, running, lost, inputs, faults>>

\* The flushed motion is in no field any more when send_report() fails.  On a
\* link that the kernel still keeps, the error is a fault.
SendFails ==
  /\ pc = "send" /\ WorthSending
  /\ Profile!SendReportFails
  /\ \/ ~Profile!LinkUp /\ UNCHANGED faults
     \/ Profile!LinkUp /\ faults < MaxFaults /\ faults' = faults + 1
  /\ lost' = Merger!Plus(lost, report.move)
  /\ pc' = "after"
  /\ UNCHANGED <<mergerVars, running, last_buttons, sent, inputs>>

LeaveLoop ==
  /\ pc = "tick" /\ ~(running /\ Profile!IsConnected)
  /\ pc' = "after"
  /\ UNCHANGED <<mergerVars, profileVars, running, last_buttons, history, inputs, faults>>

Reconnect ==
  /\ pc = "after" /\ running
  /\ Profile!Disconnect
  /\ last_buttons' = {}
  /\ pc' = "outer"
  /\ UNCHANGED <<mergerVars, running, history, inputs, faults>>

\* Mutant: the sockets are left to the exit of the process.
ShutdownKeepsSockets ==
  /\ pc \in {"outer", "after"} /\ ~running
  /\ pc' = "done"
  /\ UNCHANGED <<mergerVars, profileVars, running, last_buttons, history, inputs, faults>>

\* The outer loop ends; _shutdown() stops the daemon threads and disconnects.
Shutdown ==
  /\ pc \in {"outer", "after"} /\ ~running
  /\ Profile!Disconnect
  /\ pc' = "done"
  /\ UNCHANGED <<mergerVars, running, last_buttons, history, inputs, faults>>
-----------------------------------------------------------------------------
\* A thread reports input; local_mouse.py masks its buttons, the network's
\* mask is the byte of the packet.
Input ==
  /\ pc # "done" /\ inputs < MaxInputs
  /\ \E s \in Merger!Source, d \in [Axis -> Delta], b \in SUBSET Button :
       /\ s = "local" => b \subseteq HidButton
       /\ Merger!Acceptable(d) /\ Merger!Accumulate(s, d, b)
  /\ inputs' = inputs + 1
  /\ UNCHANGED <<profileVars, mainVars, history, faults>>

\* SIGINT or SIGTERM: the handler only clears _running, so that a blocked
\* accept() is resumed when the handler returns.
Signal ==
  /\ running
  /\ running' = FALSE
  /\ UNCHANGED <<mergerVars, profileVars, pc, last_buttons, history, inputs, faults>>

HostConnect(h, ch) ==
  /\ Profile!HostConnect(h, ch)
  /\ UNCHANGED <<mergerVars, mainVars, history, inputs, faults>>

HostGoes(h) ==
  /\ faults < MaxFaults
  /\ Profile!HostLeave(h) \/ Profile!HostFades(h)
  /\ faults' = faults + 1
  /\ UNCHANGED <<mergerVars, mainVars, history, inputs>>

HostReturns(h) ==
  /\ Profile!HostReturns(h)
  /\ UNCHANGED <<mergerVars, mainVars, history, inputs, faults>>

LinkTimeout(h) ==
  /\ Profile!LinkTimeout(h)
  /\ UNCHANGED <<mergerVars, mainVars, history, inputs, faults>>

Hosts(h) ==
  \/ HostGoes(h) \/ HostReturns(h) \/ LinkTimeout(h)
  \/ \E ch \in Profile!Channel : HostConnect(h, ch)

\* After main() returns there is nothing left to do.
Terminated == pc = "done" /\ UNCHANGED vars

Main ==
  \/ SetUp \/ Outer \/ Waiting \/ Connected
  \/ Tick \/ Skip \/ Send \/ SendFails \/ LeaveLoop
  \/ Reconnect \/ Shutdown

Environment ==
  \/ Input \/ Signal \/ SetUpRaises \/ NotConnected
  \/ \E h \in Host : Hosts(h)

Next == Main \/ Environment \/ Terminated

\* The main thread is never starved, and the kernel gives up the links of a host
\* that stays away; nobody has to move a mouse, to connect, to send a signal or
\* to make a socket call fail.
Spec ==
  /\ Init /\ [][Next]_vars
  /\ WF_vars(Main)
  /\ WF_vars(\E h \in Host : LinkTimeout(h))
-----------------------------------------------------------------------------
(***************************************************************************)
(* The types of the parts, of main()'s variables and of the histories.     *)
(***************************************************************************)
TypeOK ==
  /\ Merger!TypeOK
  /\ Profile!TypeOK
  /\ running \in BOOLEAN
  /\ pc \in PC
  /\ last_buttons \in SUBSET Button
  /\ sent \in [Axis -> Int] /\ lost \in [Axis -> Int]
  /\ inputs \in 0 .. MaxInputs /\ faults \in 0 .. MaxFaults

(***************************************************************************)
(* No motion disappears unnoticed: what the input threads accumulated has  *)
(* been taken by send(), is pending in the merger, is in the report about  *)
(* to be sent, or was in a report that send_report() refused.              *)
(***************************************************************************)
InFlight == IF pc = "send" THEN report.move ELSE Merger!NoMotion

MotionAccounted ==
  accepted = Merger!Plus(Merger!Plus(motion, InFlight), Merger!Plus(sent, lost))

(***************************************************************************)
(* In the dispatch loop last_buttons is what a host in range sees, across  *)
(* reconnections, and what one that comes back into range will see: the    *)
(* comparison that saves redundant reports never hides a press or a        *)
(* release, not even one that was sent while the host was away.            *)
(***************************************************************************)
HostInStep ==
  InLoop /\ Profile!LinkUp =>
    /\ taken = Profile!Packed(last_buttons)
    /\ Profile!HostHears => hostHeld = taken

(***************************************************************************)
(* As long as the program stays in its dispatch loop, all input is worked  *)
(* off: eventually no motion is pending and a host in range sees the       *)
(* buttons of the merged input.                                            *)
(***************************************************************************)
InputReachesHost ==
  <>[](InLoop /\ running) =>
    <>[](/\ motion = Merger!NoMotion
         /\ Profile!HostHears => hostHeld = Profile!Packed(Merger!MergedButtons))

(***************************************************************************)
(* A signal anywhere but in wait_for_connection() - during the setup, in   *)
(* the dispatch loop, between two connections - ends the program with      *)
(* every socket closed, and without another wait for a host.               *)
(***************************************************************************)
AllClosed == \A ch \in Profile!Channel : ~server[ch] /\ ~Profile!IsOpen(ch)

ShutdownOutsideWait ==
  pc # "waiting" /\ ~running ~> pc = "done" /\ AllClosed

(***************************************************************************)
(* When the hosts that are around keep trying, a program that waits gets a *)
(* connection: no failed call, dead control channel or left-over socket    *)
(* blocks it.                                                              *)
(***************************************************************************)
HostsRetry ==
  \A h \in Host : \A ch \in Profile!Channel : WF_vars(HostConnect(h, ch))

Reconnects ==
  HostsRetry => (running /\ pc \in {"outer", "waiting"} ~> InLoop \/ ~running)

(***************************************************************************)
(* hid_emulator.py:53: "Handle SIGINT/SIGTERM for graceful shutdown."      *)
(***************************************************************************)
ShutdownCompletes == ~running ~> pc = "done"

(***************************************************************************)
(* hid_emulator.py:13: "Automatically reconnects when the Bluetooth host   *)
(* disconnects": a link that the kernel has given up is noticed.           *)
(***************************************************************************)
DeadLinkNoticed == InLoop /\ ~Profile!LinkUp ~> ~InLoop
=============================================================================
