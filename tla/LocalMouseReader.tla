-------------------------- MODULE LocalMouseReader --------------------------
(***************************************************************************)
(* The thread of linux-hid-emulator/local_mouse.py: it opens the mice it   *)
(* finds, selects on them, keeps one button mask per device and hands      *)
(* motion and masks to InputMerger as source 'local'.                      *)
(*                                                                         *)
(* The mice, the kernel's evdev queues and python-evdev are external: a    *)
(* queue that overflows keeps a SYN_DROPPED and the newest event, a mouse  *)
(* that is unplugged makes its descriptor readable and every read fail.    *)
(* read() is a generator in python-evdev, so the failure can also come out *)
(* of the loop over the events, which ends _read_loop() by an exception.   *)
(***************************************************************************)
EXTENDS Integers, Sequences, FiniteSets

CONSTANTS
  Mouse,      \* the USB mice; one that is plugged in again is a new device
  Button,     \* BTN_LEFT, BTN_RIGHT and BTN_MIDDLE
  Queue,      \* events the kernel queues per open device
  MaxEvents,  \* bound: events of all mice in a run
  MaxFaults   \* bound: mice unplugged or not opened, and select() errors

ASSUME MouseAssumption == IsFiniteSet(Mouse)
ASSUME QueueAssumption == Queue \in Nat \ {0, 1}
ASSUME MaxEventsAssumption == MaxEvents \in Nat
ASSUME MaxFaultsAssumption == MaxFaults \in Nat

VARIABLES
  running,         \* _running
  pc,              \* where the thread is
  open,            \* fd_to_dev
  ready,           \* what is left of readable
  mask,            \* buttons_by_fd
  local, total,    \* InputMerger: _buttons_local, the motion from this source
  attached, held,  \* external: the mice that are plugged in, their buttons
  alive, queue,    \* external: open devices that still exist, their queues
  moved, dropped,  \* history: motion of open devices, motion never read
  unseen,          \* history: buttons that were down before the device was opened
  blind,           \* history: open devices whose queue has overflowed
  events, faults   \* counters for the bounds

thread  == <<running, pc, open, ready, mask>>
merger  == <<local, total>>
kernel  == <<attached, held, alive, queue>>
history == <<moved, dropped, unseen, blind>>
vars == <<thread, merger, kernel, history, events, faults>>

\* The events a mouse queues; Other stands for the wheel, for SYN_REPORT and
\* SYN_DROPPED, and for the buttons the reader has no bit for.
Other  == [step |-> 0, down |-> {}, up |-> {}]
Move   == [Other EXCEPT !.step = 1]
Press(b)   == [Other EXCEPT !.down = {b}]
Release(b) == [Other EXCEPT !.up = {b}]
Event == {Other, Move} \union {Press(b) : b \in Button} \union {Release(b) : b \in Button}

\* The steps in a queue, and in all the queues qs.
Steps(q) == {i \in DOMAIN q : q[i].step = 1}
Waiting(qs) == {p \in Mouse \X (1 .. Queue) : p[2] \in Steps(qs[p[1]])}

Motion(q) == Cardinality(Steps(q))
Pending == Cardinality(Waiting(queue))

\* Mutant: a release is taken for another press.
PressedStuck(btn, e) == btn \union e.down \union e.up

Pressed(btn, e) == (btn \union e.down) \ e.up

\* The mask after the first 0, 1, 2... events of q, and after all of them.
Masks(btn, q) ==
  LET after[i \in 0 .. Len(q)] == IF i = 0 THEN btn ELSE Pressed(after[i - 1], q[i])
  IN  after
MaskAfter(btn, q) == Masks(btn, q)[Len(q)]

\* Mutant: only a button is a change.
ChangedByButtons(q) == \E i \in DOMAIN q : q[i].down # {} \/ q[i].up # {}

Changed(q) == \E i \in DOMAIN q : q[i] # Other

Init ==
  /\ running = FALSE /\ pc = "start"
  /\ open = {} /\ ready = {} /\ mask = [m \in Mouse |-> {}]
  /\ local = {} /\ total = 0
  /\ attached \in SUBSET Mouse /\ held = [m \in Mouse |-> {}]
  /\ alive = {} /\ queue = [m \in Mouse |-> <<>>]
  /\ moved = 0 /\ dropped = 0
  /\ unseen = [m \in Mouse |-> {}] /\ blind = {}
  /\ events = 0 /\ faults = 0
-----------------------------------------------------------------------------
Run ==
  /\ pc = "start"
  /\ running' = TRUE
  /\ pc' = "loop"
  /\ UNCHANGED <<open, ready, mask, merger, kernel, history, events, faults>>

Loop ==
  /\ pc = "loop"
  /\ pc' = IF running THEN "scan" ELSE "done"
  /\ UNCHANGED <<running, open, ready, mask, merger, kernel, history, events, faults>>

\* _find_mice() and the two dictionaries.  A device that cannot be opened is
\* skipped; without any the thread sleeps and tries again.
FindMice(found) ==
  /\ pc = "scan"
  /\ found # attached => faults < MaxFaults
  /\ faults' = IF found = attached THEN faults ELSE faults + 1
  /\ open'  = found
  /\ alive' = found
  /\ mask'  = [m \in Mouse |-> {}]
  /\ queue' = [m \in Mouse |-> <<>>]
  /\ unseen' = [m \in Mouse |-> IF m \in found THEN held[m] ELSE {}]
  /\ blind' = {}
  /\ pc' = IF found = {} THEN "sleep" ELSE "select"
  /\ UNCHANGED <<running, ready, merger, attached, held, moved, dropped, events>>

\* Mutant: only the loss of all devices ends the loop.
SelectForever ==
  /\ pc = "select" /\ open # {}
  /\ pc' = "blocked"
  /\ UNCHANGED <<running, open, ready, mask, merger, kernel, history, events, faults>>

\* The test of the inner loop, before select().
Select ==
  /\ pc = "select" /\ running /\ open # {}
  /\ pc' = "blocked"
  /\ UNCHANGED <<running, open, ready, mask, merger, kernel, history, events, faults>>

\* Mutant: select() is given the mice of the scan, the lost ones too.
SelectedAll ==
  /\ pc = "blocked"
  /\ ready' = {m \in Mouse : queue[m] # <<>> \/ m \notin alive}
  /\ pc' = IF ready' = {} THEN "select" ELSE "read"
  /\ UNCHANGED <<running, open, mask, merger, kernel, history, events, faults>>

\* select() returns the readable descriptors, none of them after a second.
Selected ==
  /\ pc = "blocked"
  /\ ready' = {m \in open : queue[m] # <<>> \/ m \notin alive}
  /\ pc' = IF ready' = {} THEN "select" ELSE "read"
  /\ UNCHANGED <<running, open, mask, merger, kernel, history, events, faults>>

Done(m) ==
  /\ ready' = ready \ {m}
  /\ pc' = IF ready' = {} THEN "select" ELSE "read"

\* One pass of the loop over readable: the mask is kept, and the merger is
\* called unless all the events were of no interest.
Read(m) ==
  /\ pc = "read" /\ m \in ready /\ m \in alive
  /\ \E n \in 1 .. Len(queue[m]) :
       LET q == SubSeq(queue[m], 1, n)
           btn == MaskAfter(mask[m], q)
       IN  /\ queue' = [queue EXCEPT ![m] = SubSeq(@, n + 1, Len(@))]
           /\ \/ /\ Changed(q)
                 /\ mask'  = [mask EXCEPT ![m] = btn]
                 /\ local' = btn
                 /\ total' = total + Motion(q)
              \/ /\ ~Changed(q)
                 /\ UNCHANGED <<mask, merger>>
  /\ Done(m)
  /\ UNCHANGED <<running, open, attached, held, alive, history, events, faults>>

\* Mutant: the lost device stays in fd_to_dev.
ReadLostKept(m) ==
  /\ pc = "read" /\ m \in ready /\ m \notin alive
  /\ Done(m)
  /\ UNCHANGED <<running, open, mask, merger, kernel, history, events, faults>>

\* dev.read() raises OSError: the device and its mask are forgotten.
ReadLost(m) ==
  /\ pc = "read" /\ m \in ready /\ m \notin alive
  /\ open' = open \ {m}
  /\ mask' = [mask EXCEPT ![m] = {}]
  /\ Done(m)
  /\ UNCHANGED <<running, merger, kernel, history, events, faults>>

\* The finally clause, and the sleep after it unless the thread is stopped.
CloseAll ==
  /\ open' = {} /\ ready' = {} /\ alive' = {}
  /\ mask'  = [m \in Mouse |-> {}]
  /\ queue' = [m \in Mouse |-> <<>>]
  /\ dropped' = dropped + Pending
  /\ unseen' = [m \in Mouse |-> {}]
  /\ blind' = {}
  /\ pc' = IF running THEN "sleep" ELSE "loop"
  /\ UNCHANGED <<running, merger, attached, held, moved, events>>

LeaveLoop ==
  /\ pc = "select" /\ ~(running /\ open # {})
  /\ CloseAll
  /\ UNCHANGED faults

\* The error comes out of the loop over the events.
ReadRaises(m) ==
  /\ pc = "read" /\ m \in ready /\ m \notin alive
  /\ CloseAll
  /\ UNCHANGED faults

SelectFails ==
  /\ pc = "blocked" /\ faults < MaxFaults
  /\ CloseAll
  /\ faults' = faults + 1

Wake ==
  /\ pc = "sleep"
  /\ pc' = "loop"
  /\ UNCHANGED <<running, open, ready, mask, merger, kernel, history, events, faults>>

\* stop(); main() calls it long after run() has begun.
Stop ==
  /\ pc \notin {"start", "done"} /\ running
  /\ running' = FALSE
  /\ UNCHANGED <<pc, open, ready, mask, merger, kernel, history, events, faults>>
-----------------------------------------------------------------------------
Queued(q, e) == IF Len(q) < Queue THEN Append(q, e) ELSE <<Other, e>>

\* The user moves or clicks a mouse.
Happens(m, e) ==
  /\ m \in attached /\ events < MaxEvents
  /\ e.down \intersect held[m] = {} /\ e.up \subseteq held[m]
  /\ events' = events + 1
  /\ held' = [held EXCEPT ![m] = (@ \union e.down) \ e.up]
  /\ IF m \in alive
     THEN /\ queue' = [queue EXCEPT ![m] = Queued(@, e)]
          /\ moved' = moved + e.step
          /\ dropped' = (dropped + Motion(queue[m]) + e.step) - Motion(queue'[m])
          /\ unseen' = [unseen EXCEPT ![m] = @ \ e.up]
          /\ blind' = IF Len(queue[m]) < Queue THEN blind ELSE blind \union {m}
     ELSE UNCHANGED <<queue, history>>
  /\ UNCHANGED <<thread, merger, attached, alive, faults>>

Plug(m) ==
  /\ m \notin attached
  /\ attached' = attached \union {m}
  /\ UNCHANGED <<thread, merger, held, alive, queue, history, events, faults>>

Unplug(m) ==
  /\ m \in attached /\ faults < MaxFaults
  /\ attached' = attached \ {m}
  /\ held'  = [held EXCEPT ![m] = {}]
  /\ alive' = alive \ {m}
  /\ queue' = [queue EXCEPT ![m] = <<>>]
  /\ dropped' = dropped + Motion(queue[m])
  /\ faults' = faults + 1
  /\ UNCHANGED <<thread, merger, moved, unseen, blind, events>>

\* The daemon thread has ended.
Terminated == pc = "done" /\ UNCHANGED vars

Reader ==
  \/ Run \/ Loop \/ FindMice(attached)
  \/ Select \/ Selected \/ LeaveLoop \/ Wake
  \/ \E m \in Mouse : Read(m) \/ ReadLost(m) \/ ReadRaises(m)

Environment ==
  \/ Stop \/ SelectFails
  \/ \E found \in SUBSET attached : FindMice(found)
  \/ \E m \in Mouse : Plug(m) \/ Unplug(m) \/ \E e \in Event : Happens(m, e)

Next == Reader \/ Environment \/ Terminated

\* The thread is never starved; nobody has to touch a mouse.
Spec == Init /\ [][Next]_vars /\ WF_vars(Reader)
-----------------------------------------------------------------------------
(***************************************************************************)
(* The types; the thread looks at open devices only.                       *)
(***************************************************************************)
PC == {"start", "loop", "scan", "select", "blocked", "read", "sleep", "done"}

TypeOK ==
  /\ running \in BOOLEAN /\ pc \in PC
  /\ open \in SUBSET Mouse /\ ready \in SUBSET open
  /\ mask \in [Mouse -> SUBSET Button]
  /\ local \in SUBSET Button /\ total \in Nat
  /\ attached \in SUBSET Mouse /\ held \in [Mouse -> SUBSET Button]
  /\ alive \in SUBSET (open \intersect attached)
  /\ queue \in [Mouse -> Seq(Event)] /\ \A m \in Mouse : Len(queue[m]) <= Queue
  /\ moved \in Nat /\ dropped \in Nat
  /\ unseen \in [Mouse -> SUBSET Button] /\ blind \in SUBSET Mouse
  /\ events \in 0 .. MaxEvents /\ faults \in 0 .. MaxFaults

(***************************************************************************)
(* All motion of the monitored mice reaches the merger once, except what   *)
(* the kernel still queues, and what it threw away on an overflow, with a  *)
(* device that went, or when the reader closed its devices.                *)
(***************************************************************************)
MotionAccounted == moved = total + Pending + dropped

(***************************************************************************)
(* The mask of a device never runs away from its buttons: with the events  *)
(* still queued it is exactly what is pressed, but for a button that was   *)
(* down before the device was opened.  Only a queue that has overflowed    *)
(* breaks this, because SYN_DROPPED is not looked at.                      *)
(***************************************************************************)
MaskFollows ==
  \A m \in alive \ blind :
    MaskAfter(mask[m], queue[m]) = held[m] \ unseen[m]

(***************************************************************************)
(* A mouse that stays plugged in is found and read, whatever came and went *)
(* and failed before, alone or beside others: the only thing that keeps    *)
(* the reader from it for good is another mouse that goes on working, for  *)
(* devices are looked for when all open ones are lost.  The reader does    *)
(* not hang on dead devices.                                               *)
(***************************************************************************)
MouseFollowed ==
  \A m \in Mouse :
    <>[](m \in attached /\ (running \/ pc = "start") /\ (m \notin alive => alive = {})) =>
      <>[](m \in alive /\ queue[m] = <<>>)

(***************************************************************************)
(* stop() ends the thread, with busy, dead or no devices, and all of them  *)
(* are closed.                                                             *)
(***************************************************************************)
StopEnds == ~running /\ pc # "start" ~> pc = "done" /\ open = {}

(***************************************************************************)
(* README.md:173 speaks of a reader that "aggregates all physical USB      *)
(* mice": a button held on any of them is held in the merger.              *)
(***************************************************************************)
AllMiceAggregated ==
  pc = "select" => \A m \in open : mask[m] \subseteq local
=============================================================================
