------------------------ MODULE InputMergerThreads ------------------------
(***************************************************************************)
(* linux-hid-emulator/input_merger.py as its three threads execute it:     *)
(* UDPListener calls accumulate(source='network'), LocalMouseReader calls  *)
(* accumulate(source='local') and the main thread calls flush().  The body *)
(* of each call runs between the acquire and the release of _lock, and an  *)
(* update of a field is a load and a store that other threads may come     *)
(* between.  A thread that accumulates is named by its source.             *)
(***************************************************************************)
EXTENDS Integers

CONSTANTS Button, ClampMax, Delta, MaxTotal  \* as in InputMerger

ASSUME ClampMaxAssumption == ClampMax \in Nat \ {0}
ASSUME DeltaAssumption == Delta \subseteq Int

VARIABLES
  motion, buttons,    \* the fields of the InputMerger object
  lock,               \* the thread that holds _lock, or Free
  pc,                 \* where each thread is in its call
  arg,                \* the arguments of the call of each source's thread
  loaded,             \* the field value each thread has read
  out,                \* clamped_dx, clamped_dy and buttons of flush()
  report,             \* what the last flush() returned
  before,             \* history: the fields when _lock was last acquired, while held
  accepted, emitted   \* history, as in InputMerger

vars == <<motion, buttons, lock, pc, arg, loaded, out, report, before,
          accepted, emitted>>

Axis == {"dx", "dy"}
Free == "free"

(***************************************************************************)
(* The refinement mapping: while a thread is inside, callers see the       *)
(* fields as they were when it entered; its call takes effect on release.  *)
(***************************************************************************)
Merger == INSTANCE InputMerger WITH
  motion  <- IF lock = Free THEN motion ELSE before.motion,
  buttons <- IF lock = Free THEN buttons ELSE before.buttons

Source == Merger!Source
Thread == Source \union {"main"}

Loading   == [dx |-> "load dx",  dy |-> "load dy"]
Storing   == [dx |-> "store dx", dy |-> "store dy"]
AfterAxis == [dx |-> "load dy",  dy |-> "buttons"]
Steps == {"idle", "load dx", "store dx", "load dy", "store dy", "buttons", "release"}

NoArg    == [move |-> Merger!NoMotion, held |-> {}]
NoFields == [motion |-> Merger!NoMotion, buttons |-> [s \in Source |-> {}]]

Init ==
  /\ motion  = Merger!NoMotion
  /\ buttons = [s \in Source |-> {}]
  /\ lock    = Free
  /\ pc      = [t \in Thread |-> "idle"]
  /\ arg     = [s \in Source |-> NoArg]
  /\ loaded  = [t \in Thread |-> 0]
  /\ out     = NoArg
  /\ report  = NoArg
  /\ before  = NoFields
  /\ accepted = Merger!NoMotion
  /\ emitted  = Merger!NoMotion
-----------------------------------------------------------------------------
Goto(t, from, to) == pc[t] = from /\ pc' = [pc EXCEPT ![t] = to]

\* Mutant: the body runs without waiting for _lock.
AcquireUnlocked(t) ==
  /\ lock' = t
  /\ before' = [motion |-> motion, buttons |-> buttons]
  /\ Goto(t, "idle", "load dx")

Acquire(t) ==
  /\ lock = Free
  /\ lock' = t
  /\ before' = [motion |-> motion, buttons |-> buttons]
  /\ Goto(t, "idle", "load dx")

BeginAccumulate(s, d, b) ==
  /\ Acquire(s)
  /\ arg' = [arg EXCEPT ![s] = [move |-> d, held |-> b]]
  /\ UNCHANGED <<motion, buttons, loaded, out, report, accepted, emitted>>

BeginFlush ==
  /\ Acquire("main")
  /\ UNCHANGED <<motion, buttons, arg, loaded, out, report, accepted, emitted>>

Load(t, a) ==
  /\ Goto(t, Loading[a], Storing[a])
  /\ loaded' = [loaded EXCEPT ![t] = motion[a]]
  /\ UNCHANGED <<motion, buttons, lock, arg, out, report, before, accepted, emitted>>

\* The store of "self._dx += dx", or of "self._dy += dy".
AddStore(s, a) ==
  /\ Goto(s, Storing[a], AfterAxis[a])
  /\ motion' = [motion EXCEPT ![a] = loaded[s] + arg[s].move[a]]
  /\ UNCHANGED <<buttons, lock, arg, loaded, out, report, before, accepted, emitted>>

\* Mutant: the field keeps the rest, but the whole value is returned.
ClampStoreUnclamped(a) ==
  /\ Goto("main", Storing[a], AfterAxis[a])
  /\ motion' = [motion EXCEPT ![a] = Merger!Remainder(loaded["main"])]
  /\ out' = [out EXCEPT !.move[a] = loaded["main"]]
  /\ UNCHANGED <<buttons, lock, arg, loaded, report, before, accepted, emitted>>

\* The branch of flush() for one axis.
ClampStore(a) ==
  /\ Goto("main", Storing[a], AfterAxis[a])
  /\ motion' = [motion EXCEPT ![a] = Merger!Remainder(loaded["main"])]
  /\ out' = [out EXCEPT !.move[a] = Merger!Clamped(loaded["main"])]
  /\ UNCHANGED <<buttons, lock, arg, loaded, report, before, accepted, emitted>>

SetButtons(s) ==
  /\ Goto(s, "buttons", "release")
  /\ buttons' = [buttons EXCEPT ![s] = arg[s].held]
  /\ UNCHANGED <<motion, lock, arg, loaded, out, report, before, accepted, emitted>>

\* Mutant: flush() returns the mask of one source only.
MergeButtonsNetworkOnly ==
  /\ Goto("main", "buttons", "release")
  /\ out' = [out EXCEPT !.held = buttons["network"]]
  /\ UNCHANGED <<motion, buttons, lock, arg, loaded, report, before, accepted, emitted>>

MergeButtons ==
  /\ Goto("main", "buttons", "release")
  /\ out' = [out EXCEPT !.held = buttons["network"] \union buttons["local"]]
  /\ UNCHANGED <<motion, buttons, lock, arg, loaded, report, before, accepted, emitted>>

\* Leaving the "with" block; the locals of the call are gone.
Release(t) ==
  /\ Goto(t, "release", "idle")
  /\ lock' = Free
  /\ loaded' = [loaded EXCEPT ![t] = 0]
  /\ before' = NoFields
  /\ UNCHANGED <<motion, buttons>>

EndAccumulate(s) ==
  /\ Release(s)
  /\ arg' = [arg EXCEPT ![s] = NoArg]
  /\ accepted' = Merger!Plus(accepted, arg[s].move)
  /\ UNCHANGED <<out, report, emitted>>

EndFlush ==
  /\ Release("main")
  /\ report' = out
  /\ out' = NoArg
  /\ emitted' = Merger!Plus(emitted, out.move)
  /\ UNCHANGED <<arg, accepted>>
-----------------------------------------------------------------------------
AccumulateStep(s) ==
  \/ \E d \in [Axis -> Delta], b \in SUBSET Button :
       Merger!Acceptable(d) /\ BeginAccumulate(s, d, b)
  \/ \E a \in Axis : Load(s, a) \/ AddStore(s, a)
  \/ SetButtons(s)
  \/ EndAccumulate(s)

FlushStep ==
  \/ BeginFlush
  \/ \E a \in Axis : Load("main", a) \/ ClampStore(a)
  \/ MergeButtons
  \/ EndFlush

Next == FlushStep \/ \E s \in Source : AccumulateStep(s)

Spec == Init /\ [][Next]_vars
-----------------------------------------------------------------------------
(***************************************************************************)
(* "Thread-safe mouse input delta accumulator": whatever the interleaving  *)
(* of the threads, every accumulate() and every flush() is one atomic step *)
(* of InputMerger, so no += is lost and no flush() returns a torn report.  *)
(***************************************************************************)
ThreadSafe == Merger!Spec

(***************************************************************************)
(* The types of the fields and of the locals of the calls; what flush()    *)
(* returns fits the signed bytes of a HID report.                          *)
(***************************************************************************)
TypeOK ==
  /\ motion  \in [Axis -> Int]
  /\ buttons \in [Source -> SUBSET Button]
  /\ lock    \in Thread \union {Free}
  /\ pc      \in [Thread -> Steps]
  /\ arg     \in [Source -> [move : [Axis -> Int], held : SUBSET Button]]
  /\ loaded  \in [Thread -> Int]
  /\ out     \in [move : [Axis -> Int], held : SUBSET Button]
  /\ report  \in Merger!Report
  /\ before  \in [motion : [Axis -> Int], buttons : [Source -> SUBSET Button]]
  /\ accepted \in [Axis -> Int]
  /\ emitted  \in [Axis -> Int]

(***************************************************************************)
(* The discipline that thread safety rests on: a thread is in the body of  *)
(* a call exactly while it holds _lock.                                    *)
(***************************************************************************)
OwnedWhileInside == \A t \in Thread : pc[t] # "idle" <=> lock = t
=============================================================================
