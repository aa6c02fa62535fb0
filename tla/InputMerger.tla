---------------------------- MODULE InputMerger ----------------------------
(***************************************************************************)
(* What the accumulator of linux-hid-emulator/input_merger.py promises to  *)
(* its callers: accumulate() and flush() each take effect in one step.     *)
(* InputMergerThreads shows that the locked, field by field code does so.  *)
(*                                                                         *)
(* A button mask is the set of the buttons whose bits are set, so the OR   *)
(* of two masks is a union.  _dx and _dy are one function on Axis, and     *)
(* _buttons_network and _buttons_local one function on Source.             *)
(***************************************************************************)
EXTENDS Integers

CONSTANTS
  Axis,      \* the motion fields: {"dx", "dy"} in the code
  Button,    \* the buttons a mask has a bit for
  ClampMax,  \* _CLAMP_MAX (127); _CLAMP_MIN is its negation
  Delta,     \* the deltas a caller may pass for one axis
  MaxTotal   \* bound: the accepted sum of an axis stays in -MaxTotal .. MaxTotal

ASSUME ClampMaxAssumption == ClampMax \in Nat \ {0}
ASSUME DeltaAssumption == Delta \subseteq Int
ASSUME MaxTotalAssumption == MaxTotal \in Nat

Source == {"network", "local"}

VARIABLES
  motion,    \* _dx and _dy
  buttons,   \* last known mask of each source
  report,    \* what the last flush() returned
  accepted,  \* history: the sum of the deltas passed to accumulate()
  emitted    \* history: the sum of the deltas flush() returned

vars == <<motion, buttons, report, accepted, emitted>>

\* A report that send_report can pack: 'b' takes a signed byte, and the
\* struct.error of anything else is not caught there.
Report == [move : [Axis -> -ClampMax .. ClampMax], held : SUBSET Button]

NoMotion == [a \in Axis |-> 0]

Plus(f, g) == [a \in Axis |-> f[a] + g[a]]
-----------------------------------------------------------------------------
\* Mutant: the negative limit is that of a two's complement byte.
ClampedAsymmetric(v) ==
  CASE v > ClampMax      -> ClampMax
    [] v < -ClampMax - 1 -> -ClampMax - 1
    [] OTHER             -> v

Clamped(v) ==
  CASE v > ClampMax  -> ClampMax
    [] v < -ClampMax -> -ClampMax
    [] OTHER         -> v

\* Mutant: what the clamp cut off is forgotten.
RemainderDropped(v) == 0

\* Mutant: the limit is subtracted whether or not it was exceeded.
RemainderOvershoots(v) == IF v > 0 THEN v - ClampMax ELSE v + ClampMax

\* What each branch of flush() leaves in the field.
Remainder(v) ==
  CASE v > ClampMax  -> v - ClampMax
    [] v < -ClampMax -> v + ClampMax
    [] OTHER         -> 0

MergedButtons == buttons["network"] \union buttons["local"]

Flushed ==
  [move |-> [a \in Axis |-> Clamped(motion[a])], held |-> MergedButtons]
-----------------------------------------------------------------------------
Init ==
  /\ motion   = NoMotion
  /\ buttons  = [s \in Source |-> {}]
  /\ report   = [move |-> NoMotion, held |-> {}]
  /\ accepted = NoMotion
  /\ emitted  = NoMotion

\* accumulate(dx, dy, buttons, source): motion adds up, the mask is replaced.
Accumulate(s, d, b) ==
  /\ motion'   = Plus(motion, d)
  /\ buttons'  = [buttons EXCEPT ![s] = b]
  /\ accepted' = Plus(accepted, d)
  /\ UNCHANGED <<report, emitted>>

Flush ==
  /\ report'  = Flushed
  /\ motion'  = [a \in Axis |-> Remainder(motion[a])]
  /\ emitted' = Plus(emitted, Flushed.move)
  /\ UNCHANGED <<buttons, accepted>>

Acceptable(d) == \A a \in Axis : accepted[a] + d[a] \in -MaxTotal .. MaxTotal

Next ==
  \/ \E s \in Source, d \in [Axis -> Delta], b \in SUBSET Button :
       Acceptable(d) /\ Accumulate(s, d, b)
  \/ Flush

Spec == Init /\ [][Next]_vars
-----------------------------------------------------------------------------
(***************************************************************************)
(* The types of the fields.  The conjunct on report is the one the code    *)
(* depends on: flush() never returns a value outside the signed byte.      *)
(***************************************************************************)
TypeOK ==
  /\ motion   \in [Axis -> Int]
  /\ buttons  \in [Source -> SUBSET Button]
  /\ report   \in Report
  /\ accepted \in [Axis -> Int]
  /\ emitted  \in [Axis -> Int]

(***************************************************************************)
(* "ensuring no motion is lost": whatever was passed to accumulate() has   *)
(* been returned by a flush() or is still pending, on each axis.           *)
(***************************************************************************)
Conservation == accepted = Plus(emitted, motion)

(***************************************************************************)
(* The cursor never runs backwards: what a flush() emits and what it       *)
(* leaves pending both have the sign of what was pending, so consecutive   *)
(* flushes of one burst all move the host's cursor the same way.           *)
(***************************************************************************)
SameSign(v, w) == (v >= 0 /\ w >= 0) \/ (v <= 0 /\ w <= 0)

NeverReverses ==
  [][emitted' # emitted =>
       \A a \in Axis : /\ SameSign(motion[a], emitted'[a] - emitted[a])
                       /\ SameSign(motion[a], motion'[a])]_vars
=============================================================================
