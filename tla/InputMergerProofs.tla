------------------------- MODULE InputMergerProofs -------------------------
(* Theorems about the accumulator, for every ClampMax, Delta and MaxTotal. *)
EXTENDS InputMerger, TLAPS

(***************************************************************************)
(* A clamped value is one a signed byte of the report can hold.            *)
(***************************************************************************)
LEMMA ClampedRange ==
  ASSUME NEW v \in Int
  PROVE  Clamped(v) \in -ClampMax .. ClampMax
BY ClampMaxAssumption DEF Clamped

(***************************************************************************)
(* The two results of a branch of flush(), the value returned and the      *)
(* value left in the field, add up to what the field held, and neither     *)
(* has the opposite sign.                                                  *)
(***************************************************************************)
LEMMA ClampSplits ==
  ASSUME NEW v \in Int
  PROVE  /\ Clamped(v) \in Int
         /\ Remainder(v) \in Int
         /\ v = Clamped(v) + Remainder(v)
         /\ SameSign(v, Clamped(v))
         /\ SameSign(v, Remainder(v))
BY ClampMaxAssumption DEF Clamped, Remainder, SameSign

LEMMA PlusType ==
  ASSUME NEW f \in [Axis -> Int], NEW g \in [Axis -> Int]
  PROVE  /\ Plus(f, g) \in [Axis -> Int]
         /\ \A a \in Axis : Plus(f, g)[a] = f[a] + g[a]
BY DEF Plus

LEMMA DeltaType ==
  ASSUME NEW d \in [Axis -> Delta]
  PROVE  d \in [Axis -> Int]
BY DeltaAssumption

(***************************************************************************)
(* The fields keep their types; in particular flush() returns only deltas  *)
(* that fit the report, whatever the callers accumulate.                   *)
(***************************************************************************)
THEOREM TypeCorrect == Spec => []TypeOK
<1>1. Init => TypeOK
  BY ClampMaxAssumption DEF Init, TypeOK, Report, NoMotion, Source
<1>2. TypeOK /\ [Next]_vars => TypeOK'
  <2> SUFFICES ASSUME TypeOK, [Next]_vars
               PROVE  TypeOK'
    OBVIOUS
  <2>1. ASSUME NEW s \in Source, NEW d \in [Axis -> Delta],
               NEW b \in SUBSET Button, Accumulate(s, d, b)
        PROVE  TypeOK'
    BY <2>1, DeltaType, PlusType DEF TypeOK, Accumulate
  <2>2. CASE Flush
    <3>1. Flushed \in Report
      BY ClampedRange DEF TypeOK, Flushed, Report, MergedButtons, Source
    <3>2. motion' \in [Axis -> Int]
      BY <2>2, ClampSplits DEF TypeOK, Flush
    <3>3. emitted' \in [Axis -> Int]
      BY <2>2, ClampSplits DEF TypeOK, Flush, Plus, Flushed
    <3>4. QED
      BY <2>2, <3>1, <3>2, <3>3 DEF TypeOK, Flush
  <2>3. CASE UNCHANGED vars
    BY <2>3 DEF TypeOK, vars
  <2>4. QED
    BY <2>1, <2>2, <2>3 DEF Next
<1>3. QED
  BY <1>1, <1>2, PTL DEF Spec

(***************************************************************************)
(* "ensuring no motion is lost": Conservation is inductive, since each     *)
(* branch of flush() splits the field into what it returns and leaves.     *)
(***************************************************************************)
THEOREM MotionConserved == Spec => []Conservation
<1>1. Init => Conservation
  BY DEF Init, Conservation, NoMotion, Plus
<1>2. TypeOK /\ Conservation /\ [Next]_vars => Conservation'
  <2> SUFFICES ASSUME TypeOK, Conservation, [Next]_vars
               PROVE  Conservation'
    OBVIOUS
  <2>1. ASSUME NEW s \in Source, NEW d \in [Axis -> Delta],
               NEW b \in SUBSET Button, Accumulate(s, d, b)
        PROVE  Conservation'
    <3>1. d \in [Axis -> Int]
      BY DeltaType
    <3>2. \A a \in Axis : accepted[a] = emitted[a] + motion[a]
      BY DEF Conservation, Plus
    <3>3. \A a \in Axis : accepted[a] + d[a] = emitted[a] + (motion[a] + d[a])
      BY <3>1, <3>2 DEF TypeOK
    <3>4. QED
      BY <2>1, <3>3 DEF Conservation, Accumulate, Plus
  <2>2. CASE Flush
    BY <2>2, ClampSplits DEF TypeOK, Conservation, Flush, Plus, Flushed
  <2>3. CASE UNCHANGED vars
    BY <2>3 DEF Conservation, Plus, vars
  <2>4. QED
    BY <2>1, <2>2, <2>3 DEF Next
<1>3. QED
  BY <1>1, <1>2, TypeCorrect, PTL DEF Spec

(***************************************************************************)
(* A burst of motion is played back to the host in one direction only.     *)
(***************************************************************************)
THEOREM FlushNeverReverses == Spec => NeverReverses
<1>1. TypeOK /\ [Next]_vars =>
        [emitted' # emitted =>
           \A a \in Axis : /\ SameSign(motion[a], emitted'[a] - emitted[a])
                           /\ SameSign(motion[a], motion'[a])]_vars
  <2> SUFFICES ASSUME TypeOK, Next, emitted' # emitted, NEW a \in Axis
               PROVE  /\ SameSign(motion[a], emitted'[a] - emitted[a])
                      /\ SameSign(motion[a], motion'[a])
    OBVIOUS
  <2>1. Flush
    BY DEF Next, Accumulate
  <2>2. motion[a] \in Int /\ emitted[a] \in Int
    BY DEF TypeOK
  <2>3. /\ emitted'[a] = emitted[a] + Clamped(motion[a])
        /\ motion'[a] = Remainder(motion[a])
    BY <2>1 DEF Flush, Plus, Flushed
  <2>4. emitted'[a] - emitted[a] = Clamped(motion[a])
    BY <2>2, <2>3, ClampSplits
  <2>5. QED
    BY <2>2, <2>3, <2>4, ClampSplits
<1>2. QED
  BY <1>1, TypeCorrect, PTL DEF Spec, NeverReverses
=============================================================================
