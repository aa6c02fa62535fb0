---------------------- MODULE InputMergerThreadsProofs ----------------------
(***************************************************************************)
(* Proofs about the threads of input_merger.py, for any clamp limit, any   *)
(* deltas and any bound on their sum: the lock discipline, the types, and  *)
(* that the locked code implements the atomic accumulator.                 *)
(***************************************************************************)
EXTENDS InputMergerThreads, TLAPS

Inside == Steps \ {"idle"}

LEMMA Names ==
  /\ Axis = {"dx", "dy"}
  /\ Source = {"network", "local"}
  /\ Thread = {"network", "local", "main"}
  /\ Free \notin Thread
BY DEF Axis, Source, Merger!Source, Thread, Free

LEMMA StepNames ==
  ASSUME NEW a \in Axis
  PROVE  Loading[a] \in Inside /\ Storing[a] \in Inside /\ AfterAxis[a] \in Inside
<1>1. CASE a = "dx"
  BY <1>1 DEF Loading, Storing, AfterAxis, Inside, Steps
<1>2. CASE a = "dy"
  BY <1>2 DEF Loading, Storing, AfterAxis, Inside, Steps
<1> QED
  BY <1>1, <1>2 DEF Axis
-----------------------------------------------------------------------------
(***************************************************************************)
(* The lock: who is inside holds it, and only who holds it steps inside.   *)
(***************************************************************************)
LockInv ==
  /\ lock \in Thread \union {Free}
  /\ pc \in [Thread -> Steps]
  /\ OwnedWhileInside

LEMMA LockAcquire ==
  ASSUME LockInv, NEW t \in Thread, Acquire(t)
  PROVE  LockInv' /\ lock = Free /\ lock' = t
         /\ pc'[t] = "load dx" /\ (\A u \in Thread : pc[u] = "idle")
BY Names DEF LockInv, OwnedWhileInside, Acquire, Goto, Steps

LEMMA LockInside ==
  ASSUME LockInv, NEW t \in Thread, NEW from \in Inside, NEW to \in Inside,
         Goto(t, from, to), lock' = lock
  PROVE  LockInv' /\ lock = t /\ pc[t] = from /\ pc'[t] = to
BY Names DEF LockInv, OwnedWhileInside, Goto, Inside

LEMMA LockRelease ==
  ASSUME LockInv, NEW t \in Thread, Release(t)
  PROVE  LockInv' /\ lock = t /\ lock' = Free /\ pc[t] = "release"
BY Names DEF LockInv, OwnedWhileInside, Release, Goto, Steps
-----------------------------------------------------------------------------
(***************************************************************************)
(* How far the holder of the lock has come: what it has done to the fields *)
(* as they were when it acquired the lock, and what it has still to do.    *)
(***************************************************************************)
Motion == [Axis -> Int]
Past   == [dx |-> {"load dy", "store dy", "buttons", "release"},
           dy |-> {"buttons", "release"}]
AxisDone(t, a) == pc[t] \in Past[a]

FieldTypes ==
  /\ motion  \in Motion
  /\ buttons \in [Source -> SUBSET Button]
  /\ loaded  \in [Thread -> Int]
  /\ out     \in [move : [Axis -> -ClampMax .. ClampMax], held : SUBSET Button]
  /\ report  \in Merger!Report
  /\ before  \in [motion : Motion, buttons : [Source -> SUBSET Button]]
  /\ arg     \in [Source -> [move : Motion, held : SUBSET Button]]
  /\ accepted \in Motion
  /\ emitted  \in Motion

LoadedInv ==
  \A t \in Thread, a \in Axis : pc[t] = Storing[a] => loaded[t] = motion[a]

AccumulateInv(s) ==
  lock = s =>
    /\ arg[s].move \in [Axis -> Delta] /\ Merger!Acceptable(arg[s].move)
    /\ \A a \in Axis : motion[a] = IF AxisDone(s, a)
                                   THEN before.motion[a] + arg[s].move[a]
                                   ELSE before.motion[a]
    /\ buttons = IF pc[s] = "release"
                 THEN [before.buttons EXCEPT ![s] = arg[s].held]
                 ELSE before.buttons

FlushInv ==
  lock = "main" =>
    /\ \A a \in Axis : AxisDone("main", a) =>
         /\ motion[a] = Merger!Remainder(before.motion[a])
         /\ out.move[a] = Merger!Clamped(before.motion[a])
    /\ \A a \in Axis : ~AxisDone("main", a) => motion[a] = before.motion[a]
    /\ buttons = before.buttons
    /\ pc["main"] = "release" => out.held = buttons["network"] \union buttons["local"]

ThreadsInv ==
  LockInv /\ FieldTypes /\ LoadedInv /\ FlushInv /\ \A s \in Source : AccumulateInv(s)

LEMMA PastNames ==
  ASSUME NEW a \in Axis
  PROVE  /\ "load dx" \notin Past[a] /\ "load dx" # Storing[a]
         /\ "buttons" \in Past[a] /\ "buttons" # Storing[a]
         /\ "release" \in Past[a] /\ "release" # Storing[a] /\ "idle" # Storing[a]
         /\ Storing[a] \notin Past[a] /\ AfterAxis[a] \in Past[a]
         /\ "release" \notin {Loading[a], Storing[a], AfterAxis[a]}
         /\ \A c \in Axis :
              /\ Loading[a] \in Past[c] <=> Storing[a] \in Past[c]
              /\ c # a => (Storing[a] \in Past[c] <=> AfterAxis[a] \in Past[c])
              /\ Storing[c] = Storing[a] => c = a
              /\ AfterAxis[a] # Storing[c]
<1>1. CASE a = "dx"
  BY <1>1 DEF Past, Loading, Storing, AfterAxis, Axis
<1>2. CASE a = "dy"
  BY <1>2 DEF Past, Loading, Storing, AfterAxis, Axis
<1> QED
  BY <1>1, <1>2 DEF Axis

LEMMA ClampTypes ==
  ASSUME NEW v \in Int
  PROVE  Merger!Clamped(v) \in -ClampMax .. ClampMax /\ Merger!Remainder(v) \in Int
BY ClampMaxAssumption DEF Merger!Clamped, Merger!Remainder

LEMMA NoMotionType ==
  /\ Merger!NoMotion \in Motion
  /\ Merger!NoMotion \in [Axis -> -ClampMax .. ClampMax]
BY ClampMaxAssumption DEF Merger!NoMotion, Motion

LEMMA PlusType ==
  ASSUME NEW f \in Motion, NEW g \in Motion
  PROVE  Merger!Plus(f, g) \in Motion
BY DEF Merger!Plus, Motion

LEMMA NoArgTypes ==
  /\ NoArg \in [move : Motion, held : SUBSET Button]
  /\ NoArg \in [move : [Axis -> -ClampMax .. ClampMax], held : SUBSET Button]
  /\ NoFields \in [motion : Motion, buttons : [Source -> SUBSET Button]]
BY NoMotionType DEF NoArg, NoFields

LEMMA InitInv == Init => ThreadsInv
<1> SUFFICES ASSUME Init PROVE ThreadsInv
  OBVIOUS
<1>1. LockInv
  BY Names DEF Init, LockInv, OwnedWhileInside, Steps
<1>2. FieldTypes
  BY NoMotionType, NoArgTypes DEF Init, FieldTypes, Merger!Report, NoArg
<1>3. LoadedInv
  BY PastNames DEF Init, LoadedInv
<1>4. FlushInv /\ \A s \in Source : AccumulateInv(s)
  BY Names DEF Init, FlushInv, AccumulateInv
<1> QED
  BY <1>1, <1>2, <1>3, <1>4 DEF ThreadsInv

\* A thread that has just acquired the lock has done nothing yet.
LEMMA AcquireKeeps ==
  ASSUME ThreadsInv, NEW t \in Thread, Acquire(t),
         UNCHANGED <<motion, buttons, loaded, out, report, accepted, emitted>>,
         arg' \in [Source -> [move : Motion, held : SUBSET Button]],
         t \in Source => arg'[t].move \in [Axis -> Delta] /\ Merger!Acceptable(arg'[t].move)
  PROVE  ThreadsInv'
<1> USE DEF ThreadsInv
<1>1. LockInv' /\ lock = Free /\ lock' = t /\ pc'[t] = "load dx"
  BY LockAcquire
<1>2. before' = [motion |-> motion, buttons |-> buttons]
  BY DEF Acquire
<1>3. FieldTypes'
  BY <1>2 DEF FieldTypes
<1>4. \A u \in Thread : u # t => pc'[u] = pc[u]
  BY DEF Acquire, Goto, LockInv
<1>5. ASSUME NEW u \in Thread, NEW a \in Axis, pc'[u] = Storing[a]
      PROVE  loaded'[u] = motion'[a]
  <2>1. "load dx" # Storing[a]
    BY PastNames
  <2>2. pc[u] = Storing[a]
    BY <1>1, <1>4, <1>5, <2>1
  <2> QED
    BY <2>2 DEF LoadedInv
<1>6. \A a \in Axis : ~AxisDone(t, a)'
  BY <1>1, PastNames DEF AxisDone
<1>7. FlushInv'
  BY <1>1, <1>2, <1>6 DEF FlushInv
<1>8. ASSUME NEW s \in Source PROVE AccumulateInv(s)'
  <2>1. CASE s # t
    BY <1>1, <2>1 DEF AccumulateInv
  <2>2. CASE s = t
    <3>1. arg'[s].move \in [Axis -> Delta] /\ Merger!Acceptable(arg[s].move)'
      BY <2>2 DEF Merger!Acceptable
    <3>2. before'.motion = motion' /\ before'.buttons = buttons'
      BY <1>2
    <3>3. pc'[s] # "release" /\ \A a \in Axis : ~AxisDone(s, a)'
      BY <1>1, <1>6, <2>2
    <3> QED
      BY <3>1, <3>2, <3>3 DEF AccumulateInv
  <2> QED
    BY <2>1, <2>2
<1> QED
  BY <1>1, <1>3, <1>5, <1>7, <1>8 DEF LoadedInv

LEMMA BeginKeeps ==
  ASSUME ThreadsInv,
         BeginFlush \/ \E s \in Source, d \in [Axis -> Delta], b \in SUBSET Button :
                         Merger!Acceptable(d) /\ BeginAccumulate(s, d, b)
  PROVE  ThreadsInv'
<1>1. CASE BeginFlush
  <2>1. "main" \in Thread /\ "main" \notin Source
    BY Names
  <2> QED
    BY <1>1, <2>1, AcquireKeeps DEF BeginFlush, ThreadsInv, FieldTypes
<1>2. ASSUME NEW s \in Source, NEW d \in [Axis -> Delta], NEW b \in SUBSET Button,
             Merger!Acceptable(d), BeginAccumulate(s, d, b)
      PROVE  ThreadsInv'
  <2>1. s \in Thread
    BY Names
  <2>2. d \in Motion
    BY DeltaAssumption DEF Motion
  <2>3. arg' = [arg EXCEPT ![s] = [move |-> d, held |-> b]]
        /\ arg \in [Source -> [move : Motion, held : SUBSET Button]]
    BY <1>2 DEF BeginAccumulate, ThreadsInv, FieldTypes
  <2>4. arg' \in [Source -> [move : Motion, held : SUBSET Button]] /\ arg'[s].move = d
    BY <2>2, <2>3
  <2> QED
    BY <1>2, <2>1, <2>4, AcquireKeeps DEF BeginAccumulate
<1> QED
  BY <1>1, <1>2

\* The holder of the lock goes on to another step inside.
LEMMA OtherRoles ==
  ASSUME ThreadsInv, LockInv', NEW t \in Thread, lock = t, lock' = t
  PROVE  /\ t # "main" => FlushInv'
         /\ \A s \in Source : s # t => AccumulateInv(s)'
BY DEF FlushInv, AccumulateInv

LEMMA LoadKeeps ==
  ASSUME ThreadsInv, NEW t \in Thread, NEW a \in Axis, Load(t, a)
  PROVE  ThreadsInv'
<1> USE DEF ThreadsInv
<1>1. LockInv' /\ lock = t /\ pc[t] = Loading[a] /\ pc'[t] = Storing[a] /\ lock' = t
  BY LockInside, StepNames DEF Load
<1>2. UNCHANGED <<motion, buttons, arg, out, report, before, accepted, emitted>>
  BY DEF Load
<1>3. loaded' = [loaded EXCEPT ![t] = motion[a]] /\ loaded \in [Thread -> Int] /\ motion[a] \in Int
  BY DEF Load, FieldTypes, Motion
<1>4. loaded' \in [Thread -> Int] /\ loaded'[t] = motion[a]
      /\ \A u \in Thread : u # t => loaded'[u] = loaded[u]
  BY <1>3
<1>5. \A u \in Thread : u # t => pc'[u] = pc[u]
  BY DEF Load, Goto, LockInv
<1>6. FieldTypes'
  BY <1>2, <1>4 DEF FieldTypes
<1>7. ASSUME NEW u \in Thread, NEW c \in Axis, pc'[u] = Storing[c]
      PROVE  loaded'[u] = motion'[c]
  <2>1. CASE u = t
    <3>1. c = a
      BY <1>1, <1>7, <2>1, PastNames
    <3> QED
      BY <1>2, <1>4, <2>1, <3>1
  <2>2. CASE u # t
    BY <1>2, <1>4, <1>5, <1>7, <2>2 DEF LoadedInv
  <2> QED
    BY <2>1, <2>2
<1>8. \A c \in Axis : AxisDone(t, c)' <=> AxisDone(t, c)
  BY <1>1, PastNames DEF AxisDone
<1>9. pc[t] # "release" /\ pc'[t] # "release"
  BY <1>1, PastNames
<1>10. CASE t = "main"
  <2>1. FlushInv'
    BY <1>1, <1>2, <1>8, <1>9, <1>10 DEF FlushInv
  <2>2. \A s \in Source : s # t
    BY <1>10, Names
  <2> QED
    BY <1>1, <1>6, <1>7, <2>1, <2>2, OtherRoles DEF LoadedInv
<1>11. CASE t \in Source
  <2>1. Merger!Acceptable(arg[t].move)' <=> Merger!Acceptable(arg[t].move)
    BY <1>2 DEF Merger!Acceptable
  <2>2. AccumulateInv(t)'
    BY <1>1, <1>2, <1>8, <1>9, <1>11, <2>1 DEF AccumulateInv
  <2>3. t # "main"
    BY <1>11, Names
  <2> QED
    BY <1>1, <1>6, <1>7, <2>2, <2>3, OtherRoles DEF LoadedInv
<1> QED
  BY <1>10, <1>11, Names

LEMMA AddKeeps ==
  ASSUME ThreadsInv, NEW s \in Source, NEW a \in Axis, AddStore(s, a)
  PROVE  ThreadsInv'
<1> USE DEF ThreadsInv
<1> s \in Thread /\ s # "main"
  BY Names
<1>1. LockInv' /\ lock = s /\ pc[s] = Storing[a] /\ pc'[s] = AfterAxis[a] /\ lock' = s
  BY LockInside, StepNames DEF AddStore
<1>2. UNCHANGED <<buttons, arg, loaded, out, report, before, accepted, emitted>>
  BY DEF AddStore
<1>3. loaded[s] = motion[a] /\ motion[a] = before.motion[a]
  <2>1. ~AxisDone(s, a)
    BY <1>1, PastNames DEF AxisDone
  <2> QED
    BY <1>1, <2>1 DEF LoadedInv, AccumulateInv
<1>4. motion' = [motion EXCEPT ![a] = motion[a] + arg[s].move[a]]
  BY <1>3 DEF AddStore
<1>5. motion \in Motion /\ motion[a] + arg[s].move[a] \in Int
  BY DEF FieldTypes, Motion
<1>6. motion' \in Motion /\ motion'[a] = before.motion[a] + arg[s].move[a]
      /\ \A c \in Axis : c # a => motion'[c] = motion[c]
  BY <1>3, <1>4, <1>5 DEF Motion
<1>7. FieldTypes'
  BY <1>2, <1>6 DEF FieldTypes
<1>8. \A u \in Thread : u # s => pc'[u] = pc[u]
  BY DEF AddStore, Goto, LockInv
<1>9. ASSUME NEW u \in Thread, NEW c \in Axis, pc'[u] = Storing[c]
      PROVE  loaded'[u] = motion'[c]
  <2>1. CASE u = s
    BY <1>1, <1>9, <2>1, PastNames
  <2>2. CASE u # s
    <3>1. pc'[u] = "idle"
      BY <1>1, <2>2, Names DEF LockInv, OwnedWhileInside
    <3> QED
      BY <1>9, <3>1, PastNames
  <2> QED
    BY <2>1, <2>2
<1>10. AxisDone(s, a)' /\ \A c \in Axis : c # a => (AxisDone(s, c)' <=> AxisDone(s, c))
  BY <1>1, PastNames DEF AxisDone
<1>11. \A c \in Axis : motion'[c] = IF AxisDone(s, c)' THEN before.motion[c] + arg[s].move[c]
                                                    ELSE before.motion[c]
  <2>1. \A c \in Axis : motion[c] = IF AxisDone(s, c) THEN before.motion[c] + arg[s].move[c]
                                                      ELSE before.motion[c]
    BY <1>1 DEF AccumulateInv
  <2> QED
    BY <1>6, <1>10, <2>1
<1>12. pc[s] # "release" /\ pc'[s] # "release"
  BY <1>1, PastNames
<1>13. Merger!Acceptable(arg[s].move)' <=> Merger!Acceptable(arg[s].move)
  BY <1>2 DEF Merger!Acceptable
<1>14. AccumulateInv(s)'
  BY <1>1, <1>2, <1>11, <1>12, <1>13 DEF AccumulateInv
<1> QED
  BY <1>1, <1>7, <1>9, <1>14, OtherRoles DEF LoadedInv

LEMMA ClampKeeps ==
  ASSUME ThreadsInv, NEW a \in Axis, ClampStore(a)
  PROVE  ThreadsInv'
<1> USE DEF ThreadsInv
<1> DEFINE v == before.motion[a]
<1> "main" \in Thread
  BY Names
<1>1. LockInv' /\ lock = "main" /\ pc["main"] = Storing[a] /\ pc'["main"] = AfterAxis[a]
      /\ lock' = "main"
  BY LockInside, StepNames DEF ClampStore
<1>2. UNCHANGED <<buttons, arg, loaded, report, before, accepted, emitted>>
  BY DEF ClampStore
<1>3. loaded["main"] = v /\ v \in Int
  <2>1. ~AxisDone("main", a)
    BY <1>1, PastNames DEF AxisDone
  <2>2. loaded["main"] = motion[a] /\ motion[a] = v
    BY <1>1, <2>1 DEF LoadedInv, FlushInv
  <2> QED
    BY <2>2 DEF FieldTypes
<1>4. motion' = [motion EXCEPT ![a] = Merger!Remainder(v)]
      /\ out' = [out EXCEPT !.move[a] = Merger!Clamped(v)]
  BY <1>3 DEF ClampStore
<1> HIDE DEF v
<1>5. Merger!Remainder(v) \in Int /\ Merger!Clamped(v) \in -ClampMax .. ClampMax
  BY <1>3, ClampTypes
<1>6. motion' \in Motion /\ motion'[a] = Merger!Remainder(v)
      /\ \A c \in Axis : c # a => motion'[c] = motion[c]
  BY <1>4, <1>5 DEF FieldTypes, Motion
<1>7. out' \in [move : [Axis -> -ClampMax .. ClampMax], held : SUBSET Button]
      /\ out'.move[a] = Merger!Clamped(v)
      /\ \A c \in Axis : c # a => out'.move[c] = out.move[c]
  BY <1>4, <1>5 DEF FieldTypes
<1>8. FieldTypes'
  BY <1>2, <1>6, <1>7 DEF FieldTypes
<1>9. ASSUME NEW u \in Thread, NEW c \in Axis, pc'[u] = Storing[c]
      PROVE  loaded'[u] = motion'[c]
  <2>1. CASE u = "main"
    BY <1>1, <1>9, <2>1, PastNames
  <2>2. CASE u # "main"
    <3>1. pc'[u] = "idle"
      BY <1>1, <2>2, Names DEF LockInv, OwnedWhileInside
    <3> QED
      BY <1>9, <3>1, PastNames
  <2> QED
    BY <2>1, <2>2
<1>10. \A c \in Axis : c # a => (AxisDone("main", c)' <=> AxisDone("main", c))
  BY <1>1, PastNames DEF AxisDone
<1>11. AxisDone("main", a)' /\ pc'["main"] # "release"
  BY <1>1, PastNames DEF AxisDone
<1>12. ASSUME NEW c \in Axis
       PROVE  /\ AxisDone("main", c)' => /\ motion'[c] = Merger!Remainder(before.motion[c])
                                         /\ out'.move[c] = Merger!Clamped(before.motion[c])
              /\ ~AxisDone("main", c)' => motion'[c] = before.motion[c]
  <2>1. CASE c = a
    BY <1>6, <1>7, <1>11, <2>1 DEF v
  <2>2. CASE c # a
    BY <1>1, <1>6, <1>7, <1>10, <2>2 DEF FlushInv
  <2> QED
    BY <2>1, <2>2
<1>13. buttons = before.buttons
  BY <1>1 DEF FlushInv
<1>14. FlushInv'
  BY <1>2, <1>11, <1>12, <1>13 DEF FlushInv
<1>15. \A s \in Source : AccumulateInv(s)'
  BY <1>1, Names, OtherRoles
<1> QED
  BY <1>1, <1>8, <1>9, <1>14, <1>15 DEF LoadedInv

\* No thread is about to store when the holder of the lock is not.
LEMMA NobodyStores ==
  ASSUME LockInv', NEW t \in Thread, lock' = t \/ lock' = Free,
         pc'[t] = "release" \/ pc'[t] = "idle"
  PROVE  LoadedInv'
<1>1. ASSUME NEW u \in Thread, NEW a \in Axis PROVE pc'[u] # Storing[a]
  <2>1. u # t => pc'[u] = "idle"
    BY Names DEF LockInv, OwnedWhileInside
  <2> QED
    BY <2>1, PastNames
<1> QED
  BY <1>1 DEF LoadedInv

LEMMA ButtonsKeep ==
  ASSUME ThreadsInv, NEW s \in Source, SetButtons(s)
  PROVE  ThreadsInv'
<1> USE DEF ThreadsInv
<1> s \in Thread /\ s # "main"
  BY Names
<1>1. LockInv' /\ lock = s /\ pc[s] = "buttons" /\ pc'[s] = "release" /\ lock' = s
  BY LockInside DEF SetButtons, Inside, Steps
<1>2. UNCHANGED <<motion, arg, loaded, out, report, before, accepted, emitted>>
  BY DEF SetButtons
<1>3. buttons' = [before.buttons EXCEPT ![s] = arg[s].held]
  BY <1>1 DEF SetButtons, AccumulateInv
<1>4. FieldTypes'
  BY <1>2, <1>3 DEF FieldTypes
<1>5. \A c \in Axis : AxisDone(s, c) /\ AxisDone(s, c)'
  BY <1>1, PastNames DEF AxisDone
<1>6. Merger!Acceptable(arg[s].move)' <=> Merger!Acceptable(arg[s].move)
  BY <1>2 DEF Merger!Acceptable
<1>7. AccumulateInv(s)'
  BY <1>1, <1>2, <1>3, <1>5, <1>6 DEF AccumulateInv
<1> QED
  BY <1>1, <1>4, <1>7, OtherRoles, NobodyStores

LEMMA MergeKeeps == ASSUME ThreadsInv, MergeButtons PROVE ThreadsInv'
<1> USE DEF ThreadsInv
<1> "main" \in Thread
  BY Names
<1>1. LockInv' /\ lock = "main" /\ pc["main"] = "buttons" /\ pc'["main"] = "release"
      /\ lock' = "main"
  BY LockInside DEF MergeButtons, Inside, Steps
<1>2. UNCHANGED <<motion, buttons, arg, loaded, report, before, accepted, emitted>>
  BY DEF MergeButtons
<1>3. buttons["network"] \union buttons["local"] \in SUBSET Button
  BY Names DEF FieldTypes
<1>4. out' = [out EXCEPT !.held = buttons["network"] \union buttons["local"]]
      /\ out \in [move : [Axis -> -ClampMax .. ClampMax], held : SUBSET Button]
  BY DEF MergeButtons, FieldTypes
<1>5. out' \in [move : [Axis -> -ClampMax .. ClampMax], held : SUBSET Button]
      /\ out'.held = buttons["network"] \union buttons["local"] /\ out'.move = out.move
  BY <1>3, <1>4
<1>6. FieldTypes'
  BY <1>2, <1>5 DEF FieldTypes
<1>7. \A c \in Axis : AxisDone("main", c) /\ AxisDone("main", c)'
  BY <1>1, PastNames DEF AxisDone
<1>8. FlushInv'
  BY <1>1, <1>2, <1>5, <1>7 DEF FlushInv
<1>9. \A s \in Source : AccumulateInv(s)'
  BY <1>1, Names, OtherRoles
<1> QED
  BY <1>1, <1>6, <1>8, <1>9, NobodyStores

\* After a release nobody is inside.
LEMMA ReleaseKeeps ==
  ASSUME ThreadsInv, NEW t \in Thread, Release(t), FieldTypes'
  PROVE  ThreadsInv'
<1>1. LockInv' /\ lock' = Free /\ pc'[t] = "idle"
  BY LockRelease DEF ThreadsInv, Release, Goto, LockInv
<1>2. FlushInv' /\ \A s \in Source : AccumulateInv(s)'
  BY <1>1, Names DEF FlushInv, AccumulateInv
<1> QED
  BY <1>1, <1>2, NobodyStores DEF ThreadsInv

LEMMA ResetType ==
  ASSUME NEW f \in [Thread -> Int], NEW t \in Thread
  PROVE  [f EXCEPT ![t] = 0] \in [Thread -> Int]
<1>1. ASSUME NEW u \in Thread PROVE [f EXCEPT ![t] = 0][u] \in Int
  BY <1>1
<1> QED
  BY <1>1

LEMMA EndKeeps ==
  ASSUME ThreadsInv, EndFlush \/ \E s \in Source : EndAccumulate(s)
  PROVE  ThreadsInv'
<1> USE DEF ThreadsInv
<1>1. CASE EndFlush
  <2>1. Release("main") /\ UNCHANGED <<arg, accepted>>
        /\ report' = out /\ out' = NoArg /\ emitted' = Merger!Plus(emitted, out.move)
    BY <1>1 DEF EndFlush
  <2>2. UNCHANGED <<motion, buttons>> /\ before' = NoFields /\ loaded' = [loaded EXCEPT !["main"] = 0]
    BY <2>1 DEF Release
  <2>3. out.move \in Motion /\ out \in Merger!Report
    BY ClampMaxAssumption DEF FieldTypes, Motion, Merger!Report
  <2>4. emitted' \in Motion
    BY <2>1, <2>3, PlusType DEF FieldTypes
  <2>5. loaded' \in [Thread -> Int]
    <3>1. loaded \in [Thread -> Int]
      BY DEF FieldTypes
    <3> QED
      BY <2>2, <3>1, Names, ResetType
  <2>6. FieldTypes'
    <3>1. /\ motion' \in Motion
          /\ buttons' \in [Source -> SUBSET Button]
          /\ arg' \in [Source -> [move : Motion, held : SUBSET Button]]
          /\ accepted' \in Motion
      BY <2>1, <2>2 DEF FieldTypes
    <3>2. report' \in Merger!Report'
      BY <2>1, <2>3 DEF Merger!Report
    <3> QED
      BY <2>1, <2>2, <2>4, <2>5, <3>1, <3>2, NoArgTypes DEF FieldTypes
  <2> QED
    BY <2>1, <2>6, Names, ReleaseKeeps
<1>2. ASSUME NEW s \in Source, EndAccumulate(s) PROVE ThreadsInv'
  <2>1. Release(s) /\ UNCHANGED <<out, report, emitted>>
        /\ arg' = [arg EXCEPT ![s] = NoArg] /\ accepted' = Merger!Plus(accepted, arg[s].move)
    BY <1>2 DEF EndAccumulate
  <2>2. UNCHANGED <<motion, buttons>> /\ before' = NoFields /\ loaded' = [loaded EXCEPT ![s] = 0]
    BY <2>1 DEF Release
  <2>3. accepted' \in Motion
    BY <2>1, PlusType DEF FieldTypes
  <2>4. loaded' \in [Thread -> Int]
    <3>1. loaded \in [Thread -> Int]
      BY DEF FieldTypes
    <3> QED
      BY <2>2, <3>1, Names, ResetType
  <2>5. arg' \in [Source -> [move : Motion, held : SUBSET Button]]
    BY <2>1, NoArgTypes DEF FieldTypes
  <2>6. FieldTypes'
    <3>1. /\ motion' \in Motion
          /\ buttons' \in [Source -> SUBSET Button]
          /\ emitted' \in Motion
          /\ out' \in [move : [Axis -> -ClampMax .. ClampMax], held : SUBSET Button]
          /\ report' \in Merger!Report'
      BY <2>1, <2>2 DEF FieldTypes, Merger!Report
    <3> QED
      BY <2>2, <2>3, <2>4, <2>5, <3>1, NoArgTypes DEF FieldTypes
  <2> QED
    BY <2>1, <2>6, Names, ReleaseKeeps
<1> QED
  BY <1>1, <1>2

LEMMA StutterKeeps == ASSUME ThreadsInv, UNCHANGED vars PROVE ThreadsInv'
BY DEF ThreadsInv, vars, LockInv, OwnedWhileInside, FieldTypes, LoadedInv, FlushInv,
       AccumulateInv, AxisDone, Merger!Acceptable

LEMMA StepInv == ThreadsInv /\ [Next]_vars => ThreadsInv'
<1> SUFFICES ASSUME ThreadsInv, [Next]_vars PROVE ThreadsInv'
  OBVIOUS
<1>1. CASE BeginFlush \/ \E s \in Source, d \in [Axis -> Delta], b \in SUBSET Button :
                           Merger!Acceptable(d) /\ BeginAccumulate(s, d, b)
  BY <1>1, BeginKeeps
<1>2. CASE \E t \in Thread, a \in Axis : Load(t, a)
  BY <1>2, LoadKeeps
<1>3. CASE \E s \in Source, a \in Axis : AddStore(s, a)
  BY <1>3, AddKeeps
<1>4. CASE \E a \in Axis : ClampStore(a)
  BY <1>4, ClampKeeps
<1>5. CASE \E s \in Source : SetButtons(s)
  BY <1>5, ButtonsKeep
<1>6. CASE MergeButtons
  BY <1>6, MergeKeeps
<1>7. CASE EndFlush \/ \E s \in Source : EndAccumulate(s)
  BY <1>7, EndKeeps
<1>8. CASE UNCHANGED vars
  BY <1>8, StutterKeeps
<1> QED
  BY <1>1, <1>2, <1>3, <1>4, <1>5, <1>6, <1>7, <1>8, Names
  DEF Next, FlushStep, AccumulateStep
-----------------------------------------------------------------------------
(***************************************************************************)
(* A thread is in the body of accumulate() or flush() exactly while it     *)
(* holds _lock, whatever the threads do and in whatever order.             *)
(***************************************************************************)
THEOREM LockDiscipline == Spec => []OwnedWhileInside
<1>1. ThreadsInv => OwnedWhileInside
  BY DEF ThreadsInv, LockInv
<1> QED
  BY <1>1, InitInv, StepInv, PTL DEF Spec

(***************************************************************************)
(* The fields and the locals keep their types, and both axes of a report   *)
(* that flush() returns are within the clamp limits.                       *)
(***************************************************************************)
THEOREM TypeCorrect == Spec => []TypeOK
<1>1. ASSUME ThreadsInv PROVE TypeOK
  <2>1. out \in [move : [Axis -> Int], held : SUBSET Button]
    BY <1>1, ClampMaxAssumption DEF ThreadsInv, FieldTypes
  <2> QED
    BY <1>1, <2>1 DEF ThreadsInv, LockInv, FieldTypes, Motion, TypeOK
<1> QED
  BY <1>1, InitInv, StepInv, PTL DEF Spec
-----------------------------------------------------------------------------
(***************************************************************************)
(* The refinement.  The state of the atomic accumulator changes only when  *)
(* a thread releases the lock.                                             *)
(***************************************************************************)
MotionSeen  == IF lock = Free THEN motion ELSE before.motion
ButtonsSeen == IF lock = Free THEN buttons ELSE before.buttons
Seen == <<MotionSeen, ButtonsSeen, report, accepted, emitted>>

LEMMA AcquireStutters ==
  ASSUME NEW t \in Thread, Acquire(t), UNCHANGED <<motion, buttons, report, accepted, emitted>>
  PROVE  UNCHANGED Seen
BY Names DEF Acquire, Seen, MotionSeen, ButtonsSeen

LEMMA InsideStutters ==
  ASSUME lock # Free, UNCHANGED <<lock, before, report, accepted, emitted>>
  PROVE  UNCHANGED Seen
BY DEF Seen, MotionSeen, ButtonsSeen

LEMMA AccumulateImplements ==
  ASSUME ThreadsInv, NEW s \in Source, EndAccumulate(s)
  PROVE  /\ arg[s].move \in [Axis -> Delta] /\ arg[s].held \in SUBSET Button
         /\ Merger!Acceptable(arg[s].move)
         /\ Merger!Accumulate(s, arg[s].move, arg[s].held)
<1> s \in Thread
  BY Names
<1>1. Release(s) /\ UNCHANGED <<report, emitted>>
      /\ accepted' = Merger!Plus(accepted, arg[s].move)
  BY DEF EndAccumulate
<1>2. lock = s /\ lock # Free /\ lock' = Free /\ pc[s] = "release"
  BY <1>1, LockRelease, Names DEF ThreadsInv
<1>3. motion' = motion /\ buttons' = buttons
  BY <1>1 DEF Release
<1>4. /\ arg[s].move \in [Axis -> Delta] /\ Merger!Acceptable(arg[s].move)
      /\ \A a \in Axis : motion[a] = IF AxisDone(s, a) THEN before.motion[a] + arg[s].move[a]
                                                       ELSE before.motion[a]
      /\ buttons = [before.buttons EXCEPT ![s] = arg[s].held]
  BY <1>2 DEF ThreadsInv, AccumulateInv
<1>5. \A a \in Axis : AxisDone(s, a)
  BY <1>2, PastNames DEF AxisDone
<1>6. motion = Merger!Plus(before.motion, arg[s].move)
  BY <1>4, <1>5 DEF ThreadsInv, FieldTypes, Motion, Merger!Plus
<1>7. arg[s].held \in SUBSET Button
  BY DEF ThreadsInv, FieldTypes
<1> QED
  BY <1>1, <1>2, <1>3, <1>4, <1>6, <1>7 DEF Merger!Accumulate

LEMMA FlushImplements == ASSUME ThreadsInv, EndFlush PROVE Merger!Flush
<1> "main" \in Thread
  BY Names
<1>1. Release("main") /\ UNCHANGED accepted
      /\ report' = out /\ emitted' = Merger!Plus(emitted, out.move)
  BY DEF EndFlush
<1>2. lock = "main" /\ lock # Free /\ lock' = Free /\ pc["main"] = "release"
  BY <1>1, LockRelease, Names DEF ThreadsInv
<1>3. motion' = motion /\ buttons' = buttons
  BY <1>1 DEF Release
<1>4. \A a \in Axis : AxisDone("main", a)
  BY <1>2, PastNames DEF AxisDone
<1>5. /\ \A a \in Axis : /\ motion[a] = Merger!Remainder(before.motion[a])
                         /\ out.move[a] = Merger!Clamped(before.motion[a])
      /\ buttons = before.buttons
      /\ out.held = before.buttons["network"] \union before.buttons["local"]
  BY <1>2, <1>4 DEF ThreadsInv, FlushInv
<1>6. motion = [a \in Axis |-> Merger!Remainder(before.motion[a])]
  BY <1>5 DEF ThreadsInv, FieldTypes, Motion
<1>7. out = [move |-> [a \in Axis |-> Merger!Clamped(before.motion[a])],
             held |-> before.buttons["network"] \union before.buttons["local"]]
  BY <1>5 DEF ThreadsInv, FieldTypes
<1>8. out = Merger!Flushed
  BY <1>2, <1>7 DEF Merger!Flushed, Merger!MergedButtons
<1> QED
  BY <1>1, <1>2, <1>3, <1>5, <1>6, <1>8 DEF Merger!Flush

LEMMA StepImplements ==
  ASSUME ThreadsInv, [Next]_vars
  PROVE  [Merger!Next]_(Merger!vars)
<1>1. UNCHANGED Seen => UNCHANGED Merger!vars
  BY DEF Seen, MotionSeen, ButtonsSeen, Merger!vars
<1>2. CASE BeginFlush \/ \E s \in Source, d \in [Axis -> Delta], b \in SUBSET Button :
                           BeginAccumulate(s, d, b)
  BY <1>1, <1>2, AcquireStutters, Names DEF BeginFlush, BeginAccumulate
<1>3. ASSUME NEW t \in Thread, NEW from \in Inside, NEW to \in Inside, Goto(t, from, to),
             UNCHANGED <<lock, before, report, accepted, emitted>>
      PROVE  UNCHANGED Merger!vars
  <2>1. lock # Free
    BY <1>3, LockInside, Names DEF ThreadsInv
  <2> QED
    BY <1>1, <1>3, <2>1, InsideStutters
<1>4. CASE \E t \in Thread, a \in Axis : Load(t, a)
  BY <1>3, <1>4, StepNames DEF Load
<1>5. CASE \E s \in Source, a \in Axis : AddStore(s, a)
  BY <1>3, <1>5, StepNames, Names DEF AddStore
<1>6. CASE \E a \in Axis : ClampStore(a)
  BY <1>3, <1>6, StepNames, Names DEF ClampStore
<1>7. CASE MergeButtons \/ \E s \in Source : SetButtons(s)
  <2>1. "buttons" \in Inside /\ "release" \in Inside
    BY DEF Inside, Steps
  <2> QED
    BY <1>3, <1>7, <2>1, Names DEF MergeButtons, SetButtons
<1>8. CASE EndFlush
  BY <1>8, FlushImplements DEF Merger!Next
<1>9. CASE \E s \in Source : EndAccumulate(s)
  <2>1. PICK s \in Source : EndAccumulate(s)
    BY <1>9
  <2>2. Source = Merger!Source
    BY DEF Source
  <2> QED
    BY <2>1, <2>2, AccumulateImplements DEF Merger!Next
<1>10. CASE UNCHANGED vars
  BY <1>1, <1>10 DEF vars, Seen, MotionSeen, ButtonsSeen
<1> QED
  BY <1>2, <1>4, <1>5, <1>6, <1>7, <1>8, <1>9, <1>10, Names
  DEF Next, FlushStep, AccumulateStep

LEMMA InitImplements == Init => Merger!Init
BY DEF Init, Merger!Init, NoArg, Source

(***************************************************************************)
(* "Thread-safe mouse input delta accumulator": every execution of the     *)
(* locked code by its three threads is an execution of the atomic          *)
(* accumulator, for any clamp limit, deltas and bound on their sum.        *)
(***************************************************************************)
THEOREM Refinement == Spec => ThreadSafe
<1>1. ThreadsInv /\ [Next]_vars => [Merger!Next]_(Merger!vars)
  BY StepImplements
<1> QED
  BY <1>1, InitImplements, InitInv, StepInv, PTL DEF Spec, ThreadSafe, Merger!Spec
=============================================================================
