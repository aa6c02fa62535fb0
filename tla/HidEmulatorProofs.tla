------------------------- MODULE HidEmulatorProofs -------------------------
(***************************************************************************)
(* Proofs about the main loop of linux-hid-emulator/hid_emulator.py, for   *)
(* any number of hosts, inputs and failures.                               *)
(***************************************************************************)
EXTENDS HidEmulator, TLAPS

(***************************************************************************)
(* The types the accounting needs: of the merger's fields, of the report   *)
(* that main() holds and of the histories.                                 *)
(***************************************************************************)
MotionTypes ==
  /\ motion    \in [Axis -> Int]
  /\ report    \in [move : [Axis -> Int], held : SUBSET Button]
  /\ buttons   \in [Merger!Source -> SUBSET Button]
  /\ accepted  \in [Axis -> Int]
  /\ sent \in [Axis -> Int]
  /\ lost      \in [Axis -> Int]

(***************************************************************************)
(* MotionAccounted, axis by axis.                                          *)
(***************************************************************************)
AccountedOn(a) ==
  accepted[a] = motion[a] + InFlight[a] + sent[a] + lost[a]

AccountInv == MotionTypes /\ \A a \in Axis : AccountedOn(a)

\* The clamp and its remainder make up the motion.
LEMMA ClampSplits ==
  ASSUME NEW v \in Int
  PROVE  /\ Merger!Clamped(v) \in Int
         /\ Merger!Remainder(v) \in Int
         /\ Merger!Clamped(v) + Merger!Remainder(v) = v
BY ClampMaxAssumption DEF Merger!Clamped, Merger!Remainder

\* Addition, axis by axis.
LEMMA PlusType ==
  ASSUME NEW f \in [Axis -> Int], NEW g \in [Axis -> Int]
  PROVE  /\ Merger!Plus(f, g) \in [Axis -> Int]
         /\ \A a \in Axis : Merger!Plus(f, g)[a] = f[a] + g[a]
BY DEF Merger!Plus

\* No motion is 0 on every axis.
LEMMA NoMotionType ==
  Merger!NoMotion \in [Axis -> Int] /\ \A a \in Axis : Merger!NoMotion[a] = 0
BY DEF Merger!NoMotion

\* At the start all sums are 0.
LEMMA AccountInit == Init => AccountInv
BY NoMotionType DEF Init, Merger!Init, AccountInv, MotionTypes, AccountedOn, InFlight

\* flush() moves motion from pending to the report.
LEMMA AccountTick == AccountInv /\ Tick => AccountInv'
<1> SUFFICES ASSUME AccountInv, Tick PROVE AccountInv'
  OBVIOUS
<1> USE DEF AccountInv, MotionTypes
<1>1. motion' = [a \in Axis |-> Merger!Remainder(motion[a])]
  BY DEF Tick, Merger!Flush
<1>2. report' = [move |-> [a \in Axis |-> Merger!Clamped(motion[a])],
                 held |-> Merger!MergedButtons]
  BY DEF Tick, Merger!Flush, Merger!Flushed
<1>3. Merger!MergedButtons \in SUBSET Button
  BY DEF Merger!MergedButtons, Merger!Source
<1>4. UNCHANGED <<buttons, accepted, sent, lost>> /\ pc = "tick" /\ pc' = "send"
  BY DEF Tick, Merger!Flush, history
<1>5. motion' \in [Axis -> Int] /\ report' \in [move : [Axis -> Int], held : SUBSET Button]
  BY <1>1, <1>2, <1>3, ClampSplits
<1>6. ASSUME NEW a \in Axis PROVE AccountedOn(a)'
  <2>1. motion'[a] = Merger!Remainder(motion[a])
    BY <1>1
  <2>2. InFlight'[a] = Merger!Clamped(motion[a])
    BY <1>2, <1>4 DEF InFlight
  <2>3. accepted[a] = motion[a] + 0 + sent[a] + lost[a]
    BY <1>4, NoMotionType DEF AccountedOn, InFlight
  <2>4. motion[a] \in Int /\ sent[a] \in Int /\ lost[a] \in Int
    OBVIOUS
  <2> QED
    BY <2>1, <2>2, <2>3, <2>4, <1>4, ClampSplits DEF AccountedOn
<1> QED
  BY <1>4, <1>5, <1>6

\* accumulate() adds the same motion to what is pending and to what was accepted.
LEMMA AccountInput == AccountInv /\ Input => AccountInv'
<1> SUFFICES ASSUME AccountInv, Input PROVE AccountInv'
  OBVIOUS
<1> USE DEF AccountInv, MotionTypes
<1>1. PICK s \in Merger!Source, d \in [Axis -> Delta], b \in SUBSET Button :
        Merger!Accumulate(s, d, b)
  BY DEF Input
<1>2. d \in [Axis -> Int]
  BY DeltaAssumption
<1>3. /\ motion' = Merger!Plus(motion, d) /\ accepted' = Merger!Plus(accepted, d)
      /\ buttons' = [buttons EXCEPT ![s] = b]
      /\ UNCHANGED <<report, pc, sent, lost>>
  BY <1>1 DEF Merger!Accumulate, Input, mainVars, history
<1>4. InFlight' = InFlight /\ \A a \in Axis : InFlight[a] \in Int
  BY <1>3, NoMotionType DEF InFlight
<1>5. ASSUME NEW a \in Axis PROVE AccountedOn(a)'
  <2>1. motion'[a] = motion[a] + d[a] /\ accepted'[a] = accepted[a] + d[a]
    BY <1>2, <1>3, PlusType
  <2>2. d[a] \in Int /\ motion[a] \in Int /\ sent[a] \in Int /\ lost[a] \in Int
    BY <1>2
  <2> QED
    BY <2>1, <2>2, <1>3, <1>4 DEF AccountedOn
<1>6. motion' \in [Axis -> Int] /\ accepted' \in [Axis -> Int]
  BY <1>2, <1>3, PlusType
<1> QED
  BY <1>3, <1>5, <1>6

\* A report that leaves the loop is sent, lost or empty.
LEMMA AccountSend == AccountInv /\ (Send \/ SendFails \/ Skip) => AccountInv'
<1> SUFFICES ASSUME AccountInv, Send \/ SendFails \/ Skip PROVE AccountInv'
  OBVIOUS
<1> USE DEF AccountInv, MotionTypes
<1>1. /\ pc = "send" /\ pc' # "send"
      /\ UNCHANGED <<motion, buttons, report, accepted>>
  BY DEF Send, SendFails, Skip, mergerVars
<1>2. /\ InFlight = report.move /\ InFlight' = Merger!NoMotion
      /\ report.move \in [Axis -> Int]
  BY <1>1 DEF InFlight
<1>3. \/ sent' = Merger!Plus(sent, report.move) /\ lost' = lost
      \/ sent' = sent /\ lost' = Merger!Plus(lost, report.move)
      \/ sent' = sent /\ lost' = lost /\ report.move = Merger!NoMotion
  BY DEF Send, SendFails, Skip, WorthSending, history
<1>4. sent' \in [Axis -> Int] /\ lost' \in [Axis -> Int]
  BY <1>2, <1>3, PlusType
<1>5. ASSUME NEW a \in Axis PROVE AccountedOn(a)'
  <2>1. sent'[a] + lost'[a] = report.move[a] + sent[a] + lost[a]
    BY <1>2, <1>3, PlusType, NoMotionType
  <2>2. /\ motion[a] \in Int /\ report.move[a] \in Int
        /\ sent'[a] \in Int /\ lost'[a] \in Int
        /\ sent[a] \in Int /\ lost[a] \in Int
    BY <1>2, <1>4
  <2> QED
    BY <2>1, <2>2, <1>1, <1>2, NoMotionType DEF AccountedOn
<1> QED
  BY <1>1, <1>4, <1>5

(***************************************************************************)
(* The other steps touch neither motion nor the report in flight.          *)
(***************************************************************************)
LEMMA AccountRest ==
  ASSUME AccountInv, UNCHANGED <<mergerVars, sent, lost>>,
         pc # "send", pc' # "send"
  PROVE  AccountInv'
BY DEF AccountInv, MotionTypes, AccountedOn, InFlight, mergerVars

\* The other steps touch none of the sums.
LEMMA AccountStutter ==
  ASSUME AccountInv, UNCHANGED <<mergerVars, pc, sent, lost>>
  PROVE  AccountInv'
BY DEF AccountInv, MotionTypes, AccountedOn, InFlight, mergerVars

\* No step breaks AccountInv.
LEMMA AccountStep == AccountInv /\ [Next]_vars => AccountInv'
<1> SUFFICES ASSUME AccountInv, [Next]_vars PROVE AccountInv'
  OBVIOUS
<1>1. CASE \/ SetUp \/ SetUpRaises \/ Outer \/ Connected \/ NotConnected \/ LeaveLoop
           \/ Reconnect \/ Shutdown
  BY <1>1, AccountRest
  DEF SetUp, SetUpRaises, Outer, Connected, NotConnected, LeaveLoop, Reconnect, Shutdown, history
<1>2. CASE Waiting \/ Signal \/ Terminated
  BY <1>2, AccountStutter DEF Waiting, Signal, Terminated, mainVars, history, vars
<1>3. CASE \E h \in Host : Hosts(h)
  BY <1>3, AccountStutter
  DEF Hosts, HostGoes, HostReturns, LinkTimeout, HostConnect, mainVars, history
<1>4. CASE UNCHANGED vars
  BY <1>4, AccountStutter DEF vars, mainVars, history
<1> QED
  BY <1>1, <1>2, <1>3, <1>4, AccountTick, AccountInput, AccountSend
  DEF Next, Main, Environment

\* On every axis, and so altogether.
LEMMA AccountImplies == AccountInv => MotionAccounted
<1> SUFFICES ASSUME AccountInv PROVE MotionAccounted
  OBVIOUS
<1> USE DEF AccountInv, MotionTypes
<1> DEFINE pending == Merger!Plus(motion, InFlight)
           gone == Merger!Plus(sent, lost)
<1>1. InFlight \in [Axis -> Int]
  BY NoMotionType DEF InFlight
<1>2. pending \in [Axis -> Int] /\ gone \in [Axis -> Int]
  BY <1>1, PlusType
<1>3. ASSUME NEW a \in Axis PROVE accepted[a] = Merger!Plus(pending, gone)[a]
  <2>1. pending[a] = motion[a] + InFlight[a] /\ gone[a] = sent[a] + lost[a]
    BY <1>1, PlusType
  <2>2. Merger!Plus(pending, gone)[a] = pending[a] + gone[a]
    BY <1>2, PlusType
  <2>3. /\ motion[a] \in Int /\ InFlight[a] \in Int
        /\ sent[a] \in Int /\ lost[a] \in Int
    BY <1>1
  <2> QED
    BY <2>1, <2>2, <2>3 DEF AccountedOn
<1>4. Merger!Plus(pending, gone) \in [Axis -> Int]
  BY <1>2, PlusType
<1> QED
  BY <1>3, <1>4 DEF MotionAccounted

(***************************************************************************)
(* No motion disappears unnoticed between accumulate() and send().         *)
(***************************************************************************)
THEOREM MotionIsAccounted == Spec => []MotionAccounted
<1>1. Spec => []AccountInv
  BY AccountInit, AccountStep, PTL DEF Spec
<1> QED
  BY <1>1, AccountImplies, PTL
-----------------------------------------------------------------------------
(***************************************************************************)
(* The parts inside the composition: what is proved of InputMerger and of  *)
(* BluetoothHIDProfile holds of the fields main() works on, because main() *)
(* and its environment change them by the parts' own operations only.      *)
(***************************************************************************)
MergerFacts  == INSTANCE InputMergerProofs
ProfileFacts == INSTANCE BluetoothHIDProfileProofs

\* The two instances of InputMerger, one with its proofs, are the same.
LEMMA SameMerger ==
  /\ Merger!Init <=> MergerFacts!Init
  /\ [Merger!Next]_(Merger!vars) <=> [MergerFacts!Next]_(MergerFacts!vars)
  /\ Merger!TypeOK <=> MergerFacts!TypeOK
<1> USE DEF Merger!Source, MergerFacts!Source, Merger!NoMotion, MergerFacts!NoMotion,
            Merger!Report, MergerFacts!Report, Merger!Plus, MergerFacts!Plus
<1>1. Merger!Init <=> MergerFacts!Init
  BY DEF Merger!Init, MergerFacts!Init
<1>2. [Merger!Next]_(Merger!vars) <=> [MergerFacts!Next]_(MergerFacts!vars)
  BY DEF Merger!Next, Merger!Acceptable, Merger!Accumulate, Merger!Flush, Merger!Flushed,
         Merger!MergedButtons, Merger!Clamped, Merger!Remainder, Merger!vars,
         MergerFacts!Next, MergerFacts!Acceptable, MergerFacts!Accumulate,
         MergerFacts!Flush, MergerFacts!Flushed, MergerFacts!MergedButtons,
         MergerFacts!Clamped, MergerFacts!Remainder, MergerFacts!vars
<1>3. Merger!TypeOK <=> MergerFacts!TypeOK
  BY DEF Merger!TypeOK, MergerFacts!TypeOK
<1> QED
  BY <1>1, <1>2, <1>3

\* The two instances of BluetoothHIDProfile, one with its proofs, are the same.
LEMMA SameProfile ==
  /\ Profile!Init <=> ProfileFacts!Init
  /\ [Profile!Next]_(Profile!vars) <=> [ProfileFacts!Next]_(ProfileFacts!vars)
  /\ Profile!TypeOK <=> ProfileFacts!TypeOK
  /\ Profile!ConnectedOnBoth <=> ProfileFacts!ConnectedOnBoth
<1> USE DEF Profile!Channel, Profile!NoSocket, Profile!Packed, Profile!IsOpen,
            ProfileFacts!Channel, ProfileFacts!NoSocket, ProfileFacts!Packed,
            ProfileFacts!IsOpen
<1>1. Profile!Init <=> ProfileFacts!Init
  BY DEF Profile!Init, ProfileFacts!Init
<1>2. [Profile!Next]_(Profile!vars) <=> [ProfileFacts!Next]_(ProfileFacts!vars)
  BY DEF Profile!Next, Profile!Profile, Profile!Hosts, Profile!WaitForConnection,
         Profile!Listen, Profile!Accept, Profile!ListenFails, Profile!AcceptFails,
         Profile!SendReport, Profile!SendReportFails, Profile!Disconnect,
         Profile!SendReportRefused, Profile!HostMoves, Profile!DropLinks,
         Profile!HostLeave, Profile!HostFades, Profile!HostReturns, Profile!LinkTimeout,
         Profile!HostConnect, Profile!CloseServers, Profile!external, Profile!HostHears,
         Profile!CloseClients, Profile!Socket, Profile!DeadSocket, Profile!Listening,
         Profile!Accepting, Profile!AfterListen, Profile!AfterAccept,
         Profile!IsConnected, Profile!LinkUp, Profile!HasLink, Profile!Place,
         Profile!Contains, Profile!RemoveAt, Profile!vars,
         ProfileFacts!Next, ProfileFacts!Profile, ProfileFacts!Hosts,
         ProfileFacts!WaitForConnection, ProfileFacts!Listen, ProfileFacts!Accept,
         ProfileFacts!ListenFails, ProfileFacts!AcceptFails, ProfileFacts!SendReport,
         ProfileFacts!SendReportFails, ProfileFacts!Disconnect, ProfileFacts!HostLeave,
         ProfileFacts!SendReportRefused, ProfileFacts!HostMoves, ProfileFacts!DropLinks,
         ProfileFacts!HostFades, ProfileFacts!HostReturns, ProfileFacts!LinkTimeout,
         ProfileFacts!external, ProfileFacts!HostHears,
         ProfileFacts!HostConnect, ProfileFacts!CloseServers, ProfileFacts!CloseClients,
         ProfileFacts!Socket, ProfileFacts!DeadSocket, ProfileFacts!Listening,
         ProfileFacts!Accepting, ProfileFacts!AfterListen, ProfileFacts!AfterAccept,
         ProfileFacts!IsConnected, ProfileFacts!LinkUp, ProfileFacts!HasLink,
         ProfileFacts!Place, ProfileFacts!Contains, ProfileFacts!RemoveAt,
         ProfileFacts!vars
<1>3. Profile!TypeOK <=> ProfileFacts!TypeOK
  BY DEF Profile!TypeOK, ProfileFacts!TypeOK, Profile!Phase, ProfileFacts!Phase
<1>4. Profile!ConnectedOnBoth <=> ProfileFacts!ConnectedOnBoth
  BY DEF Profile!ConnectedOnBoth, ProfileFacts!ConnectedOnBoth
<1> QED
  BY <1>1, <1>2, <1>3, <1>4

\* Every step of the program is one of the accumulator, or leaves it alone.
LEMMA MergerSteps == [Next]_vars => [Merger!Next]_(Merger!vars)
<1> SUFFICES ASSUME [Next]_vars PROVE [Merger!Next]_(Merger!vars)
  OBVIOUS
<1>1. CASE Tick
  BY <1>1 DEF Tick, Merger!Next
<1>2. CASE Input
  BY <1>2 DEF Input, Merger!Next
<1>3. ASSUME UNCHANGED mergerVars PROVE [Merger!Next]_(Merger!vars)
  BY <1>3 DEF mergerVars, Merger!vars
<1>4. CASE \/ SetUp \/ SetUpRaises \/ Outer \/ Waiting \/ Connected \/ NotConnected
           \/ Skip \/ Send \/ SendFails \/ LeaveLoop \/ Reconnect \/ Shutdown
           \/ Signal \/ Terminated \/ UNCHANGED vars
  BY <1>3, <1>4 DEF SetUp, SetUpRaises, Outer, Waiting, Connected, NotConnected, Skip, Send,
    SendFails, LeaveLoop, Reconnect, Shutdown, Signal, Terminated, vars
<1>5. CASE \E h \in Host : Hosts(h)
  BY <1>3, <1>5 DEF Hosts, HostGoes, HostReturns, LinkTimeout, HostConnect
<1> QED
  BY <1>1, <1>2, <1>4, <1>5 DEF Next, Main, Environment

\* A flushed report holds buttons.
LEMMA HeldButtons ==
  ASSUME Merger!TypeOK PROVE report.held \in SUBSET Button
BY DEF Merger!TypeOK, Merger!Report

\* Every step of the program is one of the connection, or leaves it alone.
LEMMA ProfileSteps ==
  Merger!TypeOK /\ [Next]_vars => [Profile!Next]_(Profile!vars)
<1> SUFFICES ASSUME Merger!TypeOK, [Next]_vars PROVE [Profile!Next]_(Profile!vars)
  OBVIOUS
<1>1. CASE Outer
  BY <1>1 DEF Outer, Profile!Next, Profile!Profile
<1>2. CASE Waiting \/ Connected
  BY <1>2 DEF Waiting, Connected, Profile!Next, Profile!Profile, Profile!Channel
<1>3. CASE NotConnected
  BY <1>3 DEF NotConnected, Profile!Next, Profile!Profile
<1>4. CASE Send
  BY <1>4, HeldButtons DEF Send, Profile!Next, Profile!Profile
<1>5. CASE SendFails
  BY <1>5 DEF SendFails, Profile!Next, Profile!Profile
<1>6. CASE Reconnect \/ Shutdown
  BY <1>6 DEF Reconnect, Shutdown, Profile!Next, Profile!Profile
<1>7. CASE \E h \in Host : Hosts(h)
  BY <1>7 DEF Hosts, HostGoes, HostReturns, LinkTimeout, HostConnect,
    Profile!Next, Profile!Hosts, Profile!HostMoves
<1>8. ASSUME UNCHANGED profileVars PROVE [Profile!Next]_(Profile!vars)
  BY <1>8 DEF profileVars, Profile!vars, Profile!external
<1>9. CASE \/ SetUp \/ SetUpRaises \/ Tick \/ Skip \/ LeaveLoop \/ Input \/ Signal
           \/ Terminated \/ UNCHANGED vars
  BY <1>8, <1>9 DEF SetUp, SetUpRaises, Tick, Skip, LeaveLoop, Input, Signal, Terminated, vars
<1> QED
  BY <1>1, <1>2, <1>3, <1>4, <1>5, <1>6, <1>7, <1>9 DEF Next, Main, Environment

(***************************************************************************)
(* main(), the input threads and the handler use the accumulator by        *)
(* accumulate() and flush() alone.                                         *)
(***************************************************************************)
THEOREM ImplementsMerger == Spec => Merger!Spec
<1>1. Init => Merger!Init
  BY DEF Init
<1> QED
  BY <1>1, MergerSteps, PTL DEF Spec, Merger!Spec

\* The fields of the accumulator keep their types, because it is an InputMerger.
LEMMA MergerTypes == Spec => []Merger!TypeOK
<1>1. Merger!Spec => MergerFacts!Spec
  BY SameMerger, PTL DEF Merger!Spec, MergerFacts!Spec
<1>2. MergerFacts!Spec => []MergerFacts!TypeOK
  BY ClampMaxAssumption, DeltaAssumption, MaxTotalAssumption, MergerFacts!TypeCorrect
  DEF MergerFacts!TypeCorrect
<1> QED
  BY <1>1, <1>2, ImplementsMerger, SameMerger, PTL

(***************************************************************************)
(* main() and the hosts use the connection as its methods are meant to be  *)
(* used: no report while a call waits, no second wait inside the first.    *)
(***************************************************************************)
THEOREM ImplementsProfile == Spec => Profile!Spec
<1>1. Init => Profile!Init
  BY DEF Init
<1> QED
  BY <1>1, MergerTypes, ProfileSteps, PTL DEF Spec, Profile!Spec

(***************************************************************************)
(* The dispatch loop of main() never meets half a connection.              *)
(***************************************************************************)
THEOREM MainConnectedOnBoth == Spec => [](Profile!TypeOK /\ Profile!ConnectedOnBoth)
<1>1. Profile!Spec => ProfileFacts!Spec
  BY SameProfile, PTL DEF Profile!Spec, ProfileFacts!Spec
<1>2. ProfileFacts!Spec => []ProfileFacts!TypeOK
  BY HidButtonAssumption, BacklogAssumption, ProfileFacts!TypeCorrect
  DEF ProfileFacts!TypeCorrect
<1>3. ProfileFacts!Spec => []ProfileFacts!ConnectedOnBoth
  BY HidButtonAssumption, BacklogAssumption, ProfileFacts!ConnectedOnBothChannels
  DEF ProfileFacts!ConnectedOnBothChannels
<1> QED
  BY <1>1, <1>2, <1>3, ImplementsProfile, SameProfile, PTL

-----------------------------------------------------------------------------
(***************************************************************************)
(* A host cannot bring up a link that was accepted before, and when it     *)
(* hears again it has caught up with the reports it missed.                *)
(***************************************************************************)
LEMMA HostsKeepStep ==
  ASSUME Profile!TypeOK, NEW h \in Host, Hosts(h)
  PROVE  /\ UNCHANGED <<mainVars, taken>>
         /\ Profile!LinkUp' => Profile!LinkUp
         /\ Profile!HostHears' =>
              hostHeld' = taken' \/ (Profile!HostHears /\ hostHeld' = hostHeld)
<1> DEFINE s == client["interrupt"]
<1> USE DEF Profile!HostHears, Profile!LinkUp
<1>1. s \in [peer : {{}} \union {{x} : x \in Host}, up : BOOLEAN]
  BY DEF Profile!TypeOK, Profile!Channel
<1>2. s.up /\ h \in s.peer => s = Profile!Socket(h)
  BY <1>1 DEF Profile!Socket
<1>3. ASSUME Profile!DropLinks(h), away' = away \/ away' = away \ {h}
      PROVE  /\ UNCHANGED <<taken, hostHeld>>
             /\ Profile!LinkUp' => Profile!LinkUp
             /\ Profile!HostHears' => Profile!HostHears
  <2>1. s' = IF s = Profile!Socket(h) THEN Profile!DeadSocket(h) ELSE s
    BY <1>3 DEF Profile!DropLinks, Profile!Channel
  <2>2. s'.up => s' = s /\ s # Profile!Socket(h)
    BY <2>1 DEF Profile!DeadSocket
  <2>3. s'.up => h \notin s.peer
    BY <1>2, <2>2
  <2>4. UNCHANGED <<taken, hostHeld>>
    BY <1>3 DEF Profile!DropLinks
  <2> QED
    BY <1>3, <2>2, <2>3, <2>4
<1>4. CASE HostGoes(h)
  <2>1. CASE Profile!HostLeave(h)
    BY <1>3, <1>4, <2>1 DEF HostGoes, Profile!HostLeave
  <2>2. CASE Profile!HostFades(h)
    BY <1>4, <2>2 DEF HostGoes, Profile!HostFades
  <2> QED
    BY <1>4, <2>1, <2>2 DEF HostGoes
<1>5. CASE HostReturns(h)
  <2>1. /\ UNCHANGED <<mainVars, taken, client>> /\ away' = away \ {h}
        /\ hostHeld' = IF s = Profile!Socket(h) THEN taken ELSE hostHeld
    BY <1>5 DEF HostReturns, Profile!HostReturns
  <2>2. s.up /\ s # Profile!Socket(h) => h \notin s.peer
    BY <1>2
  <2> QED
    BY <2>1, <2>2
<1>6. CASE LinkTimeout(h)
  BY <1>3, <1>6 DEF LinkTimeout, Profile!LinkTimeout
<1>7. CASE \E ch \in Profile!Channel : HostConnect(h, ch)
  BY <1>7 DEF HostConnect, Profile!HostConnect, Profile!external
<1> QED
  BY <1>4, <1>5, <1>6, <1>7 DEF Hosts

(***************************************************************************)
(* The steps that send no report.                                          *)
(***************************************************************************)
LEMMA StepRest ==
  ASSUME HostInStep, UNCHANGED <<taken, last_buttons>>,
         InLoop' => InLoop, Profile!LinkUp' => Profile!LinkUp,
         Profile!HostHears' =>
           hostHeld' = taken' \/ (Profile!HostHears /\ hostHeld' = hostHeld)
  PROVE  HostInStep'
BY DEF HostInStep, Profile!Packed

\* No step takes last_buttons and the host apart.
LEMMA StepKept == Profile!TypeOK /\ HostInStep /\ [Next]_vars => HostInStep'
<1> SUFFICES ASSUME Profile!TypeOK, HostInStep, [Next]_vars PROVE HostInStep'
  OBVIOUS
<1>1. CASE \/ SetUp \/ SetUpRaises \/ Outer \/ Waiting \/ NotConnected \/ SendFails
           \/ LeaveLoop \/ Reconnect \/ Shutdown
  <2>1. ~InLoop'
    BY <1>1 DEF SetUp, SetUpRaises, Outer, Waiting, NotConnected, SendFails, LeaveLoop, Reconnect, Shutdown,
                InLoop, mainVars
  <2> QED
    BY <2>1 DEF HostInStep
<1>2. CASE Connected
  <2>1. taken' = {} /\ hostHeld' = {} /\ last_buttons' = {}
    BY <1>2 DEF Connected, Profile!Accept
  <2> QED
    BY <2>1 DEF HostInStep, Profile!Packed
<1>3. CASE Send
  <2>1. /\ taken' = Profile!Packed(report.held) /\ last_buttons' = report.held
        /\ Profile!HostHears => hostHeld' = Profile!Packed(report.held)
        /\ UNCHANGED <<client, away>>
    BY <1>3 DEF Send, Profile!SendReport
  <2> QED
    BY <2>1 DEF HostInStep, Profile!HostHears, Profile!LinkUp, Profile!Packed
<1>4. CASE Tick \/ Skip
  <2>1. UNCHANGED <<taken, hostHeld, last_buttons, client, away>> /\ InLoop
    BY <1>4 DEF Tick, Skip, profileVars, InLoop
  <2> QED
    BY <2>1, StepRest DEF Profile!HostHears, Profile!LinkUp
<1>5. CASE Input \/ Signal \/ Terminated \/ UNCHANGED vars
  <2>1. UNCHANGED <<taken, hostHeld, last_buttons, client, away, pc>>
    BY <1>5 DEF Input, Signal, Terminated, profileVars, mainVars, vars
  <2> QED
    BY <2>1, StepRest DEF Profile!HostHears, Profile!LinkUp, InLoop
<1>6. CASE \E h \in Host : Hosts(h)
  <2>1. PICK h \in Host : Hosts(h)
    BY <1>6
  <2> QED
    BY <2>1, HostsKeepStep, StepRest DEF mainVars, InLoop
<1> QED
  BY <1>1, <1>2, <1>3, <1>4, <1>5, <1>6 DEF Next, Main, Environment

(***************************************************************************)
(* last_buttons is what a host in range sees and what one that returns     *)
(* will see, over any number of reconnections.                             *)
(***************************************************************************)
THEOREM HostStaysInStep == Spec => []HostInStep
<1>1. Init => HostInStep
  BY DEF Init, HostInStep, InLoop
<1>2. Spec => []Profile!TypeOK
  BY MainConnectedOnBoth, PTL
<1> QED
  BY <1>1, <1>2, StepKept, PTL DEF Spec
-----------------------------------------------------------------------------
(***************************************************************************)
(* The types of main()'s own variables, over those of its parts.           *)
(***************************************************************************)
MainTypes ==
  /\ running \in BOOLEAN
  /\ pc \in PC
  /\ last_buttons \in SUBSET Button
  /\ sent \in [Axis -> Int] /\ lost \in [Axis -> Int]
  /\ inputs \in 0 .. MaxInputs /\ faults \in 0 .. MaxFaults

\* The initial values of the loop have their types.
LEMMA MainInit == Init => MainTypes
BY NoMotionType, MaxInputsAssumption, MaxFaultsAssumption DEF Init, MainTypes, PC

\* No step breaks the types of the loop, given those of the accumulator.
LEMMA MainStep == Merger!TypeOK /\ MainTypes /\ [Next]_vars => MainTypes'
<1> SUFFICES ASSUME Merger!TypeOK, MainTypes, [Next]_vars PROVE MainTypes'
  OBVIOUS
<1> USE MaxInputsAssumption, MaxFaultsAssumption DEF MainTypes, PC, history
<1>1. CASE Send \/ SendFails
  <2>1. report.move \in [Axis -> Int] /\ report.held \in SUBSET Button
    BY ClampMaxAssumption DEF Merger!TypeOK, Merger!Report
  <2>2. /\ Merger!Plus(sent, report.move) \in [Axis -> Int]
        /\ Merger!Plus(lost, report.move) \in [Axis -> Int]
    BY <2>1, PlusType
  <2> QED
    BY <1>1, <2>1, <2>2 DEF Send, SendFails
<1>2. CASE \/ SetUp \/ SetUpRaises \/ Outer \/ Waiting \/ Connected \/ NotConnected
  BY <1>2 DEF SetUp, SetUpRaises, Outer, Waiting, Connected, NotConnected, mainVars
<1>3. CASE Tick \/ Skip \/ LeaveLoop \/ Reconnect \/ Shutdown
  BY <1>3 DEF Tick, Skip, LeaveLoop, Reconnect, Shutdown
<1>4. CASE Input
  <2>1. inputs < MaxInputs /\ inputs' = inputs + 1
        /\ UNCHANGED <<mainVars, history, faults>>
    BY <1>4 DEF Input
  <2> QED
    BY <2>1 DEF mainVars
<1>5. CASE Signal \/ Terminated \/ UNCHANGED vars
  BY <1>5 DEF Signal, Terminated, mainVars, vars
<1>6. CASE \E h \in Host : Hosts(h)
  BY <1>6 DEF Hosts, HostGoes, HostReturns, LinkTimeout, HostConnect, mainVars
<1> QED
  BY <1>1, <1>2, <1>3, <1>4, <1>5, <1>6 DEF Next, Main, Environment

(***************************************************************************)
(* All variables of the main loop and of its parts keep their types; every *)
(* report it sends fits the signed bytes of the layout.                    *)
(***************************************************************************)
THEOREM TypeCorrect == Spec => []TypeOK
<1>1. Spec => []MainTypes
  BY MainInit, MainStep, MergerTypes, PTL DEF Spec
<1>2. Merger!TypeOK /\ Profile!TypeOK /\ MainTypes => TypeOK
  BY DEF TypeOK, MainTypes
<1> QED
  BY <1>1, <1>2, MergerTypes, MainConnectedOnBoth, PTL
=============================================================================
