-------------------------- MODULE ForwarderProofs --------------------------
(***************************************************************************)
(* For any configuration files, numerals and URLs, of any length: the      *)
(* callbacks of the hook thread find their objects alive, and a return of  *)
(* main() leaves nothing behind; the fields keep their types; a relay URL  *)
(* is understood as it is meant, and a configuration is read as it is      *)
(* written.  The first two are not inductive; LifeInv says, for each part  *)
(* of main(), which objects live in it.                                    *)
(***************************************************************************)
EXTENDS Forwarder, WellFoundedInduction, SequenceTheorems, TLAPS

\* The parts of main() before, with and after the hook thread.
Starting == {"load", "network", "relay", "start"}
Hooked   == {"handler", "wait", "stop", "join"}
Cleaning == {"shut relay", "shut network", "~hook", "~relay", "~net", "exited"}

\* Where the transmitter is up.
Networked == {"relay", "start", "shut relay", "shut network"} \union Hooked

HookInv ==
  /\ pc \in Starting => hook = "none" /\ ~instance
  /\ pc \in Hooked   => hook \notin {"none", "joined"} /\ instance
  /\ pc \in Cleaning => hook \in {"none", "joined"} /\ ~instance

NetworkInv ==
  /\ pc \in {"load", "network", "exited"} => ~wsa /\ ~sock
  /\ pc \in Networked => wsa /\ sock

RelayInv ==
  /\ pc \in {"load", "network", "relay"} => relay = "none"
  /\ pc \in {"shut network", "~hook", "~relay", "~net", "exited"} => relay # "running"
  /\ hook = "relay" => relay = "running"

LifeInv == pc \in MainPC /\ HookInv /\ NetworkInv /\ RelayInv

\* Before load_config() none of the objects exists.
LEMMA InitLife == Init => LifeInv
BY DEF Init, LifeInv, HookInv, NetworkInv, RelayInv, MainPC, Final, Starting, Hooked,
       Cleaning, Networked

\* Every step of main()'s start keeps the invariant.
LEMMA StartUpLife == LifeInv /\ StartUp => LifeInv'
<1> SUFFICES ASSUME LifeInv, StartUp PROVE LifeInv'  OBVIOUS
<1> USE DEF LifeInv, HookInv, NetworkInv, RelayInv, MainPC, Final, Starting, Hooked,
            Cleaning, Networked, Goto, input, network, thread, control
<1>1. CASE Load             BY <1>1 DEF Load
<1>2. CASE LoadAborts       BY <1>2 DEF LoadAborts
<1>3. CASE InitNetwork      BY <1>3 DEF InitNetwork
<1>4. CASE InitNetworkFails BY <1>4 DEF InitNetworkFails
<1>5. CASE InitRelay        BY <1>5 DEF InitRelay
<1>6. CASE NoRelay          BY <1>6 DEF NoRelay
<1>7. CASE InitRelayAborts  BY <1>7 DEF InitRelayAborts
<1>8. CASE StartHook        BY <1>8 DEF StartHook
<1>9. CASE InstallHandler   BY <1>9 DEF InstallHandler
<1>. QED BY <1>1, <1>2, <1>3, <1>4, <1>5, <1>6, <1>7, <1>8, <1>9 DEF StartUp

\* Every step of main()'s clean-up keeps it.
LEMMA CleanUpLife == LifeInv /\ CleanUp => LifeInv'
<1> SUFFICES ASSUME LifeInv, CleanUp PROVE LifeInv'  OBVIOUS
<1> USE DEF LifeInv, HookInv, NetworkInv, RelayInv, MainPC, Final, Starting, Hooked,
            Cleaning, Networked, Goto, input, network, thread, control
<1>1. CASE Stopped     BY <1>1 DEF Stopped
<1>2. CASE PostQuit    BY <1>2 DEF PostQuit
<1>3. CASE JoinHook    BY <1>3 DEF JoinHook
<1>4. CASE ShutRelay   BY <1>4 DEF ShutRelay
<1>5. CASE ShutNetwork BY <1>5 DEF ShutNetwork
<1>6. CASE DestroyHook BY <1>6 DEF DestroyHook
<1>. QED BY <1>1, <1>2, <1>3, <1>4, <1>5, <1>6 DEF CleanUp

\* The hook thread moves only while main() is in the Hooked part.
LEMMA HookLife == LifeInv /\ (HookThread \/ Callback) => LifeInv'
<1> SUFFICES ASSUME LifeInv, HookThread \/ Callback PROVE LifeInv'  OBVIOUS
<1> USE DEF LifeInv, HookInv, NetworkInv, RelayInv, MainPC, Final, Starting, Hooked,
            Cleaning, Networked, Alive, HookGoto, HookRest, input, network, control
<1>1. CASE SetThreadId  BY <1>1 DEF SetThreadId
<1>2. CASE Install      BY <1>2 DEF Install
<1>3. CASE InstallFails BY <1>3 DEF InstallFails
<1>4. CASE Callback     BY <1>4 DEF Callback
<1>5. CASE SendUdp      BY <1>5 DEF SendUdp
<1>6. CASE SendRelay    BY <1>6 DEF SendRelay
<1>7. CASE TakeQuit     BY <1>7 DEF TakeQuit
<1>8. CASE Unhook       BY <1>8 DEF Unhook
<1>. QED BY <1>1, <1>2, <1>3, <1>4, <1>5, <1>6, <1>7, <1>8 DEF HookThread

\* Console events touch none of the objects.
LEMMA ConsoleLife == LifeInv /\ (CtrlC \/ Close \/ Killed) => LifeInv'
<1> SUFFICES ASSUME LifeInv, CtrlC \/ Close \/ Killed PROVE LifeInv'  OBVIOUS
<1> USE DEF LifeInv, HookInv, NetworkInv, RelayInv, MainPC, Final, Starting, Hooked,
            Cleaning, Networked, input, network, thread, control
<1>1. CASE CtrlC  BY <1>1 DEF CtrlC
<1>2. CASE Close  BY <1>2 DEF Close
<1>3. CASE Killed BY <1>3 DEF Killed
<1>. QED BY <1>1, <1>2, <1>3

\* At every position of main(): which of the transmitter, the relay client and
\* the hook thread are alive, whatever of the start or the work has failed.
THEOREM LifeInvariant == Spec => []LifeInv
<1>1. LifeInv /\ [Next]_vars => LifeInv'
  <2> SUFFICES ASSUME LifeInv, [Next]_vars PROVE LifeInv'  OBVIOUS
  <2>1. CASE UNCHANGED vars
    BY <2>1 DEF vars, LifeInv, HookInv, NetworkInv, RelayInv
  <2>2. CASE Next
    BY <2>1, <2>2, StartUpLife, CleanUpLife, HookLife, ConsoleLife DEF Next, Terminated
  <2>. QED BY <2>1, <2>2
<1>. QED BY <1>1, InitLife, PTL DEF Spec

\* A callback runs in the Hooked part only, where the transmitter is up, and it
\* goes to the relay only while that has not been shut down.
THEOREM CallbacksFindObjects == Spec => []SendsOnLiveObjects
<1>1. LifeInv => SendsOnLiveObjects
  BY DEF LifeInv, HookInv, NetworkInv, RelayInv, SendsOnLiveObjects, Alive, MainPC, Final,
         Starting, Hooked, Cleaning, Networked
<1>. QED BY <1>1, LifeInvariant, PTL

\* What LifeInv says of the position "exited".
THEOREM NothingLeftBehind == Spec => []ExitReleasesAll
<1>1. LifeInv => ExitReleasesAll
  BY DEF LifeInv, HookInv, NetworkInv, RelayInv, ExitReleasesAll, Cleaning
<1>. QED BY <1>1, LifeInvariant, PTL
-----------------------------------------------------------------------------
(***************************************************************************)
(* Induction over the natural numbers, for a set that holds those for      *)
(* which something is true.                                                *)
(***************************************************************************)
Below == {p \in Nat \X Nat : p[1] < p[2]}

\* The order of the natural numbers is well founded.
LEMMA BelowWellFounded == IsWellFoundedOn(Below, Nat)
<1>1. OpToRel(<, Nat) = Below
  BY DEF OpToRel, Below
<1> QED
  BY <1>1, NatLessThanWellFounded

\* A set of natural numbers that is not empty has a least element.
LEMMA Least ==
  ASSUME NEW S \in SUBSET Nat, S # {}
  PROVE  \E k \in S : \A i \in S : k <= i
<1>1. PICK k \in S : \A i \in S : <<i, k>> \notin Below
  BY BelowWellFounded, WFMin
<1>2. \A i \in S : k <= i
  <2> SUFFICES ASSUME NEW i \in S PROVE k <= i
    OBVIOUS
  <2>1. i \in Nat /\ k \in Nat /\ <<i, k>> \notin Below
    BY <1>1
  <2> QED
    BY <2>1 DEF Below
<1> QED
  BY <1>2

\* A set that holds 0 and with a number the next one holds them all.
LEMMA Induction ==
  ASSUME NEW T, 0 \in T, \A n \in Nat : n \in T => n + 1 \in T
  PROVE  Nat \subseteq T
<1> SUFFICES ASSUME Nat \ T # {} PROVE FALSE
  OBVIOUS
<1>1. PICK n \in Nat \ T : \A k \in Nat \ T : n <= k
  BY Least
<1>2. n - 1 \in Nat /\ n - 1 < n
  BY <1>1
<1>3. n - 1 \notin Nat \ T
  BY <1>1, <1>2
<1> QED
  BY <1>1, <1>2, <1>3
-----------------------------------------------------------------------------
(***************************************************************************)
(* The loop of load_config(): a field is its default, or what one of the   *)
(* lines sets it to.                                                       *)
(***************************************************************************)
Setting(field, f, i) == Sets(Trim(f[i]), field)
Set(field, f, i) == Converted(field, Value(Trim(f[i])))

Results(field, f) ==
  {Default[field]} \union {Set(field, f, i) : i \in {j \in 1 .. Len(f) : Setting(field, f, j)}}

\* One round, for a value v of the rounds before.
Round(field, f, v, i) == IF Setting(field, f, i) THEN Set(field, f, i) ELSE v

Looping(field, f, g) ==
  \A i \in 0 .. Len(f) : g[i] = IF i = 0 THEN Default[field] ELSE Round(field, f, g[i - 1], i)

\* There is a function that follows the rounds of the loop.
LEMMA RoundsExist ==
  ASSUME NEW field, NEW f, Len(f) \in Nat
  PROVE  \E g \in [0 .. Len(f) -> Results(field, f)] : Looping(field, f, g)
<1> DEFINE R == Results(field, f)
           Looped(g, n) == \A i \in 0 .. n :
                             g[i] = IF i = 0 THEN Default[field] ELSE Round(field, f, g[i - 1], i)
           T == {n \in Nat : n <= Len(f) => \E g \in [0 .. n -> R] : Looped(g, n)}
<1>1. 0 \in T
  <2>1. Default[field] \in R
    BY DEF Results
  <2> HIDE DEF R
  <2>2. /\ [i \in 0 .. 0 |-> Default[field]] \in [0 .. 0 -> R]
        /\ Looped([i \in 0 .. 0 |-> Default[field]], 0)
    BY <2>1
  <2> QED
    BY <2>2
<1>2. ASSUME NEW n \in Nat, n \in T PROVE n + 1 \in T
  <2> HIDE DEF Looped
  <2> SUFFICES ASSUME n + 1 <= Len(f) PROVE \E g \in [0 .. n + 1 -> R] : Looped(g, n + 1)
    OBVIOUS
  <2>1. PICK g \in [0 .. n -> R] : Looped(g, n)
    BY <1>2
  <2> DEFINE v == Round(field, f, g[n], n + 1)
             h == [i \in 0 .. n + 1 |-> IF i <= n THEN g[i] ELSE v]
  <2>2. v \in R
    BY <2>1 DEF Round, Results
  <2> HIDE DEF R
  <2>3. h \in [0 .. n + 1 -> R]
    BY <2>1, <2>2
  <2>4. Looped(h, n + 1)
    <3> SUFFICES ASSUME NEW i \in 0 .. n + 1
                 PROVE  h[i] = IF i = 0 THEN Default[field] ELSE Round(field, f, h[i - 1], i)
      BY DEF Looped
    <3>1. CASE i = n + 1
      BY <3>1
    <3>2. CASE i <= n
      <4>1. g[i] = IF i = 0 THEN Default[field] ELSE Round(field, f, g[i - 1], i)
        BY <2>1, <3>2 DEF Looped
      <4>2. h[i] = g[i] /\ (i # 0 => h[i - 1] = g[i - 1])
        BY <3>2
      <4> QED
        BY <4>1, <4>2
    <3> QED
      BY <3>1, <3>2
  <2> HIDE DEF h
  <2> QED
    BY <2>3, <2>4
<1> HIDE DEF T
<1>3. Len(f) \in T
  BY <1>1, <1>2, Induction
<1> QED
  BY <1>3 DEF T, Looping

\* So Rounds, which CHOOSE defines, is one: the default, and after each line what
\* it makes of the value before.
LEMMA RoundsProperties ==
  ASSUME NEW field, NEW f, Len(f) \in Nat
  PROVE  /\ Rounds(field, f)[0] = Default[field]
         /\ \A i \in 1 .. Len(f) :
              Rounds(field, f)[i] = Round(field, f, Rounds(field, f)[i - 1], i)
<1>1. PICK g \in [0 .. Len(f) -> Results(field, f)] : Looping(field, f, g)
  BY RoundsExist
<1> DEFINE F(h) == [i \in 0 .. Len(f) |->
                      IF i = 0 THEN Default[field] ELSE Round(field, f, h[i - 1], i)]
<1>2. g = F(g)
  BY <1>1 DEF Looping
<1>3. Rounds(field, f) = F(Rounds(field, f))
  BY <1>2 DEF Rounds, AfterLine, Round, Setting, Set
<1> DEFINE r == Rounds(field, f)
<1> HIDE DEF r
<1>4. r = F(r)
  BY <1>3 DEF r
<1>5. r[0] = Default[field] /\ \A i \in 1 .. Len(f) : r[i] = Round(field, f, r[i - 1], i)
  BY <1>4
<1> QED
  BY <1>5 DEF r

\* The line that sets a field last counts; without one it keeps its default.
LEMMA LastSettingCounts ==
  ASSUME NEW field, NEW f, Len(f) \in Nat
  PROVE  LET r == Rounds(field, f)[Len(f)]
         IN  \/ r = Default[field] /\ \A i \in 1 .. Len(f) : ~Setting(field, f, i)
             \/ \E k \in 1 .. Len(f) :
                  /\ Setting(field, f, k) /\ r = Set(field, f, k)
                  /\ \A i \in k + 1 .. Len(f) : ~Setting(field, f, i)
<1> DEFINE r == Rounds(field, f)
           Counted(n) == \/ r[n] = Default[field] /\ \A i \in 1 .. n : ~Setting(field, f, i)
                         \/ \E k \in 1 .. n :
                              /\ Setting(field, f, k) /\ r[n] = Set(field, f, k)
                              /\ \A i \in k + 1 .. n : ~Setting(field, f, i)
           T == {n \in Nat : n <= Len(f) => Counted(n)}
<1>1. r[0] = Default[field] /\ \A i \in 1 .. Len(f) : r[i] = Round(field, f, r[i - 1], i)
  BY RoundsProperties
<1> HIDE DEF r
<1>2. 0 \in T
  BY <1>1
<1>3. ASSUME NEW n \in Nat, n \in T PROVE n + 1 \in T
  <2> SUFFICES ASSUME n + 1 <= Len(f) PROVE Counted(n + 1)
    OBVIOUS
  <2>1. Counted(n) /\ r[n + 1] = Round(field, f, r[n], n + 1)
    BY <1>1, <1>3
  <2>2. CASE Setting(field, f, n + 1)
    <3>1. r[n + 1] = Set(field, f, n + 1) /\ \A i \in n + 1 + 1 .. n + 1 : FALSE
      BY <2>1, <2>2 DEF Round
    <3> QED
      BY <2>2, <3>1
  <2>3. CASE ~Setting(field, f, n + 1)
    <3>1. r[n + 1] = r[n]
      BY <2>1, <2>3 DEF Round
    <3>2. CASE r[n] = Default[field] /\ \A i \in 1 .. n : ~Setting(field, f, i)
      BY <2>3, <3>1, <3>2
    <3>3. ASSUME NEW k \in 1 .. n, Setting(field, f, k), r[n] = Set(field, f, k),
                 \A i \in k + 1 .. n : ~Setting(field, f, i)
          PROVE  Counted(n + 1)
      <4>1. k \in 1 .. n + 1 /\ \A i \in k + 1 .. n + 1 : ~Setting(field, f, i)
        BY <2>3, <3>3
      <4> QED
        BY <3>1, <3>3, <4>1
    <3> QED
      BY <2>1, <3>2, <3>3
  <2> QED
    BY <2>2, <2>3
<1> HIDE DEF T
<1>4. Len(f) \in T
  BY <1>2, <1>3, Induction
<1> QED
  BY <1>4 DEF T, r
-----------------------------------------------------------------------------
(***************************************************************************)
(* Types: what std::stoi returns is an int, and the two ports are cut to   *)
(* 16 bits.                                                                *)
(***************************************************************************)
LEMMA PortWidth ==
  /\ \A n \in Int : Uint16(n) \in 0 .. Uint16Values - 1
  /\ {443, 80, 5555} \subseteq 0 .. Uint16Values - 1
<1>1. /\ Uint16Values \in Nat /\ 443 < Uint16Values /\ 80 < Uint16Values
      /\ 5555 < Uint16Values
  BY DEF Uint16Values
<1> QED
  BY <1>1 DEF Uint16

\* A numeral at the start of a text is what std::stoi reads: there is no blank to skip.
LEMMA NumeralFirst ==
  ASSUME NEW s, s # <<>>, Head(s) \in DOMAIN Numeral
  PROVE  Numeric(s) /\ Stoi(s) = Numeral[Head(s)]
<1>1. " " \notin DOMAIN Numeral
  BY NumeralAssumption DEF Mark
<1>2. Unspaced(s) = s
  BY <1>1 DEF Unspaced
<1> QED
  BY <1>2 DEF Numeric, Stoi

\* The cast cuts every number to 16 bits.
LEMMA PortType ==
  ASSUME NEW s, Numeric(s)
  PROVE  Uint16(Stoi(s)) \in 0 .. Uint16Values - 1
<1>1. Stoi(s) \in Int
  BY NumeralAssumption DEF Numeric, Stoi
<1> QED
  BY <1>1, PortWidth

Typed(c) ==
  /\ DOMAIN c = DOMAIN Default
  /\ \A field \in Flags : c[field] \in BOOLEAN
  /\ c.target_port \in 0 .. Uint16Values - 1

\* A flag is a Boolean and the port fits 16 bits, whatever the lines say, unless a
\* number is none.
LEMMA FieldType ==
  ASSUME NEW f \in File, NEW field, field \in Flags \union {"target_port"}, ~LoadThrows(f)
  PROVE  /\ field \in Flags => Rounds(field, f)[Len(f)] \in BOOLEAN
         /\ field = "target_port" => Rounds(field, f)[Len(f)] \in 0 .. Uint16Values - 1
<1> DEFINE r == Rounds(field, f)[Len(f)]
<1>1. f \in Seq(Text) /\ Len(f) \in Nat
  BY FileAssumption
<1>2. r = Default[field] \/ \E k \in 1 .. Len(f) : Setting(field, f, k) /\ r = Set(field, f, k)
  BY <1>1, LastSettingCounts
<1> HIDE DEF r
<1>3. CASE r = Default[field]
  <2>1. CASE field \in Flags
    <3>1. \/ field = "use_relative_deltas" /\ Default[field] = TRUE
          \/ field = "use_relay" /\ Default[field] = FALSE
          \/ field = "relay_verify_tls" /\ Default[field] = TRUE
      BY <2>1 DEF Default, Flags
    <3>2. Default[field] \in BOOLEAN /\ field # "target_port"
      BY <3>1
    <3> QED
      BY <1>3, <3>2 DEF r
  <2>2. CASE field = "target_port"
    <3>1. Default[field] = 5555 /\ field \notin Flags
      BY <2>2 DEF Default, Flags
    <3> QED
      BY <1>3, <3>1, PortWidth DEF r
  <2> QED
    BY <2>1, <2>2
<1>4. ASSUME NEW k \in 1 .. Len(f), Setting(field, f, k), r = Set(field, f, k)
      PROVE  (field \in Flags => r \in BOOLEAN) /\ (field = "target_port" => r \in 0 .. Uint16Values - 1)
  <2> DEFINE v == Value(Trim(f[k]))
  <2>1. r = Converted(field, v)
    BY <1>4 DEF Set
  <2> HIDE DEF v
  <2>2. CASE field \in Flags
    <3>1. r = (IEquals(v, <<"true">>) \/ v = <<"1">>)
      BY <2>1, <2>2 DEF Converted, Flags, Texts
    <3>2. r \in BOOLEAN
      BY <3>1
    <3> QED
      BY <2>2, <3>2 DEF Flags
  <2>3. CASE field = "target_port"
    <3>1. r = Uint16(Stoi(v))
      BY <2>1, <2>3 DEF Converted, Flags, Texts
    <3>2. Numeric(v)
      BY <1>1, <1>4, <2>3 DEF LoadThrows, Setting, Numbers, v
    <3> QED
      BY <2>3, <3>1, <3>2, PortType DEF Flags
  <2> QED
    BY <2>2, <2>3
<1> QED
  BY <1>2, <1>3, <1>4 DEF r

\* What load_config() returns has the types of its fields.
LEMMA ConfigType ==
  ASSUME NEW f \in File, ~LoadThrows(f)
  PROVE  Typed(LoadConfig(f))
<1>1. \A field \in DOMAIN Default : LoadConfig(f)[field] = Rounds(field, f)[Len(f)]
  BY DEF LoadConfig
<1>2. DOMAIN LoadConfig(f) = DOMAIN Default
  BY DEF LoadConfig
<1>3. Flags \union {"target_port"} \subseteq DOMAIN Default
  BY DEF Flags, Default
<1> QED
  BY <1>1, <1>2, <1>3, FieldType DEF Typed

\* The port of a URL that is accepted fits 16 bits.
LEMMA TargetType ==
  ASSUME NEW u, HasScheme(u), ~UrlRefused(u), ~UrlThrows(u)
  PROVE  ParsedUrl(u).port \in 0 .. Uint16Values - 1
<1> DEFINE hp == HostPort(u)
<1>1. Colon(hp) # 0 => Numeric(PortText(hp))
  BY DEF UrlRefused, UrlThrows
<1>2. ParsedUrl(u).port = IF Colon(hp) # 0 THEN Uint16(Stoi(PortText(hp)))
                          ELSE IF Head(u) = "wss://" THEN 443 ELSE 80
  BY DEF ParsedUrl
<1> HIDE DEF hp
<1> QED
  BY <1>1, <1>2, PortType, PortWidth

TypeInv == TypeOK /\ file \in File

\* The stages of init() are pairs of Booleans.
LEMMA PairTypes ==
  \A done \in {<<FALSE, FALSE>>, <<TRUE, FALSE>>, <<TRUE, TRUE>>} :
    done[1] \in BOOLEAN /\ done[2] \in BOOLEAN
<1> TAKE done \in {<<FALSE, FALSE>>, <<TRUE, FALSE>>, <<TRUE, TRUE>>}
<1>1. CASE done = <<FALSE, FALSE>>  BY <1>1
<1>2. CASE done = <<TRUE, FALSE>>   BY <1>2
<1>3. CASE done = <<TRUE, TRUE>>    BY <1>3
<1> QED
  BY <1>1, <1>2, <1>3

\* The initial values have their types.
LEMMA TypeInit == Init => TypeInv
<1> SUFFICES ASSUME Init PROVE TypeInv
  OBVIOUS
<1>1. Typed(cfg)
  BY PortWidth DEF Init, Typed, Default, Flags
<1>2. target.port \in 0 .. Uint16Values - 1
  BY PortWidth DEF Init, NoTarget
<1> QED
  BY <1>1, <1>2 DEF Init, TypeInv, TypeOK, Typed, MainPC, HookPC, Final

\* No step breaks the types: load_config() by ConfigType, init() of the relay by
\* TargetType, the rest by assigning constants.
LEMMA TypeStep == TypeInv /\ [Next]_vars => TypeInv'
<1> SUFFICES ASSUME TypeInv, [Next]_vars PROVE TypeInv'
  OBVIOUS
<1> USE DEF TypeInv, TypeOK, MainPC, HookPC, Final
<1>1. CASE Load
  <2>1. Typed(cfg')
    BY <1>1, ConfigType DEF Load
  <2> QED
    BY <1>1, <2>1 DEF Load, Goto, Typed, network, thread, control
<1>2. CASE InitRelay
  <2>1. HasScheme(cfg.relay_url)
    BY <1>2 DEF InitRelay, UrlRefused
  <2>2. target'.port \in 0 .. Uint16Values - 1
    BY <1>2, <2>1, TargetType DEF InitRelay
  <2> QED
    BY <1>2, <2>2 DEF InitRelay, Goto, network, thread, control
<1>3. CASE UNCHANGED vars
  BY <1>3 DEF vars
<1> USE DEF Goto, HookGoto, HookRest, input, network, thread, control
<1>4. CASE LoadAborts       BY <1>4 DEF LoadAborts
<1>5. CASE InitNetwork      BY <1>5 DEF InitNetwork
<1>6. CASE InitNetworkFails
  <2>1. PICK done \in {<<FALSE, FALSE>>, <<TRUE, FALSE>>, <<TRUE, TRUE>>} :
          wsa' = done[1] /\ sock' = done[2]
    BY <1>6 DEF InitNetworkFails
  <2>2. done[1] \in BOOLEAN /\ done[2] \in BOOLEAN
    BY PairTypes
  <2>3. wsa' \in BOOLEAN /\ sock' \in BOOLEAN
    BY <2>1, <2>2
  <2> QED
    BY <1>6, <2>3 DEF InitNetworkFails
<1>7. CASE NoRelay          BY <1>7 DEF NoRelay
<1>8. CASE InitRelayAborts  BY <1>8 DEF InitRelayAborts
<1>9. CASE StartHook        BY <1>9 DEF StartHook
<1>10. CASE InstallHandler  BY <1>10 DEF InstallHandler
<1>11. CASE Stopped         BY <1>11 DEF Stopped
<1>12. CASE PostQuit
  <2>1. quit' \in BOOLEAN
    BY <1>12 DEF PostQuit
  <2> QED
    BY <1>12, <2>1 DEF PostQuit
<1>13. CASE JoinHook        BY <1>13 DEF JoinHook
<1>14. CASE ShutRelay       BY <1>14 DEF ShutRelay
<1>15. CASE ShutNetwork     BY <1>15 DEF ShutNetwork
<1>16. CASE DestroyHook     BY <1>16 DEF DestroyHook
<1>17. CASE SetThreadId     BY <1>17 DEF SetThreadId
<1>18. CASE Install         BY <1>18 DEF Install
<1>19. CASE InstallFails    BY <1>19 DEF InstallFails
<1>20. CASE Callback        BY <1>20 DEF Callback
<1>21. CASE SendUdp         BY <1>21 DEF SendUdp
<1>22. CASE SendRelay       BY <1>22 DEF SendRelay
<1>23. CASE TakeQuit        BY <1>23 DEF TakeQuit
<1>24. CASE Unhook          BY <1>24 DEF Unhook
<1>25. CASE CtrlC           BY <1>25 DEF CtrlC
<1>26. CASE Close           BY <1>26 DEF Close
<1>27. CASE Killed          BY <1>27 DEF Killed
<1> QED
  BY <1>1, <1>2, <1>3, <1>4, <1>5, <1>6, <1>7, <1>8, <1>9, <1>10, <1>11, <1>12, <1>13, <1>14,
     <1>15, <1>16, <1>17, <1>18, <1>19, <1>20, <1>21, <1>22, <1>23, <1>24, <1>25, <1>26, <1>27
  DEF Next, StartUp, CleanUp, HookThread, Terminated

(***************************************************************************)
(* The fields keep their types for every file without a number that is     *)
(* none, and both ports fit 16 bits.                                       *)
(***************************************************************************)
THEOREM TypeCorrect == Spec => []TypeOK
<1>1. TypeInv => TypeOK
  BY DEF TypeInv
<1> QED
  BY <1>1, TypeInit, TypeStep, PTL DEF Spec
-----------------------------------------------------------------------------
(***************************************************************************)
(* Positions in a text, and the parts that a text is put together from.    *)
(***************************************************************************)
LEMMA MinIs ==
  ASSUME NEW S \in SUBSET Int, NEW k \in S, \A i \in S : k <= i
  PROVE  Min(S) = k
<1>1. \A x \in S : (\A i \in S : x <= i) => x = k
  <2> SUFFICES ASSUME NEW x \in S, \A i \in S : x <= i PROVE x = k
    OBVIOUS
  <2>1. x <= k /\ k <= x /\ x \in Int /\ k \in Int
    OBVIOUS
  <2> QED
    BY <2>1
<1> QED
  BY <1>1 DEF Min

\* Max picks the greatest element, where there is one.
LEMMA MaxIs ==
  ASSUME NEW S \in SUBSET Int, NEW k \in S, \A i \in S : i <= k
  PROVE  Max(S) = k
<1>1. \A x \in S : (\A i \in S : x >= i) => x = k
  <2> SUFFICES ASSUME NEW x \in S, \A i \in S : x >= i PROVE x = k
    OBVIOUS
  <2>1. x >= k /\ k >= x /\ x \in Int /\ k \in Int
    OBVIOUS
  <2> QED
    BY <2>1
<1>2. \A i \in S : k >= i
  OBVIOUS
<1> QED
  BY <1>1, <1>2 DEF Max

\* A token with none like it before it is the first.
LEMMA FirstOfIs ==
  ASSUME NEW s, NEW t, Len(s) \in Nat, NEW k \in 1 .. Len(s),
         s[k] = t, \A i \in 1 .. k - 1 : s[i] # t
  PROVE  FirstOf(s, t) = k
<1> DEFINE I == {i \in 1 .. Len(s) : s[i] = t}
<1>1. k \in I /\ I \subseteq Int
  OBVIOUS
<1>2. \A i \in I : k <= i
  OBVIOUS
<1>3. FirstOf(s, t) = IF I # {} THEN Min(I) ELSE 0
  BY DEF FirstOf, SelectInSeq
<1> HIDE DEF I
<1> QED
  BY <1>1, <1>2, <1>3, MinIs

\* A token with none like it behind it is the last.
LEMMA LastOfIs ==
  ASSUME NEW s, NEW t, Len(s) \in Nat, NEW k \in 1 .. Len(s),
         s[k] = t, \A i \in k + 1 .. Len(s) : s[i] # t
  PROVE  LastOf(s, t) = k
<1> DEFINE I == {i \in 1 .. Len(s) : s[i] = t}
<1>1. k \in I /\ I \subseteq Int
  OBVIOUS
<1>2. \A i \in I : i <= k
  OBVIOUS
<1>3. LastOf(s, t) = IF I # {} THEN Max(I) ELSE 0
  BY DEF LastOf, SelectLastInSeq
<1> HIDE DEF I
<1> QED
  BY <1>1, <1>2, <1>3, MaxIs

\* A token that does not occur has no first and no last place.
LEMMA NoneOf ==
  ASSUME NEW s, NEW t, \A i \in 1 .. Len(s) : s[i] # t
  PROVE  FirstOf(s, t) = 0 /\ LastOf(s, t) = 0
<1>1. {i \in 1 .. Len(s) : s[i] = t} = {}
  OBVIOUS
<1> QED
  BY <1>1 DEF FirstOf, SelectInSeq, LastOf, SelectLastInSeq

\* FirstOf is 0, or the place of the first such token.
LEMMA FirstOfFound ==
  ASSUME NEW s, NEW t, Len(s) \in Nat
  PROVE  \/ FirstOf(s, t) = 0 /\ \A i \in 1 .. Len(s) : s[i] # t
         \/ /\ FirstOf(s, t) \in 1 .. Len(s) /\ s[FirstOf(s, t)] = t
            /\ \A i \in 1 .. FirstOf(s, t) - 1 : s[i] # t
<1>1. CASE \A i \in 1 .. Len(s) : s[i] # t
  BY <1>1, NoneOf
<1>2. CASE \E i \in 1 .. Len(s) : s[i] = t
  <2> DEFINE I == {i \in 1 .. Len(s) : s[i] = t}
  <2>1. I # {} /\ I \in SUBSET Nat
    BY <1>2
  <2>2. PICK k \in I : \A i \in I : k <= i
    <3> HIDE DEF I
    <3> QED
      BY <2>1, Least
  <2>3. k \in 1 .. Len(s) /\ s[k] = t /\ \A i \in 1 .. k - 1 : s[i] # t
    BY <2>2
  <2>4. FirstOf(s, t) = k
    BY <2>3, FirstOfIs
  <2> QED
    BY <2>3, <2>4
<1> QED
  BY <1>1, <1>2

Tokens == Seq(Token)

\* A text put together from two comes apart again.
LEMMA Parts ==
  ASSUME NEW p \in Tokens, NEW q \in Tokens
  PROVE  /\ p \o q \in Tokens /\ Len(p \o q) = Len(p) + Len(q)
         /\ \A i \in 1 .. Len(p) : (p \o q)[i] = p[i]
         /\ \A i \in 1 .. Len(q) : (p \o q)[Len(p) + i] = q[i]
         /\ UpTo(p \o q, Len(p)) = p
         /\ From(p \o q, Len(p) + 1) = q
<1> DEFINE r == p \o q
<1>1. Len(p) \in Nat /\ Len(q) \in Nat
  BY LenProperties DEF Tokens
<1>2. /\ r \in Seq(Token) /\ Len(r) = Len(p) + Len(q)
      /\ \A i \in 1 .. Len(p) + Len(q) : r[i] = IF i <= Len(p) THEN p[i] ELSE q[i - Len(p)]
  BY ConcatProperties DEF Tokens
<1> HIDE DEF r
<1>3. \A i \in 1 .. Len(p) : r[i] = p[i]
  BY <1>1, <1>2
<1>4. \A i \in 1 .. Len(q) : r[Len(p) + i] = q[i]
  <2> TAKE i \in 1 .. Len(q)
  <2>1. Len(p) + i \in 1 .. Len(p) + Len(q) /\ ~(Len(p) + i <= Len(p)) /\ (Len(p) + i) - Len(p) = i
    BY <1>1
  <2> QED
    BY <1>2, <2>1
<1>5. SubSeq(r, 1, Len(p)) = p
  <2>1. \A i \in 1 .. Len(p) : r[i] \in Token
    BY <1>1, <1>2, ElementOfSeq
  <2>2. /\ SubSeq(r, 1, Len(p)) \in Seq(Token) /\ Len(SubSeq(r, 1, Len(p))) = Len(p)
        /\ \A i \in 1 .. Len(p) : SubSeq(r, 1, Len(p))[i] = r[i]
    BY <1>1, <2>1, SubSeqProperties
  <2> QED
    BY <1>3, <2>2, SeqEqual DEF Tokens
<1>6. SubSeq(r, Len(p) + 1, Len(r)) = q
  <2> DEFINE t == SubSeq(r, Len(p) + 1, Len(r))
  <2>1. \A i \in Len(p) + 1 .. Len(r) : r[i] \in Token
    BY <1>1, <1>2, ElementOfSeq
  <2>2. Len(p) + 1 \in Int /\ Len(r) \in Int
    BY <1>1, <1>2
  <2>3. /\ t \in Seq(Token)
        /\ Len(t) = IF Len(p) + 1 <= Len(r) THEN Len(r) - (Len(p) + 1) + 1 ELSE 0
        /\ \A i \in 1 .. Len(r) - (Len(p) + 1) + 1 : t[i] = r[Len(p) + 1 + i - 1]
    BY <2>1, <2>2, SubSeqProperties
  <2> HIDE DEF t
  <2>4. Len(t) = Len(q)
    BY <1>1, <1>2, <2>3
  <2>5. \A i \in 1 .. Len(t) : t[i] = q[i]
    <3> TAKE i \in 1 .. Len(t)
    <3>1. i \in 1 .. Len(r) - (Len(p) + 1) + 1 /\ Len(p) + 1 + i - 1 = Len(p) + i /\ i \in 1 .. Len(q)
      BY <1>1, <1>2, <2>4
    <3> QED
      BY <1>4, <2>3, <3>1
  <2> QED
    BY <2>3, <2>4, <2>5, SeqEqual DEF t, Tokens
<1> QED
  BY <1>2, <1>3, <1>4, <1>5, <1>6 DEF r, Tokens, UpTo, From

\* A text of one token, and one with a token before it.
LEMMA SingleSeq ==
  ASSUME NEW S, NEW e \in S
  PROVE  <<e>> \in Seq(S)
OBVIOUS

\* A text of one token.
LEMMA Single ==
  ASSUME NEW e \in Token
  PROVE  <<e>> \in Tokens /\ Len(<<e>>) = 1 /\ <<e>>[1] = e /\ Head(<<e>>) = e
<1>1. <<e>> \in Seq(Token)
  BY SingleSeq
<1>2. Len(<<e>>) = 1 /\ <<e>>[1] = e /\ Head(<<e>>) = e
  OBVIOUS
<1> QED
  BY <1>1, <1>2 DEF Tokens

\* A text led by a token: its head, and its tail.
LEMMA Led ==
  ASSUME NEW e \in Token, NEW s \in Tokens
  PROVE  /\ <<e>> \o s \in Tokens /\ <<e>> \o s # <<>> /\ Len(<<e>> \o s) = Len(s) + 1
         /\ Head(<<e>> \o s) = e /\ (<<e>> \o s)[1] = e
         /\ \A i \in 1 .. Len(s) : (<<e>> \o s)[1 + i] = s[i]
         /\ Tail(<<e>> \o s) = s
<1> DEFINE r == <<e>> \o s
<1>1. /\ r \in Tokens /\ Len(r) = 1 + Len(s) /\ r[1] = e
      /\ \A i \in 1 .. Len(s) : r[1 + i] = s[i]
      /\ From(r, 2) = s
  <2>1. <<e>> \in Tokens /\ Len(<<e>>) = 1 /\ <<e>>[1] = e
    BY Single
  <2> DEFINE o == <<e>>
  <2> HIDE DEF o
  <2>2. o \in Tokens /\ Len(o) = 1 /\ o[1] = e
    BY <2>1 DEF o
  <2>3. /\ o \o s \in Tokens /\ Len(o \o s) = Len(o) + Len(s)
        /\ \A i \in 1 .. Len(o) : (o \o s)[i] = o[i]
        /\ \A i \in 1 .. Len(s) : (o \o s)[Len(o) + i] = s[i]
        /\ From(o \o s, Len(o) + 1) = s
    BY <2>2, Parts
  <2>4. r = o \o s
    BY DEF o
  <2> HIDE DEF r
  <2> QED
    BY <2>2, <2>3, <2>4
<1>2. Len(s) \in Nat
  BY LenProperties DEF Tokens
<1> HIDE DEF r
<1>3. r # <<>>
  BY <1>1, <1>2
<1>4. r \in Seq(Token)
  BY <1>1 DEF Tokens
<1>5. Head(r) = r[1]
  BY <1>3, <1>4
<1>6. Tail(r) = SubSeq(r, 2, Len(r))
  BY <1>3, <1>4, TailIsSubSeq
<1> QED
  BY <1>1, <1>2, <1>3, <1>5, <1>6 DEF r, From
-----------------------------------------------------------------------------
(***************************************************************************)
(* parse_ws_url() undoes the writing of a URL.                             *)
(***************************************************************************)
Lacks(s, t) == \A i \in 1 .. Len(s) : s[i] # t

\* The authority hp of a URL and its path are told apart by the first slash.
LEMMA AuthorityFound ==
  ASSUME NEW e \in Token, NEW hp \in Tokens, NEW path \in Tokens,
         Lacks(hp, "/"), path # <<>> => Head(path) = "/"
  PROVE  LET u == <<e>> \o (hp \o path)
         IN  HostPort(u) = hp /\ Path(u) = IF path = <<>> THEN <<"/">> ELSE path
<1> DEFINE u == <<e>> \o (hp \o path)
           r == hp \o path
<1>1. /\ r \in Tokens /\ Len(r) = Len(hp) + Len(path)
      /\ \A i \in 1 .. Len(hp) : r[i] = hp[i]
      /\ \A i \in 1 .. Len(path) : r[Len(hp) + i] = path[i]
      /\ UpTo(r, Len(hp)) = hp /\ From(r, Len(hp) + 1) = path
  BY Parts
<1>2. Len(hp) \in Nat /\ Len(path) \in Nat
  BY LenProperties DEF Tokens
<1>3. Tail(u) = r
  BY <1>1, Led
<1> HIDE DEF r, u
<1>4. CASE path = <<>>
  <2>1. Len(path) = 0
    BY <1>4
  <2>2. r = hp
    BY <1>4, ConcatEmptySeq DEF r, Tokens
  <2>3. FirstOf(r, "/") = 0
    BY <2>2, NoneOf DEF Lacks
  <2> QED
    BY <1>3, <1>4, <2>2, <2>3 DEF u, HostPort, Path, Slash
<1>5. CASE path # <<>>
  <2>1. Len(path) \in Nat \ {0} /\ path[1] = "/"
    BY <1>2, <1>5, EmptySeq DEF Tokens
  <2>2. Len(hp) + 1 \in 1 .. Len(r) /\ r[Len(hp) + 1] = "/" /\ Len(r) \in Nat
    BY <1>1, <1>2, <2>1
  <2>3. \A i \in 1 .. (Len(hp) + 1) - 1 : r[i] # "/"
    BY <1>1, <1>2 DEF Lacks
  <2>4. FirstOf(r, "/") = Len(hp) + 1
    BY <2>2, <2>3, FirstOfIs
  <2>5. Slash(u) = Len(hp) + 1
    BY <1>3, <2>4 DEF Slash
  <2>6. Slash(u) # 0 /\ Slash(u) - 1 = Len(hp)
    BY <1>2, <2>5
  <2> QED
    BY <1>1, <1>3, <1>5, <2>5, <2>6 DEF u, HostPort, Path
<1> QED
  BY <1>4, <1>5 DEF u

HostText(host) == IF FirstOf(host, ":") # 0 THEN <<"[">> \o host \o <<"]">> ELSE host

\* A port that is written.
PortToken(port) == port \in Token /\ port # ":" /\ port # ""

\* What becomes of an authority: its host, and its port if there is one.
Understood(hp, host, port) ==
  /\ ~Unclosed(hp) /\ Host(hp) = host
  /\ (Colon(hp) = 0) <=> (port = "")
  /\ port # "" => PortText(hp) = <<port>>

\* The port behind what comes before it.
LEMMA WithPort ==
  ASSUME NEW h \in Tokens, NEW port \in Token, ":" \in Token
  PROVE  LET hp == h \o (<<":">> \o <<port>>)
         IN  /\ <<":">> \o <<port>> \in Tokens
             /\ hp \in Tokens /\ Len(hp) = Len(h) + 2
             /\ \A i \in 1 .. Len(h) : hp[i] = h[i]
             /\ hp[Len(h) + 1] = ":" /\ hp[Len(h) + 2] = port
             /\ UpTo(hp, Len(h)) = h /\ From(hp, Len(h) + 2) = <<port>>
<1> DEFINE tail == <<":">> \o <<port>>
           hp == h \o tail
<1>1. <<port>> \in Tokens /\ Len(<<port>>) = 1 /\ <<port>>[1] = port
  BY Single
<1>2. tail \in Tokens /\ Len(tail) = 2 /\ tail[1] = ":" /\ tail[2] = port
  <2> DEFINE o == <<port>>
  <2>1. o \in Tokens /\ Len(o) = 1 /\ o[1] = port
    BY <1>1
  <2> HIDE DEF o
  <2>2. /\ <<":">> \o o \in Tokens /\ Len(<<":">> \o o) = Len(o) + 1 /\ (<<":">> \o o)[1] = ":"
        /\ \A i \in 1 .. Len(o) : (<<":">> \o o)[1 + i] = o[i]
    BY <2>1, Led
  <2>3. tail = <<":">> \o o
    BY DEF o
  <2> HIDE DEF tail
  <2>4. tail[1 + 1] = port
    BY <2>1, <2>2, <2>3
  <2> QED
    BY <2>1, <2>2, <2>3, <2>4
<1>3. Len(h) \in Nat
  BY LenProperties DEF Tokens
<1>4. From(hp, Len(h) + 2) = <<port>>
  <2> DEFINE c == <<":">>
             o == <<port>>
  <2>1. c \in Tokens /\ Len(c) = 1 /\ o \in Tokens
    BY <1>1, Single
  <2>2. hp = h \o (c \o o)
    OBVIOUS
  <2> HIDE DEF c, o, hp
  <2>3. hp = (h \o c) \o o
    BY <2>1, <2>2, ConcatAssociative DEF Tokens
  <2>4. h \o c \in Tokens /\ Len(h \o c) = Len(h) + Len(c)
    BY <2>1, Parts
  <2>5. From((h \o c) \o o, Len(h \o c) + 1) = o
    BY <2>1, <2>4, Parts
  <2>6. Len(h \o c) + 1 = Len(h) + 2
    BY <1>3, <2>1, <2>4
  <2> QED
    BY <2>3, <2>5, <2>6 DEF o
<1> HIDE DEF tail
<1>5. /\ h \o tail \in Tokens /\ Len(h \o tail) = Len(h) + Len(tail)
      /\ \A i \in 1 .. Len(h) : (h \o tail)[i] = h[i]
      /\ \A i \in 1 .. Len(tail) : (h \o tail)[Len(h) + i] = tail[i]
      /\ UpTo(h \o tail, Len(h)) = h
  BY <1>2, Parts
<1>6. hp = h \o tail
  OBVIOUS
<1> HIDE DEF hp
<1>7. Len(hp) = Len(h) + 2 /\ hp[Len(h) + 1] = ":" /\ hp[Len(h) + 2] = port
  BY <1>2, <1>5, <1>6
<1> QED
  BY <1>2, <1>4, <1>5, <1>6, <1>7 DEF hp, tail

\* A name alone is a host without a port.
LEMMA PlainHost ==
  ASSUME NEW host \in Tokens, host # <<>>, Lacks(host, "["), Lacks(host, ":")
  PROVE  Understood(host, host, "")
<1>1. Len(host) \in Nat \ {0}
  BY EmptySeq, LenProperties DEF Tokens
<1>2. host[1] # "["
  BY <1>1 DEF Lacks
<1>3. ~Bracketed(host)
  BY <1>2 DEF Bracketed
<1>4. Colon(host) = 0
  BY <1>3, NoneOf DEF Colon, Lacks
<1> QED
  BY <1>3, <1>4 DEF Understood, Unclosed, Host

\* A name, a colon and a port come apart at the last colon.
LEMMA PlainHostPort ==
  ASSUME NEW host \in Tokens, host # <<>>, Lacks(host, "["), Lacks(host, ":"),
         NEW port, PortToken(port), ":" \in Token
  PROVE  Understood(host \o (<<":">> \o <<port>>), host, port)
<1> DEFINE hp == host \o (<<":">> \o <<port>>)
           k  == Len(host) + 1
<1>1. Len(host) \in Nat \ {0}
  BY EmptySeq, LenProperties DEF Tokens
<1>2. host[1] # "["
  BY <1>1 DEF Lacks
<1>3. /\ hp \in Tokens /\ Len(hp) = Len(host) + 2
      /\ \A i \in 1 .. Len(host) : hp[i] = host[i]
      /\ hp[Len(host) + 1] = ":" /\ hp[Len(host) + 2] = port
      /\ UpTo(hp, Len(host)) = host /\ From(hp, Len(host) + 2) = <<port>>
  BY WithPort DEF PortToken
<1> HIDE DEF hp
<1>4. hp # <<>> /\ hp[1] # "["
  BY <1>1, <1>2, <1>3
<1>5. ~Bracketed(hp)
  BY <1>3, <1>4 DEF Bracketed, Tokens
<1>6. LastOf(hp, ":") = k
  <2>1. k \in 1 .. Len(hp) /\ Len(hp) \in Nat
    BY <1>1, <1>3
  <2>2. \A i \in k + 1 .. Len(hp) : hp[i] # ":"
    <3> TAKE i \in k + 1 .. Len(hp)
    <3>1. i = Len(host) + 2
      BY <1>1, <1>3
    <3> QED
      BY <1>3, <3>1 DEF PortToken
  <2> QED
    BY <1>3, <2>1, <2>2, LastOfIs
<1>7. Colon(hp) = k /\ k # 0 /\ k - 1 = Len(host) /\ k + 1 = Len(host) + 2
  BY <1>1, <1>5, <1>6 DEF Colon
<1> HIDE DEF k
<1>8. Host(hp) = host
  BY <1>3, <1>5, <1>7 DEF Host
<1>9. PortText(hp) = <<port>>
  BY <1>3, <1>7 DEF PortText
<1> QED
  BY <1>5, <1>7, <1>8, <1>9 DEF Understood, Unclosed, PortToken, hp

\* A host between brackets, and what comes before the rest of the authority.
LEMMA BracketedHost ==
  ASSUME NEW host \in Tokens, Lacks(host, "]"), NEW rest \in Tokens, {"[", "]"} \subseteq Token
  PROVE  LET b  == (<<"[">> \o host) \o <<"]">>
             hp == b \o rest
         IN  /\ b \in Tokens /\ Len(b) = Len(host) + 2
             /\ Bracketed(hp) /\ ~Unclosed(hp) /\ FirstOf(hp, "]") = Len(host) + 2
             /\ Host(hp) = host
<1> DEFINE a  == <<"[">> \o host
           b  == a \o <<"]">>
           hp == b \o rest
<1>1. Len(host) \in Nat /\ Len(rest) \in Nat
  BY LenProperties DEF Tokens
<1>2. /\ a \in Tokens /\ Len(a) = Len(host) + 1 /\ a[1] = "["
      /\ \A i \in 1 .. Len(host) : a[1 + i] = host[i]
  BY Led
<1> HIDE DEF a
<1>3. /\ b \in Tokens /\ Len(b) = Len(host) + 2 /\ \A i \in 1 .. Len(host) + 1 : b[i] = a[i]
      /\ b[Len(host) + 2] = "]"
  <2> DEFINE o == <<"]">>
  <2>1. o \in Tokens /\ Len(o) = 1 /\ o[1] = "]"
    BY Single
  <2> HIDE DEF o
  <2>2. /\ a \o o \in Tokens /\ Len(a \o o) = Len(a) + Len(o)
        /\ \A i \in 1 .. Len(a) : (a \o o)[i] = a[i]
        /\ \A i \in 1 .. Len(o) : (a \o o)[Len(a) + i] = o[i]
    BY <1>2, <2>1, Parts
  <2>3. b = a \o o
    BY DEF o
  <2> HIDE DEF b
  <2>4. b[Len(a) + 1] = "]"
    BY <2>1, <2>2, <2>3
  <2> QED
    BY <1>1, <1>2, <2>1, <2>2, <2>3, <2>4
<1> HIDE DEF b
<1>4. /\ hp \in Tokens /\ Len(hp) = Len(b) + Len(rest)
      /\ \A i \in 1 .. Len(b) : hp[i] = b[i]
  BY <1>3, Parts
<1> HIDE DEF hp
<1>5. Len(hp) \in Nat /\ Len(hp) >= Len(host) + 2
  BY <1>1, <1>3, <1>4
<1>6. /\ hp[1] = "[" /\ hp[Len(host) + 2] = "]"
      /\ \A i \in 1 .. Len(host) : hp[1 + i] = host[i]
  BY <1>1, <1>2, <1>3, <1>4
<1>7. FirstOf(hp, "]") = Len(host) + 2
  <2>1. \A i \in 1 .. (Len(host) + 2) - 1 : hp[i] # "]"
    <3> TAKE i \in 1 .. (Len(host) + 2) - 1
    <3>1. CASE i = 1
      BY <1>6, <3>1
    <3>2. CASE i # 1
      <4>1. i - 1 \in 1 .. Len(host) /\ 1 + (i - 1) = i
        BY <1>1, <3>2
      <4> QED
        BY <1>6, <4>1 DEF Lacks
    <3> QED
      BY <3>1, <3>2
  <2>2. Len(host) + 2 \in 1 .. Len(hp)
    BY <1>1, <1>5
  <2> QED
    BY <1>5, <1>6, <2>1, <2>2, FirstOfIs
<1>8. Bracketed(hp)
  <2>1. hp # <<>>
    BY <1>1, <1>5
  <2>2. hp \in Seq(Token)
    BY <1>4 DEF Tokens
  <2>3. Head(hp) = hp[1]
    BY <2>1, <2>2
  <2> QED
    BY <1>6, <2>1, <2>3 DEF Bracketed
<1>9. SubSeq(hp, 2, Len(host) + 1) = host
  <2> DEFINE t == SubSeq(hp, 2, Len(host) + 1)
  <2>1. \A i \in 2 .. Len(host) + 1 : hp[i] \in Token
    BY <1>1, <1>4, <1>5, ElementOfSeq DEF Tokens
  <2>2. /\ t \in Seq(Token)
        /\ Len(t) = IF 2 <= Len(host) + 1 THEN (Len(host) + 1) - 2 + 1 ELSE 0
        /\ \A i \in 1 .. (Len(host) + 1) - 2 + 1 : t[i] = hp[2 + i - 1]
    BY <1>1, <2>1, SubSeqProperties
  <2> HIDE DEF t
  <2>3. Len(t) = Len(host)
    BY <1>1, <2>2
  <2>4. \A i \in 1 .. Len(t) : t[i] = host[i]
    <3> TAKE i \in 1 .. Len(t)
    <3>1. i \in 1 .. (Len(host) + 1) - 2 + 1 /\ 2 + i - 1 = 1 + i /\ i \in 1 .. Len(host)
      BY <1>1, <2>3
    <3> QED
      BY <1>6, <2>2, <3>1
  <2> QED
    BY <2>2, <2>3, <2>4, SeqEqual DEF t, Tokens
<1>10. Host(hp) = host
  BY <1>1, <1>7, <1>8, <1>9 DEF Host
<1>11. ~Unclosed(hp)
  BY <1>1, <1>7 DEF Unclosed
<1> QED
  BY <1>3, <1>7, <1>8, <1>10, <1>11 DEF a, b, hp

\* Of an IPv6 literal in brackets, no colon separates a port.
LEMMA LiteralHost ==
  ASSUME NEW host \in Tokens, Lacks(host, "]"), {"[", "]"} \subseteq Token
  PROVE  LET b == (<<"[">> \o host) \o <<"]">>
         IN  b \in Tokens /\ Len(b) = Len(host) + 2 /\ Understood(b, host, "")
<1> DEFINE b == (<<"[">> \o host) \o <<"]">>
<1>1. Len(host) \in Nat
  BY LenProperties DEF Tokens
<1>2. <<>> \in Tokens
  BY EmptySeq DEF Tokens
<1>3. b \in Tokens /\ Len(b) = Len(host) + 2
  BY <1>2, BracketedHost
<1>4. b \o <<>> = b
  <2> HIDE DEF b
  <2> QED
    BY <1>3, ConcatEmptySeq DEF Tokens
<1>5. Bracketed(b) /\ ~Unclosed(b) /\ FirstOf(b, "]") = Len(host) + 2 /\ Host(b) = host
  BY <1>2, <1>4, BracketedHost
<1> HIDE DEF b
<1>6. ~(FirstOf(b, "]") + 1 <= Len(b))
  BY <1>1, <1>3, <1>5
<1>7. Colon(b) = 0
  BY <1>5, <1>6 DEF Colon
<1> QED
  BY <1>3, <1>5, <1>7 DEF Understood, b

\* A port behind a literal is found behind its bracket.
LEMMA LiteralHostPort ==
  ASSUME NEW host \in Tokens, Lacks(host, "]"), NEW port, PortToken(port),
         {"[", "]", ":"} \subseteq Token
  PROVE  Understood(((<<"[">> \o host) \o <<"]">>) \o (<<":">> \o <<port>>), host, port)
<1> DEFINE b  == (<<"[">> \o host) \o <<"]">>
           tail == <<":">> \o <<port>>
           hp == b \o tail
           k  == Len(host) + 3
<1>1. Len(host) \in Nat
  BY LenProperties DEF Tokens
<1>2. b \in Tokens /\ Len(b) = Len(host) + 2
  BY LiteralHost
<1>3. tail \in Tokens
  BY <1>2, WithPort DEF PortToken
<1>4. Bracketed(hp) /\ ~Unclosed(hp) /\ FirstOf(hp, "]") = Len(host) + 2 /\ Host(hp) = host
  <2> HIDE DEF tail
  <2> QED
    BY <1>3, BracketedHost
<1> HIDE DEF b
<1>5. Len(hp) = Len(b) + 2 /\ hp[Len(b) + 1] = ":" /\ From(hp, Len(b) + 2) = <<port>>
  BY <1>2, WithPort DEF PortToken
<1> HIDE DEF tail, hp
<1>6. FirstOf(hp, "]") + 1 = k /\ k <= Len(hp) /\ k # 0 /\ Len(b) + 1 = k /\ k + 1 = Len(b) + 2
  BY <1>1, <1>2, <1>4, <1>5
<1> HIDE DEF k
<1>7. Colon(hp) = k
  BY <1>4, <1>5, <1>6 DEF Colon
<1>8. PortText(hp) = <<port>>
  BY <1>5, <1>6, <1>7 DEF PortText
<1> QED
  BY <1>4, <1>6, <1>7, <1>8 DEF Understood, PortToken, hp, tail, b

\* The four forms together: the host is what was written, and so is the port.
LEMMA HostUnderstood ==
  ASSUME NEW host \in Tokens, host # <<>>, Lacks(host, "["), Lacks(host, "]"),
         {"[", "]", ":"} \subseteq Token
  PROVE  /\ HostText(host) \in Tokens
         /\ Understood(HostText(host), host, "")
         /\ \A port : PortToken(port) =>
              Understood(HostText(host) \o (<<":">> \o <<port>>), host, port)
<1>1. Len(host) \in Nat
  BY LenProperties DEF Tokens
<1>2. CASE FirstOf(host, ":") # 0
  <2> DEFINE b == (<<"[">> \o host) \o <<"]">>
  <2>1. HostText(host) = b
    BY <1>2 DEF HostText
  <2>2. b \in Tokens /\ Understood(b, host, "")
    BY LiteralHost
  <2>3. \A port : PortToken(port) => Understood(b \o (<<":">> \o <<port>>), host, port)
    BY LiteralHostPort
  <2> HIDE DEF b
  <2> QED
    BY <2>1, <2>2, <2>3
<1>3. CASE FirstOf(host, ":") = 0
  <2>1. \A i \in 1 .. Len(host) : host[i] # ":"
    BY <1>1, <1>3, FirstOfFound
  <2>2. Lacks(host, ":")
    BY <2>1 DEF Lacks
  <2>3. HostText(host) = host
    BY <1>3 DEF HostText
  <2>4. \A port : PortToken(port) => Understood(host \o (<<":">> \o <<port>>), host, port)
    BY <2>2, PlainHostPort
  <2> QED
    BY <2>2, <2>3, <2>4, PlainHost
<1> QED
  BY <1>2, <1>3

\* The marks are in none of the parts that they delimit.
LEMMA UrlParts ==
  ASSUME NEW d \in Url
  PROVE  /\ d.host \in Tokens /\ d.host # <<>> /\ d.path \in Tokens
         /\ Lacks(d.host, "[") /\ Lacks(d.host, "]") /\ Lacks(d.host, "/")
         /\ d.port # "" => PortToken(d.port) /\ d.port # "/"
         /\ {"[", "]", "/", ":", "ws://", "wss://"} \subseteq Token
         /\ d.path # <<>> => Head(d.path) = "/"
         /\ d.port # "" => Numeric(<<d.port>>) /\ Uint16(Stoi(<<d.port>>)) = Numeral[d.port]
<1>1. /\ d.host \in Seq(Token \ {"/", "[", "]"}) /\ d.host # <<>>
      /\ d.port # "" => d.port \in DOMAIN Numeral /\ Numeral[d.port] \in 0 .. Uint16Values - 1
      /\ d.path \in Seq(Token) /\ (d.path # <<>> => Head(d.path) = "/")
  BY UrlAssumption
<1>2. d.host \in Seq(Token)
  <2>1. Token \ {"/", "[", "]"} \subseteq Token
    OBVIOUS
  <2> QED
    BY <1>1, <2>1, SeqMonotonic
<1>3. \A i \in 1 .. Len(d.host) : d.host[i] \in Token \ {"/", "[", "]"}
  BY <1>1, ElementOfSeq
<1>4. Lacks(d.host, "[") /\ Lacks(d.host, "]") /\ Lacks(d.host, "/")
  BY <1>3 DEF Lacks
<1>5. d.port # "" => PortToken(d.port) /\ d.port # "/"
  BY <1>1, NumeralAssumption DEF Mark, PortToken
<1>6. {"[", "]", "/", ":", "ws://", "wss://"} \subseteq Token
  BY TokenAssumption DEF Mark
<1>7. ASSUME d.port # ""
      PROVE  Numeric(<<d.port>>) /\ Uint16(Stoi(<<d.port>>)) = Numeral[d.port]
  <2>1. d.port \in DOMAIN Numeral /\ Numeral[d.port] \in 0 .. Uint16Values - 1
    BY <1>1, <1>7
  <2>2. Head(<<d.port>>) = d.port /\ <<d.port>> # <<>>
    OBVIOUS
  <2>3. Numeric(<<d.port>>) /\ Stoi(<<d.port>>) = Numeral[d.port]
    BY <2>1, <2>2, NumeralFirst
  <2>4. \A n \in 0 .. Uint16Values - 1 : n % Uint16Values = n
    <3>1. Uint16Values \in Nat \ {0}
      BY DEF Uint16Values
    <3> QED
      BY <3>1
  <2>5. Numeral[d.port] % Uint16Values = Numeral[d.port]
    BY <2>1, <2>4
  <2> QED
    BY <2>3, <2>5 DEF Uint16
<1> QED
  BY <1>1, <1>2, <1>4, <1>5, <1>6, <1>7 DEF Tokens

\* Two texts without a mark make one without it.
LEMMA NoMark ==
  ASSUME NEW p \in Tokens, NEW q \in Tokens, NEW t, Lacks(p, t), Lacks(q, t)
  PROVE  Lacks(p \o q, t)
<1>1. Len(p) \in Nat /\ Len(q) \in Nat
  BY LenProperties DEF Tokens
<1>2. /\ Len(p \o q) = Len(p) + Len(q)
      /\ \A i \in 1 .. Len(p) : (p \o q)[i] = p[i]
      /\ \A i \in 1 .. Len(q) : (p \o q)[Len(p) + i] = q[i]
  BY Parts
<1> SUFFICES ASSUME NEW i \in 1 .. Len(p) + Len(q) PROVE (p \o q)[i] # t
  BY <1>2 DEF Lacks
<1>3. CASE i <= Len(p)
  BY <1>1, <1>2, <1>3 DEF Lacks
<1>4. CASE i > Len(p)
  <2>1. i - Len(p) \in 1 .. Len(q) /\ Len(p) + (i - Len(p)) = i
    BY <1>1, <1>4
  <2> QED
    BY <1>2, <2>1 DEF Lacks
<1> QED
  BY <1>1, <1>3, <1>4

\* Nor is it in a single other token.
LEMMA NoMarkInOne ==
  ASSUME NEW e \in Token, NEW t, e # t
  PROVE  <<e>> \in Tokens /\ Lacks(<<e>>, t)
<1>1. <<e>> \in Tokens /\ Len(<<e>>) = 1 /\ <<e>>[1] = e
  BY Single
<1> QED
  BY <1>1 DEF Lacks

PortOf(port) == IF port = "" THEN <<>> ELSE <<":", port>>

\* What stands between scheme and path of the text of a URL has no slash, and host
\* and port are found in it.
LEMMA AuthorityUnderstood ==
  ASSUME NEW d \in Url
  PROVE  LET hp == HostText(d.host) \o PortOf(d.port)
         IN  /\ HostText(d.host) \in Tokens /\ PortOf(d.port) \in Tokens /\ hp \in Tokens
             /\ Lacks(hp, "/") /\ Understood(hp, d.host, d.port)
<1> DEFINE h == HostText(d.host)
           p == PortOf(d.port)
<1>1. /\ h \in Tokens /\ Understood(h, d.host, "")
      /\ d.port # "" => Understood(h \o (<<":">> \o <<d.port>>), d.host, d.port)
  BY UrlParts, HostUnderstood
<1>2. Lacks(h, "/")
  <2>1. CASE FirstOf(d.host, ":") # 0
    <3>1. h = (<<"[">> \o d.host) \o <<"]">>
      BY <2>1 DEF HostText
    <3>2. <<"[">> \in Tokens /\ Lacks(<<"[">>, "/") /\ <<"]">> \in Tokens /\ Lacks(<<"]">>, "/")
      BY UrlParts, NoMarkInOne
    <3>3. <<"[">> \o d.host \in Tokens /\ Lacks(<<"[">> \o d.host, "/")
      BY <3>2, UrlParts, NoMark, Parts
    <3>4. Lacks((<<"[">> \o d.host) \o <<"]">>, "/")
      BY <3>2, <3>3, NoMark
    <3> QED
      BY <3>1, <3>4
  <2>2. CASE FirstOf(d.host, ":") = 0
    BY <2>2, UrlParts DEF HostText
  <2> QED
    BY <2>1, <2>2
<1> HIDE DEF h
<1>3. CASE d.port = ""
  <2>1. p = <<>> /\ p \in Tokens
    BY <1>3, EmptySeq DEF PortOf, Tokens
  <2>2. h \o p = h
    BY <1>1, <2>1, ConcatEmptySeq DEF Tokens
  <2> QED
    BY <1>1, <1>2, <1>3, <2>1, <2>2 DEF h
<1>4. CASE d.port # ""
  <2>1. <<":", d.port>> = <<":">> \o <<d.port>>
    OBVIOUS
  <2>2. p = <<":">> \o <<d.port>>
    BY <1>4, <2>1 DEF PortOf
  <2> HIDE DEF p
  <2>3. /\ <<":">> \in Tokens /\ Lacks(<<":">>, "/")
        /\ <<d.port>> \in Tokens /\ Lacks(<<d.port>>, "/")
    BY <1>4, UrlParts, NoMarkInOne DEF PortToken
  <2>4. <<":">> \o <<d.port>> \in Tokens /\ Lacks(<<":">> \o <<d.port>>, "/")
    BY <2>3, NoMark, Parts
  <2>5. p \in Tokens /\ Lacks(p, "/")
    BY <2>2, <2>4
  <2>6. h \o p \in Tokens /\ Lacks(h \o p, "/")
    BY <1>1, <1>2, <2>5, NoMark, Parts
  <2>7. Understood(h \o p, d.host, d.port)
    BY <1>1, <1>4, <2>2
  <2> QED
    BY <1>1, <2>5, <2>6, <2>7 DEF h, p
<1> QED
  BY <1>3, <1>4

\* A URL as it is written, and as it is parsed: the authority is one text.
Spelled(o, h, p, q) == ((o \o h) \o p) \o q
Grouped(o, h, p, q)  == o \o ((h \o p) \o q)

\* UrlText puts its parts together from the left, the parser takes them from the right.
LEMMA Regrouped ==
  ASSUME NEW o \in Tokens, NEW h \in Tokens, NEW p \in Tokens, NEW q \in Tokens
  PROVE  Spelled(o, h, p, q) = Grouped(o, h, p, q)
<1>1. (o \o h) \o p = o \o (h \o p)
  BY ConcatAssociative DEF Tokens
<1> DEFINE hp == h \o p
<1>2. hp \in Tokens
  BY Parts
<1> HIDE DEF hp
<1>3. o \in Seq(Token) /\ hp \in Seq(Token) /\ q \in Seq(Token)
  BY <1>2 DEF Tokens
<1>4. (o \o hp) \o q = o \o (hp \o q)
  BY <1>3, ConcatAssociative
<1> QED
  BY <1>1, <1>4 DEF hp, Spelled, Grouped

\* What the user writes means to the relay client what the user means by it.
LEMMA UrlParsed ==
  ASSUME NEW d \in Url
  PROVE  LET u == UrlText(d)
         IN  ~UrlRefused(u) /\ ~UrlThrows(u) /\ ParsedUrl(u) = UrlMeaning(d)
<1> DEFINE e  == IF d.use_tls THEN "wss://" ELSE "ws://"
           h  == HostText(d.host)
           p  == PortOf(d.port)
           hp == h \o p
           u  == <<e>> \o (hp \o d.path)
<1>1. /\ h \in Tokens /\ p \in Tokens /\ hp \in Tokens
      /\ Lacks(hp, "/") /\ Understood(hp, d.host, d.port)
  BY AuthorityUnderstood
<1>2. UrlText(d) = ((<<e>> \o h) \o p) \o d.path
  BY DEF UrlText, HostText, PortOf
<1>3. /\ e \in Token /\ e \in {"ws://", "wss://"} /\ (e = "wss://" <=> d.use_tls)
      /\ d.use_tls \in BOOLEAN
  BY UrlParts, UrlAssumption
<1>4. d.path \in Tokens /\ (d.path # <<>> => Head(d.path) = "/") /\ d.host # <<>>
  BY UrlParts
<1> HIDE DEF h, p
<1>5. UrlText(d) = u
  <2> DEFINE o == <<e>>
             q == d.path
  <2>1. o \in Tokens /\ h \in Tokens /\ p \in Tokens /\ q \in Tokens
    BY <1>1, <1>3, <1>4, Single
  <2>2. UrlText(d) = Spelled(o, h, p, q)
    BY <1>2 DEF Spelled
  <2>3. u = Grouped(o, h, p, q)
    BY DEF Grouped
  <2> HIDE DEF o, q, u, e, hp
  <2>4. Spelled(o, h, p, q) = Grouped(o, h, p, q)
    BY <2>1, Regrouped
  <2> QED
    BY <2>2, <2>3, <2>4
<1> HIDE DEF hp, e
<1>6. HostPort(u) = hp /\ Path(u) = IF d.path = <<>> THEN <<"/">> ELSE d.path
  BY <1>1, <1>3, <1>4, AuthorityFound
<1>7. hp \o d.path \in Tokens
  BY <1>1, <1>4, Parts
<1>8. u # <<>> /\ Head(u) = e
  BY <1>3, <1>7, Led
<1> HIDE DEF u
<1>9. HasScheme(u)
  BY <1>3, <1>8 DEF HasScheme
<1>10. /\ ~Unclosed(hp) /\ Host(hp) = d.host
       /\ (Colon(hp) = 0) <=> (d.port = "")
       /\ d.port # "" => PortText(hp) = <<d.port>>
  BY <1>1 DEF Understood
<1>11. d.port # "" => Numeric(<<d.port>>) /\ Uint16(Stoi(<<d.port>>)) = Numeral[d.port]
  BY UrlParts
<1>12. ~UrlThrows(u)
  BY <1>6, <1>10, <1>11 DEF UrlThrows
<1>13. ~UrlRefused(u)
  BY <1>4, <1>6, <1>9, <1>10 DEF UrlRefused
<1>14. (Head(u) = "wss://") = d.use_tls
  BY <1>3, <1>8
<1> DEFINE read  == IF Colon(hp) # 0 THEN Uint16(Stoi(PortText(hp)))
                    ELSE IF Head(u) = "wss://" THEN 443 ELSE 80
           meant == IF d.port # "" THEN Numeral[d.port] ELSE IF d.use_tls THEN 443 ELSE 80
<1>15. read = meant
  BY <1>10, <1>11, <1>14
<1>16. ParsedUrl(u) = [use_tls |-> Head(u) = "wss://", host |-> Host(hp), path |-> Path(u),
                       port |-> read]
  BY <1>6 DEF ParsedUrl
<1>17. UrlMeaning(d) = [use_tls |-> d.use_tls, host |-> d.host,
                        path |-> IF d.path = <<>> THEN <<"/">> ELSE d.path, port |-> meant]
  BY DEF UrlMeaning
<1> HIDE DEF read, meant
<1>18. ParsedUrl(u) = UrlMeaning(d)
  BY <1>6, <1>10, <1>14, <1>15, <1>16, <1>17
<1> QED
  BY <1>5, <1>12, <1>13, <1>18
-----------------------------------------------------------------------------
(***************************************************************************)
(* What init() has made of the URL is not touched before the hook starts.  *)
(***************************************************************************)
UrlInv ==
  pc = "start" /\ WantsRelay =>
    \/ UrlRefused(cfg.relay_url)
    \/ relay = "running" /\ target = ParsedUrl(cfg.relay_url)

\* Only init() of the relay sets what UrlInv speaks of.
LEMMA UrlStep == UrlInv /\ [Next]_vars => UrlInv'
<1> SUFFICES ASSUME UrlInv, [Next]_vars PROVE UrlInv'
  OBVIOUS
<1> USE DEF UrlInv
<1>1. CASE InitRelay
  BY <1>1 DEF InitRelay, WantsRelay
<1>2. CASE NoRelay
  BY <1>2 DEF NoRelay, WantsRelay, input
<1>3. CASE UNCHANGED <<pc, cfg, target, relay>>
  BY <1>3 DEF WantsRelay
<1>4. CASE pc' # "start"
  BY <1>4
<1> USE DEF Goto, HookGoto, HookRest, input, network, thread, control
<1>5. ASSUME StartUp, ~InitRelay, ~NoRelay
      PROVE  pc' # "start" \/ UNCHANGED <<pc, cfg, target, relay>>
  BY <1>5 DEF StartUp, Load, LoadAborts, InitNetwork, InitNetworkFails, InitRelayAborts,
              StartHook, InstallHandler
<1>6. ASSUME CleanUp PROVE pc' # "start"
  BY <1>6 DEF CleanUp, Stopped, PostQuit, JoinHook, ShutRelay, ShutNetwork, DestroyHook
<1>7. ASSUME HookThread \/ Callback PROVE UNCHANGED <<pc, cfg, target, relay>>
  BY <1>7 DEF HookThread, Callback, SetThreadId, Install, InstallFails, SendUdp, SendRelay,
              TakeQuit, Unhook
<1>8. ASSUME CtrlC \/ Close PROVE UNCHANGED <<pc, cfg, target, relay>>
  BY <1>8 DEF CtrlC, Close
<1>9. ASSUME Killed PROVE pc' # "start"
  BY <1>9 DEF Killed
<1>10. ASSUME UNCHANGED vars PROVE UNCHANGED <<pc, cfg, target, relay>>
  BY <1>10 DEF vars
<1> QED
  BY <1>1, <1>2, <1>3, <1>4, <1>5, <1>6, <1>7, <1>8, <1>9, <1>10 DEF Next, Terminated

(***************************************************************************)
(* For every set of hosts, ports and paths, of any length: when the hook   *)
(* starts, the relay client has what the user meant by the URL.            *)
(***************************************************************************)
THEOREM UrlsUnderstood == Spec => []UrlUnderstood
<1>1. UrlInv => UrlUnderstood
  <2> SUFFICES ASSUME UrlInv, pc = "start", WantsRelay, NEW d \in Url, cfg.relay_url = UrlText(d)
               PROVE  relay = "running" /\ target = UrlMeaning(d)
    BY DEF UrlUnderstood
  <2>1. ~UrlRefused(cfg.relay_url) /\ ParsedUrl(cfg.relay_url) = UrlMeaning(d)
    BY UrlParsed
  <2> QED
    BY <2>1 DEF UrlInv
<1>2. Init => UrlInv
  BY DEF Init, UrlInv
<1> QED
  BY <1>1, <1>2, UrlStep, PTL DEF Spec
-----------------------------------------------------------------------------
(***************************************************************************)
(* Segments of a text, and what Trim() leaves of one without two blanks    *)
(* side by side.                                                           *)
(***************************************************************************)
Part(s, a, b) == SubSeq(s, a + 1, b)

\* A part of a text: its length and its tokens.
LEMMA Segment ==
  ASSUME NEW s \in Tokens, NEW a \in Nat, NEW b \in Nat, a <= b, b <= Len(s)
  PROVE  /\ Part(s, a, b) \in Tokens /\ Len(Part(s, a, b)) = b - a
         /\ \A i \in 1 .. b - a : Part(s, a, b)[i] = s[a + i]
<1> DEFINE t == SubSeq(s, a + 1, b)
<1>1. Len(s) \in Nat
  BY LenProperties DEF Tokens
<1>2. \A i \in a + 1 .. b : s[i] \in Token
  BY <1>1, ElementOfSeq DEF Tokens
<1>3. /\ t \in Seq(Token)
      /\ Len(t) = IF a + 1 <= b THEN b - (a + 1) + 1 ELSE 0
      /\ \A i \in 1 .. b - (a + 1) + 1 : t[i] = s[a + 1 + i - 1]
  BY <1>2, SubSeqProperties
<1> HIDE DEF t
<1>4. Len(t) = b - a
  BY <1>3
<1>5. \A i \in 1 .. b - a : t[i] = s[a + i]
  <2> TAKE i \in 1 .. b - a
  <2>1. i \in 1 .. b - (a + 1) + 1 /\ a + 1 + i - 1 = a + i
    OBVIOUS
  <2> QED
    BY <1>3, <2>1
<1> QED
  BY <1>3, <1>4, <1>5 DEF t, Tokens, Part

\* Two texts with the same tokens are the same.
LEMMA SameText ==
  ASSUME NEW s \in Tokens, NEW t \in Tokens, Len(s) = Len(t),
         \A i \in 1 .. Len(s) : s[i] = t[i]
  PROVE  s = t
BY SeqEqual DEF Tokens

\* A part of a part is a part.
LEMMA Nested ==
  ASSUME NEW s \in Tokens, NEW a \in Nat, NEW b \in Nat, a <= b, b <= Len(s),
         NEW c \in Nat, NEW d \in Nat, c <= d, d <= b - a
  PROVE  Part(Part(s, a, b), c, d) = Part(s, a + c, a + d)
<1> DEFINE t == Part(s, a, b)
           u == Part(t, c, d)
           v == Part(s, a + c, a + d)
<1>1. Len(s) \in Nat
  BY LenProperties DEF Tokens
<1>2. t \in Tokens /\ Len(t) = b - a /\ \A i \in 1 .. b - a : t[i] = s[a + i]
  BY Segment
<1> HIDE DEF t
<1>3. u \in Tokens /\ Len(u) = d - c /\ \A i \in 1 .. d - c : u[i] = t[c + i]
  BY <1>2, Segment
<1>4. a + c \in Nat /\ a + d \in Nat /\ a + c <= a + d /\ a + d <= Len(s)
  BY <1>1
<1>5. /\ v \in Tokens /\ Len(v) = (a + d) - (a + c)
      /\ \A i \in 1 .. (a + d) - (a + c) : v[i] = s[(a + c) + i]
  BY <1>4, Segment
<1> HIDE DEF u, v
<1>6. Len(u) = Len(v)
  BY <1>3, <1>5
<1>7. \A i \in 1 .. Len(u) : u[i] = v[i]
  <2> TAKE i \in 1 .. Len(u)
  <2>1. /\ i \in 1 .. d - c /\ c + i \in 1 .. b - a /\ i \in 1 .. (a + d) - (a + c)
        /\ a + (c + i) = (a + c) + i
    BY <1>3
  <2> QED
    BY <1>2, <1>3, <1>5, <2>1
<1> QED
  BY <1>3, <1>5, <1>6, <1>7, SameText DEF t, u, v

\* A text begins with its first b tokens: its first a, and those up to b.
LEMMA Extended ==
  ASSUME NEW s \in Tokens, NEW a \in Nat, NEW b \in Nat, a <= b, b <= Len(s)
  PROVE  Part(s, 0, a) \o Part(s, a, b) = Part(s, 0, b)
<1>1. /\ s \in Seq(Token) /\ Len(s) \in Nat
      /\ 1 \in 1 .. Len(s) + 1 /\ a \in 1 - 1 .. Len(s) /\ b \in a .. Len(s)
  BY LenProperties DEF Tokens
<1>2. SubSeq(s, 1, a) \o SubSeq(s, a + 1, b) = SubSeq(s, 1, b)
  BY <1>1, ConcatAdjacentSubSeq
<1>3. 0 + 1 = 1
  OBVIOUS
<1> QED
  BY <1>2, <1>3 DEF Part

\* The part from the start to the end is the text.
LEMMA Whole ==
  ASSUME NEW s \in Tokens
  PROVE  Part(s, 0, Len(s)) = s
<1>1. 0 + 1 = 1
  OBVIOUS
<1> QED
  BY <1>1, SubSeqFull DEF Part, Tokens

\* Segments of no token and of one.
LEMMA ShortPart ==
  ASSUME NEW s \in Tokens, NEW a \in Nat, a <= Len(s)
  PROVE  /\ Part(s, a, a) = <<>>
         /\ a < Len(s) => Part(s, a, a + 1) = <<s[a + 1]>> /\ s[a + 1] \in Token
<1>1. Len(s) \in Nat /\ a <= a
  BY LenProperties DEF Tokens
<1>2. Part(s, a, a) = <<>>
  <2>1. Part(s, a, a) \in Tokens /\ Len(Part(s, a, a)) = a - a
    BY <1>1, Segment
  <2>2. Len(Part(s, a, a)) = 0
    BY <2>1
  <2> QED
    BY <2>1, <2>2, EmptySeq DEF Tokens
<1>3. ASSUME a < Len(s) PROVE Part(s, a, a + 1) = <<s[a + 1]>> /\ s[a + 1] \in Token
  <2> DEFINE t == Part(s, a, a + 1)
             o == <<s[a + 1]>>
  <2>1. a + 1 \in Nat /\ a <= a + 1 /\ a + 1 <= Len(s) /\ a + 1 \in 1 .. Len(s)
    BY <1>1, <1>3
  <2>2. /\ t \in Tokens /\ Len(t) = (a + 1) - a
        /\ \A i \in 1 .. (a + 1) - a : t[i] = s[a + i]
    BY <2>1, Segment
  <2>3. s[a + 1] \in Token
    BY <2>1, ElementOfSeq DEF Tokens
  <2>4. o \in Tokens /\ Len(o) = 1 /\ o[1] = s[a + 1]
    BY <2>3, Single
  <2> HIDE DEF t, o
  <2>5. Len(t) = Len(o) /\ \A i \in 1 .. Len(t) : t[i] = o[i]
    BY <2>2, <2>4
  <2>6. t = o
    BY <2>2, <2>4, <2>5, SameText
  <2> QED
    BY <2>3, <2>6 DEF t, o
<1> QED
  BY <1>2, <1>3

\* No two blanks are side by side.
BlankAt(s, i) == s[i] = " "
Spaced(s) == s \in Tokens /\ \A i \in 1 .. Len(s) - 1 : ~BlankAt(s, i) \/ ~BlankAt(s, i + 1)

\* A text has no two blanks side by side.
LEMMA TextSpaced == \A s \in Text : Spaced(s)
BY DEF Text, Spaced, Tokens, BlankAt

\* Nor has a part of it.
LEMMA PartSpaced ==
  ASSUME NEW s, Spaced(s), NEW a \in Nat, NEW b \in Nat, a <= b, b <= Len(s)
  PROVE  Spaced(Part(s, a, b))
<1> DEFINE t == Part(s, a, b)
<1>1. s \in Tokens /\ Len(s) \in Nat
  BY LenProperties DEF Spaced, Tokens
<1>2. t \in Tokens /\ Len(t) = b - a /\ \A i \in 1 .. b - a : t[i] = s[a + i]
  BY <1>1, Segment
<1> HIDE DEF t
<1>3. \A i \in 1 .. Len(t) - 1 : ~BlankAt(t, i) \/ ~BlankAt(t, i + 1)
  <2> TAKE i \in 1 .. Len(t) - 1
  <2>1. /\ i \in 1 .. b - a /\ i + 1 \in 1 .. b - a /\ a + i \in 1 .. Len(s) - 1
        /\ a + (i + 1) = (a + i) + 1
    BY <1>1, <1>2
  <2>2. t[i] = s[a + i] /\ t[i + 1] = s[(a + i) + 1]
    BY <1>2, <2>1
  <2>3. ~BlankAt(s, a + i) \/ ~BlankAt(s, (a + i) + 1)
    BY <2>1 DEF Spaced
  <2> QED
    BY <2>2, <2>3 DEF BlankAt
<1> QED
  BY <1>2, <1>3 DEF Spaced, t

\* l and r blanks around the rest of s.
Inked(s, l, r) ==
  /\ l \in {0, 1} /\ r \in {0, 1} /\ l + r < Len(s)
  /\ ~BlankAt(s, l + 1) /\ ~BlankAt(s, Len(s) - r)
  /\ l = 1 => BlankAt(s, 1)
  /\ r = 1 => BlankAt(s, Len(s))

\* trim() cuts the blanks in front and behind.
LEMMA TrimInked ==
  ASSUME NEW s \in Tokens, NEW l, NEW r, Inked(s, l, r)
  PROVE  /\ Trim(s) = Part(s, l, Len(s) - r)
         /\ l \in Nat /\ Len(s) - r \in Nat /\ l < Len(s) - r /\ Len(s) - r <= Len(s)
<1> DEFINE ink == {i \in DOMAIN s : ~BlankAt(s, i)}
<1>1. Len(s) \in Nat /\ DOMAIN s = 1 .. Len(s)
  BY LenProperties DEF Tokens
<1>2. l \in Nat /\ r \in Nat /\ Len(s) - r \in Nat /\ l < Len(s) - r /\ Len(s) - r <= Len(s)
  BY <1>1 DEF Inked
<1>3. l + 1 \in ink /\ Len(s) - r \in ink /\ ink \subseteq Int
  BY <1>1, <1>2 DEF Inked
<1>4. \A i \in ink : l + 1 <= i
  <2> SUFFICES ASSUME NEW i \in ink, i < l + 1 PROVE FALSE
    BY <1>1, <1>2
  <2>1. l = 1 /\ i = 1
    BY <1>1 DEF Inked
  <2> QED
    BY <2>1 DEF Inked
<1>5. \A i \in ink : i <= Len(s) - r
  <2> SUFFICES ASSUME NEW i \in ink, Len(s) - r < i PROVE FALSE
    BY <1>1, <1>2
  <2>1. r = 1 /\ i = Len(s)
    BY <1>1 DEF Inked
  <2> QED
    BY <2>1 DEF Inked
<1>6. Trim(s) = IF ink = {} THEN <<>> ELSE SubSeq(s, Min(ink), Max(ink))
  BY DEF Trim, BlankAt
<1> HIDE DEF ink
<1>7. Min(ink) = l + 1
  BY <1>3, <1>4, MinIs
<1>8. Max(ink) = Len(s) - r
  BY <1>3, <1>5, MaxIs
<1> QED
  BY <1>2, <1>3, <1>6, <1>7, <1>8 DEF Part

\* A line is blank, or has ink between at most one blank in front and one behind.
LEMMA TrimCases ==
  ASSUME NEW s, Spaced(s)
  PROVE  \/ Trim(s) = <<>> /\ Len(s) \in {0, 1} /\ (Len(s) = 1 => BlankAt(s, 1))
         \/ \E l, r : Inked(s, l, r)
<1>1. s \in Tokens /\ Len(s) \in Nat /\ DOMAIN s = 1 .. Len(s)
  BY LenProperties DEF Spaced, Tokens
<1>2. CASE \A i \in 1 .. Len(s) : BlankAt(s, i)
  <2>1. {i \in DOMAIN s : s[i] # " "} = {}
    BY <1>1, <1>2 DEF BlankAt
  <2>2. Trim(s) = <<>>
    BY <2>1 DEF Trim
  <2>3. ~(Len(s) > 1)
    <3> SUFFICES ASSUME Len(s) > 1 PROVE FALSE
      OBVIOUS
    <3>1. 1 \in 1 .. Len(s) - 1 /\ 1 \in 1 .. Len(s) /\ 2 \in 1 .. Len(s) /\ 1 + 1 = 2
      BY <1>1
    <3>2. BlankAt(s, 1) /\ BlankAt(s, 2)
      BY <1>2, <3>1
    <3> QED
      BY <3>1, <3>2 DEF Spaced
  <2>4. Len(s) \in {0, 1}
    BY <1>1, <2>3
  <2>5. Len(s) = 1 => BlankAt(s, 1)
    BY <1>2
  <2> QED
    BY <2>2, <2>4, <2>5
<1>3. CASE \E i \in 1 .. Len(s) : ~BlankAt(s, i)
  <2>1. PICK i \in 1 .. Len(s) : ~BlankAt(s, i)
    BY <1>3
  <2>2. PICK l \in {0, 1} : ~BlankAt(s, l + 1) /\ (l = 1 => BlankAt(s, 1)) /\ l < i
    <3>1. CASE ~BlankAt(s, 1)
      <4>1. ~BlankAt(s, 0 + 1) /\ 0 < i
        BY <2>1, <3>1
      <4> QED
        BY <4>1
    <3>2. CASE BlankAt(s, 1)
      <4>1. i # 1
        BY <2>1, <3>2
      <4>2. i > 1 /\ 1 \in 1 .. Len(s) - 1
        BY <1>1, <4>1
      <4>3. ~BlankAt(s, 1 + 1)
        BY <3>2, <4>2 DEF Spaced
      <4> QED
        BY <3>2, <4>2, <4>3
    <3> QED
      BY <3>1, <3>2
  <2>3. PICK r \in {0, 1} :
          ~BlankAt(s, Len(s) - r) /\ (r = 1 => BlankAt(s, Len(s))) /\ i <= Len(s) - r
    <3>1. CASE ~BlankAt(s, Len(s))
      <4>1. Len(s) - 0 = Len(s) /\ i <= Len(s)
        BY <1>1
      <4>2. ~BlankAt(s, Len(s) - 0)
        BY <3>1, <4>1
      <4> QED
        BY <4>1, <4>2
    <3>2. CASE BlankAt(s, Len(s))
      <4>1. i # Len(s)
        BY <2>1, <3>2
      <4> DEFINE n == Len(s) - 1
      <4>2. n \in Nat /\ i <= n /\ 1 <= n /\ n + 1 = Len(s)
        <5>1. \A m \in Nat : \A j \in 1 .. m :
                j # m => m - 1 \in Nat /\ j <= m - 1 /\ 1 <= m - 1 /\ (m - 1) + 1 = m
          OBVIOUS
        <5> QED
          BY <1>1, <4>1, <5>1
      <4>3. n \in 1 .. Len(s) - 1
        BY <4>2
      <4>4. ~BlankAt(s, n)
        BY <3>2, <4>2, <4>3 DEF Spaced
      <4> QED
        BY <3>2, <4>2, <4>4
    <3> QED
      BY <3>1, <3>2
  <2>4. l + r < Len(s)
    BY <1>1, <2>2, <2>3
  <2> QED
    BY <2>2, <2>3, <2>4 DEF Inked
<1> QED
  BY <1>2, <1>3
-----------------------------------------------------------------------------
(***************************************************************************)
(* A line that sets a field, by its places: p blanks, a spelling of the    *)
(* name, q blanks, and the equals sign.                                    *)
(***************************************************************************)
EqualsAt(s, i) == s[i] = "="
NameAt(s, i, field) == s[i] \in Spelling(field)

Named(s, p, q, field) ==
  /\ p \in {0, 1} /\ q \in {0, 1} /\ p + q + 2 <= Len(s)
  /\ p = 1 => BlankAt(s, 1)
  /\ NameAt(s, p + 1, field)
  /\ q = 1 => BlankAt(s, p + 2)
  /\ EqualsAt(s, p + q + 2)

\* What a name is not.
LEMMA NamesAreNoMarks ==
  ASSUME NEW field \in DOMAIN Default, NEW s, NEW i, NameAt(s, i, field)
  PROVE  /\ ~BlankAt(s, i) /\ ~EqualsAt(s, i) /\ s[i] \notin {"#", ";", "["}
         /\ Lowered(s[i]) = field /\ Lowered(field) = field
<1>1. DOMAIN Lower \subseteq Token \ (Mark \union DOMAIN Default \union {"true"})
  BY LowerAssumption
<1>2. field \notin Mark /\ field \notin DOMAIN Lower
  BY <1>1 DEF Default, Mark
<1>3. s[i] \notin Mark
  BY <1>1, <1>2 DEF NameAt, Spelling
<1> QED
  BY <1>2, <1>3 DEF BlankAt, EqualsAt, Mark, NameAt, Spelling, Lowered

\* The texts of no blank and of one.
Gap(n) == IF n = 0 THEN <<>> ELSE <<" ">>

\* The texts of at most one blank, by their length.
LEMMA Gaps ==
  /\ Blanks = {Gap(0), Gap(1)}
  /\ \A n \in {0, 1} : Gap(n) \in Tokens /\ Len(Gap(n)) = n /\ (n = 1 => BlankAt(Gap(n), 1))
<1>1. Gap(0) = <<>> /\ Gap(1) = <<" ">>
  BY DEF Gap
<1>2. <<>> \in Tokens /\ Len(<<>>) = 0
  BY EmptySeq DEF Tokens
<1>3. <<" ">> \in Tokens /\ Len(<<" ">>) = 1 /\ BlankAt(<<" ">>, 1)
  BY TokenAssumption, Single DEF Mark, BlankAt
<1>4. \A n \in {0, 1} : n = 0 \/ n = 1
  OBVIOUS
<1> QED
  BY <1>1, <1>2, <1>3, <1>4 DEF Blanks

\* A gap in a text.
LEMMA GapPart ==
  ASSUME NEW s \in Tokens, NEW a \in Nat, NEW n \in {0, 1}, a + n <= Len(s),
         n = 1 => BlankAt(s, a + 1)
  PROVE  Part(s, a, a + n) = Gap(n)
<1>1. Len(s) \in Nat
  BY LenProperties DEF Tokens
<1>2. CASE n = 0
  <2>1. a + n = a /\ a <= Len(s)
    BY <1>1, <1>2
  <2> QED
    BY <1>2, <2>1, ShortPart DEF Gap
<1>3. CASE n = 1
  <2>1. a + n = a + 1 /\ a < Len(s) /\ a <= Len(s)
    BY <1>1, <1>3
  <2>2. Part(s, a, a + 1) = <<s[a + 1]>>
    BY <2>1, ShortPart
  <2>3. BlankAt(s, a + 1) /\ n # 0
    BY <1>3
  <2>4. s[a + 1] = " "
    BY <2>3 DEF BlankAt
  <2>5. Gap(n) = <<" ">>
    BY <2>3 DEF Gap
  <2> QED
    BY <2>1, <2>2, <2>4, <2>5
<1> QED
  BY <1>2, <1>3

\* The beginning of such a line, as it is written.
Beginning(before, name, after) == before \o <<name>> \o after \o <<"=">>

\* A line that names a field begins as SaysSomething describes it.
LEMMA NamedBegins ==
  ASSUME NEW s \in Tokens, NEW p, NEW q, NEW field, Named(s, p, q, field)
  PROVE  /\ p + q + 2 \in Nat
         /\ Part(s, 0, p + q + 2) = Beginning(Gap(p), s[p + 1], Gap(q))
<1>1. /\ Len(s) \in Nat /\ p \in Nat /\ q \in Nat /\ p + q + 2 <= Len(s)
      /\ p \in {0, 1} /\ q \in {0, 1}
  BY LenProperties DEF Tokens, Named
<1>2. Part(s, 0, p) = Gap(p)
  <2>1. 0 + p = p /\ 0 + p <= Len(s) /\ 0 + 1 = 1
    BY <1>1
  <2>2. p = 1 => BlankAt(s, 0 + 1)
    BY <2>1 DEF Named
  <2>3. Part(s, 0, 0 + p) = Gap(p)
    BY <1>1, <2>1, <2>2, GapPart
  <2> QED
    BY <2>1, <2>3
<1>3. Part(s, p, p + 1) = <<s[p + 1]>>
  <2>1. p <= Len(s) /\ p < Len(s)
    BY <1>1
  <2> QED
    BY <1>1, <2>1, ShortPart
<1>4. Part(s, p + 1, (p + 1) + q) = Gap(q)
  <2>1. p + 1 \in Nat /\ (p + 1) + q <= Len(s) /\ (p + 1) + 1 = p + 2
    BY <1>1
  <2>2. q = 1 => BlankAt(s, (p + 1) + 1)
    BY <2>1 DEF Named
  <2> QED
    BY <1>1, <2>1, <2>2, GapPart
<1> DEFINE k == p + 1 + q
<1>5. k \in Nat /\ k < Len(s) /\ k <= Len(s) /\ k + 1 = p + q + 2 /\ k = (p + 1) + q
  BY <1>1
<1> HIDE DEF k
<1>6. Part(s, k, k + 1) = <<"=">>
  <2>1. Part(s, k, k + 1) = <<s[k + 1]>>
    BY <1>5, ShortPart
  <2> QED
    BY <1>5, <2>1 DEF Named, EqualsAt
<1>7. Part(s, 0, p) \o Part(s, p, p + 1) = Part(s, 0, p + 1)
  <2>1. p \in Nat /\ p + 1 \in Nat /\ p <= p + 1 /\ p + 1 <= Len(s)
    BY <1>1
  <2> QED
    BY <2>1, Extended
<1>8. Part(s, 0, p + 1) \o Part(s, p + 1, k) = Part(s, 0, k)
  <2>1. p + 1 \in Nat /\ p + 1 <= k
    BY <1>1, <1>5
  <2> QED
    BY <1>5, <2>1, Extended
<1>9. Part(s, 0, k) \o Part(s, k, k + 1) = Part(s, 0, k + 1)
  <2>1. k + 1 \in Nat /\ k <= k + 1 /\ k + 1 <= Len(s)
    BY <1>1, <1>5
  <2> QED
    BY <1>5, <2>1, Extended
<1>10. p + q + 2 \in Nat
  BY <1>1
<1> QED
  BY <1>2, <1>3, <1>4, <1>5, <1>6, <1>7, <1>8, <1>9, <1>10 DEF Beginning

\* A prefix agrees with its text.
LEMMA PrefixTokens ==
  ASSUME NEW S, NEW t \in Seq(S), NEW s \in Tokens, IsPrefix(t, s)
  PROVE  Len(t) <= Len(s) /\ \A i \in 1 .. Len(t) : t[i] = s[i]
<1>1. Len(t) \in Nat /\ Len(s) \in Nat /\ Len(t) <= Len(s)
  BY LenProperties DEF IsPrefix, Tokens
<1>2. SubSeq(s, 1, Len(t)) = t
  BY SubSeqFull DEF IsPrefix
<1>3. Part(s, 0, Len(t)) = t
  BY <1>2 DEF Part
<1>4. \A i \in 1 .. Len(t) - 0 : Part(s, 0, Len(t))[i] = s[0 + i]
  BY <1>1, Segment
<1> QED
  BY <1>1, <1>3, <1>4

\* The tokens of such a beginning.
LEMMA BeginningTokens ==
  ASSUME NEW p \in {0, 1}, NEW q \in {0, 1}, NEW name \in Token
  PROVE  LET t == Beginning(Gap(p), name, Gap(q))
         IN  /\ t \in Tokens /\ Len(t) = p + q + 2
             /\ p = 1 => BlankAt(t, 1)
             /\ t[p + 1] = name
             /\ q = 1 => BlankAt(t, p + 2)
             /\ EqualsAt(t, p + q + 2)
<1> DEFINE before == Gap(p)
           after  == Gap(q)
           n == <<name>>
           e == <<"=">>
           bn == before \o n
           bna == bn \o after
           t == bna \o e
<1>1. /\ before \in Tokens /\ Len(before) = p /\ (p = 1 => BlankAt(before, 1))
      /\ after \in Tokens /\ Len(after) = q /\ (q = 1 => BlankAt(after, 1))
  BY Gaps
<1>2. n \in Tokens /\ Len(n) = 1 /\ n[1] = name
  BY Single
<1>3. e \in Tokens /\ Len(e) = 1 /\ EqualsAt(e, 1)
  BY TokenAssumption, Single DEF Mark, EqualsAt
<1>4. t = Beginning(before, name, after)
  BY DEF Beginning
<1> HIDE DEF before, after, n, e
<1>5. /\ bn \in Tokens /\ Len(bn) = Len(before) + Len(n)
      /\ \A i \in 1 .. Len(before) : bn[i] = before[i]
      /\ \A i \in 1 .. Len(n) : bn[Len(before) + i] = n[i]
  BY <1>1, <1>2, Parts
<1>6. Len(bn) = p + 1 /\ bn[p + 1] = name
  BY <1>1, <1>2, <1>5
<1>7. ASSUME p = 1 PROVE BlankAt(bn, 1)
  <2>1. 1 \in 1 .. Len(before) /\ BlankAt(before, 1)
    BY <1>1, <1>7
  <2> QED
    BY <1>5, <2>1 DEF BlankAt
<1> HIDE DEF bn
<1>8. /\ bna \in Tokens /\ Len(bna) = Len(bn) + Len(after)
      /\ \A i \in 1 .. Len(bn) : bna[i] = bn[i]
      /\ \A i \in 1 .. Len(after) : bna[Len(bn) + i] = after[i]
  BY <1>1, <1>5, Parts
<1>9. Len(bna) = p + q + 1 /\ bna[p + 1] = name
  BY <1>1, <1>6, <1>8
<1>10. ASSUME p = 1 PROVE BlankAt(bna, 1)
  <2>1. 1 \in 1 .. Len(bn) /\ BlankAt(bn, 1)
    BY <1>6, <1>7, <1>10
  <2> QED
    BY <1>8, <2>1 DEF BlankAt
<1>11. ASSUME q = 1 PROVE BlankAt(bna, p + 2)
  <2>1. 1 \in 1 .. Len(after) /\ Len(bn) + 1 = p + 2 /\ BlankAt(after, 1)
    BY <1>1, <1>6, <1>11
  <2> QED
    BY <1>8, <2>1 DEF BlankAt
<1> HIDE DEF bna
<1>12. /\ t \in Tokens /\ Len(t) = Len(bna) + Len(e)
       /\ \A i \in 1 .. Len(bna) : t[i] = bna[i]
       /\ \A i \in 1 .. Len(e) : t[Len(bna) + i] = e[i]
  BY <1>3, <1>8, Parts
<1>13. /\ Len(t) = p + q + 2 /\ t[p + 1] = name /\ t[p + q + 2] = e[1]
       /\ 1 \in 1 .. Len(bna)
  BY <1>3, <1>9, <1>12
<1>14. ASSUME p = 1 PROVE BlankAt(t, 1)
  BY <1>10, <1>12, <1>13, <1>14 DEF BlankAt
<1>15. ASSUME q = 1 PROVE BlankAt(t, p + 2)
  <2>1. p + 2 \in 1 .. Len(bna)
    BY <1>9, <1>15
  <2> QED
    BY <1>11, <1>12, <1>15, <2>1 DEF BlankAt
<1>16. EqualsAt(t, p + q + 2)
  BY <1>3, <1>13 DEF EqualsAt
<1> HIDE DEF t
<1> QED
  BY <1>4, <1>12, <1>13, <1>14, <1>15, <1>16 DEF before, after

\* "Says something of the field" in the places of the line.
LEMMA SayingIsNaming ==
  ASSUME NEW s \in Tokens, NEW field \in DOMAIN Default
  PROVE  SaysSomething(s, field) <=> \E p, q : Named(s, p, q, field)
<1>1. ASSUME NEW p, NEW q, Named(s, p, q, field)
      PROVE  SaysSomething(s, field)
  <2> DEFINE t == Part(s, 0, p + q + 2)
  <2>1. p + q + 2 \in Nat /\ t = Beginning(Gap(p), s[p + 1], Gap(q))
    BY <1>1, NamedBegins
  <2>2. p + q + 2 <= Len(s) /\ Len(s) \in Nat /\ p \in {0, 1} /\ q \in {0, 1}
    BY <1>1, LenProperties DEF Named, Tokens
  <2>3. t \in Tokens /\ Len(t) = (p + q + 2) - 0
    BY <2>1, <2>2, Segment
  <2>4. Len(t) = p + q + 2
    BY <2>1, <2>3
  <2>5. SubSeq(t, 1, Len(t)) = t
    BY <2>3, SubSeqFull DEF Tokens
  <2>6. SubSeq(s, 1, Len(t)) = t
    <3>1. 0 + 1 = 1
      OBVIOUS
    <3> QED
      BY <2>4, <3>1 DEF Part
  <2>7. IsPrefix(t, s)
    BY <2>2, <2>4, <2>5, <2>6 DEF IsPrefix
  <2>8. Gap(p) \in Blanks /\ Gap(q) \in Blanks /\ s[p + 1] \in Spelling(field)
    BY <1>1, <2>2, Gaps DEF Named, NameAt
  <2> HIDE DEF t
  <2> QED
    BY <2>1, <2>7, <2>8 DEF SaysSomething, Beginning
<1>2. ASSUME NEW p \in {0, 1}, NEW q \in {0, 1}, NEW name \in Spelling(field),
             IsPrefix(Beginning(Gap(p), name, Gap(q)), s)
      PROVE  Named(s, p, q, field)
  <2> DEFINE t == Beginning(Gap(p), name, Gap(q))
  <2>1. name \in Token
    BY LowerAssumption, KeyAssumption DEF Spelling
  <2>2. /\ t \in Tokens /\ Len(t) = p + q + 2
        /\ p = 1 => BlankAt(t, 1)
        /\ t[p + 1] = name
        /\ q = 1 => BlankAt(t, p + 2)
        /\ EqualsAt(t, p + q + 2)
    BY <2>1, BeginningTokens
  <2>3. Len(t) <= Len(s) /\ \A i \in 1 .. Len(t) : t[i] = s[i]
    BY <1>2, <2>2, PrefixTokens DEF Tokens
  <2> HIDE DEF t
  <2> DEFINE n == Len(t)
  <2>4. n = p + q + 2
    BY <2>2
  <2> HIDE DEF n
  <2>5. 1 \in 1 .. n /\ p + 1 \in 1 .. n /\ p + q + 2 \in 1 .. n /\ p + 2 \in 1 .. n
    BY <2>4
  <2>6. 1 \in 1 .. Len(t) /\ p + 1 \in 1 .. Len(t) /\ p + q + 2 \in 1 .. Len(t)
    BY <2>5 DEF n
  <2>7. p + 2 \in 1 .. Len(t)
    BY <2>5 DEF n
  <2>8. NameAt(s, p + 1, field) /\ EqualsAt(s, p + q + 2)
    BY <1>2, <2>2, <2>3, <2>6 DEF NameAt, EqualsAt
  <2>9. p = 1 => BlankAt(s, 1)
    BY <2>2, <2>3, <2>6 DEF BlankAt
  <2>10. q = 1 => BlankAt(s, p + 2)
    BY <2>2, <2>3, <2>7 DEF BlankAt
  <2>11. p + q + 2 <= Len(s)
    BY <2>2, <2>3
  <2> QED
    BY <2>8, <2>9, <2>10, <2>11 DEF Named
<1>3. ASSUME SaysSomething(s, field) PROVE \E p, q : Named(s, p, q, field)
  <2>1. PICK before \in Blanks, after \in Blanks, name \in Spelling(field) :
          IsPrefix(Beginning(before, name, after), s)
    BY <1>3 DEF SaysSomething, Beginning
  <2>2. PICK p \in {0, 1} : before = Gap(p)
    BY Gaps
  <2>3. PICK q \in {0, 1} : after = Gap(q)
    BY Gaps
  <2> QED
    BY <1>2, <2>1, <2>2, <2>3
<1> QED
  BY <1>1, <1>3
-----------------------------------------------------------------------------
(***************************************************************************)
(* load_config() takes the same lines for settings of a field.             *)
(***************************************************************************)
LEMMA IEqualsOne ==
  ASSUME NEW t \in Tokens, NEW e
  PROVE  IEquals(t, <<e>>) <=> (Len(t) = 1 /\ Lowered(t[1]) = Lowered(e))
<1>1. Len(t) \in Nat /\ DOMAIN t = 1 .. Len(t)
  BY LenProperties DEF Tokens
<1>2. DOMAIN <<e>> = 1 .. 1 /\ <<e>>[1] = e
  OBVIOUS
<1> DEFINE o == <<e>>
           g == [i \in DOMAIN t |-> Lowered(t[i])]
           h == [i \in DOMAIN o |-> Lowered(o[i])]
<1>3. IEquals(t, <<e>>) <=> g = h
  BY DEF IEquals
<1>4. DOMAIN o = 1 .. 1 /\ o[1] = e
  BY <1>2
<1> HIDE DEF o
<1>5. /\ DOMAIN g = 1 .. Len(t) /\ DOMAIN h = 1 .. 1 /\ h[1] = Lowered(e)
      /\ \A i \in 1 .. Len(t) : g[i] = Lowered(t[i])
  BY <1>1, <1>4
<1>6. ASSUME g = h PROVE Len(t) = 1 /\ Lowered(t[1]) = Lowered(e)
  <2>1. 1 .. Len(t) = 1 .. 1
    BY <1>5, <1>6
  <2>2. Len(t) = 1
    BY <1>1, <2>1
  <2> QED
    BY <1>5, <1>6, <2>2
<1>7. ASSUME Len(t) = 1, Lowered(t[1]) = Lowered(e) PROVE g = h
  <2>1. \A i \in 1 .. 1 : i = 1
    OBVIOUS
  <2> QED
    BY <1>1, <1>4, <1>7, <2>1
<1> HIDE DEF g, h
<1> QED
  BY <1>3, <1>6, <1>7

\* A comment or a section header.
MarkedAt(s, i) == s[i] \in {"#", ";", "["}

\* What is done with the line of a setting.
LEMMA NamedLine ==
  ASSUME NEW s, Spaced(s), NEW field \in DOMAIN Default, NEW p, NEW q, Named(s, p, q, field)
  PROVE  \E r : /\ Inked(s, p, r) /\ p + q + 2 <= Len(s) - r
                /\ FirstOf(Trim(s), "=") = q + 2
<1>1. /\ s \in Tokens /\ Len(s) \in Nat
      /\ p \in {0, 1} /\ q \in {0, 1} /\ p + q + 2 <= Len(s)
      /\ NameAt(s, p + 1, field) /\ EqualsAt(s, p + q + 2)
  BY LenProperties DEF Spaced, Tokens, Named
<1>2. ~BlankAt(s, p + 1) /\ ~EqualsAt(s, p + 1)
  BY <1>1, NamesAreNoMarks
<1>3. \A i : ~(EqualsAt(s, i) /\ BlankAt(s, i))
  BY DEF EqualsAt, BlankAt
<1>4. Len(s) \notin {0, 1}
  <2> DEFINE n == Len(s)
  <2>1. n \in Nat /\ p + q + 2 <= n
    BY <1>1
  <2> HIDE DEF n
  <2>2. n # 0 /\ n # 1
    BY <1>1, <2>1
  <2> QED
    BY <2>2 DEF n
<1>5. PICK l, r : Inked(s, l, r)
  BY <1>4, TrimCases
<1>6. l = p
  <2>1. CASE p = 0
    <3>1. ~BlankAt(s, 1) /\ l \in {0, 1}
      BY <1>2, <1>5, <2>1 DEF Inked
    <3>2. l # 1
      BY <1>5, <3>1 DEF Inked
    <3> QED
      BY <2>1, <3>1, <3>2
  <2>2. CASE p = 1
    <3>1. BlankAt(s, 1) /\ l \in {0, 1}
      BY <1>5, <2>2 DEF Inked, Named
    <3>2. l # 0
      <4> SUFFICES ASSUME l = 0 PROVE FALSE
        OBVIOUS
      <4>1. l + 1 = 1
        OBVIOUS
      <4>2. ~BlankAt(s, l + 1)
        BY <1>5 DEF Inked
      <4> QED
        BY <3>1, <4>1, <4>2
    <3> QED
      BY <2>2, <3>1, <3>2
  <2> QED
    BY <1>1, <2>1, <2>2
<1> DEFINE line == Trim(s)
           m == Len(s) - r
<1>7. line = Part(s, p, m) /\ p \in Nat /\ m \in Nat /\ p < m /\ m <= Len(s)
  BY <1>1, <1>5, <1>6, TrimInked
<1>8. r \in {0, 1}
  BY <1>5 DEF Inked
<1>9. p + q + 2 <= m
  <2>1. CASE r = 0
    BY <1>1, <2>1
  <2>2. CASE r = 1
    <3>1. BlankAt(s, Len(s))
      BY <1>5, <2>2 DEF Inked
    <3>2. p + q + 2 # Len(s)
      BY <1>1, <1>3, <3>1
    <3> QED
      BY <1>1, <2>2, <3>2
  <2> QED
    BY <1>8, <2>1, <2>2
<1> HIDE DEF line, m
<1>10. line \in Tokens /\ Len(line) = m - p /\ \A i \in 1 .. m - p : line[i] = s[p + i]
  <2>1. s \in Tokens /\ p \in Nat /\ m \in Nat /\ p <= m /\ m <= Len(s)
    BY <1>1, <1>7
  <2> QED
    BY <1>7, <2>1, Segment
<1>11. Len(line) \in Nat /\ q + 2 \in 1 .. Len(line)
  BY <1>1, <1>7, <1>9, <1>10
<1>12. line[q + 2] = "="
  <2>1. q + 2 \in 1 .. m - p /\ p + (q + 2) = p + q + 2
    BY <1>1, <1>10, <1>11
  <2>2. line[q + 2] = s[p + q + 2]
    BY <1>10, <2>1
  <2> QED
    BY <1>1, <2>2 DEF EqualsAt
<1>13. \A i \in 1 .. (q + 2) - 1 : line[i] # "="
  <2> SUFFICES ASSUME NEW i \in 1 .. (q + 2) - 1 PROVE ~EqualsAt(s, p + i) /\ line[i] = s[p + i]
    BY DEF EqualsAt
  <2>1. i \in 1 .. m - p /\ (i = 1 \/ (q = 1 /\ i = 2))
    BY <1>1, <1>10, <1>11
  <2>2. CASE i = 1
    BY <1>2, <1>10, <2>1, <2>2
  <2>3. CASE q = 1 /\ i = 2
    <3>1. BlankAt(s, p + 2)
      BY <2>3 DEF Named
    <3> QED
      BY <1>3, <1>10, <2>1, <2>3, <3>1
  <2> QED
    BY <2>1, <2>2, <2>3
<1>14. FirstOf(line, "=") = q + 2
  BY <1>11, <1>12, <1>13, FirstOfIs
<1> QED
  BY <1>5, <1>6, <1>9, <1>14 DEF line, m

\* A line that names a field is not skipped, and its key is that field.
LEMMA NamedIsSet ==
  ASSUME NEW s, Spaced(s), NEW field \in DOMAIN Default, NEW p, NEW q, Named(s, p, q, field)
  PROVE  Sets(Trim(s), field)
<1>1. /\ s \in Tokens /\ Len(s) \in Nat /\ p \in {0, 1} /\ q \in {0, 1}
      /\ NameAt(s, p + 1, field)
  BY LenProperties DEF Spaced, Tokens, Named
<1>2. /\ ~BlankAt(s, p + 1) /\ ~MarkedAt(s, p + 1)
      /\ Lowered(s[p + 1]) = Lowered(field)
  BY <1>1, NamesAreNoMarks DEF MarkedAt
<1>3. PICK r : Inked(s, p, r) /\ p + q + 2 <= Len(s) - r /\ FirstOf(Trim(s), "=") = q + 2
  BY NamedLine
<1> DEFINE line == Trim(s)
           m == Len(s) - r
           w == Part(line, 0, q + 1)
<1>4. line = Part(s, p, m) /\ p \in Nat /\ m \in Nat /\ p < m /\ m <= Len(s) /\ p + q + 2 <= m
  BY <1>1, <1>3, TrimInked
<1>5. FirstOf(line, "=") = q + 2
  BY <1>3
<1> HIDE DEF line, m
<1>6. line \in Tokens /\ Len(line) = m - p /\ \A i \in 1 .. m - p : line[i] = s[p + i]
  <2>1. s \in Tokens /\ p \in Nat /\ m \in Nat /\ p <= m /\ m <= Len(s)
    BY <1>1, <1>4
  <2> QED
    BY <1>4, <2>1, Segment
<1>7. 0 <= q + 1 /\ q + 1 \in Nat /\ q + 1 <= Len(line) /\ 1 \in 1 .. m - p
  BY <1>1, <1>4, <1>6
<1>8. w \in Tokens /\ Len(w) = (q + 1) - 0 /\ \A i \in 1 .. (q + 1) - 0 : w[i] = line[0 + i]
  <2>1. line \in Tokens /\ q + 1 \in Nat /\ 0 <= q + 1 /\ q + 1 <= Len(line) /\ 0 \in Nat
    BY <1>6, <1>7
  <2> QED
    BY <2>1, Segment
<1> HIDE DEF w
<1>9. Len(w) = q + 1
  BY <1>1, <1>8
<1>10. line[1] = s[p + 1] /\ w[1] = s[p + 1]
  <2>1. 1 \in 1 .. (q + 1) - 0 /\ 0 + 1 = 1
    BY <1>1
  <2> QED
    BY <1>6, <1>7, <1>8, <2>1
<1>11. Inked(w, 0, q)
  <2>1. 0 + q < Len(w) /\ 0 + 1 = 1 /\ Len(w) - q = 1
    BY <1>1, <1>9
  <2>2. ~BlankAt(w, 1)
    BY <1>2, <1>10 DEF BlankAt
  <2>3. ASSUME q = 1 PROVE BlankAt(w, Len(w))
    <3>1. BlankAt(s, p + 2)
      BY <2>3 DEF Named
    <3>2. Len(w) = 2 /\ 2 \in 1 .. (q + 1) - 0 /\ 0 + 2 = 2 /\ 2 \in 1 .. m - p
      BY <1>1, <1>4, <1>9, <2>3
    <3>3. w[2] = s[p + 2]
      BY <1>6, <1>8, <3>2
    <3> QED
      BY <3>1, <3>2, <3>3 DEF BlankAt
  <2> QED
    BY <1>1, <2>1, <2>2, <2>3 DEF Inked
<1>12. Trim(w) = <<s[p + 1]>>
  <2>1. Trim(w) = Part(w, 0, Len(w) - q)
    BY <1>8, <1>11, TrimInked
  <2>2. Len(w) - q = 0 + 1 /\ 0 <= Len(w) /\ 0 < Len(w) /\ 0 + 1 = 1
    BY <1>1, <1>9
  <2>3. Part(w, 0, 0 + 1) = <<w[0 + 1]>>
    BY <1>8, <2>2, ShortPart
  <2>4. w[0 + 1] = s[p + 1]
    BY <1>10, <2>2
  <2> QED
    BY <2>1, <2>2, <2>3, <2>4
<1>13. Key(line) = <<s[p + 1]>>
  <2>1. (q + 2) - 1 = q + 1 /\ 0 + 1 = 1
    BY <1>1
  <2>2. w = UpTo(line, (q + 2) - 1)
    BY <2>1 DEF w, Part, UpTo
  <2>3. Key(line) = Trim(w)
    BY <1>5, <2>2 DEF Key
  <2> QED
    BY <1>12, <2>3
<1>14. IEquals(Key(line), <<field>>)
  <2>1. s[p + 1] \in Token
    <3>1. p + 1 \in 1 .. Len(s)
      BY <1>1, <1>4
    <3> QED
      BY <1>1, <3>1, ElementOfSeq DEF Tokens
  <2> DEFINE t == <<s[p + 1]>>
  <2>2. t \in Tokens /\ Len(t) = 1 /\ t[1] = s[p + 1]
    BY <2>1, Single
  <2>3. Key(line) = t
    BY <1>13
  <2> HIDE DEF t
  <2> QED
    BY <1>2, <2>2, <2>3, IEqualsOne
<1>15. ~Skipped(line)
  <2>1. Len(line) # 0 /\ FirstOf(line, "=") # 0
    BY <1>1, <1>4, <1>5, <1>6
  <2>2. line # <<>>
    BY <2>1
  <2>3. line[1] \notin {"#", ";", "["}
    BY <1>2, <1>10 DEF MarkedAt
  <2> QED
    BY <2>1, <2>2, <2>3 DEF Skipped
<1> QED
  BY <1>14, <1>15 DEF Sets, line

\* A line that sets a field names it: all load_config() reads has the form
\* of config.h:21.
LEMMA SetIsNamed ==
  ASSUME NEW s, Spaced(s), NEW field \in DOMAIN Default, Sets(Trim(s), field)
  PROVE  \E p, q : Named(s, p, q, field)
<1>1. s \in Tokens /\ Len(s) \in Nat
  BY LenProperties DEF Spaced, Tokens
<1> DEFINE line == Trim(s)
           k == FirstOf(line, "=")
           w == Part(line, 0, k - 1)
<1>2. line # <<>> /\ k # 0 /\ IEquals(Key(line), <<field>>)
  BY DEF Sets, Skipped
<1>3. PICK l, r : Inked(s, l, r)
  BY <1>2, TrimCases
<1> DEFINE m == Len(s) - r
<1>4. /\ line = Part(s, l, m) /\ l \in Nat /\ m \in Nat /\ l < m /\ m <= Len(s)
      /\ l \in {0, 1}
  BY <1>1, <1>3, TrimInked DEF Inked
<1>5. /\ Part(s, l, m) \in Tokens /\ Len(Part(s, l, m)) = m - l
      /\ \A i \in 1 .. m - l : Part(s, l, m)[i] = s[l + i]
  <2>1. s \in Tokens /\ l \in Nat /\ m \in Nat /\ l <= m /\ m <= Len(s)
    BY <1>1, <1>4
  <2> QED
    BY <2>1, Segment
<1>6. line \in Tokens /\ Len(line) = m - l /\ \A i \in 1 .. m - l : line[i] = s[l + i]
  BY <1>4, <1>5
<1>7. Len(line) \in Nat
  BY <1>4, <1>6
<1>8. k \in 1 .. Len(line) /\ line[k] = "="
  BY <1>2, <1>7, FirstOfFound
<1>9. Key(line) = Trim(w)
  <2>1. 0 + 1 = 1
    OBVIOUS
  <2> QED
    BY <2>1 DEF Key, UpTo, Part
<1>10. Spaced(line)
  BY <1>1, <1>4, PartSpaced
<1> HIDE DEF line, m, k
<1>11. k - 1 \in Nat /\ 0 <= k - 1 /\ k - 1 <= Len(line)
  BY <1>7, <1>8
<1>12. Spaced(w)
  BY <1>10, <1>11, PartSpaced
<1>13. w \in Tokens /\ Len(w) = (k - 1) - 0 /\ \A i \in 1 .. (k - 1) - 0 : w[i] = line[0 + i]
  <2> DEFINE j == k - 1
  <2>1. line \in Tokens /\ 0 \in Nat /\ j \in Nat /\ 0 <= j /\ j <= Len(line)
    BY <1>6, <1>11
  <2> HIDE DEF j
  <2>2. /\ Part(line, 0, j) \in Tokens /\ Len(Part(line, 0, j)) = j - 0
        /\ \A i \in 1 .. j - 0 : Part(line, 0, j)[i] = line[0 + i]
    BY <2>1, Segment
  <2> QED
    BY <2>2 DEF j
<1> HIDE DEF w
<1>14. Len(w) = k - 1 /\ \A i \in 1 .. k - 1 : w[i] = line[i]
  BY <1>11, <1>13
<1>15. IEquals(Trim(w), <<field>>)
  BY <1>2, <1>9
<1>16. Trim(w) # <<>>
  <2>1. <<>> \in Tokens /\ Len(<<>>) = 0
    BY EmptySeq DEF Tokens
  <2>2. ~IEquals(<<>>, <<field>>)
    BY <2>1, IEqualsOne
  <2> QED
    BY <1>15, <2>2
<1>17. PICK h, q : Inked(w, h, q)
  BY <1>12, <1>16, TrimCases
<1> DEFINE n == Len(w) - q
<1>18. Trim(w) = Part(w, h, n) /\ h \in Nat /\ n \in Nat /\ h < n /\ n <= Len(w)
  BY <1>13, <1>17, TrimInked
<1>19. q \in {0, 1} /\ h \in {0, 1}
  BY <1>17 DEF Inked
<1>20. n + q = Len(w)
  BY <1>11, <1>14, <1>19
<1> HIDE DEF n
<1>21. /\ Part(w, h, n) \in Tokens /\ Len(Part(w, h, n)) = n - h
       /\ \A i \in 1 .. n - h : Part(w, h, n)[i] = w[h + i]
  <2>1. w \in Tokens /\ h \in Nat /\ n \in Nat /\ h <= n /\ n <= Len(w)
    BY <1>13, <1>18
  <2> QED
    BY <2>1, Segment
<1>22. n - h = 1 /\ Lowered(w[h + 1]) = Lowered(field)
  <2> DEFINE t == Part(w, h, n)
  <2>1. t \in Tokens /\ IEquals(t, <<field>>)
    BY <1>15, <1>18, <1>21
  <2>2. Len(t) = n - h /\ \A i \in 1 .. n - h : t[i] = w[h + i]
    BY <1>21
  <2> HIDE DEF t
  <2>3. Len(t) = 1 /\ Lowered(t[1]) = Lowered(field)
    BY <2>1, IEqualsOne
  <2>4. n - h = 1
    BY <2>2, <2>3
  <2>5. t[1] = w[h + 1]
    BY <2>2, <2>4
  <2> QED
    BY <2>3, <2>4, <2>5
<1>23. 1 \in 1 .. k - 1 /\ 1 \in 1 .. m - l
  BY <1>4, <1>6, <1>8, <1>11, <1>14, <1>18
<1>24. w[1] = s[l + 1]
  BY <1>6, <1>14, <1>23
<1>25. h = 0
  <2>1. ~BlankAt(s, l + 1)
    BY <1>3 DEF Inked
  <2>2. ~BlankAt(w, 1)
    BY <1>24, <2>1 DEF BlankAt
  <2>3. h # 1
    BY <1>17, <2>2 DEF Inked
  <2> QED
    BY <1>19, <2>3
<1>26. n = 1 /\ k = q + 2
  <2>1. n = 1
    BY <1>18, <1>22, <1>25
  <2> QED
    BY <1>8, <1>14, <1>19, <1>20, <2>1
<1>27. NameAt(s, l + 1, field)
  <2>1. Lowered(s[l + 1]) = Lowered(field)
    BY <1>22, <1>24, <1>25
  <2>2. field \notin DOMAIN Lower
    BY LowerAssumption
  <2>3. s[l + 1] \in Spelling(field)
    BY <2>1, <2>2 DEF Lowered, Spelling
  <2> QED
    BY <2>3 DEF NameAt
<1>28. EqualsAt(s, l + q + 2)
  <2>1. k \in 1 .. m - l /\ l + k = l + q + 2
    BY <1>4, <1>6, <1>8, <1>19, <1>26
  <2>2. line[k] = s[l + q + 2]
    BY <1>6, <2>1
  <2> QED
    BY <1>8, <2>2 DEF EqualsAt
<1>29. ASSUME q = 1 PROVE BlankAt(s, l + 2)
  <2>1. BlankAt(w, Len(w))
    BY <1>17, <1>29 DEF Inked
  <2>2. Len(w) = 2 /\ 2 \in 1 .. k - 1 /\ 2 \in 1 .. m - l
    BY <1>4, <1>6, <1>8, <1>14, <1>20, <1>26, <1>29
  <2>3. w[2] = s[l + 2]
    BY <1>6, <1>14, <2>2
  <2> QED
    BY <2>1, <2>2, <2>3 DEF BlankAt
<1>30. ASSUME l = 1 PROVE BlankAt(s, 1)
  BY <1>3, <1>30 DEF Inked
<1>31. l + q + 2 <= Len(s)
  BY <1>1, <1>4, <1>6, <1>8, <1>19, <1>26
<1> QED
  BY <1>4, <1>19, <1>27, <1>28, <1>29, <1>30, <1>31 DEF Named
-----------------------------------------------------------------------------
(***************************************************************************)
(* The value it takes from such a line is the one that the line says.      *)
(***************************************************************************)
Bare(v) == v = <<>> \/ (~BlankAt(v, 1) /\ ~BlankAt(v, Len(v)))

\* The value is what stands behind the '=', without the blanks around it.
LEMMA ValueFound ==
  ASSUME NEW s, Spaced(s), NEW field \in DOMAIN Default, NEW p, NEW q, Named(s, p, q, field)
  PROVE  \E l, r \in {0, 1} :
           LET k == p + q + 2
               m == Len(s) - r
               v == Value(Trim(s))
           IN  /\ k + l <= m /\ (l = 1 => BlankAt(s, k + 1)) /\ (r = 1 => BlankAt(s, Len(s)))
               /\ v = Part(s, k + l, m) /\ v \in Tokens /\ Bare(v)
<1>1. s \in Tokens /\ Len(s) \in Nat /\ p \in {0, 1} /\ q \in {0, 1}
  BY LenProperties DEF Spaced, Tokens, Named
<1>2. PICK r : Inked(s, p, r) /\ p + q + 2 <= Len(s) - r /\ FirstOf(Trim(s), "=") = q + 2
  BY NamedLine
<1>3. r \in {0, 1} /\ (r = 1 => BlankAt(s, Len(s)))
  BY <1>2 DEF Inked
<1> DEFINE line == Trim(s)
           m == Len(s) - r
           k == p + q + 2
           z == Part(s, k, m)
<1>4. line = Part(s, p, m) /\ p \in Nat /\ m \in Nat /\ p < m /\ m <= Len(s)
  BY <1>1, <1>2, TrimInked
<1>5. k \in Nat /\ k <= m /\ ~BlankAt(s, m) /\ FirstOf(line, "=") = q + 2
  BY <1>1, <1>2 DEF Inked
<1> DEFINE n == m - p
<1>6. n \in Nat /\ q + 2 \in Nat /\ q + 2 <= n /\ p + (q + 2) = k /\ p + n = m
  BY <1>1, <1>4, <1>5
<1>7. Len(Part(s, p, m)) = m - p
  <2>1. s \in Tokens /\ p \in Nat /\ m \in Nat /\ p <= m /\ m <= Len(s)
    BY <1>1, <1>4
  <2> QED
    BY <2>1, Segment
<1>8. Value(line) = Trim(z)
  <2>1. From(line, (q + 2) + 1) = Part(line, q + 2, n)
    BY <1>4, <1>7 DEF From, Part
  <2>2. Part(Part(s, p, m), q + 2, n) = Part(s, p + (q + 2), p + n)
    <3>1. /\ s \in Tokens /\ p \in Nat /\ m \in Nat /\ p <= m /\ m <= Len(s)
          /\ q + 2 \in Nat /\ n \in Nat /\ q + 2 <= n /\ n <= m - p
      BY <1>1, <1>4, <1>6
    <3> HIDE DEF n, m
    <3> QED
      BY <3>1, Nested
  <2>3. Part(line, q + 2, n) = z
    BY <1>4, <1>6, <2>2
  <2> QED
    BY <1>5, <2>1, <2>3 DEF Value
<1> HIDE DEF line, m, n, k
<1>9. Spaced(z)
  BY <1>4, <1>5, PartSpaced
<1>10. z \in Tokens /\ Len(z) = m - k /\ \A i \in 1 .. m - k : z[i] = s[k + i]
  BY <1>1, <1>4, <1>5, Segment
<1>11. ASSUME m - k > 0 PROVE ~BlankAt(z, Len(z))
  <2>1. m - k \in 1 .. m - k /\ k + (m - k) = m
    BY <1>4, <1>5, <1>11
  <2>2. z[m - k] = s[m]
    BY <1>10, <2>1
  <2> QED
    BY <1>5, <1>10, <2>2 DEF BlankAt
<1> HIDE DEF z
<1> DEFINE v == Value(line)
           Found(l) == /\ k + l <= m /\ (l = 1 => BlankAt(s, k + 1))
                       /\ v = Part(s, k + l, m) /\ v \in Tokens /\ Bare(v)
<1>12. CASE Trim(z) = <<>> /\ Len(z) \in {0, 1} /\ (Len(z) = 1 => BlankAt(z, 1))
  <2>1. Len(z) # 1
    <3> SUFFICES ASSUME Len(z) = 1 PROVE FALSE
      OBVIOUS
    <3>1. m - k > 0 /\ BlankAt(z, Len(z))
      BY <1>10, <1>12
    <3> QED
      BY <1>11, <3>1
  <2>2. Len(z) = 0
    BY <1>12, <2>1
  <2>3. k + 0 = m
    BY <1>4, <1>5, <1>10, <2>2
  <2>4. v = <<>> /\ <<>> \in Tokens
    BY <1>8, <1>12, EmptySeq DEF Tokens
  <2>5. Part(s, m, m) = <<>>
    BY <1>1, <1>4, ShortPart
  <2>6. k + 0 <= m
    BY <1>4, <2>3
  <2> HIDE DEF v
  <2>7. Found(0)
    BY <2>3, <2>4, <2>5, <2>6 DEF Bare
  <2> QED
    BY <1>3, <2>7 DEF v, k, m, line
<1>13. ASSUME NEW l, NEW h, Inked(z, l, h) PROVE h = 0 /\ l \in {0, 1} /\ Found(l)
  <2>1. /\ Trim(z) = Part(z, l, Len(z) - h) /\ l \in Nat /\ l < Len(z) - h /\ Len(z) - h <= Len(z)
        /\ l \in {0, 1} /\ h \in {0, 1} /\ ~BlankAt(z, l + 1) /\ (l = 1 => BlankAt(z, 1))
    BY <1>10, <1>13, TrimInked DEF Inked
  <2>2. m - k > 0
    BY <1>4, <1>5, <1>10, <2>1
  <2>3. h = 0
    <3>1. h # 1
      BY <1>11, <1>13, <2>2 DEF Inked
    <3> QED
      BY <2>1, <3>1
  <2>4. Trim(z) = Part(z, l, m - k) /\ l < m - k
    BY <1>4, <1>5, <1>10, <2>1, <2>3
  <2>5. /\ Part(z, l, m - k) \in Tokens /\ Len(Part(z, l, m - k)) = (m - k) - l
        /\ \A i \in 1 .. (m - k) - l : Part(z, l, m - k)[i] = z[l + i]
    <3>1. z \in Tokens /\ l \in Nat /\ m - k \in Nat /\ l <= m - k /\ m - k <= Len(z)
      BY <1>4, <1>5, <1>10, <2>1, <2>4
    <3> QED
      BY <3>1, Segment
  <2>6. /\ v \in Tokens /\ Len(v) = (m - k) - l
        /\ \A i \in 1 .. (m - k) - l : v[i] = z[l + i]
    BY <1>8, <2>4, <2>5
  <2>7. v = Part(s, k + l, m)
    <3>1. /\ s \in Tokens /\ k \in Nat /\ m \in Nat /\ k <= m /\ m <= Len(s)
          /\ l \in Nat /\ m - k \in Nat /\ l <= m - k /\ m - k <= m - k
      BY <1>1, <1>4, <1>5, <2>1, <2>4
    <3>2. Part(Part(s, k, m), l, m - k) = Part(s, k + l, k + (m - k))
      BY <3>1, Nested
    <3>3. k + (m - k) = m
      BY <3>1
    <3> QED
      BY <1>8, <2>4, <3>2, <3>3 DEF z
  <2> HIDE DEF v
  <2>8. Bare(v)
    <3>1. /\ 1 \in 1 .. (m - k) - l /\ (m - k) - l \in 1 .. (m - k) - l
          /\ l + ((m - k) - l) = m - k
      BY <1>4, <1>5, <2>1, <2>4
    <3>2. v[1] = z[l + 1] /\ v[(m - k) - l] = z[m - k]
      BY <2>6, <3>1
    <3>3. ~BlankAt(v, 1)
      BY <2>1, <3>2 DEF BlankAt
    <3>4. ~BlankAt(z, m - k)
      BY <1>10, <1>11, <2>2
    <3>5. ~BlankAt(v, (m - k) - l)
      BY <3>2, <3>4 DEF BlankAt
    <3> QED
      BY <2>6, <3>3, <3>5 DEF Bare
  <2>9. ASSUME l = 1 PROVE BlankAt(s, k + 1)
    <3>1. BlankAt(z, 1) /\ 1 \in 1 .. m - k
      BY <1>4, <1>5, <2>1, <2>2, <2>9
    <3>2. z[1] = s[k + 1]
      BY <1>10, <3>1
    <3> QED
      BY <3>1, <3>2 DEF BlankAt
  <2>10. k + l <= m
    BY <1>4, <1>5, <2>1, <2>4
  <2> QED
    BY <2>1, <2>3, <2>6, <2>7, <2>8, <2>9, <2>10
<1>14. CASE \E l, h : Inked(z, l, h)
  <2>1. PICK l : l \in {0, 1} /\ Found(l)
    BY <1>13, <1>14
  <2> QED
    BY <1>3, <2>1 DEF v, k, m, line
<1> QED
  BY <1>9, <1>12, <1>14, TrimCases

\* So a line says its value, and the value is a part that Written looks at.
LEMMA ValueIsSaid ==
  ASSUME NEW s, Spaced(s), NEW field \in DOMAIN Default, NEW p, NEW q, Named(s, p, q, field)
  PROVE  LET v == Value(Trim(s))
         IN  /\ v \in Tokens /\ Says(s, field, v)
             /\ \E i \in 1 .. Len(s) + 1, j \in {Len(s) - 1, Len(s)} : v = SubSeq(s, i, j)
<1> DEFINE v == Value(Trim(s))
           k == p + q + 2
           n == Len(s)
<1>1. /\ s \in Tokens /\ n \in Nat /\ p \in {0, 1} /\ q \in {0, 1} /\ k \in Nat /\ k <= n
      /\ NameAt(s, p + 1, field)
  BY LenProperties DEF Spaced, Tokens, Named
<1>2. PICK l \in {0, 1}, r \in {0, 1} :
        /\ k + l <= n - r /\ (l = 1 => BlankAt(s, k + 1)) /\ (r = 1 => BlankAt(s, n))
        /\ v = Part(s, k + l, n - r) /\ v \in Tokens /\ Bare(v)
  BY ValueFound
<1>3. Part(s, 0, k) = Beginning(Gap(p), s[p + 1], Gap(q))
  BY <1>1, NamedBegins
<1> DEFINE a == k + l
           m == n - r
<1>4. /\ a \in Nat /\ m \in Nat /\ k <= a /\ a <= m /\ m <= n /\ a <= n /\ 0 <= k /\ n <= n
      /\ m + r = n
  BY <1>1, <1>2
<1>5. v = Part(s, a, m) /\ v \in Tokens /\ Bare(v)
  BY <1>2
<1> HIDE DEF v, k
<1>6. Part(s, k, a) = Gap(l)
  <2>1. k + l <= Len(s)
    BY <1>4
  <2> QED
    BY <1>1, <1>2, <2>1, GapPart
<1> HIDE DEF a
<1>7. Part(s, m, n) = Gap(r)
  <2>1. ASSUME r = 1 PROVE BlankAt(s, m + 1)
    <3>1. m + 1 = n
      BY <1>4, <2>1
    <3> QED
      BY <1>2, <2>1, <3>1
  <2>2. s \in Tokens /\ m \in Nat /\ r \in {0, 1} /\ m + r <= Len(s) /\ (r = 1 => BlankAt(s, m + 1))
    BY <1>1, <1>4, <2>1
  <2> HIDE DEF m
  <2>3. Part(s, m, m + r) = Gap(r)
    BY <2>2, GapPart
  <2> QED
    BY <1>4, <2>3
<1> HIDE DEF m
<1>8. Part(s, 0, k) \o Gap(l) = Part(s, 0, a)
  BY <1>1, <1>4, <1>6, Extended
<1>9. Part(s, 0, a) \o v = Part(s, 0, m)
  BY <1>1, <1>4, <1>5, Extended
<1>10. Part(s, 0, m) \o Gap(r) = s
  <2>1. Part(s, 0, m) \o Part(s, m, n) = Part(s, 0, n)
    BY <1>1, <1>4, Extended
  <2> QED
    BY <1>1, <1>7, <2>1, Whole
<1>11. \E before, after, left, right \in Blanks, name \in Spelling(field) :
         s = before \o <<name>> \o after \o <<"=">> \o left \o v \o right
  <2>1. s = Gap(p) \o <<s[p + 1]>> \o Gap(q) \o <<"=">> \o Gap(l) \o v \o Gap(r)
    BY <1>3, <1>8, <1>9, <1>10 DEF Beginning
  <2>2. /\ Gap(p) \in Blanks /\ Gap(q) \in Blanks /\ Gap(l) \in Blanks /\ Gap(r) \in Blanks
        /\ s[p + 1] \in Spelling(field)
    BY <1>1, <1>2, Gaps DEF NameAt
  <2> QED
    BY <2>1, <2>2
<1>12. v = <<>> \/ (Head(v) # " " /\ Last(v) # " ")
  <2> SUFFICES ASSUME v # <<>> PROVE Head(v) # " " /\ Last(v) # " "
    OBVIOUS
  <2>1. v[1] # " " /\ v[Len(v)] # " "
    BY <1>5 DEF Bare, BlankAt
  <2>2. v \in Seq(Token)
    BY <1>5 DEF Tokens
  <2>3. Head(v) = v[1]
    BY <2>2
  <2> QED
    BY <2>1, <2>3 DEF Last
<1>13. \E i \in 1 .. n + 1, j \in {n - 1, n} : v = SubSeq(s, i, j)
  <2>1. a + 1 \in 1 .. n + 1 /\ m \in {n - 1, n}
    BY <1>1, <1>2, <1>4
  <2> QED
    BY <1>5, <2>1 DEF Part
<1> QED
  BY <1>5, <1>11, <1>12, <1>13 DEF Says, v

\* A value that is one numeral is read as that.
LEMMA PlainRead ==
  ASSUME NEW field, NEW v \in Tokens, Plain(field, v)
  PROVE  Stoi(v) = Numeral[Head(v)]
<1>1. Len(v) = 1 /\ Head(v) \in DOMAIN Numeral
  BY Zenon DEF Plain
<1>2. Len(<<>>) = 0
  OBVIOUS
<1>3. v # <<>>
  BY <1>1, <1>2
<1> QED
  BY <1>1, <1>3, NumeralFirst

\* The conversions of load_config() give the value what it means.
LEMMA ConversionMeans ==
  ASSUME NEW field \in DOMAIN Default, NEW v \in Tokens
  PROVE  Means(field, v, Converted(field, v))
<1>1. CASE field \in Texts
  <2>1. Converted(field, v) = v
    BY <1>1 DEF Converted, Texts, Flags
  <2> QED
    BY <1>1, <2>1 DEF Means
<1>2. CASE field \in Flags
  <2>1. Converted(field, v) = (IEquals(v, <<"true">>) \/ v = <<"1">>)
    BY <1>2 DEF Converted, Flags, Texts
  <2>2. IEquals(v, <<"true">>) <=> \E t \in Spelling("true") : v = <<t>>
    <3>1. Lowered("true") = "true"
      BY LowerAssumption DEF Lowered
    <3>2. IEquals(v, <<"true">>) <=> (Len(v) = 1 /\ Lowered(v[1]) = "true")
      BY <3>1, IEqualsOne
    <3>3. \A t : Lowered(t) = "true" <=> t \in Spelling("true")
      BY LowerAssumption DEF Lowered, Spelling
    <3>4. ASSUME Len(v) = 1 PROVE v = <<v[1]>>
      <4>1. v[1] \in Token
        BY <3>4, ElementOfSeq DEF Tokens
      <4> DEFINE o == <<v[1]>>
      <4>2. o \in Tokens /\ Len(o) = 1 /\ o[1] = v[1]
        BY <4>1, Single
      <4> HIDE DEF o
      <4>3. Len(v) = Len(o) /\ \A i \in 1 .. Len(v) : v[i] = o[i]
        BY <3>4, <4>2
      <4>4. v = o
        BY <4>2, <4>3, SameText
      <4> QED
        BY <4>4 DEF o
    <3>5. \A t : Len(<<t>>) = 1 /\ <<t>>[1] = t
      OBVIOUS
    <3> QED
      BY <3>2, <3>3, <3>4, <3>5
  <2> DEFINE read  == IEquals(v, <<"true">>) \/ v = <<"1">>
             meant == v \in {<<"1">>} \union {<<t>> : t \in Spelling("true")}
  <2>3. read <=> meant
    BY <2>2
  <2>4. read \in BOOLEAN /\ meant \in BOOLEAN
    OBVIOUS
  <2>5. Converted(field, v) = read
    BY <2>1
  <2>6. Means(field, v, meant)
    BY <1>2 DEF Means
  <2> HIDE DEF read, meant
  <2>7. read = meant
    BY <2>3, <2>4
  <2> QED
    BY <2>5, <2>6, <2>7
<1>3. CASE field = "log_level"
  <2>1. Converted(field, v) = Stoi(v)
    BY <1>3 DEF Converted, Flags, Texts
  <2>2. Plain(field, v) => Stoi(v) = Numeral[Head(v)]
    BY PlainRead
  <2> QED
    BY <1>3, <2>1, <2>2 DEF Means, Numbers
<1>4. CASE field = "target_port"
  <2>1. Converted(field, v) = Uint16(Stoi(v))
    BY <1>4 DEF Converted, Flags, Texts
  <2>2. ASSUME Plain(field, v) PROVE Uint16(Stoi(v)) = Numeral[Head(v)]
    <3>1. Numeral[Head(v)] \in 0 .. Uint16Values - 1
      BY <1>4, <2>2 DEF Plain
    <3>2. Uint16Values \in Nat \ {0}
      BY DEF Uint16Values
    <3>3. \A i \in 0 .. Uint16Values - 1 : i % Uint16Values = i
      BY <3>2
    <3>4. Stoi(v) = Numeral[Head(v)]
      BY <2>2, PlainRead
    <3> QED
      BY <3>1, <3>3, <3>4 DEF Uint16
  <2> QED
    BY <1>4, <2>1, <2>2 DEF Means, Numbers
<1>5. field \in Texts \union Flags \union {"log_level", "target_port"}
  BY DEF Default, Texts, Flags
<1> QED
  BY <1>1, <1>2, <1>3, <1>4, <1>5

\* The last line that sets a field is the last that says something of it.
LEMMA FieldWritten ==
  ASSUME NEW f \in File, NEW field \in DOMAIN Default
  PROVE  Written(f, field, LoadConfig(f)[field])
<1> DEFINE saying == {i \in DOMAIN f : SaysSomething(f[i], field)}
           r == LoadConfig(f)[field]
<1>1. f \in Seq(Text) /\ Len(f) \in Nat /\ DOMAIN f = 1 .. Len(f)
  BY FileAssumption, LenProperties
<1>2. r = Rounds(field, f)[Len(f)]
  BY DEF LoadConfig
<1>3. \/ r = Default[field] /\ \A i \in 1 .. Len(f) : ~Setting(field, f, i)
      \/ \E k \in 1 .. Len(f) :
           /\ Setting(field, f, k) /\ r = Set(field, f, k)
           /\ \A i \in k + 1 .. Len(f) : ~Setting(field, f, i)
  BY <1>1, <1>2, LastSettingCounts
<1> HIDE DEF r
<1>4. \A i \in 1 .. Len(f) : Spaced(f[i])
  BY <1>1, ElementOfSeq, TextSpaced
<1>5. \A i \in 1 .. Len(f) : Setting(field, f, i) <=> SaysSomething(f[i], field)
  <2> TAKE i \in 1 .. Len(f)
  <2>1. Spaced(f[i]) /\ f[i] \in Tokens
    BY <1>4 DEF Spaced
  <2> QED
    BY <2>1, NamedIsSet, SetIsNamed, SayingIsNaming DEF Setting
<1>6. CASE \A i \in 1 .. Len(f) : ~Setting(field, f, i)
  <2>1. saying = {}
    BY <1>1, <1>5, <1>6
  <2>2. r = Default[field]
    BY <1>3, <1>6
  <2> QED
    BY <2>1, <2>2 DEF Written, r
<1>7. ASSUME NEW k \in 1 .. Len(f), Setting(field, f, k), r = Set(field, f, k),
             \A i \in k + 1 .. Len(f) : ~Setting(field, f, i)
      PROVE  Written(f, field, r)
  <2>1. k \in saying /\ saying \subseteq Int
    BY <1>1, <1>5, <1>7
  <2>2. \A i \in saying : i <= k
    BY <1>1, <1>5, <1>7
  <2> HIDE DEF saying
  <2>3. Max(saying) = k /\ saying # {}
    BY <2>1, <2>2, MaxIs
  <2>4. Spaced(f[k]) /\ f[k] \in Tokens
    BY <1>4 DEF Spaced
  <2>5. PICK p, q : Named(f[k], p, q, field)
    BY <1>7, <2>4, SetIsNamed DEF Setting
  <2> DEFINE v == Value(Trim(f[k]))
  <2>6. /\ v \in Tokens /\ Says(f[k], field, v)
        /\ \E i \in 1 .. Len(f[k]) + 1, j \in {Len(f[k]) - 1, Len(f[k])} : v = SubSeq(f[k], i, j)
    BY <2>4, <2>5, ValueIsSaid
  <2>7. Means(field, v, r)
    BY <1>7, <2>6, ConversionMeans DEF Set
  <2> HIDE DEF v
  <2>8. \E i \in 1 .. Len(f[k]) + 1, j \in {Len(f[k]) - 1, Len(f[k])} :
          Says(f[k], field, SubSeq(f[k], i, j)) /\ Means(field, SubSeq(f[k], i, j), r)
    BY <2>6, <2>7
  <2> QED
    BY <2>3, <2>8 DEF Written, saying
<1> QED
  BY <1>3, <1>6, <1>7 DEF r

(***************************************************************************)
(* For every file whose lines have no two blanks side by side: every field *)
(* is read as it is written last.                                          *)
(***************************************************************************)
ConfigInv ==
  /\ file \in File
  /\ pc = "network" => cfg = LoadConfig(file)

\* Only load_config() writes the configuration, and nothing rewrites the file.
LEMMA ConfigStep == ConfigInv /\ [Next]_vars => ConfigInv'
<1> SUFFICES ASSUME ConfigInv, [Next]_vars PROVE ConfigInv'
  OBVIOUS
<1> USE DEF ConfigInv
<1>1. CASE Load
  BY <1>1 DEF Load
<1> USE DEF Goto, HookGoto, HookRest, input, network, thread, control
<1>2. CASE UNCHANGED <<pc, file, cfg>>
  BY <1>2
<1>3. CASE pc' # "network" /\ UNCHANGED file
  BY <1>3
<1>4. ASSUME StartUp, ~Load PROVE pc' # "network" /\ UNCHANGED file
  BY <1>4 DEF StartUp, LoadAborts, InitNetwork, InitNetworkFails, InitRelay, NoRelay,
              InitRelayAborts, StartHook, InstallHandler
<1>5. ASSUME CleanUp PROVE pc' # "network" /\ UNCHANGED file
  BY <1>5 DEF CleanUp, Stopped, PostQuit, JoinHook, ShutRelay, ShutNetwork, DestroyHook
<1>6. ASSUME HookThread \/ Callback PROVE UNCHANGED <<pc, file, cfg>>
  BY <1>6 DEF HookThread, Callback, SetThreadId, Install, InstallFails, SendUdp, SendRelay,
              TakeQuit, Unhook
<1>7. ASSUME CtrlC \/ Close PROVE UNCHANGED <<pc, file, cfg>>
  BY <1>7 DEF CtrlC, Close
<1>8. ASSUME Killed PROVE pc' # "network" /\ UNCHANGED file
  BY <1>8 DEF Killed
<1>9. ASSUME UNCHANGED vars PROVE UNCHANGED <<pc, file, cfg>>
  BY <1>9 DEF vars
<1> QED
  BY <1>1, <1>2, <1>3, <1>4, <1>5, <1>6, <1>7, <1>8, <1>9 DEF Next, Terminated

(***************************************************************************)
(* For every file, of any number and form of lines: each field is what the *)
(* last line that speaks of it says, or its default.                       *)
(***************************************************************************)
THEOREM ReadAsWritten == Spec => []ConfigAsWritten
<1>1. Init => ConfigInv
  BY DEF Init, ConfigInv
<1>2. ConfigInv => ConfigAsWritten
  <2> SUFFICES ASSUME ConfigInv, pc = "network", NEW field \in DOMAIN cfg
               PROVE  Written(file, field, cfg[field])
    BY DEF ConfigAsWritten
  <2>1. cfg = LoadConfig(file) /\ file \in File
    BY DEF ConfigInv
  <2>2. field \in DOMAIN Default
    BY <2>1 DEF LoadConfig
  <2> QED
    BY <2>1, <2>2, FieldWritten
<1> QED
  BY <1>1, <1>2, ConfigStep, PTL DEF Spec
=============================================================================
