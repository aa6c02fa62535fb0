------------------------- MODULE RelayClientProofs -------------------------
(***************************************************************************)
(* For any handle values and any bound on the faults: the types; that the  *)
(* hook thread sends on a joined connection that nobody replaces under its *)
(* hands; and that reconnecting neither leaks a handle nor closes one      *)
(* twice.                                                                  *)
(***************************************************************************)
EXTENDS RelayClient, TLAPS

\* A field is being nulled while it is still the first to go through.
NullingInv == \A t \in Closer : nulling[t] => ~Calm(t)

LEMMA TypeInit == Init => TypeOK /\ NullingInv
<1> SUFFICES ASSUME Init PROVE TypeOK /\ NullingInv  OBVIOUS
<1>1. todo \in [Closer -> Seq(Field)]
  <2>1. <<>> \in Seq(Field)  OBVIOUS
  <2>. QED BY <2>1 DEF Init
<1>2. nulling \in [Closer -> BOOLEAN]
  BY DEF Init
<1>3. handle \in [Field -> Handle \union {Null}]
  BY DEF Init
<1>4. faults \in 0 .. MaxFaults
  BY MaxFaultsAssumption DEF Init
<1>. QED BY <1>1, <1>2, <1>3, <1>4 DEF Init, TypeOK, NullingInv, BgPC, HookPC, MainPC

\* close_handles() of either thread.
LEMMA TypeClosing ==
  ASSUME NEW t \in Closer, TypeOK, NullingInv, Closing(t)
  PROVE  TypeOK'
<1> USE DEF TypeOK, external, Calm, Field
<1>1. CASE CloseOne(t)
  BY <1>1 DEF CloseOne, Close
<1>2. CASE NullOne(t)
  <2>1. todo[t] \in Seq(Field) /\ todo[t] # <<>>
    BY <1>2 DEF NullOne, NullingInv
  <2>2. Head(todo[t]) \in Field /\ Tail(todo[t]) \in Seq(Field)
    BY <2>1
  <2>. QED BY <1>2, <2>2 DEF NullOne
<1>3. CASE SkipOne(t)
  <2>1. todo[t] \in Seq(Field) /\ todo[t] # <<>>
    BY <1>3 DEF SkipOne
  <2>2. Tail(todo[t]) \in Seq(Field)
    BY <2>1
  <2>. QED BY <1>3, <2>2 DEF SkipOne
<1>. QED BY <1>1, <1>2, <1>3 DEF Closing

\* The two values that close_handles() starts from.
LEMMA TypeCloseHandles ==
  ASSUME NEW t \in Closer, todo \in [Closer -> Seq(Field)], nulling \in [Closer -> BOOLEAN],
         CloseHandles(t) \/ CloseHandlesTwice(t)
  PROVE  todo' \in [Closer -> Seq(Field)] /\ nulling' \in [Closer -> BOOLEAN]
<1>1. AllFields \in Seq(Field)
  BY DEF AllFields, Field
<1>2. AllFields \o AllFields \in Seq(Field)
  BY <1>1
<1>. QED BY <1>1, <1>2 DEF CloseHandles, CloseHandlesTwice

LEMMA TypeCreate ==
  ASSUME TypeOK, NEW f \in Field, NEW parent, NEW to \in BgPC, Create(f, parent, to)
  PROVE  TypeOK'
BY DEF Create, Goto, TypeOK, BgRest, closing

LEMMA TypeBackground == TypeOK /\ NullingInv /\ Background => TypeOK'
<1> SUFFICES ASSUME TypeOK, NullingInv, Background PROVE TypeOK'  OBVIOUS
<1> USE DEF Goto, BgRest, external, closing
<1>1. CASE Loop
  BY <1>1 DEF Loop, TypeOK, BgPC
<1>2. CASE TestConnected
  BY <1>2 DEF TestConnected, TypeOK, BgPC
<1>3. CASE BeginConnect
  <2>1. todo' \in [Closer -> Seq(Field)] /\ nulling' \in [Closer -> BOOLEAN]
    BY <1>3, TypeCloseHandles DEF BeginConnect, TypeOK, Closer
  <2>. QED BY <1>3, <2>1 DEF BeginConnect, TypeOK, BgPC
<1>4. CASE OpenSession \/ OpenConnect \/ OpenRequest
  BY <1>4, TypeCreate DEF OpenSession, OpenConnect, OpenRequest, Field, BgPC
<1>5. CASE Upgrade
  BY <1>5 DEF Upgrade, TypeOK, BgPC, Field
<1>6. CASE DropRequest
  BY <1>6 DEF DropRequest, Close, TypeOK, BgPC
<1>7. CASE NullRequest
  BY <1>7 DEF NullRequest, TypeOK, BgPC, Field
<1>8. CASE SendJoin
  BY <1>8 DEF SendJoin, TypeOK, BgPC
<1>9. CASE Publish
  BY <1>9 DEF Publish, TypeOK, BgPC
<1>10. CASE Awake
  BY <1>10 DEF Awake, TypeOK, BgPC
<1>11. ASSUME NEW step \in Attempt, ConnectFails(step) PROVE TypeOK'
  <2>1. todo' \in [Closer -> Seq(Field)] /\ nulling' \in [Closer -> BOOLEAN]
    BY <1>11, TypeCloseHandles DEF ConnectFails, Fails, TypeOK, Closer
  <2>2. faults' \in 0 .. MaxFaults
    BY <1>11, MaxFaultsAssumption DEF ConnectFails, Fails, TypeOK
  <2>. QED BY <1>11, <2>1, <2>2 DEF ConnectFails, Fails, TypeOK, BgPC
<1>12. CASE Closing("bg")
  BY <1>12, TypeClosing DEF Closer
<1>. QED BY <1>1, <1>2, <1>3, <1>4, <1>5, <1>6, <1>7, <1>8, <1>9, <1>10, <1>11, <1>12
         DEF Background

LEMMA TypeShutdown == TypeOK /\ NullingInv /\ Shutdown => TypeOK'
<1> SUFFICES ASSUME TypeOK, NullingInv, Shutdown PROVE TypeOK'  OBVIOUS
<1> USE DEF MainRest, external, closing
<1>1. CASE StopRunning
  BY <1>1 DEF StopRunning, TypeOK, MainPC
<1>2. CASE CloseWebSocket
  <2>1. todo' \in [Closer -> Seq(Field)] /\ nulling' \in [Closer -> BOOLEAN]
    BY <1>2, TypeCloseHandles DEF CloseWebSocket, TypeOK, Closer
  <2>. QED BY <1>2, <2>1 DEF CloseWebSocket, TypeOK, MainPC
<1>3. CASE JoinThread
  BY <1>3 DEF JoinThread, TypeOK, MainPC
<1>4. CASE Closing("main")
  BY <1>4, TypeClosing DEF Closer
<1>. QED BY <1>1, <1>2, <1>3, <1>4 DEF Shutdown

LEMMA TypeStep == TypeOK /\ NullingInv /\ [Next]_vars => TypeOK'
<1> SUFFICES ASSUME TypeOK, NullingInv, [Next]_vars PROVE TypeOK'  OBVIOUS
<1>1. ASSUME NEW step \in Attempt, ConnectFails(step) PROVE TypeOK'
  <2>1. todo' \in [Closer -> Seq(Field)] /\ nulling' \in [Closer -> BOOLEAN]
    BY <1>1, TypeCloseHandles DEF ConnectFails, Fails, TypeOK, Closer
  <2>2. faults' \in 0 .. MaxFaults
    BY <1>1, MaxFaultsAssumption DEF ConnectFails, Fails, TypeOK
  <2>. QED BY <1>1, <2>1, <2>2 DEF ConnectFails, Fails, TypeOK, BgPC, Goto, BgRest, external
<1>2. CASE BeginSend
  BY <1>2 DEF BeginSend, TypeOK, HookRest, HookPC, closing, external, Field
<1>3. CASE EndSend
  BY <1>3 DEF EndSend, TypeOK, HookRest, HookPC, closing, external
<1>4. CASE StopHook
  BY <1>4 DEF StopHook, TypeOK, MainRest, HookPC, MainPC, closing, external
<1>5. CASE LinkDies
  BY <1>5, MaxFaultsAssumption DEF LinkDies, TypeOK, closing
<1>6. CASE Terminated \/ UNCHANGED vars
  BY <1>6 DEF Terminated, vars, TypeOK
<1>. QED BY <1>1, <1>2, <1>3, <1>4, <1>5, <1>6, TypeBackground, TypeShutdown DEF Next

\* Nulling begins with a field to go through and ends with dropping it.
LEMMA NullingStep == TypeOK /\ NullingInv /\ [Next]_vars => NullingInv'
<1> SUFFICES ASSUME TypeOK, NullingInv, [Next]_vars, NEW t \in Closer
             PROVE  nulling'[t] => todo'[t] # <<>>
  BY DEF NullingInv, Calm
<1>1. CASE UNCHANGED closing
  BY <1>1 DEF closing, NullingInv, Calm
<1>2. ASSUME NEW u \in Closer, CloseHandles(u) \/ CloseHandlesTwice(u)
      PROVE  nulling'[t] => todo'[t] # <<>>
  <2>1. AllFields # <<>> /\ AllFields \o AllFields # <<>>
    BY DEF AllFields
  <2>. QED BY <1>2, <2>1 DEF CloseHandles, CloseHandlesTwice, NullingInv, Calm, TypeOK
<1>3. ASSUME NEW u \in Closer, Closing(u)
      PROVE  nulling'[t] => todo'[t] # <<>>
  BY <1>3 DEF Closing, CloseOne, NullOne, SkipOne, NullingInv, Calm, TypeOK
<1>4. CASE Background
  BY <1>1, <1>2, <1>3, <1>4
     DEF Background, Closer, Loop, TestConnected, BeginConnect, OpenSession, OpenConnect,
         OpenRequest, Create, Upgrade, DropRequest, NullRequest, SendJoin, Publish, Awake,
         ConnectFails, Fails
<1>5. CASE Shutdown
  BY <1>1, <1>2, <1>3, <1>5
     DEF Shutdown, Closer, StopRunning, CloseWebSocket, JoinThread
<1>6. CASE BeginSend \/ EndSend \/ StopHook \/ LinkDies
  BY <1>1, <1>6 DEF BeginSend, EndSend, StopHook, LinkDies, HookRest
<1>7. ASSUME NEW step \in Attempt, ConnectFails(step)
      PROVE  nulling'[t] => todo'[t] # <<>>
  BY <1>2, <1>7 DEF ConnectFails, Fails, Closer
<1>8. CASE Terminated \/ UNCHANGED vars
  BY <1>1, <1>8 DEF Terminated, vars, closing
<1>. QED BY <1>4, <1>5, <1>6, <1>7, <1>8 DEF Next

\* The fields keep their types, a WebSocket in use or joined is open, and no
\* thread nulls a field that it has not to go through.
THEOREM TypeCorrect == Spec => [](TypeOK /\ NullingInv)
BY TypeInit, TypeStep, NullingStep, PTL DEF Spec
-----------------------------------------------------------------------------
(* While main() waits, connected_ stands for a joined connection in        *)
(* websocket_ that the background thread leaves alone.                     *)

SendInv ==
  /\ main = "wait" <=> hook # "ended"
  /\ main = "wait" => running /\ Calm("main")
  /\ hook = "send" => connected /\ ptr = handle["websocket"]
  /\ main = "wait" /\ connected =>
       bg \in {"loop", "test", "sleep"} /\ Calm("bg") /\ handle["websocket"] \in joined
  /\ main = "wait" /\ bg = "publish" => Calm("bg") /\ handle["websocket"] \in joined

\* close_handles() in the background thread: not while connected.
LEMMA SendClosing ==
  ASSUME NEW t \in Closer, TypeOK, NullingInv, SendInv, Closing(t)
  PROVE  SendInv'
<1>1. ~Calm(t)
  BY DEF Closing, CloseOne, NullOne, SkipOne, NullingInv
<1>2. UNCHANGED <<main, hook, running, connected, ptr, bg>>
  BY DEF Closing, CloseOne, NullOne, SkipOne, external
<1>3. CASE main = "wait"
  <2>1. t = "bg" /\ ~connected /\ bg # "publish" /\ hook # "send"
    BY <1>1, <1>3 DEF SendInv, Closer
  <2>2. todo'["main"] = todo["main"]
    BY <2>1 DEF Closing, CloseOne, NullOne, SkipOne, TypeOK, Closer
  <2>. QED BY <1>2, <1>3, <2>1, <2>2 DEF SendInv, Calm
<1>4. CASE main # "wait"
  BY <1>2, <1>4 DEF SendInv
<1>. QED BY <1>3, <1>4

LEMMA SendBackground == TypeOK /\ NullingInv /\ SendInv /\ Background => SendInv'
<1> SUFFICES ASSUME TypeOK, NullingInv, SendInv, Background PROVE SendInv'  OBVIOUS
<1> USE DEF SendInv, Goto, BgRest, external, closing, Calm
<1>1. CASE Loop
  BY <1>1 DEF Loop
<1>2. CASE TestConnected
  BY <1>2 DEF TestConnected
<1>3. CASE BeginConnect
  BY <1>3 DEF BeginConnect, CloseHandles, TypeOK, Closer
<1>4. CASE OpenSession \/ OpenConnect \/ OpenRequest
  BY <1>4 DEF OpenSession, OpenConnect, OpenRequest, Create
<1>5. CASE Upgrade
  BY <1>5 DEF Upgrade
<1>6. CASE DropRequest
  BY <1>6 DEF DropRequest, Close
<1>7. CASE NullRequest
  BY <1>7 DEF NullRequest
<1>8. CASE SendJoin
  BY <1>8 DEF SendJoin
<1>9. CASE Publish
  BY <1>9 DEF Publish
<1>10. CASE Awake
  BY <1>10 DEF Awake
<1>11. ASSUME NEW step \in Attempt, ConnectFails(step) PROVE SendInv'
  BY <1>11 DEF ConnectFails, Fails, CloseHandles, CloseHandlesTwice, Attempt, TypeOK, Closer
<1>12. CASE Closing("bg")
  BY <1>12, SendClosing DEF Closer
<1>. QED BY <1>1, <1>2, <1>3, <1>4, <1>5, <1>6, <1>7, <1>8, <1>9, <1>10, <1>11, <1>12
         DEF Background

LEMMA SendStep == TypeOK /\ NullingInv /\ SendInv /\ [Next]_vars => SendInv'
<1> SUFFICES ASSUME TypeOK, NullingInv, SendInv, [Next]_vars PROVE SendInv'  OBVIOUS
<1>1. ASSUME NEW step \in Attempt, ConnectFails(step) PROVE SendInv'
  BY <1>1 DEF ConnectFails, Fails, CloseHandles, CloseHandlesTwice, Attempt, TypeOK, Closer,
              SendInv, Goto, BgRest, external, Calm
<1>2. CASE BeginSend
  BY <1>2 DEF BeginSend, HookRest, closing, external, SendInv, Calm
<1>3. CASE EndSend
  BY <1>3 DEF EndSend, HookRest, closing, external, SendInv, Calm
<1>4. CASE StopHook
  BY <1>4 DEF StopHook, SendInv
<1>5. CASE LinkDies
  BY <1>5 DEF LinkDies, closing, SendInv, Calm
<1>6. CASE Terminated \/ UNCHANGED vars
  BY <1>6 DEF Terminated, vars, SendInv, Calm
<1>7. CASE StopRunning \/ CloseWebSocket \/ JoinThread
  BY <1>7 DEF StopRunning, CloseWebSocket, JoinThread, SendInv
<1>8. CASE Closing("main")
  BY <1>8, SendClosing DEF Closer
<1>. QED BY <1>1, <1>2, <1>3, <1>4, <1>5, <1>6, <1>7, <1>8, SendBackground
         DEF Next, Shutdown

\* send_packet() uses a connection that is joined and that nobody replaces
\* meanwhile, however attempts fail and connections die.
THEOREM NoPacketBeforeJoin == Spec => []SendsOnJoinedSocket
<1>1. Init => SendInv
  BY DEF Init, SendInv, Calm, Closer
<1>2. SendInv => SendsOnJoinedSocket
  BY DEF SendInv, SendsOnJoinedSocket
<1>. QED BY <1>1, <1>2, TypeCorrect, SendStep, PTL DEF Spec
-----------------------------------------------------------------------------
(* Until shutdown() the open handles are those in the fields, each in one: *)
(* a field that is about to be assigned is empty.                          *)

Owners == Field \ BeingNulled

Pending(f) == \E i \in DOMAIN todo["bg"] : todo["bg"][i] = f

OnlyCloser == main \in {"wait", "stop"} /\ Calm("main")

CalmInv == ~Calm("bg") => bg \in {"session", "backoff"}

OwnedInv == \A h : h \in open <=> h # Null /\ \E f \in Owners : handle[f] = h

DistinctInv ==
  \A f, g \in Owners : f # g /\ handle[f] = handle[g] => handle[f] = Null

EmptyInv ==
  /\ bg = "session" => \A f \in Field : handle[f] # Null => Pending(f)
  /\ bg = "connect" => \A f \in {"connect", "request", "websocket"} : handle[f] = Null
  /\ bg = "request" => \A f \in {"request", "websocket"} : handle[f] = Null
  /\ bg = "upgrade" => handle["websocket"] = Null

OwnInv == running => OnlyCloser /\ CalmInv /\ OwnedInv /\ DistinctInv /\ EmptyInv

\* A step that leaves handles and closing alone and does not create one.
LEMMA OwnUnchanged ==
  ASSUME OwnInv, UNCHANGED <<handle, open, todo, nulling>>,
         running' => running /\ OnlyCloser',
         bg' \notin {"session", "connect", "request", "upgrade"} \/ bg' = bg,
         bg # "null request", bg' # "null request",
         Calm("bg") \/ bg' = bg
  PROVE  OwnInv'
<1>1. BeingNulled' = BeingNulled
  BY DEF BeingNulled
<1>2. Owners' = Owners
  BY <1>1 DEF Owners
<1>. QED BY <1>2 DEF OwnInv, CalmInv, OwnedInv, DistinctInv, EmptyInv, Pending, Calm

\* Every field is gone through.
LEMMA AllFieldsAll ==
  ASSUME NEW f \in Field
  PROVE  /\ \E i \in DOMAIN AllFields : AllFields[i] = f
         /\ \E i \in DOMAIN (AllFields \o AllFields) : (AllFields \o AllFields)[i] = f
BY DEF AllFields, Field

LEMMA NonePending == ASSUME Calm("bg") PROVE \A f \in Field : ~Pending(f)
<1>1. todo["bg"] = <<>>
  BY DEF Calm
<1>2. DOMAIN todo["bg"] = {}
  BY <1>1
<1>. QED BY <1>2 DEF Pending

\* When the first field has been dealt with, the others are still pending.
LEMMA RestPending ==
  ASSUME todo["bg"] \in Seq(Field), todo["bg"] # <<>>, todo'["bg"] = Tail(todo["bg"]),
         NEW f \in Field, f # Head(todo["bg"]), Pending(f)
  PROVE  Pending(f)'
<1>1. PICK i \in DOMAIN todo["bg"] : todo["bg"][i] = f
  BY DEF Pending
<1>2. i # 1
  BY <1>1
<1>3. i - 1 \in DOMAIN Tail(todo["bg"]) /\ Tail(todo["bg"])[i - 1] = f
  BY <1>1, <1>2
<1>. QED BY <1>3 DEF Pending

LEMMA OwnClosing ==
  ASSUME TypeOK, NullingInv, OwnInv, Closing("bg"), running
  PROVE  OwnInv'
<1>1. /\ "bg" \in Closer /\ "main" \in Closer /\ "bg" # "main"
      /\ todo["bg"] \in Seq(Field) /\ todo["bg"] # <<>>
  BY DEF Closing, CloseOne, NullOne, SkipOne, NullingInv, TypeOK, Closer, Calm
<1> DEFINE first == Head(todo["bg"])
<1>2. first \in Field /\ first = todo["bg"][1] /\ Tail(todo["bg"]) \in Seq(Field)
  BY <1>1
<1>3. ASSUME NEW f \in Field, f # first, todo'["bg"] = Tail(todo["bg"]), Pending(f)
      PROVE  Pending(f)'
  BY <1>1, <1>3, RestPending
<1>4. /\ bg \in {"session", "backoff"}
      /\ UNCHANGED <<bg, main, running>>
      /\ todo'["main"] = todo["main"]
      /\ OnlyCloser'
  BY <1>1 DEF OwnInv, CalmInv, OnlyCloser, Calm, Closing, CloseOne, NullOne, SkipOne, TypeOK
<1>5. CalmInv'
  BY <1>4 DEF CalmInv
<1>6. CASE CloseOne("bg")
  <2>1. Owners = Field /\ Owners' = Field \ {first}
    BY <1>1, <1>4, <1>6 DEF CloseOne, Owners, BeingNulled, TypeOK, external
  <2>2. handle' = handle /\ open' = open \ {handle[first]} /\ todo' = todo /\ handle[first] # Null
    BY <1>6 DEF CloseOne, Close
  <2>3. OwnedInv'
    BY <1>2, <2>1, <2>2 DEF OwnInv, OwnedInv, DistinctInv
  <2>4. DistinctInv' /\ EmptyInv'
    BY <1>4, <2>1, <2>2 DEF OwnInv, DistinctInv, EmptyInv, Pending
  <2>. QED BY <1>4, <1>5, <2>3, <2>4 DEF OwnInv
<1>7. CASE NullOne("bg")
  <2>1. Owners = Field \ {first} /\ Owners' = Field
    BY <1>1, <1>4, <1>7 DEF NullOne, Owners, BeingNulled, TypeOK
  <2>2. /\ handle' = [handle EXCEPT ![first] = Null] /\ open' = open
        /\ todo'["bg"] = Tail(todo["bg"])
    BY <1>1, <1>7 DEF NullOne, external, TypeOK
  <2>3. OwnedInv'
    BY <1>2, <2>1, <2>2 DEF OwnInv, OwnedInv, TypeOK
  <2>4. DistinctInv'
    BY <1>2, <2>1, <2>2 DEF OwnInv, DistinctInv, TypeOK
  <2>5. \A f \in Field : handle'[f] = IF f = first THEN Null ELSE handle[f]
    BY <1>2, <2>2 DEF TypeOK
  <2>6. EmptyInv'
    BY <1>3, <1>4, <2>2, <2>5 DEF OwnInv, EmptyInv
  <2>. QED BY <1>4, <1>5, <2>3, <2>4, <2>6 DEF OwnInv
<1>8. CASE SkipOne("bg")
  <2>1. Owners = Field /\ Owners' = Field
    BY <1>1, <1>4, <1>8 DEF SkipOne, Owners, BeingNulled, TypeOK
  <2>2. handle' = handle /\ open' = open /\ todo'["bg"] = Tail(todo["bg"]) /\ handle[first] = Null
    BY <1>1, <1>8 DEF SkipOne, external, TypeOK
  <2>3. OwnedInv' /\ DistinctInv'
    BY <2>1, <2>2 DEF OwnInv, OwnedInv, DistinctInv
  <2>4. EmptyInv'
    BY <1>3, <1>4, <2>2 DEF OwnInv, EmptyInv
  <2>. QED BY <1>4, <1>5, <2>3, <2>4 DEF OwnInv
<1>. QED BY <1>6, <1>7, <1>8 DEF Closing

\* A new handle goes into an empty field.
LEMMA OwnNewHandle ==
  ASSUME TypeOK, OwnInv, running, Owners = Field, Owners' = Field,
         NEW f \in Field, NEW h \in Handle \ open, handle[f] = Null,
         handle' = [handle EXCEPT ![f] = h], open' = open \union {h}
  PROVE  OwnedInv' /\ DistinctInv'
<1>1. h # Null
  BY NullAssumption
<1>2. \A g \in Field : handle'[g] = IF g = f THEN h ELSE handle[g]
  BY DEF TypeOK
<1>3. OwnedInv'
  BY <1>1, <1>2 DEF OwnInv, OwnedInv
<1>4. \A g \in Field : handle[g] # h
  BY <1>1 DEF OwnInv, OwnedInv
<1>5. DistinctInv'
  BY <1>2, <1>4 DEF OwnInv, DistinctInv
<1>. QED BY <1>3, <1>5

LEMMA OwnCreate ==
  ASSUME TypeOK, NullingInv, OwnInv, running, OpenSession \/ OpenConnect \/ OpenRequest \/ Upgrade
  PROVE  OwnInv'
<1> USE DEF OpenSession, OpenConnect, OpenRequest, Create, Upgrade, Goto, BgRest, closing
<1>1. PICK f \in Field, h \in Handle \ open :
        /\ handle' = [handle EXCEPT ![f] = h] /\ open' = open \union {h}
        /\ \/ f = "session"   /\ bg = "session" /\ bg' = "connect"
           \/ f = "connect"   /\ bg = "connect" /\ bg' = "request"
           \/ f = "request"   /\ bg = "request" /\ bg' = "upgrade"
           \/ f = "websocket" /\ bg = "upgrade" /\ bg' = "drop request"
  BY DEF Field
<1>2. Calm("bg") /\ ~nulling["bg"] /\ UNCHANGED <<todo, nulling, main, running>>
  BY DEF NullingInv, Closer
<1>3. Owners = Field /\ Owners' = Field
  BY <1>1, <1>2 DEF Owners, BeingNulled
<1>4. \A g \in Field : ~Pending(g)
  BY <1>2, NonePending
<1>5. handle[f] = Null
  BY <1>1, <1>4 DEF OwnInv, EmptyInv
<1>6. OwnedInv' /\ DistinctInv'
  BY <1>1, <1>3, <1>5, OwnNewHandle
<1>7. \A g \in Field : g # f => handle'[g] = handle[g]
  BY <1>1 DEF TypeOK
<1>8. EmptyInv'
  BY <1>1, <1>4, <1>7 DEF OwnInv, EmptyInv, Field
<1>9. OnlyCloser' /\ CalmInv'
  BY <1>2 DEF OwnInv, OnlyCloser, CalmInv, Calm
<1>. QED BY <1>6, <1>8, <1>9 DEF OwnInv

\* Where close_handles() is called, no field is being nulled.
LEMMA OwnCloseHandles ==
  ASSUME TypeOK, NullingInv, OwnInv, running,
         Calm("bg"), CloseHandles("bg") \/ CloseHandlesTwice("bg"),
         UNCHANGED <<handle, open, running, main>>,
         bg # "null request", bg' \in {"session", "backoff"}
  PROVE  OwnInv'
<1>1. /\ todo'["bg"] = AllFields \/ todo'["bg"] = AllFields \o AllFields
      /\ todo'["main"] = todo["main"] /\ nulling' = nulling
  BY DEF CloseHandles, CloseHandlesTwice, TypeOK, Closer
<1>2. Owners = Field /\ Owners' = Field
  BY <1>1 DEF NullingInv, Closer, Owners, BeingNulled
<1>3. \A f \in Field : Pending(f)'
  BY <1>1, AllFieldsAll DEF Pending
<1>4. OwnedInv' /\ DistinctInv'
  BY <1>2 DEF OwnInv, OwnedInv, DistinctInv
<1>5. EmptyInv'
  BY <1>3 DEF EmptyInv
<1>6. OnlyCloser' /\ CalmInv'
  BY <1>1 DEF OwnInv, OnlyCloser, CalmInv, Calm
<1>. QED BY <1>4, <1>5, <1>6 DEF OwnInv

\* request_ is closed in one step and nulled in the next.
LEMMA OwnRequest ==
  ASSUME TypeOK, NullingInv, OwnInv, running, DropRequest \/ NullRequest
  PROVE  OwnInv'
<1>1. Calm("bg") /\ ~nulling["bg"] /\ UNCHANGED <<todo, nulling, main, running>>
  BY DEF DropRequest, NullRequest, Goto, BgRest, closing, NullingInv, Closer
<1>2. OnlyCloser' /\ CalmInv'
  BY <1>1 DEF OwnInv, OnlyCloser, CalmInv, Calm
<1>3. EmptyInv'
  BY DEF DropRequest, NullRequest, Goto, EmptyInv
<1>4. CASE DropRequest
  <2>1. Owners = Field /\ Owners' = Field \ {"request"}
    BY <1>1, <1>4 DEF DropRequest, Goto, Owners, BeingNulled
  <2>2. handle' = handle /\ open' = open \ {handle["request"]}
    BY <1>4 DEF DropRequest, Close
  <2>3. OwnedInv' /\ DistinctInv'
    BY <2>1, <2>2 DEF OwnInv, OwnedInv, DistinctInv, Field
  <2>. QED BY <1>2, <1>3, <2>3 DEF OwnInv
<1>5. CASE NullRequest
  <2>1. Owners = Field \ {"request"} /\ Owners' = Field
    BY <1>1, <1>5 DEF NullRequest, Goto, Owners, BeingNulled
  <2>2. open' = open /\ \A g \in Field : handle'[g] = IF g = "request" THEN Null ELSE handle[g]
    BY <1>5 DEF NullRequest, external, TypeOK
  <2>3. OwnedInv'
    BY <2>1, <2>2 DEF OwnInv, OwnedInv, Field
  <2>4. DistinctInv'
    BY <2>1, <2>2 DEF OwnInv, DistinctInv
  <2>. QED BY <1>2, <1>3, <2>3, <2>4 DEF OwnInv
<1>. QED BY <1>4, <1>5

LEMMA OwnBackground ==
  ASSUME TypeOK, NullingInv, OwnInv, running, Background
  PROVE  OwnInv'
<1>1. CASE Loop \/ Publish \/ SendJoin \/ Awake \/ TestConnected
  <2>1. /\ Calm("bg") /\ UNCHANGED <<handle, open, todo, nulling, running, main>>
        /\ bg \in {"loop", "test", "join", "publish", "sleep", "backoff"}
        /\ bg' \in {"test", "done", "publish", "sleep", "loop"}
    BY <1>1 DEF Loop, Publish, SendJoin, Awake, TestConnected, Goto, BgRest, closing, external
  <2>2. OnlyCloser'
    BY <2>1 DEF OwnInv, OnlyCloser, Calm
  <2>. QED BY <2>1, <2>2, OwnUnchanged
<1>2. CASE BeginConnect
  BY <1>2, OwnCloseHandles DEF BeginConnect, Goto, BgRest, external
<1>3. CASE OpenSession \/ OpenConnect \/ OpenRequest \/ Upgrade
  BY <1>3, OwnCreate
<1>4. CASE DropRequest \/ NullRequest
  BY <1>4, OwnRequest
<1>5. ASSUME NEW step \in Attempt, ConnectFails(step) PROVE OwnInv'
  BY <1>5, OwnCloseHandles DEF ConnectFails, Fails, Goto, Attempt, BgRest, external
<1>6. CASE Closing("bg")
  BY <1>6, OwnClosing
<1>. QED BY <1>1, <1>2, <1>3, <1>4, <1>5, <1>6 DEF Background

\* The steps of the others, as long as running_ stays set.
LEMMA OwnOthers ==
  ASSUME NullingInv, OwnInv, running, running',
         BeginSend \/ EndSend \/ StopHook \/ LinkDies \/ Shutdown \/ UNCHANGED vars
  PROVE  OwnInv'
<1>1. CASE BeginSend \/ EndSend \/ StopHook \/ LinkDies \/ UNCHANGED vars
  <2>1. /\ UNCHANGED <<handle, open, todo, nulling, running, bg>>
        /\ main' = main \/ main' = "stop"
    BY <1>1 DEF BeginSend, EndSend, StopHook, LinkDies, vars, HookRest, MainRest, closing, external
  <2>2. BeingNulled' = BeingNulled
    BY <2>1 DEF BeingNulled
  <2>. QED BY <2>1, <2>2 DEF OwnInv, OnlyCloser, Owners, CalmInv, OwnedInv, DistinctInv, EmptyInv,
                             Pending, Calm
<1>2. ~Shutdown
  <2>1. main \in {"wait", "stop"} /\ Calm("main") /\ ~nulling["main"]
    BY DEF OwnInv, OnlyCloser, NullingInv, Closer
  <2>2. ~Closing("main")
    BY <2>1 DEF Closing, CloseOne, NullOne, SkipOne
  <2>3. ~StopRunning /\ ~CloseWebSocket /\ ~JoinThread
    BY <2>1 DEF StopRunning, CloseWebSocket, JoinThread
  <2>. QED BY <2>2, <2>3 DEF Shutdown
<1>. QED BY <1>1, <1>2

LEMMA OwnStep == TypeOK /\ NullingInv /\ OwnInv /\ [Next]_vars => OwnInv'
<1> SUFFICES ASSUME TypeOK, NullingInv, OwnInv, [Next]_vars, running' PROVE OwnInv'
  BY DEF OwnInv
<1>1. running
  BY DEF Next, Background, Shutdown, Closing, CloseOne, NullOne, SkipOne, Loop, TestConnected,
         BeginConnect, OpenSession, OpenConnect, OpenRequest, Create, Upgrade, DropRequest,
         NullRequest, SendJoin, Publish, Awake, ConnectFails, Fails, StopRunning, CloseWebSocket,
         JoinThread, BeginSend, EndSend, StopHook, LinkDies, Terminated, vars, BgRest, HookRest
<1>2. ASSUME NEW step \in Attempt, ConnectFails(step) PROVE OwnInv'
  BY <1>1, <1>2, OwnCloseHandles DEF ConnectFails, Fails, Goto, Attempt, BgRest, external
<1>. QED BY <1>1, <1>2, OwnBackground, OwnOthers DEF Next, Terminated

\* Up to shutdown() reconnecting neither leaks a handle nor closes one twice.
THEOREM EveryHandleOwned == Spec => []HandlesOwned
<1>1. Init => OwnInv
  <2> SUFFICES ASSUME Init PROVE OwnInv  OBVIOUS
  <2>1. Calm("main") /\ Calm("bg") /\ \A f \in Field : handle[f] = Null
    BY DEF Init, Calm, Closer
  <2>. QED BY <2>1 DEF Init, OwnInv, OnlyCloser, CalmInv, OwnedInv, DistinctInv, EmptyInv, Owners
<1>2. OwnInv => HandlesOwned
  <2> SUFFICES ASSUME OwnedInv
               PROVE  open = {handle[f] : f \in Field \ BeingNulled} \ {Null}
    BY DEF OwnInv, HandlesOwned
  <2>. QED BY DEF OwnedInv, Owners
<1>. QED BY <1>1, <1>2, TypeCorrect, OwnStep, PTL DEF Spec
=============================================================================
