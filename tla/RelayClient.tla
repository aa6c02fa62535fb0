---------------------------- MODULE RelayClient ----------------------------
(***************************************************************************)
(* RelayClient of primary-pc-forwarder/src/relay_client.cpp and the three  *)
(* threads that use it: the hook thread calls send_packet() for a mouse    *)
(* event, the background thread runs connect_loop(), and main() calls      *)
(* shutdown() after the hook thread has ended, and again through the       *)
(* destructor.  connected_ and running_ are atomic; the four handles are   *)
(* plain fields that no lock protects.                                     *)
(*                                                                         *)
(* WinHTTP is external: a call that creates a handle may return a value    *)
(* that was used before and is closed now, a call on a handle that is not  *)
(* open fails, and closing a handle does not close those created from it.  *)
(***************************************************************************)
EXTENDS Integers, Sequences

CONSTANTS
  Handle,    \* the values WinHTTP may return
  Null,      \* nullptr
  MaxFaults  \* bound: connections that die and WinHTTP calls that fail in a run

ASSUME NullAssumption == Null \notin Handle
ASSUME MaxFaultsAssumption == MaxFaults \in Nat

VARIABLES
  handle,     \* session_, connect_, request_ and websocket_
  connected,  \* connected_
  running,    \* running_
  bg,         \* where the background thread is in connect_loop()
  hook,       \* where the hook thread is in send_packet()
  ptr,        \* the websocket_ that the hook thread has read
  main,       \* where main() is in its cleanup
  todo,       \* fields a thread in close_handles() has still to go through
  nulling,    \* whether it has closed the first of them and not yet nulled it
  open,       \* external: the handles that are open
  usable,     \* external: those of them that are connected WebSockets
  joined,     \* external: those of them the join message was sent on
  faults      \* counter for the bound

vars == <<handle, connected, running, bg, hook, ptr, main, todo, nulling,
          open, usable, joined, faults>>

external == <<open, usable, joined>>
closing  == <<todo, nulling>>

Field  == {"session", "connect", "request", "websocket"}
Closer == {"bg", "main"}

\* The order of close_handles().
AllFields == <<"websocket", "request", "connect", "session">>

BgPC   == {"loop", "test", "session", "connect", "request", "upgrade", "drop request",
           "null request", "join", "publish", "sleep", "backoff", "done"}
HookPC == {"idle", "send", "ended"}
MainPC == {"wait", "stop", "close", "join", "returned", "close again", "join again", "done"}
Attempt == {"session", "connect", "request", "upgrade", "join"}

Init ==
  /\ handle    = [f \in Field |-> Null]
  /\ connected = FALSE
  /\ running   = TRUE
  /\ bg   = "loop"
  /\ hook = "idle" /\ ptr = Null
  /\ main = "wait"
  /\ todo = [t \in Closer |-> <<>>] /\ nulling = [t \in Closer |-> FALSE]
  /\ open = {} /\ usable = {} /\ joined = {}
  /\ faults = 0
-----------------------------------------------------------------------------
\* WinHttpCloseHandle: it fails, without effect, on a handle that is not open.
Close(h) ==
  /\ open'   = open \ {h}
  /\ usable' = usable \ {h}
  /\ joined' = joined \ {h}

\* A thread goes on with its own code when close_handles() has returned.
Calm(t) == todo[t] = <<>>

CloseHandles(t) ==
  /\ todo' = [todo EXCEPT ![t] = AllFields]
  /\ UNCHANGED nulling

\* After a failure do_connect() and then connect_loop() call it.
CloseHandlesTwice(t) ==
  /\ todo' = [todo EXCEPT ![t] = AllFields \o AllFields]
  /\ UNCHANGED nulling

CloseOne(t) ==
  /\ ~Calm(t) /\ ~nulling[t]
  /\ handle[Head(todo[t])] # Null
  /\ Close(handle[Head(todo[t])])
  /\ nulling' = [nulling EXCEPT ![t] = TRUE]
  /\ UNCHANGED <<handle, connected, running, bg, hook, ptr, main, todo, faults>>

NullOne(t) ==
  /\ nulling[t]
  /\ handle'  = [handle EXCEPT ![Head(todo[t])] = Null]
  /\ nulling' = [nulling EXCEPT ![t] = FALSE]
  /\ todo'    = [todo EXCEPT ![t] = Tail(@)]
  /\ UNCHANGED <<connected, running, bg, hook, ptr, main, external, faults>>

SkipOne(t) ==
  /\ ~Calm(t) /\ ~nulling[t]
  /\ handle[Head(todo[t])] = Null
  /\ todo' = [todo EXCEPT ![t] = Tail(@)]
  /\ UNCHANGED <<handle, connected, running, bg, hook, ptr, main, nulling, external, faults>>
-----------------------------------------------------------------------------
Goto(from, to) == bg = from /\ Calm("bg") /\ bg' = to
BgRest == <<running, hook, ptr, main>>

\* Mutant: the loop never looks at running_.
LoopForever ==
  /\ Goto("loop", "test")
  /\ UNCHANGED <<handle, connected, closing, external, faults, BgRest>>

Loop ==
  /\ Goto("loop", IF running THEN "test" ELSE "done")
  /\ UNCHANGED <<handle, connected, closing, external, faults, BgRest>>

TestConnected ==
  /\ connected
  /\ Goto("test", "sleep")
  /\ UNCHANGED <<handle, connected, closing, external, faults, BgRest>>

BeginConnect ==
  /\ ~connected
  /\ Goto("test", "session")
  /\ CloseHandles("bg")
  /\ UNCHANGED <<handle, connected, external, faults, BgRest>>

\* One call that creates the handle of field f, from the handle of field parent.
Create(f, parent, to) ==
  /\ Goto(f, to)
  /\ parent # "none" => handle[parent] \in open
  /\ \E h \in Handle \ open :
       /\ handle' = [handle EXCEPT ![f] = h]
       /\ open' = open \union {h}
  /\ UNCHANGED <<connected, usable, joined, closing, faults, BgRest>>

OpenSession == Create("session", "none", "connect")
OpenConnect == Create("connect", "session", "request")
OpenRequest == Create("request", "connect", "upgrade")

\* Options, request, response and upgrade: four calls on the request handle
\* whose failures are handled alike.
Upgrade ==
  /\ Goto("upgrade", "drop request")
  /\ handle["request"] \in open
  /\ \E h \in Handle \ open :
       /\ handle' = [handle EXCEPT !["websocket"] = h]
       /\ open' = open \union {h}
       /\ usable' = usable \union {h}
  /\ UNCHANGED <<connected, joined, closing, faults, BgRest>>

DropRequest ==
  /\ Goto("drop request", "null request")
  /\ Close(handle["request"])
  /\ UNCHANGED <<handle, connected, closing, faults, BgRest>>

\* Mutant: the field keeps the closed handle.
NullRequestForgotten ==
  /\ Goto("null request", "join")
  /\ UNCHANGED <<handle, connected, closing, external, faults, BgRest>>

\* Mutant: do_connect() publishes connected_, before the join message.
NullRequestPublishes ==
  /\ Goto("null request", "join")
  /\ handle' = [handle EXCEPT !["request"] = Null]
  /\ connected' = TRUE
  /\ UNCHANGED <<closing, external, faults, BgRest>>

NullRequest ==
  /\ Goto("null request", "join")
  /\ handle' = [handle EXCEPT !["request"] = Null]
  /\ UNCHANGED <<connected, closing, external, faults, BgRest>>

\* Mutant: the message is sent on request_, a handle of the same type.
SendJoinOnRequest ==
  /\ Goto("join", "publish")
  /\ joined' = joined \union {handle["request"]}
  /\ UNCHANGED <<handle, connected, open, usable, closing, faults, BgRest>>

SendJoin ==
  /\ Goto("join", "publish")
  /\ handle["websocket"] \in usable
  /\ joined' = joined \union {handle["websocket"]}
  /\ UNCHANGED <<handle, connected, open, usable, closing, faults, BgRest>>

Publish ==
  /\ Goto("publish", "sleep")
  /\ connected' = TRUE
  /\ UNCHANGED <<handle, closing, external, faults, BgRest>>

\* The call needs a handle that has been closed or a connection that is gone.
Doomed(step) ==
  \/ step = "connect" /\ handle["session"] \notin open
  \/ step = "request" /\ handle["connect"] \notin open
  \/ step = "upgrade" /\ handle["request"] \notin open
  \/ step = "join"    /\ handle["websocket"] \notin usable

\* A call fails for that reason or by itself.
Fails(step, to) ==
  /\ Goto(step, to)
  /\ \/ Doomed(step) /\ UNCHANGED faults
     \/ ~Doomed(step) /\ faults < MaxFaults /\ faults' = faults + 1
  /\ IF step \in {"session", "join"} THEN CloseHandles("bg") ELSE CloseHandlesTwice("bg")
  /\ UNCHANGED <<handle, connected, external, BgRest>>

\* Mutant: the first failed attempt ends the thread.
ConnectFailsForGood(step) == Fails(step, "done")

ConnectFails(step) == Fails(step, "backoff")

\* The sleeps of a second, and of two seconds or until running_ is false.
Awake ==
  /\ Goto("sleep", "loop") \/ Goto("backoff", "loop")
  /\ UNCHANGED <<handle, connected, closing, external, faults, BgRest>>
-----------------------------------------------------------------------------
HookRest == <<handle, running, bg, main, closing, external, faults>>

BeginSend ==
  /\ hook = "idle" /\ connected /\ handle["websocket"] # Null
  /\ ptr' = handle["websocket"]
  /\ hook' = "send"
  /\ UNCHANGED <<connected, HookRest>>

\* The field is read once or twice: nothing orders the test and the use.
EndSend ==
  /\ hook = "send"
  /\ \E h \in {ptr, handle["websocket"]} :
       connected' = IF h \in usable THEN connected ELSE FALSE
  /\ ptr' = Null
  /\ hook' = "idle"
  /\ UNCHANGED HookRest
-----------------------------------------------------------------------------
MainRest == <<bg, ptr, faults>>

\* hook.stop() joins the hook thread before relay->shutdown() is called.
StopHook ==
  /\ main = "wait" /\ hook = "idle"
  /\ hook' = "ended" /\ main' = "stop"
  /\ UNCHANGED <<handle, connected, running, closing, external, MainRest>>

StopRunning ==
  /\ \/ main = "stop"     /\ main' = "close"
     \/ main = "returned" /\ main' = "close again"
  /\ running' = FALSE
  /\ UNCHANGED <<handle, connected, hook, closing, external, MainRest>>

\* WinHttpWebSocketClose ends the use of the connection, not of its handle.
CloseWebSocket ==
  /\ \/ main = "close"       /\ main' = "join"
     \/ main = "close again" /\ main' = "join again"
  /\ usable' = usable \ {handle["websocket"]}
  /\ CloseHandles("main")
  /\ UNCHANGED <<handle, connected, running, hook, open, joined, MainRest>>

\* The thread is joined the first time only; it has ended by the second.
JoinThread ==
  /\ \/ main = "join"       /\ main' = "returned"
     \/ main = "join again" /\ main' = "done"
  /\ Calm("main") /\ bg = "done" /\ Calm("bg")
  /\ connected' = FALSE
  /\ UNCHANGED <<handle, running, hook, closing, external, MainRest>>
-----------------------------------------------------------------------------
\* The relay goes away: the next send on the connection fails.
LinkDies ==
  /\ faults < MaxFaults
  /\ \E h \in usable : usable' = usable \ {h}
  /\ faults' = faults + 1
  /\ UNCHANGED <<handle, connected, running, bg, hook, ptr, main, closing, open, joined>>

\* The process exits.
Terminated == main = "done" /\ UNCHANGED vars

Closing(t) == CloseOne(t) \/ NullOne(t) \/ SkipOne(t)

\* connect_loop() when no WinHTTP call fails by itself.
Background ==
  \/ Loop \/ TestConnected \/ BeginConnect
  \/ OpenSession \/ OpenConnect \/ OpenRequest \/ Upgrade
  \/ DropRequest \/ NullRequest \/ SendJoin \/ Publish \/ Awake
  \/ \E step \in Attempt : Doomed(step) /\ ConnectFails(step)
  \/ Closing("bg")

Shutdown == StopRunning \/ CloseWebSocket \/ Closing("main") \/ JoinThread

Next ==
  \/ Background \/ Shutdown
  \/ \E step \in Attempt : ~Doomed(step) /\ ConnectFails(step)
  \/ BeginSend \/ EndSend \/ StopHook \/ LinkDies
  \/ Terminated

\* The threads are scheduled and their WinHTTP calls return; nobody has to
\* move the mouse, to press Ctrl+C or to make a call fail.
Spec == Init /\ [][Next]_vars /\ WF_vars(Background) /\ WF_vars(Shutdown)
-----------------------------------------------------------------------------
(***************************************************************************)
(* The types of the fields and positions; a message is only ever sent on   *)
(* an open handle.                                                         *)
(***************************************************************************)
TypeOK ==
  /\ handle \in [Field -> Handle \union {Null}]
  /\ connected \in BOOLEAN /\ running \in BOOLEAN
  /\ bg \in BgPC /\ hook \in HookPC /\ main \in MainPC
  /\ ptr \in Handle \union {Null}
  /\ todo \in [Closer -> Seq(Field)] /\ nulling \in [Closer -> BOOLEAN]
  /\ open \subseteq Handle /\ usable \subseteq open /\ joined \subseteq open
  /\ faults \in 0 .. MaxFaults

(***************************************************************************)
(* No packet overtakes the join message or goes to a handle that is being  *)
(* replaced: although no lock protects websocket_, while the hook thread   *)
(* is in send_packet() the field does not change and holds an open         *)
(* connection on which the join message was sent.                          *)
(***************************************************************************)
SendsOnJoinedSocket ==
  hook = "send" => ptr = handle["websocket"] /\ ptr \in joined

(***************************************************************************)
(* Until shutdown() every open handle is in one field, and every field     *)
(* holds an open handle or nullptr, but for the one just being cleared:    *)
(* reconnecting, however often it fails, neither leaks a handle nor closes *)
(* one twice (which may hit another handle of the same value).             *)
(***************************************************************************)
BeingNulled == (IF nulling["bg"] THEN {Head(todo["bg"])} ELSE {})
         \union (IF bg = "null request" THEN {"request"} ELSE {})

HandlesOwned ==
  running => open = {handle[f] : f \in Field \ BeingNulled} \ {Null}

(***************************************************************************)
(* shutdown() is never blocked: the background thread leaves its loop from *)
(* wherever it is, also when its handles are closed under its hands.       *)
(***************************************************************************)
ShutdownReturns == main = "stop" ~> main = "done"

(***************************************************************************)
(* After failed attempts and lost connections alike the client is          *)
(* connected again, unless it is shut down.                                *)
(***************************************************************************)
Reconnects == running /\ ~connected ~> connected \/ ~running

(***************************************************************************)
(* relay_client.h:32, of shutdown(): "Tear down connection."  When it has  *)
(* returned, no connection to the relay is open.                           *)
(***************************************************************************)
TornDown == main = "returned" => usable = {}
=============================================================================
