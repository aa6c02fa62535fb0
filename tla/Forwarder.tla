----------------------------- MODULE Forwarder -----------------------------
(***************************************************************************)
(* The life of the forwarder process: main() of                            *)
(* primary-pc-forwarder/src/main.cpp from load_config() to the destructors *)
(* of its objects, with the hook thread of mouse_hook.cpp from start() to  *)
(* stop() and the callbacks in it, NetworkTransmitter::init() and          *)
(* shutdown(), and RelayClient::init().                                    *)
(*                                                                         *)
(* RelayClient after init() is the subject of RelayClient, the contents of *)
(* the packets that of NetworkInput.  Windows is external: a thread has a  *)
(* message queue from the time SetWindowsHookExW succeeds, and a WM_QUIT   *)
(* posted before that is lost.                                             *)
(***************************************************************************)
EXTENDS ForwarderConfig

CONSTANT File  \* the contents that config.ini may have: sequences of lines

ASSUME FileAssumption == File \subseteq Seq(Text)

VARIABLES
  pc,        \* where main() is
  file,      \* external: config.ini
  cfg,       \* cfg
  target,    \* host_, port_, path_ and use_tls_ of the relay client
  running,   \* g_running
  handler,   \* whether ConsoleCtrlHandler is installed
  wsa,       \* wsa_up_
  sock,      \* whether sock_ is a socket
  relay,     \* the relay client: "none", "running", or "shut" after shutdown()
  instance,  \* whether g_instance is set
  hook,      \* where the hook thread is, "joined" when thread_ is not joinable
  quit,      \* whether WM_QUIT is in the queue of the hook thread
  dying      \* external: Windows ends the process when the handler returns

vars == <<pc, file, cfg, target, running, handler, wsa, sock, relay,
          instance, hook, quit, dying>>

input   == <<file, cfg, target>>
network == <<wsa, sock>>
thread  == <<instance, hook, quit>>
control == <<running, handler, dying>>

Final  == {"exited", "aborted", "killed"}
MainPC == {"load", "network", "relay", "start", "handler", "wait", "stop", "join",
           "shut relay", "shut network", "~hook", "~relay", "~net"} \union Final
HookPC == {"none", "starting", "installing", "pumping", "udp", "relay", "unhook",
           "ended", "joined"}

NoTarget == [use_tls |-> TRUE, host |-> <<>>, path |-> <<>>, port |-> 443]

Init ==
  /\ file \in File
  /\ pc = "load" /\ cfg = Default /\ target = NoTarget
  /\ running = TRUE /\ handler = FALSE /\ dying = FALSE
  /\ wsa = FALSE /\ sock = FALSE
  /\ relay = "none"
  /\ instance = FALSE /\ hook = "none" /\ quit = FALSE
-----------------------------------------------------------------------------
(* main(), and what it calls. *)

Goto(from, to) == pc = from /\ pc' = to

Load ==
  /\ Goto("load", "network")
  /\ ~LoadThrows(file)
  /\ cfg' = LoadConfig(file)
  /\ UNCHANGED <<file, target, network, relay, thread, control>>

\* Nothing catches what std::stoi throws: std::terminate().
LoadAborts ==
  /\ Goto("load", "aborted")
  /\ LoadThrows(file)
  /\ UNCHANGED <<input, network, relay, thread, control>>

InitNetwork ==
  /\ Goto("network", "relay")
  /\ wsa' = TRUE /\ sock' = TRUE
  /\ UNCHANGED <<input, relay, thread, control>>

\* A failure returns from init() with what has been done so far in place:
\* WSAStartup; getaddrinfo or socket; ioctlsocket.
InitNetworkFails ==
  /\ Goto("network", "~net")
  /\ \E done \in {<<FALSE, FALSE>>, <<TRUE, FALSE>>, <<TRUE, TRUE>>} :
       wsa' = done[1] /\ sock' = done[2]
  /\ UNCHANGED <<input, relay, thread, control>>

WantsRelay == cfg.use_relay /\ cfg.relay_url # <<>>

InitRelay ==
  /\ Goto("relay", "start")
  /\ WantsRelay /\ ~UrlRefused(cfg.relay_url) /\ ~UrlThrows(cfg.relay_url)
  /\ target' = ParsedUrl(cfg.relay_url)
  /\ relay' = "running"
  /\ UNCHANGED <<file, cfg, network, thread, control>>

\* Not configured, or refused by init(): relay is reset and main() goes on.
NoRelay ==
  /\ Goto("relay", "start")
  /\ WantsRelay => UrlRefused(cfg.relay_url)
  /\ UNCHANGED <<input, network, relay, thread, control>>

InitRelayAborts ==
  /\ Goto("relay", "aborted")
  /\ WantsRelay /\ UrlThrows(cfg.relay_url)
  /\ UNCHANGED <<input, network, relay, thread, control>>

\* The constructor of MouseHook and start(), which sees no other instance.
StartHook ==
  /\ Goto("start", "handler")
  /\ instance' = TRUE /\ hook' = "starting"
  /\ UNCHANGED <<input, network, relay, quit, control>>

InstallHandler ==
  /\ Goto("handler", "wait")
  /\ handler' = TRUE
  /\ UNCHANGED <<input, network, relay, thread, running, dying>>

\* The loop of main() tests g_running every 100 ms.
Stopped ==
  /\ Goto("wait", "stop") /\ ~running
  /\ UNCHANGED <<input, network, relay, thread, control>>

\* thread_id_ is set by the thread; its queue exists between the hook's
\* installation and the thread's end.
ThreadIdSet == hook \notin {"none", "starting"}
HasQueue    == hook \in {"pumping", "udp", "relay", "unhook"}

\* Mutant: the message is posted to the main thread, as in the console handler.
PostQuitToMain ==
  /\ Goto("stop", "join")
  /\ UNCHANGED <<input, network, relay, thread, control>>

\* The first half of MouseHook::stop().
PostQuit ==
  /\ Goto("stop", "join")
  /\ quit' = (ThreadIdSet /\ HasQueue)
  /\ UNCHANGED <<input, network, relay, instance, hook, control>>

\* Mutant: stop() does not wait for the thread.
Detach ==
  /\ Goto("join", "shut relay")
  /\ instance' = FALSE
  /\ UNCHANGED <<input, network, relay, hook, quit, control>>

\* The second half: join(), and g_instance is cleared.
JoinHook ==
  /\ Goto("join", "shut relay")
  /\ hook = "ended"
  /\ hook' = "joined" /\ instance' = FALSE
  /\ UNCHANGED <<input, network, relay, quit, control>>

\* `if (relay) relay->shutdown()`, and again by the destructor.
ShutRelay ==
  /\ Goto("shut relay", "shut network") \/ Goto("~relay", "~net")
  /\ relay' = IF relay = "running" THEN "shut" ELSE relay
  /\ UNCHANGED <<input, network, thread, control>>

\* Mutant: WSACleanup is called for a socket only.
ShutNetworkWithSocket ==
  /\ Goto("shut network", "~hook") \/ Goto("~net", "exited")
  /\ sock' = FALSE /\ wsa' = (wsa /\ ~sock)
  /\ UNCHANGED <<input, relay, thread, control>>

\* NetworkTransmitter::shutdown(), and again by the destructor, which is the
\* only call when init() has failed.
ShutNetwork ==
  /\ Goto("shut network", "~hook") \/ Goto("~net", "exited")
  /\ sock' = FALSE /\ wsa' = FALSE
  /\ UNCHANGED <<input, relay, thread, control>>

\* ~MouseHook calls stop() on a thread that is not joinable any more.
DestroyHook ==
  /\ Goto("~hook", "~relay")
  /\ instance' = FALSE
  /\ UNCHANGED <<input, network, relay, hook, quit, control>>
-----------------------------------------------------------------------------
(* The hook thread. *)

Alive == pc \notin Final

HookGoto(from, to) == Alive /\ hook = from /\ hook' = to
HookRest == <<pc, input, network, relay, instance, control>>

SetThreadId ==
  /\ HookGoto("starting", "installing")
  /\ UNCHANGED <<quit, HookRest>>

Install ==
  /\ HookGoto("installing", "pumping")
  /\ UNCHANGED <<quit, HookRest>>

\* The thread ends; start() has returned true already.
InstallFails ==
  /\ HookGoto("installing", "ended")
  /\ UNCHANGED <<quit, HookRest>>

\* Windows calls LowLevelMouseProc inside GetMessageW, for an injected event.
Callback ==
  /\ HookGoto("pumping", "udp")
  /\ instance
  /\ UNCHANGED <<quit, HookRest>>

\* transmitter_->send_packet(), then the test of relay_ and is_connected().
SendUdp ==
  /\ \/ HookGoto("udp", "relay") /\ relay = "running"
     \/ HookGoto("udp", "pumping")
  /\ UNCHANGED <<quit, HookRest>>

SendRelay ==
  /\ HookGoto("relay", "pumping")
  /\ UNCHANGED <<quit, HookRest>>

\* GetMessageW returns 0.
TakeQuit ==
  /\ HookGoto("pumping", "unhook")
  /\ quit
  /\ quit' = FALSE
  /\ UNCHANGED HookRest

Unhook ==
  /\ HookGoto("unhook", "ended")
  /\ UNCHANGED <<quit, HookRest>>
-----------------------------------------------------------------------------
(* Console events. *)

\* Ctrl+C and Ctrl+Break.  The WM_QUIT that the handler posts to the main
\* thread is never read.
CtrlC ==
  /\ Alive /\ handler
  /\ running' = FALSE
  /\ UNCHANGED <<pc, input, network, relay, thread, handler, dying>>

\* The console is closed, or the session ends.
Close ==
  /\ Alive /\ handler
  /\ running' = FALSE /\ dying' = TRUE
  /\ UNCHANGED <<pc, input, network, relay, thread, handler>>

\* Windows ends the process: after Close, or for any event without a handler.
Killed ==
  /\ Alive /\ (dying \/ ~handler)
  /\ pc' = "killed"
  /\ UNCHANGED <<input, network, relay, thread, control>>

Terminated == pc \in Final /\ UNCHANGED vars

StartUp ==
  \/ Load \/ LoadAborts \/ InitNetwork \/ InitNetworkFails
  \/ InitRelay \/ NoRelay \/ InitRelayAborts \/ StartHook \/ InstallHandler

CleanUp ==
  \/ Stopped \/ PostQuit \/ JoinHook
  \/ ShutRelay \/ ShutNetwork \/ DestroyHook

HookThread ==
  SetThreadId \/ Install \/ InstallFails \/ SendUdp \/ SendRelay \/ TakeQuit \/ Unhook

Next ==
  StartUp \/ CleanUp \/ HookThread \/ Callback \/ CtrlC \/ Close \/ Killed \/ Terminated

\* The threads are scheduled, which is said of main() for its clean-up, the
\* part whose progress is claimed; GetMessageW gets to the posted messages even
\* if mouse events keep arriving.
Spec == Init /\ [][Next]_vars /\ WF_vars(CleanUp) /\ WF_vars(HookThread) /\ SF_vars(TakeQuit)
-----------------------------------------------------------------------------
(***************************************************************************)
(* The fields keep their types: what load_config() and init() convert, the *)
(* port of the UDP target and that of the relay, fits 16 bits.             *)
(***************************************************************************)
TypeOK ==
  /\ pc \in MainPC /\ hook \in HookPC
  /\ DOMAIN cfg = DOMAIN Default
  /\ \A field \in Flags : cfg[field] \in BOOLEAN
  /\ {cfg.target_port, target.port} \subseteq 0 .. Uint16Values - 1
  /\ relay \in {"none", "running", "shut"}
  /\ {running, handler, wsa, sock, instance, quit, dying} \subseteq BOOLEAN

(***************************************************************************)
(* config.h:21, "Lines of the form `key = value` are recognised", in any   *)
(* capitals and with blanks, others are ignored, and missing keys keep     *)
(* their default: load_config() reads every field as it is written last.   *)
(***************************************************************************)
ConfigAsWritten ==
  pc = "network" => \A field \in DOMAIN cfg : Written(file, field, cfg[field])

(***************************************************************************)
(* A relay URL means to init() what the user meant by it: host, IPv6       *)
(* literals with their colons included, scheme, port and path.             *)
(***************************************************************************)
UrlUnderstood ==
  pc = "start" /\ WantsRelay =>
    \A d \in Url : cfg.relay_url = UrlText(d) => relay = "running" /\ target = UrlMeaning(d)

(***************************************************************************)
(* A callback of the hook thread finds the objects it uses alive, from     *)
(* its first event, before main() has gone on, to its last one, while      *)
(* main() cleans up: the transmitter has its socket, and a relay client it *)
(* sends through is not shut down.                                         *)
(***************************************************************************)
SendsOnLiveObjects ==
  Alive /\ hook \in {"udp", "relay"} =>
    /\ instance /\ wsa /\ sock
    /\ hook = "relay" => relay = "running"

(***************************************************************************)
(* However far the start got before it failed, and in whatever state       *)
(* Ctrl+C met it: when main() has returned, Winsock and its socket are     *)
(* released, the relay client is shut down, and the hook thread has ended. *)
(***************************************************************************)
ExitReleasesAll ==
  pc = "exited" =>
    /\ ~wsa /\ ~sock /\ ~instance
    /\ relay # "running"
    /\ hook \in {"none", "joined"}

(***************************************************************************)
(* README.md:99, "Press `Ctrl+C` to stop gracefully": once the hook is     *)
(* installed (or has failed to be), a console event ends the process,      *)
(* although callbacks go on and the hook thread learns of it by a message. *)
(***************************************************************************)
StopsWhenHooked ==
  pc = "wait" /\ ~running /\ hook \notin {"starting", "installing"} ~> pc \in Final
=============================================================================
