# A TLA+ model of ONEBEYOND, the HID bridge

ONEBEYOND takes the mouse events that software on a Windows PC injects and
replays them, merged with those of real mice, through a Bluetooth mouse that a
Linux machine emulates.  This directory holds TLA+ modules for the parts whose
correctness depends on the order of events, TLC configurations that check them
on small instances, and TLAPS proofs that hold for every instance.

Paths below are relative to the root of the source tree.

 1. Inventory
 2. Plan
 3. The modules
 4. The runs and their bounds
 5. Fairness
 6. Where the code and what is said of it differ
 7. The proofs
 8. What is not modelled

---------------------------------------------------------------------------

## 1. Inventory

    application --injected events--> MouseHook (hook thread, Windows)
                                        |            \
                                NetworkTransmitter   RelayClient --> relay
                                        | UDP         (hook, background, main thread)
                                        v
          mice --evdev--> LocalMouseReader   UDPListener      (Linux threads)
                                   \          /
                                  InputMerger             (one lock)
                                       | flush()
                                     main()               (main thread)
                                       | send_report()
                               BluetoothHIDProfile --L2CAP--> host

| component | state | operations | what must hold |
|---|---|---|---|
| InputMerger, `linux-hid-emulator/input_merger.py` | `_dx`, `_dy`, a button mask per source, `_lock` | `accumulate`, `flush` | calls are atomic; the clamp loses no motion; a report fits signed bytes; no flush moves against the pending motion |
| BluetoothHIDProfile, `linux-hid-emulator/bt_hid_profile.py` | two server sockets, two client sockets, `_connected` | `wait_for_connection`, `send_report`, `disconnect`, `is_connected` | `_connected` implies both channels; nothing of an earlier attempt is reused; both channels are those of one host |
| main loop, `linux-hid-emulator/hid_emulator.py` | `_running`, `last_buttons`, where it is | connect, tick, send, reconnect, shut down, signal handler | motion is accounted for; `last_buttons` is what the host sees; input arrives; hosts are served again; it ends |
| UDPListener, `linux-hid-emulator/udp_listener.py`, `protocol.py` | `_running`, the socket | bind, receive, parse, stop | masks and motion follow the sender; the newest packet repairs what was lost; `stop()` ends it |
| LocalMouseReader, `linux-hid-emulator/local_mouse.py` | open devices, a mask per device, `_running` | scan, select, read, lose a device, stop | masks follow the buttons; no motion lost; dead devices block nothing; `stop()` ends it |
| MouseHook, `primary-pc-forwarder/src/mouse_hook.cpp` | `buttons_`, `seq_`, `thread_id_`, `g_instance`, the hook thread | `handle_mouse`, `start`, `stop` | packets carry the state after the event; the difference fits its field; callbacks find their objects alive; `stop()` ends the thread |
| NetworkTransmitter, `primary-pc-forwarder/src/network.cpp` | Winsock, a non-blocking socket | `init`, `send_packet`, `shutdown` | a failed send harms nothing but its packet; a failed init leaves nothing behind |
| RelayClient, `primary-pc-forwarder/src/relay_client.cpp` | four WinHTTP handles, `connected_`, `running_`, a thread | `init`, `send_packet`, `connect_loop`, `shutdown` | no packet before the join message; no leaked or doubly closed handle; reconnects; shuts down |
| forwarder `main()`, `primary-pc-forwarder/src/main.cpp` | the objects above, `g_running` | start, wait, clean up and destroy in order; console events | the hook has ended before its clients are torn down; everything is released; a console event ends the process |
| adapter, agent and SDP setup in `bt_hid_profile.py` | BlueZ | a sequence of D-Bus calls and commands | - |
| configuration, `config.cpp`, `config.h` | `Config` | `load_config` | a field is what the file says last, or its default |
| scripts and build files | - | - | - |

How they interact.  The three Linux threads meet in InputMerger, under one
lock, and main() stops the two readers by a flag each of them polls.  On
Windows the hook thread calls NetworkTransmitter and RelayClient, whose
background thread shares its handles and two atomics with it and with main().
Everything between the two machines is one UDP datagram per event, which nobody
acknowledges.

What is hard about it, by kind:

 - *interleaving*: `+=` on a field is a load and a store; RelayClient's handles
   have no lock; close_handles() may run in two threads;
 - *stale state*: `last_buttons` against what the host sees, a mask per device
   against one for the source, `is_connected()` against the link,
   `_connected` against the sockets;
 - *partial failure*: each step of connecting (L2CAP or WebSocket) can fail and
   leave what the earlier ones made; `flush()` has consumed the motion when
   `send_report()` fails; a device goes away between `select()` and `read()`;
 - *unreliable delivery*: datagrams are lost, doubled and reordered, and the
   receive buffer and the evdev queues overflow;
 - *liveness*: `accept()` has no timeout, a dead device is readable for ever,
   shutdown joins a thread whose handles it closes;
 - *numeric edges*: the clamp at the signed byte, the difference of coordinates
   in 16 bits, the wrapping sequence number.

`PROJECT.json` lists the hazards one by one, at the line where each bites, with
the properties that cover it.

---------------------------------------------------------------------------

## 2. Plan

Done, in this order, the core first:

 1. `InputMerger`, the abstract accumulator, with proofs;
 2. `InputMergerThreads`, the code under its lock, shown to implement 1 by TLC
    and, for all constants, by TLAPS;
 3. `BluetoothHIDProfile`, with proofs, and `HostPairing`, which adds a history of what
    the hosts did during a call;
 4. `HidEmulator`, which composes 1 and 3 with main(), with proofs;
 5. `RelayClient`;
 6. `LocalMouseReader`;
 7. `NetworkInput`: hook, transmitter, UDP and listener.

 8. `ForwarderConfig` and `Forwarder`: the forwarder's texts and the life of its
    process, which places what 5 and 7 model between start and clean-up, with
    proofs;
 9. the proofs of 5: types, `SendsOnJoinedSocket` and `HandlesOwned`;
10. the proofs of every other safety property that a run checks: the accounting and
    the masks of 6 and 7, the texts of 8, the types of all, and that the program of
    4 uses its two parts as 1 and 3 specify them.

Next:

11. an end-to-end composition, from the injected event to the host: where can a
    button stay pressed, and on which paths is motion conserved;
12. an abstract specification of "a source of input" (accumulate at any moment,
    as `HidEmulator` assumes it) with `LocalMouseReader` and `NetworkInput`
    implementing it;
13. a proof of `SameDevice`: the hosts in the two accept queues correspond, as long as
    they come one by one.

---------------------------------------------------------------------------

## 3. The modules

A module's actions have the names of the methods or the branches they model.
Operators under a comment "Mutant" are plausible wrong versions of the
definition that follows; no specification uses them, they serve to see that
each property can fail.  Loops over data (`Masks`, `Sums`, `Rounds`) are recursive
functions, which TLC evaluates and the proofs can speak of.

### InputMerger

`motion` is `_dx` and `_dy`, `buttons` the two masks (a mask is the set of the
buttons whose bits are set, an OR is a union).  `Accumulate` and `Flush` are the
two methods in one step each.  `report` is the tuple that the last flush()
returned; `accepted` and `emitted` add up what went in and out.

### InputMergerThreads

The same object as its three threads execute it.  A call is `Acquire`, then for
each axis a `Load` and a store (`AddStore`: `+=`; `ClampStore`: the branches of
flush()), then the masks, then the release.  `pc`, `arg` and `loaded` are the
positions and locals of the threads, `out` the locals of flush().  The
refinement mapping shows callers the fields as they were when the holder of the
lock entered (`before`); the call takes effect at its release.  In CPython the
bytecode between two stores is invisible to others; a load and a store per
field is the granularity at which threads can interfere.

### BluetoothHIDProfile

`phase` is where the calling thread stands in wait_for_connection(), which
blocks twice; the other methods are one action each.  `server`, `client` and
`connected` are `_ctrl_sock`/`_intr_sock`, `_ctrl_client`/`_intr_client` and
`_connected`; `backlog` is the kernel's accept queue, external, as is `hostHeld`,
the buttons the host on the interrupt channel sees pressed.  `ListenFails` and
`AcceptFails` are the two except clauses: the second leaves the server sockets
listening.  A peer on a dead link stays in `client` until the socket is closed.
Hosts open the control channel before the interrupt channel, as HID requires.  They
leave at any time (`HostLeave`), which the kernel learns at once, or walk out of
range (`HostFades`), which it does not: such a host is in `away`, and its links
stay up until it returns or the kernel gives them up (`LinkTimeout`).

send_report() has three ends.  `SendReport`: send() succeeds as soon as the kernel
takes the report (`taken`), so a host out of range may cost any number of reports,
and sees the last of them if it returns in time.  `SendReportFails`: an OSError clears
`_connected`; on a link that is down it is the only outcome, on one that is up it is
possible, as any OSError counts.  `SendReportRefused`: without a connection it returns
False and changes nothing; main() never gets there.  A send() that blocks on a full
buffer is one that takes its step later, and the timeout of the link ends it.

### HostPairing

BluetoothHIDProfile with a history variable, `disturbed`: during the present call of
wait_for_connection(), a host opened its control channel between the two channels of
another one (`Overtakes`), or a host went whose control channel had been accepted
(`Abandons`).  The code does not compare the addresses of its two accepts, and in
these cases the channels can be those of two hosts; `SameDevice` says that they are
the only ones.

### HidEmulator

main(), with `InputMerger` and `BluetoothHIDProfile` as INSTANCEs whose actions
are conjoined with those of the loop.  `pc` is: `setup`, in setup(), with the
handlers installed and the input threads started; `outer`, the test of the outer
loop; `waiting`, in wait_for_connection(); `tick`, the test of the inner loop;
`send`, between flush() and the end of the iteration; `after`, behind the inner
loop; `done`.  `Input` is a call of accumulate() by either thread at any
moment: `InputMergerThreads` justifies that it is one step.  `Signal` is the
handler, which writes `_running` and nothing else; Python then resumes a blocked
accept().  `SetUpRaises` is a setup() that ends by an exception: its commands are
guarded, but for sdptool.  `sent` and `lost` are histories: the motion of the reports
that send() took, which a host out of range may never receive, and of those that it
refused.

### RelayClient

`bg` is where the background thread stands in connect_loop() and do_connect(),
`hook` where the hook thread is in send_packet(), `main` where main() is in its
cleanup, which ends with the destructor's second shutdown().  close_handles() is
a program of its own (`todo`, `nulling`) that the background thread and main()
may both be in: it takes the fields in order, closes each handle (`CloseOne`)
and assigns nullptr (`NullOne`) in another step.  `open`, `usable` and `joined`
are WinHTTP's view: a value may be handed out again when it has been closed.
The fields are plain pointers that several threads access; a send is
split in two steps, and may use either the pointer read first or that in the
field when it ends, because nothing orders the accesses.  WinHTTP calls can
fail at any time (bounded by MaxFaults) and do fail on handles that are not open.

### LocalMouseReader

`pc` walks through run() and _read_loop(): `scan`, `select`, `blocked`, `read`,
`sleep`.  `open`, `ready` and `mask` are `fd_to_dev`, what is left of `readable`
and `buttons_by_fd`; `local` and `total` are what the merger got from it.
External: which mice are attached, which open devices are alive, the queue of
each, and what the user holds.  A read takes some of the queued events, at least
one.  `Masks` is the loop
over the events, `Motion` counts their steps, and `Pending` those of all queues.
An overflowing queue keeps SYN_DROPPED and the newest event.  A device that
is gone makes read() fail.  In python-evdev read() is a generator, so the error
may also appear in the loop over the events, outside the try clause meant for
it; both are in the model (`ReadLost`, `ReadRaises`).  If evdev is not installed
the thread does nothing; that branch is left out.

### NetworkInput

From the injected event to the merger.  `buttons` and `seq` are the hook's;
`InjectMove`, `Press` and `Release` are the branches of handle_mouse() with
send_packet(); `PhysicalMove` is an event that passes the hook and moves the
cursor.  `wire` is the network, `inbox` the socket's receive buffer.  `Deliver`,
`Overtake`, `Lose`, `Duplicate` and `Stray` are what a network does.  `Encode`
and `Decode` are the 16 bits of the difference on the wire and their reading by
struct, for a field of `Limit` values.  The axes are treated alike by the code, so
the model has one.  `Sums` adds up the motion of a queue of datagrams.

### ForwarderConfig

The operators for the forwarder's two parsers.  A text is a sequence of tokens:
names, numerals, schemes, punctuation marks and blanks.  A blank token stands for
any run of blanks, so no two of them are adjacent (`Text`).  `Token` is the set of all
tokens; the assumptions say that the marks, the schemes and the names of the fields
are among them, that numerals are no marks, that only names have capitals, and what
the URLs a user can mean are made of.  `Trim`, `IEquals`,
`Skipped`, `Key`, `Value` and `Converted` are the pieces of load_config() and
`Rounds` its loop, a recursive function for each field, which `LoadConfig` collects; `LoadThrows` says when std::stoi
throws in it.  `HostPort`, `Path`, `Colon`, `Host` and `PortText` are the splits
of parse_ws_url(), `ParsedUrl` its results, `UrlRefused` and `UrlThrows` its two
other ends: a refused URL makes it return false, a port that is no number throws.
std::stoi skips blanks (`Unspaced`), takes the numeral behind them and ignores the rest.  The
capitals of a token are the function `Lower`.

The references at the end of the module are written the other way round:
`Says` and `Written` construct the lines that say something of a field,
`UrlText` writes the URL a user means, `UrlMeaning` is what it means.

### Forwarder

main() from load_config() to the destructors.  `pc` is its position: `load`,
`network`, `relay`, `start`, `handler`, `wait`, the clean-up `stop` (before
PostThreadMessage), `join`, `shut relay`, `shut network`, and the destructors
`~hook`, `~relay`, `~net`, which run the same shutdowns again.  `exited` is the
return of main(), `aborted` an exception that nobody catches, `killed` the end by
Windows.  `hook` is the position of the hook thread: `starting` before it has set
`thread_id_`, `installing` before SetWindowsHookExW has returned, `pumping` in
GetMessageW, `udp` and `relay` in a callback, `unhook`, `ended`, and `joined`.
`wsa`, `sock`, `relay`, `instance`, `running` and `handler` are `wsa_up_`, whether
`sock_` and the relay client exist, `g_instance`, `g_running`, and whether the
console handler is installed.

`InitNetworkFails` has the returns of init() by what they leave behind.
`PostQuit` posts only if `thread_id_` is set, and the message arrives only if the
thread has a queue by then (`HasQueue`).  `thread_id_` is a plain field that two
threads access; the store is one step of the hook thread, and a read before it
finds 0.  The handler runs in a thread that Windows makes for it: `CtrlC` and
`Close` are its one assignment; what it posts to the main thread nobody reads.
After a close, logoff or shutdown event Windows ends the process (`dying`,
`Killed`) wherever main() is.  A second instance of MouseHook does not exist, so
the refusal of start() is left out.

What Forwarder shows of the order of things is what the other two modules start
from: the background thread of `RelayClient` runs only after a successful init(),
its `StopHook` precedes `StopRunning` because `JoinHook` precedes `ShutRelay`, and
`NetworkInput` forwards through a transmitter that is up.

---------------------------------------------------------------------------

## 4. The runs and their bounds

| run | configuration | checks |
|---|---|---|
| merger | `MCInputMerger.cfg` | `TypeOK`, `Conservation`, `NeverReverses` |
| merger_threads | `MCInputMergerThreads.cfg` | `TypeOK`, `OwnedWhileInside`, `ThreadSafe` (refinement of InputMerger) |
| bt_profile | `MCBluetoothHIDProfile.cfg` | `TypeOK`, `ConnectedOnBoth`, `SameDevice`, `NoStaleAccept` |
| emulator | `MCHidEmulator.cfg` | `TypeOK`, `MotionAccounted`, `HostInStep`, `InputReachesHost`, `ShutdownOutsideWait`, `Reconnects` |
| shutdown_completes | `MCShutdownCompletes.cfg` | `ShutdownCompletes`, violated |
| dead_link_noticed | `MCDeadLinkNoticed.cfg` | `DeadLinkNoticed`, violated |
| relay | `MCRelayClient.cfg` | `TypeOK`, `SendsOnJoinedSocket`, `HandlesOwned`, `ShutdownReturns`, `Reconnects` |
| relay_torn_down | `MCTornDown.cfg` | `TornDown`, violated |
| local_mouse | `MCLocalMouseReader.cfg` | `TypeOK`, `MotionAccounted`, `MaskFollows`, `MouseFollowed`, `StopEnds` |
| all_mice | `MCAllMice.cfg` | `AllMiceAggregated`, violated |
| forwarder | `MCForwarder.cfg` | `TypeOK`, `ConfigAsWritten`, `UrlUnderstood`, `SendsOnLiveObjects`, `ExitReleasesAll`, `StopsWhenHooked` |
| network_input | `MCNetworkInput.cfg` | `TypeOK`, `MotionAccounted`, `NetworkFollowsApp`, `NewestHeals`, `StopEnds` |

What they show, and why the bounds are enough:

 - **merger**.  The clamp is 2 instead of 127 and the accepted sum of an axis
   stays in -5 .. 5 (`MaxTotal`, the only bound): that is beyond twice the
   clamp, so remainders that need one and two more flushes occur on either
   side, and the deltas of both signs meet a pending remainder.
 - **merger_threads**.  Clamp 1 and sums up to 2 make flush() take either
   branch; two accumulating threads and the flushing one exhaust the
   interleavings of the three calls.
 - **bt_profile**.  Three hosts and queues of two (`Backlog`): one connected,
   one queued, one refused; two of them can mix a connection, which `SameDevice` has to
   exclude.  Nothing else is bounded: failures, departures and returns can repeat
   without end.  The hosts are interchangeable, which the
   symmetry uses.
 - **emulator**.  Two hosts, so that another one can be queued behind a dead
   connection; two calls of accumulate() (`MaxInputs`), so that one can
   meet a pending remainder, a failed report, or a button released elsewhere;
   two faults (`MaxFaults`), so that the call that reconnects can fail in turn: hosts
   that leave or walk out of range, failed accepts, an OSError on a live link.
   Button X is outside the bits of a report: it can make a report due that
   the host does not see.  One axis, clamp 1, deltas 0 and 2: input of buttons only, and
   motion that leaves a remainder (the signs are a matter of `merger`).
 - **relay**.  Two faults.  Five handle values: three fields and the closed
   request are in use at most, a value may be replaced while another one is
   still being closed, and one can leak after shutdown() has begun; with
   fewer, a call that creates a handle would be disabled rather than fail.
 - **local_mouse**.  Two mice, queues of two events, four events: enough to
   overflow one queue and to read from the other.  Two faults: both mice can be
   lost, or one lost and select() fail.
 - **forwarder**.  Nothing is bounded but the texts: the files are every
   sequence of up to two of sixteen lines, one for each form that the loop tells
   apart (blank, comment, section, no '=', unknown key, blanks, capitals, a '=' in
   the value, an empty value, a number with a tail, one that is too large, one that is
   none), so that every field meets a repetition of its key and a line that must not
   matter; and a file with the relay turned on for each of 24 meant URLs (scheme, host
   or IPv6 literal, port, path) and 14 odd ones, two of them with blanks before the port.  From
   `network` on the files differ only in their relay, but all of them are carried to
   the end.
 - **network_input**.  Three events and two faults: a packet may be lost and
   another doubled or overtaken, and a third arrives after them.  The field has 8 values
   (`Limit`) and the coordinates are 0 and 4: -4 fits the field, +4 does not and wraps.  `Inbox`
   is 1, so the buffer overflows.  `SeqValues` exceeds `MaxEvents`:
   `NewestHeals` uses the number to name the newest packet, the code does not read it.
   `use_relative_deltas` is chosen initially: what is checked of the buttons holds in
   both modes, `MotionAccounted` is about relative deltas.  In absolute mode the
   coordinate goes into the field that protocol.h:15 calls "signed relative X
   movement", and the merger adds it up.

The counters (`MaxInputs`, `MaxEvents`, `MaxFaults`) are guards of the
environment's actions only.

---------------------------------------------------------------------------

## 5. Fairness

Fairness is weak and given to threads of the program, never to users, hosts,
mice, networks or failures: a thread that can go on does so some time.

 - `HidEmulator`: WF of `Main` and of `LinkTimeout`: Bluetooth has a supervision timeout,
   after which the kernel gives up the links of a host that stays away.  A blocked accept() is disabled until a host is
   queued.  setup() returns: its commands have timeouts and D-Bus calls have one of
   their own.  `Reconnects` needs hosts that keep trying and says so in its
   premise (`HostsRetry`); nothing else assumes it.
 - `RelayClient`: WF of `Background` and of `Shutdown`, the two threads whose
   progress is claimed; WinHTTP calls return (they are synchronous and have
   their own timeouts).
 - `LocalMouseReader`: WF of `Reader`; select() has a timeout of one second.
 - `NetworkInput`: WF of `Listener`; recvfrom() has a timeout of 50 ms.
 - `Forwarder`: WF of `CleanUp`, main() from the moment it has seen g_running, and
   of `HookThread`; callbacks are not among them, no mouse has to move.  SF of
   `TakeQuit`: while events keep arriving, GetMessageW is interrupted by callbacks
   again and again, and weak fairness would let it never come to the posted message.
   It looks at its posted messages whenever no callback is pending.

Because faults are bounded by `MaxFaults`, "eventually" means "once failures
stop": a relay that is never reachable is never connected, and no property
claims otherwise.

---------------------------------------------------------------------------

## 6. Where the code and what is said of it differ

Four runs end in a counterexample, each to a sentence in the repository.

 - **ShutdownCompletes**: "Handle SIGINT/SIGTERM for graceful shutdown."
   (`hid_emulator.py:53`).  A signal while accept() blocks clears `_running`; the
   call is resumed, and the program waits for the next host.
   Everywhere else, the setup included, the promise holds (`ShutdownOutsideWait`).
 - **DeadLinkNoticed**: "Automatically reconnects when the Bluetooth host
   disconnects." (`hid_emulator.py:13`).  is_connected() returns what the last
   send() found.  Without input nothing is sent and the loop stays on a
   connection that the kernel has given up; a host that returns is queued by the old server sockets.
 - **AllMiceAggregated**: the reader "aggregates all physical USB mice"
   (`README.md:173`).  It keeps a mask per device and passes the mask of the one it
   has just read, which replaces the mask of the source: moving one mouse releases
   the button held on another.
 - **TornDown**: "Tear down connection." (`relay_client.h:32`).  shutdown()
   closes the handles before it joins the background thread, which may connect
   in between; the connection stays open until the destructor calls shutdown()
   again.

Met on the way and recorded as hazards: two threads in close_handles() can leave
a handle open for good (one nulls a field the other has just assigned); a button
held on a mouse that is unplugged stays pressed until another mouse is used; a
press and a release between two ticks are never sent; motion made while no host
is connected is replayed to the next one; the control and the interrupt
channel can belong to two hosts, because nothing compares their addresses, if one
comes between the two channels of another or goes between the two accepts
(`SameDevice` says that it takes that); a host out of range swallows every report until
send() fails, and the motion in them is gone.  In the
forwarder: a Ctrl+C that arrives before the hook thread has a message queue makes
main() wait in join() for ever, so README.md:99, "Press `Ctrl+C` to stop
gracefully", holds from the installation of the hook on only (the premise of
`StopsWhenHooked`); a hook that cannot be installed is not noticed by main(); a
port that is no number, in the relay's URL or the file, ends the process; a port
above 65535 is cut to 16 bits; a button that the application holds when the
forwarder stops stays pressed at the receiver.

---------------------------------------------------------------------------

## 7. The proofs

The proofs assume of the constants only the named ASSUMEs of the modules:
`ClampMax` is positive, deltas and coordinates are integers, the buttons of a report
are buttons, mice are finitely many, a field has values, queues of the kernel hold a
connection or two events at least, the bounds are naturals; and of the forwarder's
texts what section 3 says of tokens, numerals, capitals and URLs.  Hosts, buttons,
axes, deltas, files, queue lengths and the bounds are otherwise arbitrary, so no bound
of section 4 is part of a proved result, with the one exception that is named below.

**InputMergerProofs**: `TypeCorrect`, `MotionConserved`, `FlushNeverReverses`.
The core is a lemma about the clamp: what is emitted and what remains add up to
what was pending, and both have its sign.  `Conservation` with `TypeOK` is
inductive.

**InputMergerThreadsProofs**: `LockDiscipline`, `TypeCorrect` and `Refinement`,
`Spec => ThreadSafe`.  `ThreadsInv` is the inductive invariant.  It consists of
`LockInv` (who is inside holds the lock), the types, `LoadedInv` (what a thread is
about to store back is still in the field), and, for the holder of the lock,
`AccumulateInv` or `FlushInv`: the fields are those at its entry, with exactly the
axes it has passed updated.  At the release all are passed, which is the atomic
operation on the mapped state; every other step leaves the mapped state alone,
because it reads `before` while the lock is held.  One lemma per action shows
that `ThreadsInv` is kept, and `StepImplements` that each step maps to a step of
InputMerger or to none.

**BluetoothHIDProfileProofs**: `ConnectedOnBothChannels`, `TypeCorrect` and
`AcceptsAreFresh` (`NoStaleAccept`).  `ConnectedOnBoth` is not inductive: accept() on
the interrupt channel sets `_connected` and needs to know that the control channel
has a socket.  `ConnectionInv` adds what holds in each phase.  `NoStaleAccept` needs
`FreshInv`: a channel whose server socket is closed has nothing queued, and in the
phases before accept() the channels still to be listened on are closed and no client
is left.

**HidEmulatorProofs**: `MotionIsAccounted` and `HostStaysInStep`.  For the first, `AccountInv` adds the types of the sums and
of the flushed report.  `HostInStep` says of one step what the next one needs:
send updates all sides, a connection resets them, a host that leaves takes the link
down, one out of range keeps what it saw, and one that returns gets what the kernel
has `taken` for it (`HostsKeepStep`).  The types of the connection come from
`ImplementsProfile`.

The composition is also shown to implement its parts: `ImplementsMerger`
(`Spec => Merger!Spec`) and `ImplementsProfile` (`Spec => Profile!Spec`), one step of
the program at a time (`MergerSteps`, `ProfileSteps`).  So a theorem about a part
holds of the fields that main() works on: `MainConnectedOnBoth` carries the types and
`ConnectedOnBothChannels` over, and `TypeCorrect` needs of its own only the loop's
variables (`MainTypes`).

**NetworkInputProofs**: `TypeCorrect`, `MotionIsAccounted`, `NetworkFollows` and
`HealedByNewest`, for any coordinates, buttons, buffer and field width.  Lemmas say what
taking out or adding a datagram, at either end or in the middle, does to the motion of
a queue.  `GapInv` turns the remainder of `MotionAccounted` into "is a multiple of
`Limit`", which sums keep; `DecodeEncode` is what the field makes of a difference.
`NetworkFollows` needs `CleanInv`: while everything arrives in order, the last packet
on the wire carries the application's buttons, or with none there the last one in the
buffer, or with none there either the merger.  `HealedByNewest` needs `NewestInv`: every
packet under way has a number below `seq`, and the one just below it carries the
hook's present mask.  This theorem alone has a hypothesis, `SeqValues > MaxEvents`:
where the number wraps it no longer names a packet.  The other three hold for
any number of events.

**LocalMouseReaderProofs**: `TypeCorrect`, `MotionIsAccounted` and `MaskIsFollowed`, for
any finite set of mice, any buttons and any queue of two events or more.  `ReaderInv` adds
to the types `Closed` (outside the inner loop no device is open) and `QueuesOfLive` (a
device that is gone has no queue).  `WaitingUpdate` says that replacing one queue changes
`Pending` by the motion of that queue, and `MotionSplit` and `MaskSplit` that a queue
read in two parts gives what it gives at once, which is why a read of any length keeps
both invariants.  `MaskInv` is `MaskFollows` with `UnseenHeld`: a button that the
reader has not seen go down is held, so none of its presses is in the queue.

**ForwarderProofs**: for the life of the process `LifeInvariant`,
`CallbacksFindObjects` and `NothingLeftBehind`.  `LifeInv` splits main() in three parts, `Starting`, `Hooked`
and `Cleaning`, and says which objects are alive in each: the hook thread exists
exactly in `Hooked`, where the transmitter is up; the relay client is not running
once it has been shut down, and a callback is in it only while it runs.  One step
of the proof per action, and nothing of the parsers in it.

For the texts `TypeCorrect`, `UrlsUnderstood` and `ReadAsWritten`, which hold for files
of any length, lines of any form, and every host, port and path that `UrlAssumption`
admits, where the run has 311 files and 24 URLs.  Lemmas place the first and the last
mark of a text that is put together from parts; with them `UrlParsed` shows that
parse_ws_url() undoes `UrlText`, in the four cases of a name or a literal, with a port
or without, and `UrlInv` carries its result to the start of the hook.  For load_config()
`Named` says at which places of a line a name and its '=' stand.  A line is named for
a field exactly if the loop sets the field (`NamedIsSet`, `SetIsNamed`), its value is
what lies between the '=' and the blanks at the end (`ValueFound`, `ValueIsSaid`), and
the last setting is what remains (`LastSettingCounts`); `FieldWritten` puts them together,
and `ConfigInv` adds that what main() goes on with was read from a file.

**RelayClientProofs**: `TypeCorrect`, `NoPacketBeforeJoin` and `EveryHandleOwned`,
for any handle values and any bound on the faults.  `TypeOK` needs `NullingInv`: a
field is nulled only while it is the first of those left, so there is one.
`SendsOnJoinedSocket` needs `SendInv`: while main() waits, connected_ stands for a
`websocket_` that is joined, and the background thread is then in its loop and
touches no handle; the hook thread, which alone clears connected_, does so at the
end of send_packet().  `HandlesOwned` needs `OwnInv`: until shutdown() only the
background thread closes handles (`OnlyCloser`), the open handles are those in the
fields (`OwnedInv`), no two fields share one (`DistinctInv`), and a field that is
about to be assigned is empty or still to be cleared (`EmptyInv`).

**Loops over data.**  A recursive function is a CHOOSE, and that a function with its
equations exists has to be shown by induction.  The induction theorems of the
library take an operator as a parameter, which the provers cannot instantiate.  So
`Induction` is proved for a set instead, from a least element outside of it
(`NatLessThanWellFounded` and `WFMin`, which take none), and applied to the set of the
numbers for which the claim is true: `RoundsExist`, `MasksExist`, `SumsExist`.

**Model-checked only.**  Everything with a fairness condition (`InputReachesHost`,
`ShutdownOutsideWait`, both `Reconnects`, `ShutdownReturns`, `MouseFollowed`,
both `StopEnds`, `StopsWhenHooked`), which is beyond the prover; `SameDevice`, whose
proof is in the plan; and the four properties of section 6, which do not hold.  Every
other property that a run checks is a theorem.

---------------------------------------------------------------------------

## 8. What is not modelled

 - The setup of the adapter, the pairing agent and the SDP record: a straight
   sequence of D-Bus calls and commands whose failures are logged and ignored.
   HidEmulator knows that it returns or raises.
 - The emulator's configuration (Python's configparser), its command line, a signal
   before the handlers are installed, and a stop() that comes before run() has begun.
 - The forwarder's banner and statistics, with packets_sent_, which only they read; a
   std::thread that cannot be created; the search for config.ini (a file that
   cannot be opened is read like an empty one).
 - What Windows makes of a target: name resolution and sockets succeed or fail.
 - Time: sleeps and timeouts are steps that may come at any moment, and the
   dispatch rate does not appear.
 - The wheel and the extra buttons: no field of the packet carries them.  The local
   reader's events of no interest are in its model as `Other`.
 - Wording, logging, the console and the format of the relay's JSON messages.
 - Scripts, build files and build output.
