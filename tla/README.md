# VitaOxiPad in TLA+

VitaOxiPad turns a PS Vita into a game controller for a PC. A server application
on the console reads its buttons, sticks, touch panels and motion sensors and
pushes them over UDP to a client program on the PC, which feeds a virtual
device; a TCP connection between the two carries a handshake, a configuration
and heartbeats. This directory specifies that system in TLA+, model-checks it
with TLC and proves part of it with TLAPS. Paths below are relative to `src/`.

## Inventory

| Component | State | Operations | Interacts with |
|---|---|---|---|
| Network thread, `server/src/net.cpp`, `server/include/client.hpp` | the one client slot (`optional<Client>`: state, receive buffer, data address, polling time, heartbeat clock), epoll registrations, the batch of events being handled | accept, refuse, receive, handshake, config, heartbeat, response, heartbeat timeout, push, callbacks of the network interface | PCs over TCP and UDP; main thread through the event flag and `SharedData` |
| Main thread, `server/src/main.cpp`, `draw_helper.cpp` | network and PC state as shown, pad mode, display, local `events` word | poll the event flag, chords of buttons, drawing, shutdown | event flag, `SharedData`, kernel module |
| Status thread, `server/src/status.cpp` | previous battery, charger, signal | compare and publish once a second | event flag, `SharedData`, main's first readings |
| Kernel module, `server/module/src/main.c` | `g_screen_off`, the panel | screen on, toggle, read the pad | called by the main thread and `get_ctrl` |
| Pad reading and encoding, `server/src/ctrl.cpp` | timestamp of the last reading | read, convert | network thread |
| Client program, `client/packages/cli/src/main.rs` | control connection, last heartbeat, last timestamp | connect, handshake, config, heartbeat, receive, report | server; virtual device |
| Client protocol, `client/packages/protocol` | incoming and outgoing byte buffers | framing of packets and heartbeats | client program |
| Virtual device on Linux, `client/packages/vita_virtual_device/src/linux.rs` | ids of touches by slot, last buttons and hat | create, send a report | client program, uinput |
| Virtual device on Windows, `windows.rs` | whether the touchpad is touched and since when | create, send a report | client program, ViGEm |
| Device configurations, `virtual_config.rs`, `virtual_touch.rs`, `virtual_utils.rs` | - | zones of touches, triggers, direction | both devices |
| Client configuration, `client/packages/vitaoxipad_config` | files, environment | which setting counts | client program |
| Reports, wire protocol, Python testers | - | conversions and tables | - |

What makes this hard, and hence what the properties are about:

* **One slot, many PCs.** The server serves one PC. A connection may be closed,
  reset, vanish, time out or be cut off by the interface at any step, and a batch
  of epoll events is handled after the moment it was true. Correct means: the
  open connection is the one in the slot, no session inherits anything of the
  last, nobody is dropped without a cause, and the slot comes free.
* **State behind an empty optional.** Parts of the loop read `client->...` after
  the optional may have been emptied, and members that neither constructor nor
  `reset()` writes. Correct means: whatever is read, pad data goes only to a PC
  that was answered.
* **A level-triggered promise.** `EPOLLOUT` is registered at accept and removed
  with the handshake response. Correct means: no client owed a response is
  without it.
* **Two threads and a lossy flag.** The event flag keeps bits, not their order,
  and every poll clears it. Correct means: the interface cannot miss a client.
* **Two clocks in whole seconds.** The client sends a heartbeat when its clock,
  truncated to seconds, has reached the announced interval less five; the server
  drops it when its own, truncated too, has passed the interval. Correct means: a
  client that runs is never dropped, as long as its delays fit the margin.
* **A polling interval in three places.** The user's setting passes three minima on its
  way, and the server's loop measures it with unsigned ages and a wait that may be
  computed from a negative rest. Correct means: the interval asked for is in force,
  and a client that is due data waits for a bounded time.
* **Messages in a stream.** Neither end of the control connection sees where a message
  ends. Correct means: however a stream is cut, the client's events are its messages.
* **Datagrams and a client that only listens.** Pad data is lost, duplicated and
  reordered, and a session that is over shows only on the other socket. Correct
  means: the device shows the newest reading that arrived, and the client ends.
* **Differences on a lossy channel, two platforms.** The device on Linux writes only what
  changed since the last report, and slots of touches by their position; the one on
  Windows times a touch across reports. Correct means: what programs see is what the
  last report asks for, whatever came before, and the buttons are those of the table in
  the documentation.
* **Racy buttons, two flags for one screen.** Chords read the shared button word
  twice, and the application and the kernel module each keep their idea of
  whether the screen is on.

`PROJECT.json` lists each hazard at its line with the properties that cover it.

## Modules

| Module | Models |
|---|---|
| `SharedData` | the event flag, the stop request, the shared record, the state of the interface |
| `Peers` | the environment: PCs that follow the client program's order on the control connection, TCP, faults, the interface and its callbacks |
| `NetThread` | the loop of `net_thread` with `Client`, one action per handler |
| `NetServer` | `NetThread` + `Peers` + what main does to them; session properties, the invariant of the network thread, liveness |
| `MainThread` | the frames of `main`, shutdown, the screen part of the kernel module |
| `VitaServer` | both threads together; what the interface shows; its part of the inductive invariant |
| `Console` | the main thread in front of its user, with any buttons at any moment |
| `StatusThread` | the status thread and main's first readings |
| `SessionSlot` | abstract: what a server with one slot and its PCs promise each other; `NetServer` and `ClientProgram` implement it |
| `PadTiming` | when the server pushes: the settings of the interval, and the loop of `net_thread` again, with time and without the network |
| `ClientProgram` | `main.rs` with its connection: session, heartbeats, timestamps; the server and the network as it sees them, with time |
| `Connection` | the parser of the client's incoming bytes and its two callers |
| `DeviceConfig` | the configurations of the devices, and what a report asks for under each |
| `VirtualDevice` | `send_report` on Linux, and the input devices in the kernel |
| `WindowsDevice` | `send_report` on Windows |
| `Devices` | both devices on the same reports |
| `NetServerProofs`, `SessionProofs`, `VitaServerProofs` | theorems about the server, each module on top of the one before |
| `ConsoleProofs` | theorems about the console and the status thread |
| `PadTimingProofs`, `ClientProofs`, `ConnectionProofs`, `DeviceProofs` | the other theorems |
| `MCNetServer`, `MCVitaServer`, `MCConsole`, `MCClientProgram`, `MCConnection`, `MCDevices` | instances for TLC |

Two modules are two views of one loop: `NetThread` has its control and leaves open how
long a turn takes; `PadTiming` has its time and one client, of which it keeps only what
decides a push.

### How the state and the actions correspond to the code

`NetThread`: `pc` is the place in the loop: `ctrl` (head, `get_ctrl`), `wait`
(`sceNetEpollWait`), `netctl` (the callback check and its switch), `event` (the
`for` over the events; `batch` holds those left), `publish` (after an accept or
a refusal, before `client_ip` is written), `handle` (the packet loop of
`handle_ingoing_data`), `timeout`, `push`. `client`, `cstate`, `buffer`,
`dataAddr`, `pollingTime`, `hbAge` are the members of `Client`; `reset()` leaves
`cstate` and `dataAddr` in place, because the code goes on reading them.
`allocated` says whether the vector `buffer_` ever held data, i.e. whether its
`data()` may be read.

An action makes at most one access to what another thread writes, so no
interleaving is merged away. In `disconnect_client` the flag and the emptying of
the slot are one step: nothing else looks at the slot. `MainThread` splits
each condition that reads the shared buttons twice. `Join` does not wait for the threads:
`stop_thread` goes on when its timeout is over.

A message is two pieces in the TCP stream, so that a part of it can arrive. `handle_data`
follows the offsets of a packet before it verifies it; where no packet is complete they
are arbitrary, so `NoMorePackets` lets the code keep or clear the buffer, and `WildRead`
lets it read outside of its memory and crash. The liveness properties except a thread that
has ended or crashed. `Verified` leaves open whether the flatbuffers verifier accepts
trailing data (fault `strict`). Waiting times inside a turn are abstracted: `SkipPad`
stands for a polling time that has not elapsed, for a failed send and for not being in pad
mode (`PadTiming` tells the three apart). The error a reset connection returns may or may
not be the one the handlers compare with, so those steps are nondeterministic.

`Faults` chooses what a run's environment may do: `fragment` (messages arrive in
parts), `close`, `reset`, `vanish`, `silent` (close before saying anything),
`mute` (a live PC's heartbeats may be late), `strict`, `epoll` (the wait fails),
`stop` (the thread is asked to end). Without `mute` the heartbeats of a live PC
are in time, as the client program's period intends.

`StatusThread`: `missed` is history: the charger changed an odd number of times between
main's reading and the thread's, and the thread has seen no change since.

`ClientProgram`: `cpc` is the place in `main`: `connect`, `greet` (handshake to be
written), `response` (the read), `config` (device and configuration), then the loop:
`poll` (`poller.wait`), `beat` (the heartbeat), `recv` (the datagram and what follows it).
Time is a `Tick`, `Sec` of them to a second, because both programs truncate their clocks
to seconds and the truncation is what matters; `cAge` is `last_time.elapsed()` and `sAge`
the age of the server's `heartbeat_time_helper_`. `wake` is where the present wait times
out. Calls take no time of their own: what a turn takes counts as lateness of the wait
(`Slack`), the way of a heartbeat as `Delay`, and everything from the accept to the first
wait as `Greet`. `ctrl` is the connection as the PC's TCP sees it: `fin` after a close by
the server, `mute` when the console vanished, `reset` when a write was refused; `unacked`
says that a write went where nobody acknowledges it, so that a reset will come. Other
calls may fail by the fault `call`: the heartbeat over UDP behind the response, the making
of device and poller, the wait, the receive and the report. A response that is read in
part (fault `cut`) ends the program, by a missing event or, with one byte missing, by the
drain behind the size check of `connection.rs:105`. Of the server it has what concerns
this client; that it keeps the slot's promises is the statement `ImplementsSlot` of both
modules: `SessionSlot` is where the two sides meet.

`PadTiming`: a turn goes `ctrl` (`get_ctrl` with its spin and the delay of a volume key),
`wait` (`sceNetEpollWait`), `event`, `push`, `rest` (the remaining time and the delay that
ends a turn), and back; each step passes some time. `sentAge` is
`time_since_last_sent_data()`; `remaining_polling_time` wraps before it clamps, as the
unsigned subtraction does. `asked` is the setting that the command line, the environment
and the first file that exists leave over (`load_config`). `quiet` is history: for how
long a client that is connected, in pad mode, has had no data; `lost` counts the sends
that failed meanwhile (`SendFails`), each of which has taken the time of a push and left
the timeout of the turn before. The remaining time is a `uint64_t`, the timeout an
`unsigned int` that the wait takes for an int: `Rest` truncates it, and where `Fits` does
not hold the wait is as long as nothing happens. Pad mode changes between steps; inside
one, less of that step would count.

`Connection`: a stream is a sequence of messages with the offsets where they begin, the
buffer is the interval from `parsed` to `received`. At the beginning of a message the
parser reads its size, or a heartbeat's magic, which as a size is longer than any stream;
elsewhere any size. That it never reads elsewhere is the invariant. `Unfinished`,
`DrainPanics`, `Deliver` and `Ignore` are the ways through `next()` behind the size.
`whole` streams are those of `main`'s datagrams, one message at a time; `cpc = "first"`
is the caller that takes one event and drops the iterator.

`DeviceConfig`: a touch's position is its place among the zones: in the middle it is on
the border of two zones and acts by whichever the tree finds, a choice of `ZoneChoices`;
below the rectangle of the rear panel it is in none. `Wants` is the table of
`README.md:118-123`, the reference of `AsTabled`. `Asks` is what the calls both platforms
share make of a report.

`VirtualDevice`: `SendReport` is `send_report` up to the write to the main device,
`WriteTouches` its write to the touchpad. The program's variables keep their names;
`keys`, `hat` and `pad` are the kernel's. The kernel's slot protocol is `Apply`. The code
makes all events of the touchpad first and then writes them in that order; nothing comes
between, so the model makes and applies them together, a slot at a time: `slot` is the
index of the loop, `EndSlots` a turn of the first, `UpdateSlot` of the second, and `dpc`
says which of the two it is in. Until `idle`, `pad` is a write that is under way.
`WindowsDevice`: the report is written whole, so the state is what makes a click of a
touch shorter than `ClickTime`. The word of its buttons is a set of bits, as `DS4Buttons`
has them, with the direction in the lowest four: the PS button is or-ed in among the
ordinary ones, where its number is the lowest bit of the direction (`ds4_bit`); that
layout is `vigem_client`'s, which is not in the repository. Sticks and motion are written
whole on both platforms and have no state.

Assumptions: callbacks of the interface are queued and delivered by
`sceNetCtlCheckCallback`; a batch holds at most the listener's and the client's
event (the code registers no third socket); a PC sends one handshake per
connection, as the client program does.

## Runs

Every bound is a CONSTANT of a `.cfg`.

| Run | Question |
|---|---|
| `NetServer_session` | two PCs, sessions one after the other with closes, resets and an interface that goes down; messages in pieces, rejected or overflowing the buffer; failing epoll: slot, address, response, handshakes, causes of a drop; `SessionSlot` is implemented |
| `NetServer_live` | under fairness: timeout of a vanished PC, service of the backlog, answer to a handshake, flow of pad data; and whom pad data goes to, also in the turn that drops the client |
| `VitaServer_ui` | both threads: the interface never misses a client and does not go on naming an earlier one; no drop without a cause, with late heartbeats; `IInv`, the invariant of the proofs |
| `Console_all` | all interleavings of button changes with frames: pad mode, what a toggle does to the picture, exit chord |
| `StatusThread_follow` | shown values follow the hardware; where what is shown is what the thread compares with |
| `PadTiming_push` | all settings of the interval and all paces of a turn: the interval in force, the longest wait for data, with sends that fail |
| `ClientProgram_session` | one PC from connection to end: heartbeats in time, newest reading shown, a dropped client ends, the slot's promises kept |
| `Connection_frames` | all streams of up to three messages, cut everywhere: events, what is withheld, where the drain panics, what a datagram leaves, that no loop spins |
| `Devices_reports` | any report after any other in the four configurations: keys, hat, touchpad, clicks, both platforms against the table of the documentation |
| `NetServer_silent` (violation) | a PC that closes without a word crashes the thread: a null `buffer_.data()` is followed |
| `VitaServer_netdown` (violation) | the client dropped with the interface stays on the screen |
| `Devices_slots` (violation) | when one of two fingers is lifted, the slot of the one that stays is reset |

Bounds. Two PCs suffice for the hazards of the slot, which involve a client and the one
before or after it; the proofs cover any number. One stream holds up to `MaxFlight`
pieces: two are a message; three in the session run, a whole message next to a part of
another. `MaxBuffer` is then three pieces, so that two messages overflow it while each
fits. `MaxHeartbeat` of 0 or 1 second keeps the comparison with the limit; in the liveness
run, where PCs vanish, the timeout drops a client just before its state is read for the
push. `MaxNetChanges` is the number of changes of the interface: one, which takes it down
under a client; two changes in one check are left to the theorems. `Levels = {0, 1, 2}`
and three changes let a reading change before, between and after the first two readings.
`ClientProgram_session` has seconds of two ticks, so that truncation loses something, an
interval of four seconds and a margin of two (in the code: five), which `Greet + Slack +
Delay` uses up to the tick: with one tick more of lateness TLC finds a client that is
dropped. Two readings of the pad suffice to come in the wrong order. `PadTiming_push`
counts milliseconds with the code's 4, 6 and 5. The second that a network change sets as
timeout is shortened, but stays longer than the polling times of 6 and 9; the delay of a
volume key is shortened too, and lies between these. Settings lie below both minima,
between them, above, and, with 30, where the timeout as an int is negative (`UintWord` is
48). One send of a row may fail, and ages are counted up to a bound that no wait the
property speaks of reaches. `Connection_frames` has the sizes of the code for the size
field and the heartbeat; messages of each kind differ in length, and the number that the
magic makes as a size is shortened, but beyond any stream. `Devices_reports` has two
fingers, a place on all borders, one on none and one below the zones, a rear panel with
fewer slots than touches, and a button of each sort: one whose place the configuration
decides, a direction, and PS. A tick is the time below which a touch clicks, so one may
last less or as long. PCs are interchangeable, so the safety runs of the server use their
symmetry; the liveness runs do not. Deadlock is not checked where the thread may end or
crash, and where an environment with its bound used up has nothing left to do.

Fairness. `FairServerSpec` and `FairSpec` assume that the scheduler runs the threads (weak
fairness of their next steps: the Vita gives each its own core mask), that the clock
advances, that the network delivers what a PC that has not vanished has sent, and, by
strong fairness of `SendPad`, that a client is not denied its polling interval on every
turn. That is what `PadTiming` justifies: `DataInTime` bounds the wait of a client that is
due data, at any pace of the turns. `FairStatusSpec` assumes only that main's start-up and
the status thread are run, not that the hardware changes or that main stops them.
`FairClientSpec` assumes that the client runs without a call that fails unless one must,
that the server handles heartbeats, that a write nobody acknowledges is refused in the end
(TCP retransmits a bounded number of times), and, by strong fairness of `Tick`, that time
passes however many datagrams arrive. No fairness is assumed of the PCs, of the faults or
of the interface.

## Proofs

Every safety property of the passing runs is a theorem, for every value of the constants
that the ASSUMEs of the modules admit: any set of PCs, any choice of faults, any bounds.

### The server

The network thread is proved about once and for all. `OpenSpec` of `NetServerProofs` is
the thread with its PCs in any application that leaves the thread's own variables alone
and keeps the shared data to their types. Two specifications are such applications:
`ServerSpec` of the session runs (`ServerIsOpen`) and `Spec` with the main thread
(`VitaIsOpen`). What is proved of `OpenSpec` holds of both, so nothing about a session
rests on what the main thread happens to do.

`NetServerProofs`: `ServerTypeCorrect`; `ServerInvariance` (`ServerInv`), and from it
`ServerSlot` (`OneSession`), `ServerAddress` (`AddressIsClients`) and `ServerPush`
(`PushConfirmed`). `ServerInv` strengthens the three with what their proofs need.
`PushConfirmed` rests on `ConnectedConfirmed`: the bytes `cstate = "Connected"`, which
survive `reset()`, always come with a data address that was answered, which in turn needs
`AddressIsClients` at the step that answers. `OneSession` needs `IdleIsNew`, so that a new
connection finds its server end unused. The proof has one step per action; `DropInv` and
`KeepInv` are the two shapes most of them have.

`SessionProofs` goes on from there.

* `ServerHandshake` (`OwnHandshake`): a handshake in a stream or in the buffer, and a client
  that is owed a response, belong to a PC that said one. It is inductive over `ServerInv`,
  by the lemmas on how `Greets` distributes over appending to a stream and taking from it.
* `ServerRefinement` (`ServerSpec => ImplementsSlot`): a step maps to a step of the
  abstract slot or to a stutter: an accept to `Hold`, which finds the slot free by
  `OneSession`; a close of any kind to `End`; a push to `Push`, allowed by `PushConfirmed`;
  a response to `Answer`, which needs `OwnHandshake`.
* `SlotKeeps` (`SlotSpec => []SlotKept`): what the abstract slot promises taken together, one
  PC at a time, answered only after it was held and shook hands, configured and pushed to
  only after that. `ServerKeepsSlot` draws the conclusion for the server from the two.
* `ServerArmed` (`ConfirmArmed`): a client owed a response could lose `EPOLLOUT` only by a
  second handshake, after the one that was answered. `GreetsOnce` counts where handshakes
  begin: there is at most one beginning in what a PC has sent and the server not handled,
  be it in flight, received or in the buffer, and none once the client has left
  `WaitingForHandshake`. Cutting, clearing and overflow only lose pieces, which the lemmas
  on `Opening` of a concatenation and of a part say.
* `ServerDrops` (`DropJustified`) needs `EventsTold`: an event of the batch that says a client
  hung up was true of the client it was waited for, so the exception that the property
  makes, a stale event that meets the next client, is the only one.

`VitaServerProofs` proves `TypeCorrect` and `Invariance` (`Spec => []IInv`) of both
threads, hence `ConnectNeverLost` and `ShownAddress` (`ScreenNamesClient`), and states all
of the above for `Spec`: `SlotIsOnlySession`, `AddressNeverInherited`,
`PushOnlyAfterResponse`, `HandshakeIsOwn`, `OwedIsArmed`, `DropsHaveCause`,
`SlotImplemented`. `NoLostConnect` is not inductive: a poll may take a `PC_DISCONNECT`
while a client is held, so `IInv` adds `DisconnectOverruled` (such a bit never comes
without the `PC_CONNECT` of the present client) and `EventsFollowed` (a poll that finds no
bits may leave the old word in place, and following it again changes nothing).
`ScreenNamesClient` rests on `PublishedIsClient`: the frame that takes the flag raised
behind the write of `client_ip` draws, before it ends, the client's own address, and a
client that comes meanwhile raises the flag again.

### The console and the status thread

`ConsoleProofs` proves, for any sets of buttons, `ConsoleGivenBack` (`StartModeUsable`)
and `PictureToggled` (`TogglesScreen`) from `ScreenInv`: the lock follows pad mode,
outside it panel and screen are on, and the panel is lit with the drawing on as long as
the flags of the program and of the kernel module agree. They part, and meet again, when
pad mode is left with the drawing off; in between no toggle gives the picture, which is a
finding.

`StatusInvariance` (`StatusInv`, which holds the types, `StatusTypes`): what the screen
reads and what the thread compares the next reading with are the same for the signal, for
the battery once it has been seen charged at all, and for the charger exactly when
`missed` does not hold. So a change that the thread misses can only be of the first
values, which are the exceptions of `StatusFollows`.

### The timing, the client and the devices

`PadTimingProofs` proves, from `TimingAssumption` alone, `TimingInv`, hence
`AskedIsInForce` (`IntervalInForce`) and `PadDataInTime` (`DataInTime`). `QuietAt` bounds
the wait at each place of a turn. One polling time is not enough: when it elapses between
the check of `is_polling_time_elapsed` and the subtraction, the difference wraps, the
clamp makes it a whole polling time, and the push comes a turn later. A timeout longer
than the polling time is met only by a client that has just come (`TimeoutOK`). A send
that fails starts the polling time again: `Excused` is what the failed ones account for.
Of a polling time whose rest does not fit the timeout (`Fits`) nothing is claimed.

`ClientProofs` proves, from `ClientAssumption` and `MarginAssumption`, i.e. for every
length of a second and of the interval and for all delays that fit the margin:
`TypeCorrect`, `Invariance` (`ClientInv`), `HeartbeatsInTime` (`KeptAlive`),
`NewestReading` and `Refinement` (`ClientSpec => ImplementsSlot`). The argument for the
heartbeats: a wait that begins when none is due ends within `Sec - 1` ticks of
`Period * Sec` (`WaitEnds`; the timeout is computed from a truncated clock), so one is
written at `MaxAge` at the latest; `ServerTimely` says that the server's clock is ahead
of the client's by at most the greeting, or will be set back by a heartbeat on its way
that was written in time; `MarginCovers` adds it all up to less than a second over
the interval, which truncation forgives. Several heartbeats may be on their way when
the period is shorter than their delay, hence the existential in `ServerTimely`.

`ConnectionProofs` proves for every stream and every cut that `ConnectionInv` is
inductive: between events the parser stands at the beginning of a message, so the choice
of sizes that `Sizes` leaves open is never taken. From it: `InOrder`, `CompleteIsTaken`,
`PanicIsOneShort`, `EmptyAfterDatagram` and `LoopsAdvance` (`NextAdvances`). That the
offsets of the messages grow (`Growing`) follows from their lengths by induction. The
library's induction theorems take an operator, which the provers cannot instantiate, but a
least counterexample does as well: `Least` is the least number principle, from the
well-foundedness of `<`, and the message before the first that breaks the order keeps it.

`DeviceProofs` proves `ButtonsAreShown` (`ButtonsShown`) for every set of touches, slots
and reports: the differences add up because no two buttons share a key (`KeysDiffer`).
`TouchesAreShown` (`TouchesShown`) has in its invariant `TouchesInv` what each turn of a
loop leaves behind: what the program remembers is what the kernel has, slots beyond the
touches are empty once the first loop has passed them, the others have their touch once
the second has. `TypeCorrect` (`DevicesTypeOK`) says that no loop leaves the slots of its
panel, also with more touches than slots. `TableHolds` (`AsTabled`) compares what each
platform shows with `Wants`, configuration by configuration: every button held and every
touch is shown by one of the buttons the table gives it, and nothing else is; on Linux
with L1 and L2, R1 and R2 exchanged, and on Windows with the bit of the PS button in the
direction, the two disagreements that are findings. `ClicksForTaps` (`ClicksAreTaps`): the
program's time of a touch is the time the reports have shown one.

Only model-checked is all liveness, which is beyond TLAPS here: `VanishedIsDropped`,
`BacklogServed`, `HandshakeAnswered`, `PadDataFlows`, `ChordExits`, `DroppedEnds` and
`StatusFollows`.

## Plan

Done: server core, both threads, the console, the status thread, the abstract slot, the
client with its heartbeats and pad stream, the timing of pushes, the framing of the
control connection, the devices of both platforms, and the proofs above. What is left,
each smaller than what was done:

1. The conversion of motion and sticks, as arithmetic against a reference.
2. The bits of `sceNetCtl` states in `main.cpp:114`, as numbers.
3. Safety facts that liveness rests on, as theorems, as `LoopsAdvance` is for the parser.

## Not modelled

Layout of the screen, logging, loading of the kernel module, set-up of the
hardware, the sockets and the input devices; flatbuffers encoding; `set_config` of the
virtual device, which nothing calls; the volume keys of the PC, which are pressed and
released in one write; sticks and motion, which are converted field by field; the parsing
of TOML and the sample file of the client's configuration; the Python testers, which are
tools with generated code. The pad codec of `codec.rs` is behind a feature that no package
enables; its `size` is set with the first packet and never reset, so with the feature
every later packet would be cut at the length of the first.

Disagreements between the code and what it or its documentation says are the findings of
`PROJECT.json`: three have a run that TLC finds violated, and three more are stated by
properties of passing runs, which say exactly how far the code departs (`TogglesScreen`,
`AsTabled`).

Seen in the code, without a property because no document says otherwise:

* `main.cpp:114` takes a connecting interface for a connected one, until the next callback.
* Two changes of the interface in one check of the callbacks set both bits, for which the
  switch of `net.cpp:225` has no case (`NetCtl` loses them too).
* A charger plugged in between the first readings of main and of the status thread is
  shown as unplugged until it changes again (the exception of `StatusFollows`).
* Pad mode can be left by two halves of a chord that were never held together.
* The client's read of the response has no timeout, and the device keeps its last
  buttons pressed when pad data stops.
* The first configuration file that exists hides the others, also where it leaves a
  setting out, and `Config::default()` is used nowhere.
