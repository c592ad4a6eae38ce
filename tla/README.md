# A verification of kegerator

kegerator is a daemon for a beer tap with a flow sensor on a Raspberry Pi. It
counts the sensor's pulses, shows the pour in a browser, takes what was poured off
the brew on tap and keeps a list of brews that a command line client edits. This
directory holds TLA+ modules that model its own C code, the TLC configurations that
check them on small instances, and TLAPS proofs of the main results for every
instance. Paths are relative to `src/` unless they name a file of this directory.

## Inventory

The program is one binary (`main.c`): it is the client when it can connect to the
socket file and the daemon otherwise. The daemon is one process with three threads
that matter: its main thread, and pigpio's alert thread and timer thread.

| component | state it keeps | operations | modelled by |
|---|---|---|---|
| flow sensor, `flowsensor_pi.c` | `pulses`, `localPulses`, `period`, `lastTick`, `pulseMutex`; callbacks registered with pigpio | alert callback, timer callback, get pulses / frequency, reset, init, quit | `FlowSensor` |
| brew store, `datastore.c` | `brewData`, `numBrews`, name blocks on the heap, file `brew.db` | insert, remove, load, save, quit; through `dataStoreGetBrews` also rename and pour | `DataStore`, abstract `BrewList` |
| request handlers, `server.c` | what the stack holds between requests | header test, add, list, rename, remove, quit; websocket "zero"; REST list | `DaemonIpc` over `BrewList`; `TapServer`, `WebServer` |
| main loop, `server.c` | `serverRunning`, flow average, time of the last broadcast | poll, broadcast, accept, serve | `TapServer` (sensor side), `WebServer` (display side) |
| start and stop, `main.c` | the socket and its file | connect, bind, listen, fork, inits, signal handler, close, unlink, quits | `Lifecycle` |
| client, `main.c` | none | writes one request, prints the list | `DaemonIpc` |
| page, `http/glass.js` | latest pulses and flow | shows what it is sent, sends "zero" | `WebServer` |
| mongoose, `mongoose.c` | connections, their buffers and flags | the poll, HTTP, files, websocket upgrade and frames; much that the daemon never runs | `WebServer`, `WebSocketFrames` |
| sensor stub, `flowsensor_desktop.c` | none | constants | no: nothing to check |

Interactions: pigpio calls back into the sensor from its two threads. The main
thread calls the sensor (mutex), the store (no lock: only this thread uses it) and
mongoose, which calls `eventHandler` on the same thread. Client and daemon share a
stream socket; any number of processes share the socket file and `brew.db`. SIGTERM
sets `serverRunning`.

What is hard here, and what has to be right:

* **Sensor.** The alert callback uses `trylock` and defers a pulse when the mutex
  is held; the timer callback unlocks before it cancels its timer; `init` and `quit`
  run against live callbacks; ticks are a `uint32_t` that rolls over. Pulses must
  be counted once, the period must be the time between edges, must be reset when
  pulses stop, and nobody may keep the mutex.
* **Store.** Slots own name blocks and are shifted, grown and freed; the count is one
  byte; the save rewrites the file in place. No name may be shared or freed twice,
  a restart must bring back what was saved, and what users see must be a list.
* **Loop.** A zero frame reads and resets the pulses in two calls; the loop looks at
  `serverRunning` once a round. No pulse may be billed twice, what
  pages show must be in the sensor or have been billed, and a stop must get through.
* **Requests.** Reads block and are not checked; a client may die between the pieces of
  its request and waits for no answer. A whole request must be carried out as it was
  sent, a list must show the edits before it, and nobody may wait for ever.
* **Start and stop.** bind and listen are not checked, the socket file may be stale, it
  is removed before the list is saved, and inits may fail. A daemon in reach must stay
  so, and no list may be overwritten by an older one.
* **Web.** One thread serves browsers that read slowly, stall or leave, in the order
  select finds them, with partial writes and files longer than the send buffer;
  messages arrive cut anywhere and are put together in place. Replies must be whole and
  in order, frames must not get into them, and pages must come to show the total.

`PROJECT.json` lists the hazards with their lines and the properties that cover them,
and say where a property covers one in part or none does.

## Modules

| module | role |
|---|---|
| `FlowSensor` | the sensor: three threads, one mutex |
| `FlowSensorProofs` | its theorems |
| `DataStore` | the store in memory and on disk, with the requests that edit it |
| `BrewList` | what the store promises its users: a list |
| `DataStoreProofs` | invariants of the store and the faithful restart |
| `DataStoreRefinement` | the store implements the list |
| `TapServer` | the main loop, extending `FlowSensor` |
| `TapServerProofs` | its theorems, and that it uses the sensor by its specification |
| `DaemonIpc` | clients, their socket and `handleDaemonRequest`, extending `BrewList` |
| `DaemonIpcProofs` | its theorems, and that the requests edit the list by its operations |
| `Lifecycle` | starts and stops of processes over one socket file and one `brew.db` |
| `LifecycleProofs` | its theorems |
| `WebServer` | mongoose's poll over the browsers' connections, and the broadcast |
| `WebServerProofs` | its theorems |
| `WebSocketFrames` | how mongoose makes messages of the bytes of a websocket |
| `WebSocketFramesProofs` | its theorems, and that it implements the channel |
| `MessageChannel` | what a page's websocket is for `eventHandler`: a channel of messages |
| `MC*` | what TLC needs on top: small values, symmetry and a view for the store |

Compositions: `TapServer` runs the sensor's own actions inside the daemon's loop, so the
sensor's theorems carry over. `DaemonIpc` runs the list's actions from the handlers, and
`DataStore` implements that list. `Lifecycle` abstracts the list to a number and the
loop to one place; `WebServer` abstracts the sensor to a number and a message to
one unit; `WebSocketFrames` is one connection below it and implements `MessageChannel`.

### FlowSensor

One program counter per thread (`alertPc`, `timerPc`, `mainPc`); an action is a stretch
of code between two points where another thread can make a difference. The
callback's stretches are `AlertLock` or `AlertDefer` (trylock succeeded or failed),
`AlertCount` (period, filter, read of `pulses`), `AlertStore` (write of the sum,
deferred pulses cleared), `AlertArm` (timer set) and `AlertUnlock`. The timer
thread's are `TimerFire`, `TimerLock`, `TimerReset`, `TimerCancel`: the cancel comes
after the unlock, as in the code. `CallLock` with `GetPulses`, `GetFrequency` or
`ResetPulses` is a call of the main thread. `InitHook` and `InitMutex` are the
two orders of business of `flowSensorInit`, `QuitFree`, `QuitUnhook` and `QuitTimer`
those of `flowSensorQuit`. A lock of a mutex that is null is a `Fault`; operations
on a freed one may fault, succeed or fail.

Abstractions: a tick is any value of a counter of `TickMod = 2 * Half + 2` values, so
rollover is modelled as it is; a timer may fire at any moment after it is armed; the
frequency is represented by the period it is computed from. Edges of other levels and
pins return at once and are left out. `pulses` is a natural number: its 32 bits
hold 2600 cubic metres of beer. History variables count edges, stray pulses, cleared pulses
and pours, and record whether the last arming of the timer was overtaken by a cancel.

### DataStore and BrewList

`brewData` is a sequence of slots whose `name` is a pointer; `heap` maps live blocks to
names; `numBrews` is kept modulo `Cap`, volumes modulo `VolMod`. `AddBrew`,
`RemoveBrew`, `RenameBrew` and `Pour` are the request handlers from the switch in
`server.c` down to the last assignment in `datastore.c`. `RenameBrew` goes on into the
remove case, as the missing `break` does, with any index: the read there finds the end
of the client's stream, so the index is whatever the stack held. `Pour` does not
look at the count: with no slot it writes to a block without room, which changes
nothing the store reads again, or faults (`Crash`) when there is no block at all.
The save is `SaveOpen` (the file is truncated), `SaveCount`, `SaveName` and
`SaveNumbers` per record, `SaveClose`, and the process may crash between any two.
`Load` reads what is there; a missing record gives an empty name and zeros. History
variables: `saved`, the list of the last complete save, `torn`, whether a later
one was cut short, and `request`, the request served last.

`BrewList` has the same requests on a plain list. Limits users see are part of it: an
add to a full list empties it, a rename may take a brew off, a pour may wrap. The
refinement maps the list to the names, volumes and strengths of the slots that count,
`up` to the phases in which the daemon works on its memory and `damaged` to `torn`.

### TapServer

`TapServer` adds the place of the main thread in `serverMain` (`loopPc`) to the
sensor's variables. The zero frame is `ZeroFrame` (the call of `flowSensorGetPulses`),
`Bill` (the subtraction and the call of `flowSensorResetPulses`) and `ZeroDone`;
the sensor's own actions run the calls. A round is `PollReturn` (poll is over, the
flow rate is read), `Show` and `Broadcast` or `NoBroadcast`, then `NoClient`, or `Client`
and `Served`; each ends with the loop's test. `mg_mgr_free` polls once more
(`freeing`), zero frames included, before `FreeReturn`. `Sigterm` may come at any
moment after the inits. `shown` is the latest broadcast; a zero frame sends nothing and
the page does not clear itself, so that it goes on being shown until the next one
(`ShownHeldOrBilled` says what holds meanwhile). History variables: `billed`, the pulses
that zero frames took off the store, and `billedAtShow`, what that was at the latest
broadcast. A page that reads slowly is `WebServer`'s matter.

### DaemonIpc

A client connects, writes its request piece by piece (`WritePiece`: header, type and
data), returns or, for a list, waits; it may `Die` before any piece. The daemon takes
connections in order (`Accept`) and reads piece by piece; a read waits until the piece
is there or the client is gone. At the end of the stream nothing is read: the type
is then any type, the data any brew, name or index (`Junk`), and the header may match
by what an earlier request left there (`header`). The rename goes on to the remove's
read, which waits for the client's end. `EditBrews` is the list's own action.
A write to a closed connection ends the client by SIGPIPE.

Abstractions: a piece is written and read as a whole (the socket is local and the pieces
are smaller than its buffer; a list of 255 brews is not, and the client's one `read` of
it is taken as whole); strengths and volumes do not matter here. History
variables: what was carried out for whom, and who had returned when a client connected.

### Lifecycle

Each action is one step of `main` for one process: `RunClient` or `RunDaemon` (the
connect decides), `Bind`, `Listen`, `InitSensor` or `InitFails`, `Load`, `SetHandler`,
`OpenWeb` or `WebFails`, `WebEdit` and `Serve` for the loop, `Leave`, `Close`, `Unlink`,
`SaveOpen`, `SaveDone`, `Exit`. The socket file names the process that bound it, or is
stale, or is not there. SIGTERM kills before the handler is set and sets `stop` after;
a crash may come anywhere. pigpio serves one process at a time: that `InitSensor`
waits for nobody else to hold the sensor is what keeps two daemons from working on
`brew.db` at once, and it is pigpio's lock file that does it, not a line of this
program. The list is a number, new with each edit; `kept` is the one that
the next daemon has to find, which after a crash is what the file holds.

### WebSocketFrames

The module works on bytes, because the code does: `mg_deliver_websocket_data` looks for
a frame at the start of the buffer, or behind the fragments collected so far, unmasks
it in place, moves it up to the others, calls the handler with the last and removes
them. `Read` is one read of any size; `Unfragmented`, `Fragment` and `Partial` are the
three outcomes of one call. The page is modelled from what a browser may send: `Send`
puts the bytes of one frame of `Frames` on the wire (`Encoded`: flags, one of the three
forms of length, mask, masked data), a continuation only behind a fragment and nothing
behind a close. Frames and reads interleave.

`Frames` are the frames pages send: data below 64 KB, control frames never fragmented
(`FramesAssumption`). Of exclusive or, the constant `XorByte`, the proofs use that
it stays within bytes and undoes itself (`XorAssumption`); the run gives it the bitwise
operator. `wire` and `sent` are the page's side and history: for each frame where it
ends, its message so far, and the messages that are complete with it.

`MessageChannel` is the abstract specification: messages are sent and given to the
handler whole, once and in order; behind its close the page sends nothing; the handler's
call with the close at the latest marks the connection for closing, and no call does
before the page has sent its close. In `Channel` its `messages` are those complete with
the last frame sent, `leaving` is that this frame is a close, and `got` and `closing` are
the module's own. Frames that are not the last of their message, reads and `Partial` are
stutters.

### WebServer

`Select`, `Handle` for each connection of the round, `Accept`, `Close` and then
`Broadcast` or `NoBroadcast` are a round of the loop; `Handle` reads (any part of what
is there), serves, writes (what the kernel takes) and goes on with a file. Requests are
of two units, so that one arrives in parts. `Close` is the second pass over the list,
one connection after the other, and `PollReturns` its end. `ServeHttp`, `RestApi`,
`Upgrade` and `SendError` queue their replies; `Transfer` reads on in a file while less than
`SendMbuf` is queued and closes behind the last part, unless the connection is kept
alive. A browser asks again when it has its reply, reads, sends "zero" or a close frame,
stalls or leaves. What it asks on a connection is its plan; `PlansAssumption` says what
browsers do, that a websocket has a connection of its own and that nothing is
asked behind a request that ends the connection. History variables: `owed`, the replies
to all a browser has asked, and `shut`, the connections closed while the daemon runs.
Left out because they change nothing that is shown: pings to idle pages, and broadcasts
of a number that a page was sent last.

## Runs

Each run takes at most about a minute and a half with two workers.

| run | bounds | what it shows |
|---|---|---|
| `sensor` | 3 edges, 8 ticks, limit 2 | types; `PulseConservation`: each edge is in exactly one place; `OneStrayPerPour`; `PeriodGuarded`: a period has a timer to reset it unless overtaken; `PeriodAccurate`: right within one tick |
| `store` | 3 blocks, 2 names, `Cap` 3, `VolMod` 2 | types; `NamesOwned`; `RestartRestores`; `ImplementsBrewList` |
| `tap` | 2 edges, 4 ticks, limit 1 | types; `BilledOnce`; `ShownHeldOrBilled`: what pages show is in the sensor, or was billed since; `CallReturns`: calls of the main thread return; `PeriodResetUnlessOvertaken`; `StopsUnlessHeldUp` |
| `lifecycle` | 3 processes, 2 edits | types; `NothingForgotten`; `StaysReachable`; `ClientsFinish` |
| `ipc` | 2 clients, one command of each kind, `Cap` 3, 2 names | types; `CarriedAsSent`; `ListHasEarlierEdits`: when a list is answered, whole edits of those who returned before are carried out; `ClientsReturn`; `WholeIsServed` |
| `frames` | up to three frames: texts and fragments, a ping, a close; masked or not; the three forms of length | `MessagesDelivered`; `NothingKept`; `ClosesWithPage`; `ImplementsChannel`; `LoopEnds` |
| `web` | 2 connections, files of 3 units, 2 in the send buffer, 1 in the kernel, 1 pulse | types; `RepliesThenFrames`; `ClosedAfterReply`; `RequestsAnswered`; `DisplayCatchesUp`; `LeftIsForgotten` |

Why the bounds are enough to be worth something:

* Three edges allow a counted, a deferred and a stray pulse in any order, around a
  rollover, with the timer firing in between. Two edges and four ticks still defer, roll
  over and overtake a cancel. Pours of one and of several edges both occur.
* `Cap` 3 lets the count byte wrap after two brews, one block more than the list can hold
  lets a leaked name or a reused block show, `VolMod` 2 lets a volume wrap. The blocks
  are symmetric (no operation compares or orders them), and the view leaves `request`
  out, which no guard reads; TLC still evaluates the step properties on every step.
* Three processes are a daemon that stops, one that starts in between and a third that
  is a client or a second starter; each may start again after it ended.
* Two clients are one that dies in the middle and one behind it in the queue; an edit
  and the list that must show it.
* The payloads contain bytes that look like the frame of a close, so that a frame
  looked for at the wrong place is found; cuts are at every byte. Three frames are a
  message in three fragments, or two messages and the close behind them.
* A file of three units with two in the send buffer and one in the kernel is read, queued
  and written in several parts. The plans set a page against a download, and
  a malformed request against a connection that is kept alive until an error closes it.

Deadlock is checked in every run whose system goes on for ever or marks its end (`Ended`,
`Over`); not in `frames` and `web`, which end when the stream is read or the daemon
has left. Each property of a passing run has a mutant, a bug like those such code has (a
dropped reset, an unchecked init, a socket that is not closed, a connection closed with
output queued), under which TLC finds the property violated. Mutants stand before
the definitions they change.

### What the code does otherwise than it says

Each of these runs checks one statement of a comment or a header and finds it
violated; the counterexample is a real schedule of the code.

| run | statement | what happens |
|---|---|---|
| `sensor_mutex` | init initializes the sensor, quit cleans up (`flowsensor.h:5`, `:11`) | an edge before the mutex is allocated locks a null pointer; quit frees the mutex before the callbacks are unregistered |
| `store_rename` | rename renames (`main.c:29`) | it goes on to remove a brew by an index it never read |
| `tap_lost` | one tick is lost a pour (`flowsensor_pi.c:45`) | pulses between the read and the reset of a zero frame are lost too |
| `lifecycle_unreachable` | "set up socket server for IPC" (`main.c:128`) | with a stale file, or two starts at once, the daemon serves without a socket of its own, and `--stop` cannot reach it |
| `ipc_junk` | the header prevents junk (`daemon_ipc.h:4`) | a client that ends behind its header, or before its data, makes the daemon edit the brews by what its stack holds |

Seen on the way, without a run of their own: an edge between the timer thread's unlock
and its cancel loses its timer, so that the flow rate stays up until the next pulse
(`PeriodResetUnlessOvertaken` names the exception; `flowsensor_pi.c:29`); a deferred last
pulse waits for the next pour and is billed to it (`flowsensor_pi.c:71`); across a
rollover of the tick counter the period is one tick short (`flowsensor_pi.c:40`;
`PeriodAccurate` allows for it); the 256th brew empties the list (`datastore.c:81`) and
a pour larger than what is left wraps the volume (`server.c:68`; both are part of
`BrewList`); the name of a removed brew is never freed (`datastore.c:84`); a control
frame between the fragments of a message is taken for its last fragment (mongoose's own
TODO, `mongoose.c:9594`; browsers send none there).

## Fairness

`FairTapSpec`: pigpio's threads and the main thread take their enabled steps
(weak fairness), and a thread that waits for the mutex gets it if it is free again
and again (strong). The last is more than POSIX promises, and it is what happens here:
holders keep the mutex for a few instructions and the main thread sleeps in
`mg_mgr_poll` between its calls. `mg_mgr_poll` returns (it waits 200 ms at most and then
works off what has arrived, which is finite), strongly fair because zero frames take
the main thread out of the poll and back. No edge has to come. Nothing is assumed
of a client that was accepted: its socket blocks, so `StopsUnlessHeldUp` names one that
keeps its request back for ever as the exception.

`FairIpcSpec`: the daemon's thread and each client run on where they do not wait;
nobody has to connect, die, crash or be sent a signal. A client of this program writes
its pieces in a row, which is why its progress may be assumed here and not in
`TapServer`. `FairSpec` of `Lifecycle`: `main` takes its steps, and a daemon that
serves comes round to each client, as `accept` takes them in order.

`Spec` of `WebServer`: the main thread goes round its loop, and a browser that has not
stalled reads. Each round takes processor time, so `BROADCAST_DELAY`, which is compared
with `clock()`, passes again and again (strong fairness of `Broadcast`). Browsers
need not connect, ask, send or leave. `WebSocketFrames`: the main thread goes on in
the loop it is in. `BrewList` and `DataStore` promise nothing that needs fairness.

## Proofs

All theorems hold for every value of the constants under the named assumptions:
`FlowSensorAssumption` (the widths, limits and bounds are natural numbers),
`DataStoreAssumption` (`Cap` is at least 2, `VolMod` at least 1, 0 is a strength, pours
are volumes), `LifecycleAssumption` (the marks for no peer, no file, a stale file and
a torn list are not processes or lists), `DaemonIpcAssumption` (commands are
well-formed requests), `PlansAssumption` and `SizesAssumption` (what browsers ask, and a
file and buffers that are not empty), `FramesAssumption` and `XorAssumption` (what
pages send, and exclusive or). TLC evaluates them in the runs. Numbers of edges,
processes, clients, edits, names, connections, requests and frames, tick width, and the
sizes of the list, files, buffers and messages are unbounded.

* **`FlowSensorProofs`**: `TypeCorrect`, `PulsesConserved`, `StraysBounded`,
  `PeriodHasTimer`, `PeriodIsAccurate`. The conjunction of the five is not inductive:
  `IInv` adds who holds the mutex at each place of each thread, that `load` is still the
  value of `pulses` while the callback is between its read and its write, and that
  a period computed in the callback belongs to the edge being handled. The arithmetic
  of the tick counter is in three lemmas (`ElapsedType`, `PeriodWithinOneTick`,
  `StrayOpensPour`); then one lemma per thread.
* **`DataStoreProofs`**: `TypeCorrect`, `OwnershipHolds`, `RestartIsFaithful`. `IInv` adds
  that the array holds at least the slots that count, and that the file, as
  far as it is written, is a prefix of the list in memory or, while the daemon is down
  or up, the list of the last complete save. One lemma per request and per step of the
  save; `RemoveElementKeeps` serves remove and rename.
* **`DataStoreRefinement`**: `StoreImplementsList`, the initial state and each step
  map to `BrewList`, from the invariant and `RestartIsFaithful`'s lemma.
* **`TapServerProofs`**: `RunsSensor` (each behaviour of the daemon is one of the sensor,
  so the sensor's theorems hold in it, `SensorHolds`), `TapTypeCorrect`,
  `NothingBilledTwice`, `ShownIsHeldOrBilled`. `TapInv` adds where in the sensor the main
  thread may be for each place of the loop, and that what was read is still in the
  counter: pigpio's threads only add to it (`ThreadsOnlyAdd`). For what pages show,
  `ShownInv` follows a zero frame from its read to its reset: what it reads is no less
  than what is shown, unless that was billed already, and at the reset it was.
* **`LifecycleProofs`**: `TypeCorrect`, `NoEditForgotten`, `ServingStaysReachable`.
  `IInv` adds that one process at a time has the sensor (`OneHolder`), from before its
  load until after its save, and that the list to be found is the one on the disk
  between the daemons and around load and save (`DiskInStep`). That is why the order
  of unlink and save does no harm: a process that starts in between may bind, but
  gets the sensor, and with it the list, only after the save.
* **`DaemonIpcProofs`**: `IpcTypeCorrect`, `WholeRequestsCarried`, `ListsAreUpToDate`,
  `RequestsEditTheList`. `IInv` adds that the place of the daemon in the switch follows
  from the type its client sent, unless that client went away without one, and that
  whoever waits has not been served and waits once; `OrderInv`, a second induction on
  top, that whoever had returned when a client connected is never behind it in the queue.
  `EditsInv`, a third, says that an edit that was sent whole has been carried out as sent
  or its connection is open, as long as the daemon lives: no handler returns without it
  (`HandlerKeepsEdits`). At a list the two leave only carried out.
  With `RequestsEditTheList`, all that `BrewList` promises holds whatever clients send.

* **`WebServerProofs`**: `WebTypeCorrect`, `RepliesInOrder`, `WholeReplies`. None of the
  three is inductive, for each speaks of what has left the server and none of what is
  still to be read, served or queued. `ConnInv` says for one connection that either all
  it asked was served (`Serving`: what the browser has, what is in the kernel, what is
  queued and what is left of the file are together the replies it is owed, and only the
  last request ends the connection) or the last request is under way (`Pending`:
  the input read and unread is that request, and nothing is queued). A websocket has
  its handshake sent first and only once (`WsOK`). `ListInv` adds that a connection is in
  one place of one list, `ReadyInv` that what select returned holds until the connection's
  turn, `FreshInv` that a connection that was closed, or not accepted yet, holds nothing.
  One lemma per action, on top of lemmas on one connection (`HttpReceiveOK`,
  `WriteAndPollOK` and others), because the rest of the list does not matter to it. The
  handlers' lists are sequences: what `RemoveAt` and concatenation do to them is in
  lemmas of their own.
* **`WebSocketFramesProofs`**: `MessagesComeWhole`, `BufferKeepsNothing`,
  `ClosesWithThePage`, `FramesImplementChannel`. `Inv` is, in short, that there is a number h of frames the handler
  is done with (`Done(h)`): the buffer is the data of the fragments under way behind a
  zero byte, followed by the bytes that arrived behind frame h, and what was delivered is
  the messages complete with frame h. `PageInv` ties the frames to their places on the
  wire and says that the messages complete with a frame begin those of later frames. A read makes the buffer longer, a call of the handler takes h to h + 1, and the
  loop ends when frame h + 1 is not there (`WholeIsNext`). `SizesOf` shows that
  the header's reading gives the sizes that were written, for each form of the length and
  for headers that are cut; `FrameTaken`, that a frame is unmasked to what was sent; and
  `MovedUp`, that fragments are put together in place. For the channel, `SendRefines`
  maps the page's frames to `Send` or a stutter, and `DeliverRefines` the call with the
  last frame of a message to `Deliver`.

Only model-checked: the liveness properties (leads-to under fairness is out of the
prover's reach, as is ENABLED), and the violated statements. Every safety property of a
passing run is stated by a theorem.

## Not modelled, and why

* **Most of mongoose.** It is vendored, and the larger part of its 16 000 lines and all
  but a few of its header's 6 000 never run in this program: TLS, CGI, SSI, WebDAV,
  authentication, uploads, MQTT, CoAP, DNS, SNTP, UDP, the resolver, the ports to other
  systems. What runs and is not modelled: the parsing of request lines, headers and
  paths, MIME types, ranges and etags (the models take a parsed request); request
  bodies and chunked requests, which no browser of this page sends; pipelined
  requests; SHA-1 and base64 of the handshake.
  That is why the map covers a small share of all lines in `src/` while it covers the
  program's own C files nearly whole.
* **The client's conversion of its arguments** (`main.c:53-59`): one expression on one
  input. It is wrong for strengths such as 5.10 and 5.05 and reads an unset variable
  without a point (listed as a hazard); an add of the model takes any strength.
* **The conversion of pulses to millilitres** (a float product, truncated): a pour takes
  any volume of a set. The averaging of the flow rate and the drawing of the glass:
  nothing depends on them. `flowSensorGetRate` has no caller. The stub of desktop
  builds has no state.
* **Layout.** What the REST list and the client print is text made of the list. The
  array block of the store is freed where it is replaced.
* **Sizes.** A list longer than a socket buffer, which the client may read in part; the
  growth of a stalled page's queue, which nothing limits (listed as a hazard).

## What could come next

1. `DaemonIpc` over `DataStore` in place of `BrewList`, and `Lifecycle` over `DaemonIpc`:
   the requests of several daemons' lives in one behaviour.
2. `WebServer`'s units "zero" and "close" as messages of `MessageChannel`, so that the
   poll and the frames are one behaviour.
3. The parser of request lines and headers as functions against a reference.
