# CrossScreen: a TLA+ verification project

CrossScreen shares one keyboard and mouse between machines on a local network.
One node (the server) owns the physical devices and a *virtual desktop* that
holds every machine's screens; when the shared cursor leaves the server's own
screens, the server suppresses its local input and sends it to the machine
whose screen the cursor is on. Clipboard contents and files travel over the same
connections.

This directory models the parts of the program that make decisions: the
geometry of the virtual desktop and its coordinates, the cursor router, the
server node that couples them to the capture driver and the connections, the
session hub and its connections, the file transfer, the life of nodes in the
control panel, the capture drivers, the clipboard bridge, the injection on
Windows with its service, and the settings file. The modules are checked with
TLC on small instances. The invariants and action properties of the passing runs
are proved with TLAPS for every value of their constants, and so is that the
server node implements the router; what depends on fairness is model-checked.

```
tlc -workers 2 -config MCNode.cfg MCNode
tlc -workers 2 -config MCPair.cfg MCPair
tlc -workers 2 -config MCSharedInput_stuck.cfg MCSharedInput
tlapm RouterProofs.tla
```

## The system

| component | code | state | operations |
|---|---|---|---|
| geometry | `core/layout` | none | `Contains`, `ScreenAt`, `MovePointer` |
| cursor router | `core/session/router.go` | layout, position, screen under the cursor; one mutex | `SetLayout`, `OnLocalMove`, `MoveByDelta`, `MoveTo`, `SetPosition`, `Active` |
| session server | `core/session/server.go`, `peer.go` | peers by remote address, their screens and handshake state | hello, layout report, routing of local and remote input, broadcasts, relays, ping loop, disconnect |
| session client | `core/session/client.go` | last layout, `closedCh` | handshake, receive loop, sends |
| transport | `core/transport` | open connections | accept, frame read and write, disconnect callback |
| server node | `platform/adapter` (`Server`) | placements, relative flag, copy of the layout | capture callbacks, rebuild of the arrangement, release of the input |
| client node | `platform/adapter` (`Client`) | layout, capture | inject what arrives, detach when the connection ends |
| file transfer | `platform/filexfer` | offers sent, offers received, chunk queue, send function | offer, accept, stream, write loop, cancel, done, attach, detach |
| clipboard bridge | `platform/clipboard` | content last written, last change counter | watch, write a text or a file list, leave out own contents |
| control panel | `platform/control` | current node, generation, settings in memory | start, stop, connect, disconnect callback, settings |
| capture drivers | `platform/capture` | relative mode and anchor, pending move, event queue or ring, notch being collected | hook or tap callbacks, dispatcher or drain, suppress, pin the pointer, start, stop |
| injection drivers | `platform/inject` | none to speak of | move, click, type |
| secure input | `platform/winsec` (proxy, pipe, agent) | cached desktop and connection, pipe, agent's queue | inject here or through the agent, time out, fall back, accept, drain |
| service | `platform/winsec/service_windows.go` | agent's process, session of the last tick | start, stop, tick, spawn, kill |
| config | `platform/config` | the settings file and its temporary file | load, save |
| discovery, protocol, autostart, tray, keymap, `cmd`, `tools` | | | I/O, data, tables and glue |

How they interact. Input: a capture driver calls the adapter from its dispatch
goroutine; the adapter asks the router where the cursor goes and writes to the
peer's connection; the client's receive loop injects. Arrangement: every join,
screen report and leave runs `rebuildLayout` on the goroutine of the connection
it concerns, and every placement request on a web handler's goroutine; it
installs the new arrangement in the router and pushes it to the peers. Files: an
offer is broadcast as a clipboard event; accept, chunks, cancel and done are
addressed to one device and relayed by the server; the manager outlives the
node and is attached to each new one. Clipboard: a watcher polls the system's
clipboard and hands what changed to the session; the receive loop writes what
the session brings, the file manager the files that have arrived. Injection on
Windows: the receive loop's injector asks which desktop has the input and either
injects or writes to the pipe of an agent, which the service keeps alive.

What is hard: several goroutines read the router, then act on the answer;
`setRelative` changes a flag under a lock and tells the driver outside it;
rebuilds overlap; connections die unnoticed; file chunks are queued while
cancels are not; nodes are stopped and started while old goroutines still run;
a clipboard is written, remembered and polled by three goroutines and any other
program; a write to the pipe may succeed after its caller has given up; an agent
may find the pipe still owned by its predecessor; settings are changed without a
lock.

What makes each component correct:

* geometry and router: the screen that receives input is under the cursor; a
  move neither loses the cursor nor stops short; a rearrangement leaves no
  stale screen behind.
* server node: local input is suppressed exactly while the cursor is on a
  peer; the arrangement shows exactly the devices that are connected; a
  device that leaves gives the input back.
* session: the handshake is the first exchange on a connection; a broadcast
  that fails for one peer reaches the others; the live peer of a device is used.
* file transfer: delivered files are complete; a transfer that ends has ended
  on both sides; nothing is written after it ended; stopping a node is safe.
* clipboard: a change is shared once and not sent back; the machines end up with
  the same content.
* control: callbacks of an old node do not touch the new one.
* secure input: every event is injected once, on the desktop that has the input.
* service: the session at the console has an agent.
* settings: what was saved survives a crash at any point.

## Modules

### Layout
`core/layout` as pure operators over records and sequences. Coordinates are Go
`int32`: `MaxInt` stands for 2^31 - 1 and every sum goes through `Add` or `Sub`,
which wrap. Names and the primary flag are dropped. `FirstOf` is "the first
screen in list order that passes", which the code writes as a loop with an
early return. `IsLayout` collects what the geometry needs: int32 fields and far
edges that do not overflow, which `rebuildLayout` does not check.

### Coordinates (MCRouter, CoordinatesProofs)
`toVirtual` and `toGlobal` of `platform/adapter` (`core`), which move a point
between a screen as its device has it and the same screen in the arrangement,
and `MovePointer` of the Windows injector, which scales pixels to `0 .. Scale`
(65535). Pure operators over Layout's screens. Both conversions are given an
arrangement; the branches for a node that has none yet are left out.

### Router (MCRouter, MCNode, RouterProofs)
One action per method of `Router`; each runs under `Router.mu`. `Advance` is
the body the three move methods share. `Layouts`, `Coords` and `Deltas` are
sets of inputs.

### SharedInput (MCSharedInput, MCPair, SharedInputProofs)
The server node. The router's methods are taken from `Router` by `INSTANCE`, so
the node changes the cursor only the way the router does; `RouterSpec` checks
that as a refinement. A thread has a position `pc`; a step is what it does under
one lock, or one call to the driver or the network:

* `rebuildLayout` (`Rebuild`): copy placements, read the peers, store the copy
  used for injection, look whether the active device has gone, move the
  cursor home, clear the flag, tell the driver, install. `Orders` is Go's
  random map order.
* the capture goroutine: `MoveCoupled` (edge band and projection), `RouteAbs`,
  `SendOk`/`SendFail`, `CheckActive`, `EngageFlag`, `EngageCall`; and, in
  relative mode, `MoveRelative`, `RouteDelta`, `CheckBack`, `BackFlag`,
  `BackCall`; `LocalEvent` for keys, buttons and scrolling; `Force*` is
  `forceRelease`.
* one read goroutine per connection: `Hello`, `Report`, `PeerMove`,
  `Disconnect`. A link is up, half (gone, unnoticed: writes may succeed) or
  dead; `Break` and `Detect` move it on.
* the user: `SetPlacement`, `ClearPlacement`.

`collided` remembers that two rebuilds have overlapped, `meddled` that a peer
has moved the cursor itself. `MCPair` lets one kind of trouble happen in a
behaviour: links that break, or users and peers who move screens and the cursor.

The desktop is one row of pixels; vertical borders behave like horizontal ones
and the router's own runs have both. One screen per peer; the pointer warps of
`resync` and `releaseIfActiveGone` and the pushes to the peers change no state
that is modelled. Each connection has its own device.

### FileTransfer (MCFileTransfer, FileTransferProofs)
One transfer between the manager that offers (`"out"`) and the manager that
receives (`"in"`), with the two message queues between them. A chunk is the
unit of size and a block is its offset. Streaming is split where the code looks
at the cancel channel, reads, and waits for the network; `processChunk` is one
step, as it runs under the transfer's lock. `TakeCancel` works on the read
goroutine and so overtakes chunks in `recvCh`. `Stop`, `Start`, `Lose`,
`Connect` and `ReceiverGone` are what nodes and connections do to the managers;
`ReceiverGone` is the receive goroutine of a client, which detaches the manager
some time after its connection has ended. A node that panics is `"crashed"`.

### SessionHub (MCSessionHub, SessionHubProofs)
The session server and its clients over connections that are two bounded
queues (`down`, `up`; `Buffer` messages each), because a write blocks when the
other side does not read and no write has a deadline. Threads of the server are
the read goroutine of each connection, the goroutine of the local clipboard
(`Local`) and the ping loop (`Pinger`). Everything that writes to several peers
is a job: a message and a snapshot of the peers, written to in any order
(`Write`, `PassOver` for a peer that is not ready, `WriteFails`, which ends the
job at once except in the ping loop). A rebuild is `ReadPeers`, `Install` and
the pushes. `RecvHello`, `MarkReady` and the ack are separate steps, as in
`handleHello`. A client is in its handshake or serving; it reads a ping and
writes the pong in one step, so a pong that cannot be written holds up what follows;
`Break` closes its connection or leaves it half open: nobody reads, and writes
succeed until the buffer is full. Messages carry what the properties need: the
peers an arrangement shows, the number of a clipboard change, the addressee of
a relayed message. `Local` stands for the server's own machine in `seen`.

### NodeControl (MCNode, NodeProofs)
`control.App` and the nodes it starts. Code under `App.mu` is one step;
`ConnectClient` dials outside the lock and is `ConnectClient`, `Dial`,
`Attach`, `SendLayout`, `Install`; a failed `Listen` closes its node after the
unlock (`CloseFailed`). `CaptureFails` and `SendLayoutFails` leave behind what
the code leaves behind. A client's receive loop is `ServeReturns`, `Cleanup`
(watcher and `Detach`), `OnClientDisconnected`. `sender` is the node whose send
function the one file manager of the process holds. `overlap` and `early`
remember that two requests ran at once, and that a callback came before its
client was recorded; `late` that a receive loop detached another node's manager.
Names and the HTTP layer are not modelled; the settings are SettingsStore's.

### WindowsCapture (MCCapture, CaptureProofs)
The Windows driver on one axis, load by load and store by store. `hook` is the
thread the system calls `mouseProc` on: `MouseMove`, `LoadAnchor`, `AddPending`,
`StoreAbs`, `StoreRel`, `SignalMove`, which also moves the cursor unless the
event is swallowed. `disp` is the dispatcher: `TakeSignal`, `Drain`, `LoadAbs`,
`LoadRel`, `SwapDX`, `OnMoveRelative`, `OnMoveCoupled`. What the node does in
`OnMove` is `Handled`: nothing (`Stay`), the pin of a crossing (`PinCursor`) with
the switch of the mode a step later (`SetRelativeMode`), or the end of relative
mode (`Leave`) with the move of the cursor a step later (`Resync`). `pull` is
`pullLoop`, whose throttle is a choice. `releaseIfActiveGone` runs on goroutines
of its own, in the other order: `ReleaseMoves` moves the cursor, `ReleaseClears`
leaves the mode later, and `freeing` holds the goroutines in between. The system
delivers a position one movement away from the cursor. `travel`, `reported` and `raced` are what the properties
compare. Whether a warp is itself seen by the hook is left out.

### DarwinCapture (MCCapture, CaptureProofs)
The macOS driver. `Push` is `cs_push`; `Detent`, `DetentGoesOn` and `DetentEnds`
are a wheel whose detents come as one or more events; `WindowCloses` is the
passing of `scrollClusterWindow` since the last event was handled. A batch is
handled event by event (`SumMove`, `Wheel`, `Scroll`, `PassKey`), then its
movement (`OnMove`), with the node's pin and `Suppress` as on Windows. `static`
is the state of the C part, which `Start` does not reset. A run loop is
starting, noted (Stop could stop it, but it does not run yet), running, done.
Delivery to the tap of a driver that has been stopped, the switch-off of slow
taps and the modifiers' remembered state are left out.

### ClipboardEcho (MCDesktop, DesktopProofs)
The clipboards of a server and one client, on Windows or macOS each. A write is
as many steps as the system sees: `BeginWrite` (open and empty), `Fill`, `Close`,
`Mark` (`lastWritten`); the watcher's round is `Sample`, `Read`, `Check`. Another
program copies in the same steps. `Read` is one step, although the code opens the
clipboard, looks for files, then for text: on Windows nobody else can write while
it is open, and `Opens` lets a write fail meanwhile, as it does in the code. A
write that fails in the sink ends the session (`EndSession`), one of the file
manager gives up the transfer. `changed` is whether the change counter differs
from the watcher's last sample. On Windows filling counts once more. A text
travels as it is, a file list as an offer that arrives or is refused; how files
travel is FileTransfer's. `Reconnect` gives the client a new `Clipper`.

### SecureInput (MCDesktop, DesktopProofs)
The proxy injector, the pipe and the agent. A caller is `Call`, a decision by the
cached desktop (`RouteChecks`, `RouteCached`) or a new one (`RouteChecks`,
`RouteStamps`, `RouteAsks`, `RouteStores`), an atomic load, store or system call
each, then `Inject`, or a write: `ForwardCached`, `ForwardDials`, `ForwardFails`, `Write` on
a goroutine of its own, `Written`, or `Timeout`, `Drop` and `Inject`. A query
may fail on either desktop, and counts as secure then. The agent: `AgentReads` into its
queue, which drops when it is full, `AgentInjects`, `AgentHangsUp` and
`AgentListens`, which drains the queue. `Expire` is the passing of 300 ms of the
cache or of the back-off. Events are numbered per caller; `twice`, `doubt` and
`lost` say what became of them. A key-up that a full queue drops counts as lost
like any event. `Flip` locks or unlocks the machine; `older` are the callers that
have read the desktop before it and have still to store what they read, `unsure`
lasts until an answer is stored while nobody is among them.

### AgentService (MCDesktop, DesktopProofs)
`Execute` and `runSupervisor`, one `Tick` a second, and the agents as processes:
starting, listening, serving, between two connections (`gap`), dying after
`TerminateProcess`, gone. One process at a time owns the first instance of the
pipe; one that finds it taken exits (`Listen`). Consoles are switched, with or
without a log-off; agents crash; a spawn fails.

### SettingsStore (MCDesktop, DesktopProofs)
`UpdateSettings` field by field, without a lock as in the code, then `Save`:
`Marshal`, `OpenTmp` (truncates), `WriteTmp` (may be cut short), `Rename`. A
request that has opened a file keeps the inode when the name moves on. `Crash` is the end of the
program anywhere and its next start, which loads. Values that `UpdateSettings`
refuses change nothing and are left out.

## Runs

| run | question | expected |
|---|---|---|
| `node` | the router over seven arrangements, 4-bit coordinates; nodes started and stopped by requests that may overlap | holds |
| `pair` | one peer joins, crosses, dies, returns, or has its screen placed and moves the cursor itself | holds |
| `second` | does the shared cursor follow the mouse on a second local screen? | violated |
| `stuck` | does the input come back when a peer is lost? | violated |
| `ghost` | do two peers at once leave the right arrangement? | violated |
| `files` | a transfer under faults, restarts and late detaches | holds |
| `empty` | is a copy with an empty file delivered? | violated |
| `panic` | is stopping a node after a cancel safe? | violated |
| `hub` | pushes, broadcasts and relays over two connections that stall and break | holds |
| `handshake` | does a dialing client read the ack first? | violated |
| `capture` | either capture driver: moves, wheel, crossings, overflow, stop, restart | holds |
| `desktop` | clipboards, secure input, its service and the settings, each on its own | holds |

`node`, `capture` and `desktop` each put components side by side that share no
state: the first choice of a behaviour is which one runs, and the others keep
their initial state.

**node, the router.** Arrangements with a shared edge, a gap, a partly shared edge, an
overlap, three screens, a lone machine and no screen; the coordinates -8..7 let
every sum wrap. `CursorMatchesActive` says that the screen input is routed
to is under the cursor, and that "none" is never stale. `OverlapSettles` is about
overlapping screens, where a move and a lookup may disagree: as long as the
screens under the pointer are the same, the input goes to the first of the list,
and a screen the pointer has not left loses it only to one that is listed earlier
and is under the pointer too. So the input may change hands in the middle of an
overlap, but never back and forth.
`MoveLandsNearest` says a move into a gap slides along the border.
The assumptions of MCRouter are evaluated before the run: `ConversionsAgree`,
from every local point to the virtual desktop and back is the identity on the
arrangements without overlaps; `PixelsStayApart`, no two pixels of a desktop
within the scale are injected as one, and their order is kept.

**pair.** `LayoutTracksPeers`: when no rebuild is running and none has
overlapped another, the arrangement shows exactly the devices that have
reported, and both copies of it agree. `ExclusiveInput`: between events, on
undisturbed links, suppression is on exactly while the cursor is on a peer. It
is stated for at most one peer with screens and rebuilds that do not overlap,
because it is not true of more: a second peer's screens may come before the
first one's in the next arrangement, or a rebuild that read the peers too early
leaves the first one out, and the screen under the cursor changes hands without
the capture driver being told, until the next movement.
`RouterSpec`: the node uses the cursor only as Router specifies.
`RelativeMeansPeer`: relative mode without a peer under the cursor ends, whether
the peer was lost or its screen was moved away. `PeerJoins`: a device that
reported becomes part of the arrangement.

**stuck.** `onMove` has decided to engage and `setRelative(true)` has set the
flag; the peer's read goroutine runs `setRelative(false)` to the end, driver
call included; then the first call reaches the driver. The flag is off, the
driver suppresses, and every later `setRelative(false)` finds nothing to do.

**ghost.** Two read goroutines rebuild at once. The one that read the peers
first installs last: `ArrangementIsCurrent` is `LayoutTracksPeers` without the
exemption.

**second.** `onMove` looks a screen up by global coordinates and passes the same
coordinates on to `OnLocalMove`, which adds the screen's origin. On a second
monitor the cursor is off by that origin.

**files.** Two files of two and one chunks, sources that may have shrunk or
grown, one failing operation, two connections, either node (or a third one) as
the server. `FilesIntact`, `DoneMeansDelivered`, `NoLeakedFile` and
`AbortIsFinal` are safety; `TransferEnds` says that while both nodes stay
connected, a transfer ends on both sides;
`Delivered` says that one with nothing going wrong arrives.

**empty.** The sender sends no chunk for an empty file, and the receiver moves
on to the next file only with a chunk.

**panic.** The receiver cancels (disk full, for instance), the sender's cancel
channel is closed; then the node is stopped and `Detach` closes it again.

**hub.** `ClipOnce`: no machine applies a clipboard change twice or its own
change, and changes of one machine arrive in order. `ChangeReachesAll`: when
everything is quiet and nothing has broken, a change has reached every machine
that was in the session when it was made. `ViewsConverge`: when everything is
quiet, the router's arrangement and the one each client last received are the
same and show exactly the peers that reported. It exempts rebuilds that
overlapped (see `ghost`), not pushes that failed: a push stops at the first
peer that fails, and it takes that peer's own disconnect to make up for it.
`TypeOK` includes that whoever is a peer has a connection that is open or whose
read goroutine is ending.

**handshake.** A peer is ready before its ack is written, so the rebuild another
peer has caused may write the arrangement to it first. Its `Dial` then fails.

**node, the panel.** The type invariant includes that the kind of node always names a node that is
there, for overlapping requests as well. For requests that come one at a time:
`NoOrphan`, no node serves, captures or watches the clipboard that the panel does
not hold; `DropsDeadClient`, a client whose loop has ended is not shown as
connected, unless its callback came before it was recorded (then it is shown for
good); `FilesAttached`, the one file manager sends through the node in use;
`StaleCallbackHarmless`. With overlapping requests `NoOrphan` does not hold: of two clients dialed at
once, one stays connected and nobody can stop it.

Two cases that `FilesAttached` exempts because the code does not prevent them:
the receive loop of a replaced client may end after the new node has attached
the file manager, and then detaches it (`late`); a node that failed to start
leaves its function behind.

**capture.** A build has one of the drivers; the first choice of the run is
which. On Windows, `MotionIsRaw`: what `OnMove` is told in relative mode, with
what is pending, is what the mouse has moved, though every delta is computed
from a position and an anchor and the hook thread, the dispatcher, `pullLoop` and
the goroutines that release the input touch either. The exceptions are remembered
in `raced`: events measured while the anchor has been set and the mode has not,
across a warp or a pin, or after a release has moved the cursor and before it has
left the mode (`adapter.go:442` to `447`); and a mode that stays on, or is pinned
anew, although the cursor has left the anchor, since the driver is told outside
the node's lock. Such an event adds the distance between cursor and anchor, every one of them, until the
next warp. `NothingForgotten`: the dispatcher never sleeps on an undispatched
move. On macOS, `MotionSummed`: batches, rounding and restarts lose no movement
and no pixel, as long as the ring has room. `NotchesCounted`: a detent that is
handled within its window is at most one notch. `StopReturns`: a stop that the
listening thread hears returns and gives the input back. The other side of each
is in the code too: a stop that comes before the hook thread has its id, or
before the run loop has been noted, waits for ever (a node that cannot listen on
its port is stopped that early); a detent handled late counts twice and a quick
turn of the wheel counts once; a driver stopped in the middle of a crossing
leaves the input suppressed for the next one.

**desktop, the clipboards.** `EchoNeedsRace`: what the session put on a clipboard
goes back into the session only when the watcher's round overlapped that write
(`raced`), or when it is the empty text, whose marker is nil. The package comment
promises it without a condition; the code writes first and remembers afterwards,
so a round in between takes the content for the user's. `ClipboardsAgree`: after
copies made one after the other both machines hold the same content, so no
marker left behind hides a later copy. `calm` exempts copies made in the middle
of something, lost sessions, failed writes, and a read that fails while another
program holds the clipboard, since that change is never looked at again.

**desktop, secure input.** `ExactlyOnce`: an event is injected twice only if its
caller gave up on a write that went through, and lost only if the agent dropped
it or died. `NoLateInjection`: what somebody gave up on does not follow a later
event of the same caller over a newer connection; the drain is there for that.
`RightDesktop`: on the secure desktop, an event bypasses the agent only by an
answer its caller read before the machine was locked, or by the cache as long as
no answer has been stored since without an older one still to come; failed
queries count as secure for everybody. The exemption is real: callers check,
stamp, ask and store without a lock, so an answer from before the lock can be stored over one
from after it, and events go to the locked machine's normal desktop until the
cache has expired and another answer is stored.

**desktop, the service.** `AgentReturns`: while the service runs and a session
keeps the console, that session has an agent with the pipe again and again, and
other sessions' agents leave. It depends on the exit code being looked at: an
agent that finds its predecessor's pipe exits at once and has to be started
again.

**desktop, the settings.** `SettingsSurvive`: what a request was told is saved is
what the next start loads, wherever the program died. Requests that overlap are
exempt: they share one temporary file, and one may rename what another has just
truncated, although `config.go:103` says that `Save` writes atomically.

### Bounds
`MaxConnects`, `MaxPlacements`, `MaxSessions` and `MaxFaults` bound how often
the environment acts; one or two are enough for a second visit of every state. Two
peers are needed for `ghost`, `hub` and `handshake`, one for the rest. In `hub`
a connection holds one message each way, so every write can block; `MaxEvents`
counts clipboard changes, relayed messages, pings, breaks and the close
together: two of them meet in every order, on top of two joins. The two clients
and the two requests of `node` are interchangeable (symmetry; both runs check
safety only). Three nodes are an old one, its replacement and a third that
overlaps. Screens of two pixels, an edge
band of one and steps of two give positions inside and outside the band and
steps that cross a whole screen. In `capture` three movements are one to cross
and two that meet in the pending slots; positions 0 and 5 tell anchors, pins and
movements of 1 apart. A ring of three slots holds two events, so the third finds
it full; a line of 2 pixels and scrolls of 3 leave remainders. Three chunks in two files give a first, a
middle and a last chunk and a change of file. A queue of one chunk and a network
buffer of one message make every wait possible. In `desktop`
three copies are two in a row and one that meets them; a text, a file list and
the empty text are all the kinds of content the code tells apart; `MaxTrouble` of
1 is one race, one timeout, one lock or one death per behaviour (both modules
also hold with 2, with 3.6 million and 4.4 million states, too long to repeat as
a run). Two callers, a pipe of two frames and a queue of one make every wait and every drop possible, two connections an old and
a new one. Three agents are one dying, one that finds the pipe taken and its
successor; three mishaps are a crash, a switch and a switch back. Two requests of
two fields, four inodes (one for the settings, one for the temporary name, one a
writer still has open, one spare) and two crashes. Deadlock is not checked in
the file, hub, node, capture and desktop runs: once the bounds are used up, nothing is left to do.

### Fairness
Goroutines that can take a step eventually take it: weak fairness per
goroutine. In SharedInput a broken connection is eventually noticed (the 20 s
ping and TCP keepalive) and a user whose input is captured keeps moving the
mouse, since relative mode is only re-examined by a mouse movement. In `capture` every
thread of a driver that can go on does; a `select` and the message loop do not
pass over the same case for ever (strong fairness of the three threads' ends),
and the handler returns. In AgentService the
supervisor's ticker ticks (`Tick`), an agent that runs gets to its pipe (`Listen`)
and a terminated process ends (`End`); nobody has to connect. Users,
failures and new connections are never fair. SessionHub, NodeControl,
ClipboardEcho, SecureInput and SettingsStore state safety only and assume no
fairness: that a blocked write ever ends is up to TCP.

## Proofs

The theorems say of the specifications the runs check (`Spec`, or `NodeSpec`,
`CaptureSpec` and `DesktopSpec`, where components stand side by side) that they
imply the property; none uses their fairness. The constants are arbitrary,
within the assumptions named below, which TLC evaluates in the runs. Eight
modules hold the proofs.

`RouterProofs` proves, for every set of legal layouts, every set of int32
inputs and every `MaxInt` from 1 up, `TypeOK`, `CursorMatchesActive`,
`MoveLandsNearest`, `MoveKeepsCursor` and `OverlapSettles`. Assumptions:
the layouts are legal (`LayoutsAssumption`), inputs are int32
(`InputsAssumption`). The inductive invariant is the conjunction of the first
two: a clamp is exact only when the cursor was on a screen of the layout, and
the next lookup is exact only when the cursor is an int32. The geometry carries
the weight: `ScreenAtFinds` and `AcrossEdgeFinds` (a screen is found exactly
when there is one), `ClampSpanNearest` and `ClampToNearest` (a clamp ends on the
screen, at the nearest point), `MovePointerEnds` (where a move can end).
`FirstOf` takes the least index by a well-founded minimum.

`CoordinatesProofs` proves `ConversionsUndoEachOther`: for every arrangement
without overlaps that shows a device's screens with their identifiers and sizes,
wherever they are placed and whatever the width of the coordinates, `ToGlobal`
gives back the point `ToVirtual` was given, or there was no point. Shifting by a
screen's offset cannot wrap inside a screen (`ShiftSpan`), a screen is found by
its identifier (`FindScreenFinds`, `FindScreenMisses`), and the shifted point is
found again by `ScreenAtFinds` of RouterProofs.

`SharedInputProofs` proves four things of the server node.
`ServerUsesRouter`: the node implements the router. Initial states map to
initial states, and each step of a thread is a step of one method of `Router` or
leaves the cursor, the arrangement and the active screen alone. RouterProofs is
instantiated with the arrangements the node can build, so its theorems hold of
the node (`ServerCursorMatchesActive`). `ServerTypeOK` is the type invariant.
`ServerLayoutTracksPeers` needs `OneAtATime` (as long as nothing has collided,
one thread rebuilds) and `Current`, which says at every point of a rebuild what
its snapshot shows. `ServerExclusiveInput` proves `ExclusiveInput` with
`ExclusiveInv`: as long as nobody disturbs, the arrangement is the first one or
the one with the peer (`ShowsOne`), so a rebuild never finds the device under
the cursor missing; the cursor is on a screen (`OnScreen`); and the flag, the
driver and the side the cursor is on agree with where the capture goroutine is
(`InPhase`), step for step through `setRelative` and its call outside the lock.
Assumptions: threads are distinct and connections finitely many
(`ThreadsAssumption`); this machine's screens are a row and legal
(`ScreensAssumption`); inputs contain what the code computes from them
(`CoordsAssumption`); the arrangements that can be built are legal
(`LegalAssumption`; `rebuildLayout` does not check it); bounds are naturals.

`FileTransferProofs` proves `TypeOK`, `FilesIntact`, `DoneMeansDelivered`,
`NoLeakedFile` and `AbortIsFinal` for any number of files of any size, any
queue capacity and any number of sessions and faults, from one invariant
(`TransferInv`). Its parts: `Landed` (all files before the current one are on
disk as they were announced, the current one up to the transfer's offset),
`Finished` (a done message, and files on the clipboard, come after the last
file), `OfferOnce` and `Quiet` (what cannot have happened before the receiver
has answered), `FewAnswers` (a transfer sends two messages at most, so the queue
to the sender stays within its type), `Abandoned` (a transfer that a manager has
let go gets no chunk). `AbortIsFinal` is an action property: a look at every
step that touches the transfer. Assumptions: sizes are naturals
(`FilesAssumption`), roles and answers are what they are called
(`NodesAssumption`), capacities are positive (`BoundsAssumption`).

`SessionHubProofs` proves `TypeOK`, `ClipOnce`, `ChangeReachesAll` and
`ViewsConverge` for any number of connections, any buffer and any number of
events (`HubAssumption`). `ClipOnce` follows from `InOrder`: along every path a
change can take (a client's queue up, a job of the server, the queues down, what
has been seen), the changes of one machine come one behind the other. `ChangeReachesAll` follows from `NothingEnds` (as long as
nothing breaks, whoever a job writes to is a peer) and `AllOnWay` (a change is
seen, or it is on its way to every machine it is for). `ViewsConverge` follows
from `Arranged`: rebuilds that have not overlapped run one at a time; the router
shows who has reported, except between the two halves of a rebuild; a push
carries the router's arrangement; and a peer whose queue does not end in it
either is about to be written to, or some peer is joining or leaving and owes
another rebuild.

`NodeProofs` proves, for overlapping requests as well, `NodeTypeOK` of router
and panel, and for requests that come one at a time `NoOrphan`,
`DropsDeadClient`, `FilesAttached`; and `StaleCallbackHarmless`, an action
property. `PanelInv` says what a request has in hand between its locked steps:
`Alone` (as long as nothing overlapped, one request at a time, and the panel is
empty while it makes a node), `Stamped` (a generation names one client),
`Current` (the client the panel holds carries the panel's generation), `Owned`
(who serves, captures or watches is held, being made or on its way out),
`Dropped` and `Sends` (whose send function the file manager has). Assumption:
bounds are naturals (`PanelAssumption`), and those of the router.

`CaptureProofs` proves of the Windows driver, for every set of movements and
positions, every queue and every bound (`WindowsAssumption`), its type
invariant, `MotionIsRaw` and `NothingForgotten`. `MotionInv` strengthens the
second: in relative mode the cursor is on the anchor unless a release is under
way, it is there between the pin and the switch, and no hook called in coupled
mode has still to let its event pass; so an event that measures a distance
measures the mouse. `DueInv` strengthens
the third: at every point of the dispatcher, either a signal is pending or the
hook will give one, or what the dispatcher has loaded is what is pending. Of the
macOS driver (`MacAssumption`) it proves the types, `NotchesCounted` and
`MotionSummed`. `OneNotchEach` strengthens the first: every wheel event that
waits, in the batch or in the ring, can be given the number of a detent, in
order, with one direction per number, none smaller than the notch it will be
counted in and none larger than the detents there have been. `Summed` is
`MotionSummed` with the type of its terms; its lemmas say what a queue's total
is after an event has come or gone (`TotalEmpty`, `TotalAppend`, `TotalPop`). A
total is a recursive function; that it is the last of the queue's running sums
is proved by looking at the least index where it were not (`RunningExists`,
`RunningIsTotal`), since induction rules cannot be used with these provers.

`DesktopProofs` proves `DesktopInvariant`, the conjunction of what follows, and
the types of all four parts (`DesktopTypeCorrect`).

* Settings: `SettingsSurvive`, for any number of requests, fields, files and
  crashes. It is not inductive: `Quiet` adds, as long as no two requests have
  overlapped, that one request at a time is at work, the temporary file is not
  the settings file, a request about to write holds it open, one about to rename
  finds its own settings in it, and what it has marshalled is still what is in
  memory. Assumption: the torn content is no settings and inode numbers are
  positive (`SettingsAssumption`).
* Clipboards (`ClipAssumption`): `EchoNeedsRace` from `Undisturbed`: as long as
  the watcher's round has not met a write of the session, what it will find is
  what the marker says, and it finds it once. `ClipboardsAgree` from `Wave`: as
  long as users copy one after the other, one content is all that is on the way;
  the machine it was copied on shows it, and the other shows it or something is
  left that brings it.
* Secure input (`SecureAssumption`): `ExactlyOnce` from `Traced`: an event whose
  caller has not given up is in one place at most, with its caller, in a write,
  in the pipe, in the queue or injected, and one that was called is somewhere or
  counted lost. `NoLateInjection`: when the agent injects, nothing waits that came
  over a newer connection, because it drained its queue for it (`LastConnection`).
  `RightDesktop` from `DesktopKnown`: an answer that is still to be stored is
  right unless its caller is in `older`, and once `unsure` is over nobody is, and
  the cache does not say normal on the secure desktop.
* Service (`AgentsAssumption`): its type invariant.

Only model-checked: liveness (`RelativeMeansPeer`, `PeerJoins`, `TransferEnds`,
`Delivered`, `StopReturns`, `AgentReturns`), which is out of the prover's reach,
as is `ENABLED`; the scaling of `Normalised` (`PixelsStayApart`), which is
arithmetic of division by a variable; and the disagreements of code and
documents, which are counterexamples.

## Not modelled

* Session: duplicate host names, reuse of a client's port, input events relayed
  between clients, `TypeBye`. TLS is never enabled by the program.
* Control: names. A device renamed in the panel keeps its old name in the file
  manager, so that answers to its offers find nobody.
* Overlapping requests that save: the model has them, `SettingsSurvive` exempts them.
* Capture by a client (`RoleSource`), which the panel never starts.
* winsec: `ProbePipeState`, `attachInputDesktop` and diagnostics; installation and
  removal of the service beyond its start and stop.
* File transfer: several receivers of one offer, several transfers in one queue,
  the status list, name sanitising, cleanup of old staging directories.
* Injection beyond the scaling of coordinates: one call of the system per event.
* Discovery, wire protocol, keymaps, autostart, tray, web UI, demos, icon
  generator: I/O, data, tables and glue without a protocol of their own.

## Plan

1. Layout, Router and its proofs, SharedInput, FileTransfer, SessionHub,
   NodeControl: done.
2. WindowsCapture and its proofs, DarwinCapture: done.
3. ClipboardEcho, SecureInput, AgentService, SettingsStore and its proofs,
   Coordinates and its proofs: done.
4. Proofs of SharedInput (with the refinement of Router), FileTransfer,
   SessionHub, NodeControl, DarwinCapture, ClipboardEcho, SecureInput and
   AgentService: done.
5. What is left: `ExclusiveInput` for several peers, which needs the code to tell
   the capture driver when a rebuild moves the screen under the cursor; the
   scaling of `Normalised`; an abstract transfer (offered, accepted, ended) that
   FileTransfer implements.
