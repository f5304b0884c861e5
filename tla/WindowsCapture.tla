---------------------------- MODULE WindowsCapture ----------------------------
(***************************************************************************)
(* The capture driver of Windows.  Several threads meet in it: the hook     *)
(* thread, on which the system calls mouseProc and keyProc and waits for    *)
(* them; the dispatcher, which calls the node's handler; pullLoop, which    *)
(* warps the cursor back to the anchor; the goroutines that rebuild the     *)
(* arrangement and release the input when its peer has gone; and whoever    *)
(* stops the driver.  They share atomic words and three channels, never a   *)
(* lock, so every load and store is a step.                                 *)
(*                                                                         *)
(* The driver does not know the mode of the node, which SharedInput has:    *)
(* what the handler does with it is a choice here.                          *)
(*                                                                         *)
(* The desktop has one axis.  A hook that returns 1 swallows the event: the *)
(* cursor stays, and the position it was given is the one the cursor would  *)
(* have had.                                                                *)
(***************************************************************************)
EXTENDS Integers

CONSTANTS
    Deltas,         \* movements of the mouse
    Spots,          \* positions the node pins or moves the cursor to
    Home,           \* the centre of the primary screen
    Rebuilders,     \* goroutines that rebuild the arrangement
    QueueCap,       \* capacity of the events channel
    MaxMotions,     \* bound: movements
    MaxCrossings    \* bound: times the node enters relative mode

ASSUME WindowsAssumption ==
    /\ Deltas \subseteq Int /\ Spots \subseteq Int /\ Home \in Int
    /\ QueueCap \in Nat /\ MaxMotions \in Nat /\ MaxCrossings \in Nat

VARIABLES
    relative, anchor,           \* mode and bounce anchor
    pendDX, pendAbs, pendRel,   \* the pending aggregated move
    haveLast, lastX,            \* the last position told in coupled mode
    moveSig, pullCh, events,    \* the channels; of events, how many wait
    hook,       \* the hook thread: where it is, the event it handles
    disp,       \* the dispatcher: where it is, what it has loaded
    pull,       \* pullLoop: idle, warp, done
    freeing,    \* rebuilders that have moved the cursor home and not yet left the mode
    quit,       \* WM_QUIT is in the hook thread's message queue
    stop,       \* no, asked, stopped
    cursor,     \* the system's cursor
    travel,     \* what the mouse has moved in relative mode
    reported,   \* what OnMove was told of it
    raced,      \* history: a step came into a window in which the anchor is not the cursor
    motions, crossings

shared  == <<relative, anchor>>
pending == <<pendDX, pendAbs, pendRel>>
last    == <<haveLast, lastX>>
chans   == <<moveSig, pullCh, events>>
threads == <<hook, disp, pull, freeing>>
life    == <<quit, stop>>
world   == <<cursor, travel, reported, raced>>
bounds  == <<motions, crossings>>
vars    == <<shared, pending, last, chans, threads, life, world, bounds>>

(* The locals of a callback, and of a turn of the dispatcher, are gone when *)
(* it returns.                                                              *)
HookIdle(at) == [at |-> at, pt |-> 0, rel |-> FALSE, ax |-> 0, d |-> 0]
DispIdle(at) == [at |-> at, x |-> 0, dx |-> 0, then |-> "select"]

Init ==
    /\ relative = FALSE /\ anchor = 0
    /\ pendDX = 0 /\ pendAbs = 0 /\ pendRel = FALSE /\ haveLast = FALSE /\ lastX = 0
    /\ moveSig = FALSE /\ pullCh = FALSE /\ events = 0
    /\ hook = HookIdle("starting") /\ disp = DispIdle("select")
    /\ pull = "idle" /\ freeing = {} /\ quit = FALSE /\ stop = "no"
    /\ cursor = 0 /\ travel = 0 /\ reported = 0 /\ raced = FALSE
    /\ motions = 0 /\ crossings = 0

-----------------------------------------------------------------------------
(* The hook thread. *)

HookAt(here, there) == hook.at = here /\ hook' = [hook EXCEPT !.at = there]

(* run: the thread has its id and its hooks. *)
Listen ==
    /\ HookAt("starting", "listening")
    /\ UNCHANGED <<shared, pending, last, chans, disp, pull, freeing, life, world, bounds>>

(* mouseProc begins: the position is measured from the cursor, and the     *)
(* mode is loaded.  Between PinCursor and SetRelativeMode, and after a     *)
(* release has moved the cursor and before it leaves the mode, that is not *)
(* a measure of the movement.                                              *)
MouseMove(d) ==
    /\ hook.at = "listening" /\ motions < MaxMotions
    /\ motions' = motions + 1
    /\ hook' = [at |-> IF relative THEN "anchor" ELSE "abs",
                pt |-> cursor + d, rel |-> relative, ax |-> 0, d |-> d]
    /\ raced' = (raced \/ disp.at = "engage" \/ (relative /\ freeing # {}))
    /\ UNCHANGED <<shared, pending, last, chans, disp, pull, freeing, life,
                   cursor, travel, reported, crossings>>

LoadAnchor ==
    /\ hook.at = "anchor"
    /\ hook' = [hook EXCEPT !.at = "add", !.ax = anchor]
    /\ UNCHANGED <<shared, pending, last, chans, disp, pull, freeing, life, world, bounds>>

AddPending ==
    /\ HookAt("add", "abs")
    /\ pendDX' = pendDX + (hook.pt - hook.ax)
    /\ travel' = travel + hook.d
    /\ UNCHANGED <<shared, pendAbs, pendRel, last, chans, disp, pull, freeing, life,
                   cursor, reported, raced, bounds>>

StoreAbs ==
    /\ HookAt("abs", "rel")
    /\ pendAbs' = IF hook.rel THEN hook.ax ELSE hook.pt
    /\ UNCHANGED <<shared, pendDX, pendRel, last, chans, disp, pull, freeing, life, world, bounds>>

StoreRel ==
    /\ HookAt("rel", "signal")
    /\ pendRel' = hook.rel
    /\ UNCHANGED <<shared, pendDX, pendAbs, last, chans, disp, pull, freeing, life, world, bounds>>

(* Mutant: no signal while a move is being dispatched. *)
SignalMove_WhenIdle ==
    /\ hook.at = "signal" /\ hook' = HookIdle("listening")
    /\ moveSig' = (moveSig \/ disp.at = "select")
    /\ cursor' = IF hook.rel THEN cursor ELSE hook.pt
    /\ UNCHANGED <<shared, pending, last, pullCh, events, disp, pull, freeing, life,
                   travel, reported, raced, bounds>>

(* signalMove, and mouseProc returns: the event is swallowed if the mode   *)
(* it loaded was relative.                                                 *)
SignalMove ==
    /\ hook.at = "signal" /\ hook' = HookIdle("listening")
    /\ moveSig' = TRUE
    /\ cursor' = IF hook.rel THEN cursor ELSE hook.pt
    /\ UNCHANGED <<shared, pending, last, pullCh, events, disp, pull, freeing, life,
                   travel, reported, raced, bounds>>

(* enqueue, from either hook: a full channel drops the event. *)
Enqueue ==
    /\ hook.at = "listening"
    /\ events' = IF events < QueueCap THEN events + 1 ELSE events
    /\ UNCHANGED <<shared, pending, last, moveSig, pullCh, threads, life, world, bounds>>

HookQuits ==
    /\ quit /\ HookAt("listening", "done")
    /\ UNCHANGED <<shared, pending, last, chans, disp, pull, freeing, life, world, bounds>>

-----------------------------------------------------------------------------
(* The dispatcher. *)

DispAt(here, there) == disp.at = here /\ disp' = [disp EXCEPT !.at = there]

TakeSignal ==
    /\ moveSig /\ moveSig' = FALSE
    /\ DispAt("select", "drain")
    /\ UNCHANGED <<shared, pending, last, pullCh, events, hook, pull, freeing, life, world, bounds>>

Drain ==
    /\ moveSig' = FALSE
    /\ DispAt("drain", "abs")
    /\ UNCHANGED <<shared, pending, last, pullCh, events, hook, pull, freeing, life, world, bounds>>

LoadAbs ==
    /\ disp.at = "abs"
    /\ disp' = [disp EXCEPT !.at = "rel", !.x = pendAbs]
    /\ UNCHANGED <<shared, pending, last, chans, hook, pull, freeing, life, world, bounds>>

LoadRel ==
    /\ disp.at = "rel"
    /\ disp' = [disp EXCEPT !.at = IF pendRel THEN "swap" ELSE "coupled",
                            !.then = IF pendRel THEN "pull" ELSE "select"]
    /\ UNCHANGED <<shared, pending, last, chans, hook, pull, freeing, life, world, bounds>>

SwapDX ==
    /\ disp.at = "swap"
    /\ disp' = IF pendDX # 0 THEN [disp EXCEPT !.at = "relative", !.dx = pendDX]
                            ELSE DispIdle("select")
    /\ pendDX' = 0
    /\ UNCHANGED <<shared, pendAbs, pendRel, last, chans, hook, pull, freeing, life, world, bounds>>

(* Mutant of PinCursor: the anchor is set, the cursor is not moved there. *)
PinCursor_NoWarp ==
    /\ crossings < MaxCrossings /\ crossings' = crossings + 1
    /\ disp' = [DispIdle("engage") EXCEPT !.then = disp.then]
    /\ anchor' \in Spots
    /\ raced' = (raced \/ relative \/ hook.at \notin {"listening", "done"} \/ pull = "warp")
    /\ UNCHANGED <<relative, cursor>>

(* In the handler: the cursor crosses to a peer, and the node calls        *)
(* PinCursor before it enters relative mode.  The anchor is not the cursor *)
(* for an event that is being handled, for a warp that is about to happen, *)
(* or, if the driver is still relative, between the two stores.            *)
PinCursor ==
    /\ crossings < MaxCrossings /\ crossings' = crossings + 1
    /\ disp' = [DispIdle("engage") EXCEPT !.then = disp.then]
    /\ anchor' \in Spots /\ cursor' = anchor'
    /\ raced' = (raced \/ relative \/ hook.at \notin {"listening", "done"} \/ pull = "warp")
    /\ UNCHANGED relative

(* In the handler: the cursor is back, or the peer cannot be reached, and  *)
(* the node leaves relative mode before it moves the cursor.  A release    *)
(* may have left the mode already and not yet told the driver.             *)
Leave ==
    /\ crossings > 0
    /\ disp' = [DispIdle("resync") EXCEPT !.then = disp.then]
    /\ relative' = FALSE \/ (freeing # {} /\ UNCHANGED relative)
    /\ UNCHANGED <<anchor, cursor, raced, crossings>>

Stay ==
    /\ disp' = DispIdle(disp.then)
    /\ UNCHANGED <<shared, cursor, raced, crossings>>

Handled == PinCursor \/ Leave \/ Stay

(* OnMove with a relative movement; pullLoop is asked for a warp after it. *)
OnMoveRelative ==
    /\ disp.at = "relative"
    /\ reported' = reported + disp.dx
    /\ Handled
    /\ UNCHANGED <<pending, last, chans, hook, pull, freeing, life, travel, motions>>

RequestPull ==
    /\ disp.at = "pull" /\ disp' = DispIdle("select")
    /\ pullCh' = TRUE
    /\ UNCHANGED <<shared, pending, last, moveSig, events, hook, pull, freeing, life, world, bounds>>

(* OnMove with a position. *)
OnMoveCoupled ==
    /\ disp.at = "coupled"
    /\ haveLast' = TRUE /\ lastX' = disp.x
    /\ Handled
    /\ UNCHANGED <<pending, chans, hook, pull, freeing, life, travel, reported, motions>>

SetRelativeMode ==
    /\ disp.at = "engage" /\ disp' = DispIdle(disp.then)
    /\ relative' = TRUE
    /\ UNCHANGED <<anchor, pending, last, chans, hook, pull, freeing, life, world, bounds>>

(* The local cursor is put where the shared cursor is, or on the primary   *)
(* screen.                                                                 *)
Resync ==
    /\ disp.at = "resync" /\ disp' = DispIdle(disp.then)
    /\ cursor' \in Spots
    /\ UNCHANGED <<shared, pending, last, chans, hook, pull, freeing, life, travel, reported, raced,
                   bounds>>

(* OnButton, OnScroll or OnKey, which fail when the peer cannot be reached. *)
HandleInput ==
    /\ disp.at = "select" /\ events > 0
    /\ events' = events - 1
    /\ \/ UNCHANGED <<relative, disp>>
       \/ /\ crossings > 0 /\ disp' = DispIdle("resync")
          /\ relative' = FALSE \/ (freeing # {} /\ UNCHANGED relative)
    /\ UNCHANGED <<anchor, pending, last, moveSig, pullCh, hook, pull, freeing, life, world, bounds>>

DispatcherStops ==
    /\ stop # "no" /\ DispAt("select", "done")
    /\ UNCHANGED <<shared, pending, last, chans, hook, pull, freeing, life, world, bounds>>

-----------------------------------------------------------------------------
(* releaseIfActiveGone, in the goroutine of a connection: the peer whose   *)
(* screen had the shared cursor has gone.                                  *)

(* The cursor is moved to the primary screen, whatever the mode is by now. *)
ReleaseMoves(r) ==
    /\ (crossings > 0 \/ disp.at = "coupled") /\ r \notin freeing
    /\ freeing' = freeing \cup {r}
    /\ cursor' = Home
    /\ raced' = (raced \/ disp.at = "engage")
    /\ UNCHANGED <<shared, pending, last, chans, hook, disp, pull, life, travel, reported, bounds>>

(* Then setRelative(false), which calls the driver only if the node's mode *)
(* changes: a driver that stays relative has lost its anchor.              *)
ReleaseClears(r) ==
    /\ r \in freeing
    /\ freeing' = freeing \ {r}
    /\ \/ relative' = FALSE /\ UNCHANGED raced
       \/ UNCHANGED relative /\ raced' = (raced \/ relative)
    /\ UNCHANGED <<anchor, pending, last, chans, hook, disp, pull, life, cursor, travel, reported,
                   bounds>>

-----------------------------------------------------------------------------
(* pullLoop, which also lets a request pass when the last warp was less    *)
(* than 8 ms ago.                                                          *)

TakePull ==
    /\ pull = "idle" /\ pullCh /\ pullCh' = FALSE
    /\ pull' \in IF relative THEN {"idle", "warp"} ELSE {"idle"}
    /\ UNCHANGED <<shared, pending, last, moveSig, events, hook, disp, freeing, life, world, bounds>>

Warp ==
    /\ pull = "warp" /\ pull' = "idle"
    /\ cursor' = anchor
    /\ UNCHANGED <<shared, pending, last, chans, hook, disp, freeing, life,
                   travel, reported, raced, bounds>>

PullStops ==
    /\ stop # "no" /\ pull = "idle" /\ pull' = "done"
    /\ UNCHANGED <<shared, pending, last, chans, hook, disp, freeing, life, world, bounds>>

-----------------------------------------------------------------------------
(* Stop closes c.stop and posts WM_QUIT, which a thread without an id yet  *)
(* does not get; then it waits for the three goroutines.                   *)

Stop ==
    /\ stop = "no" /\ stop' = "asked"
    /\ quit' = (hook.at # "starting")
    /\ UNCHANGED <<shared, pending, last, chans, threads, world, bounds>>

Waited ==
    /\ stop = "asked" /\ hook.at = "done" /\ disp.at = "done" /\ pull = "done"
    /\ stop' = "stopped"
    /\ UNCHANGED <<shared, pending, last, chans, threads, quit, world, bounds>>

HookThread == Listen \/ LoadAnchor \/ AddPending \/ StoreAbs \/ StoreRel \/ SignalMove

Dispatcher ==
    \/ TakeSignal \/ Drain \/ LoadAbs \/ LoadRel \/ SwapDX \/ OnMoveRelative
    \/ RequestPull \/ OnMoveCoupled \/ SetRelativeMode \/ Resync \/ HandleInput

PullLoop == TakePull \/ Warp

Ends == HookQuits \/ DispatcherStops \/ PullStops

Next ==
    \/ \E d \in Deltas : MouseMove(d)
    \/ \E r \in Rebuilders : ReleaseMoves(r) \/ ReleaseClears(r)
    \/ Enqueue \/ HookThread \/ Dispatcher \/ PullLoop \/ Ends \/ Stop \/ Waited

Spec == Init /\ [][Next]_vars

-----------------------------------------------------------------------------
(* Type invariant.  The channels hold no more than they were made for. *)
ThreadsOK ==
    /\ hook \in [at : {"starting", "listening", "anchor", "add", "abs", "rel", "signal", "done"},
                 pt : Int, rel : BOOLEAN, ax : Int, d : Int]
    /\ disp \in [at : {"select", "drain", "abs", "rel", "swap", "relative", "pull", "coupled",
                       "engage", "resync", "done"},
                 x : Int, dx : Int, then : {"select", "pull"}]
    /\ freeing \subseteq Rebuilders
    /\ pull \in {"idle", "warp", "done"} /\ stop \in {"no", "asked", "stopped"}

FlagsOK ==
    /\ relative \in BOOLEAN /\ pendRel \in BOOLEAN /\ haveLast \in BOOLEAN
    /\ moveSig \in BOOLEAN /\ pullCh \in BOOLEAN /\ quit \in BOOLEAN /\ raced \in BOOLEAN

NumbersOK ==
    /\ anchor \in Int /\ pendDX \in Int /\ pendAbs \in Int /\ lastX \in Int
    /\ cursor \in Int /\ travel \in Int /\ reported \in Int
    /\ events \in 0 .. QueueCap
    /\ motions \in 0 .. MaxMotions /\ crossings \in 0 .. MaxCrossings

TypeOK == ThreadsOK /\ FlagsOK /\ NumbersOK

(* What OnMove is told of the movement in relative mode, with what is      *)
(* still to be told, is what the mouse has moved in relative mode: the     *)
(* anchor, the swallowing of events and the warps of two threads make raw  *)
(* deltas of positions.  A movement measured in one of the windows that    *)
(* the code leaves open, while a crossing pins the cursor or a release has *)
(* moved it, is left out.                                                  *)
MotionIsRaw ==
    ~raced => travel = reported + pendDX + (IF disp.at = "relative" THEN disp.dx ELSE 0)

(* No lost wakeup: when the dispatcher waits and nothing signals it, the   *)
(* last position, or all relative movement, has been dispatched.           *)
NothingForgotten ==
    disp.at = "select" /\ ~moveSig /\ hook.at = "listening" /\ motions > 0 =>
        IF pendRel THEN pendDX = 0 ELSE haveLast /\ lastX = pendAbs

(* Stop returns once the hook thread has heard of it: StopHeard ~> StopDone. *)
StopHeard == stop = "asked" /\ quit
StopDone  == stop = "stopped"
=============================================================================
