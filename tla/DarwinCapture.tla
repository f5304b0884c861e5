----------------------------- MODULE DarwinCapture -----------------------------
(***************************************************************************)
(* The capture driver of macOS.  An event tap pushes what the devices do    *)
(* into a ring, on the thread of its run loop; drain takes everything that  *)
(* has come as one batch, hands it to the node and turns wheel events into  *)
(* notches.  The ring, its closed flag and the suppression are static       *)
(* variables of the C part and outlive the driver that Stop has stopped:    *)
(* the next one finds them as they are.                                     *)
(*                                                                         *)
(* An event is a movement, a wheel event, a trackpad scroll of some pixels  *)
(* or a key; buttons and modifiers are passed on like keys.  One axis.      *)
(***************************************************************************)
EXTENDS Integers, Sequences

CONSTANTS
    Deltas,         \* movements of the mouse
    Pixels,         \* trackpad scrolls
    RingCap,        \* CS_EV_CAP: the ring holds one event less
    LinePx,         \* scrollLinePx
    MaxEvents,      \* bound: events of the devices
    MaxStarts       \* bound: drivers started one after the other

DarwinAssumption ==
    /\ Deltas \subseteq Int /\ Pixels \subseteq Int
    /\ {RingCap, LinePx, MaxStarts} \subseteq Nat \ {0} /\ MaxEvents \in Nat

VARIABLES
    ring, closed, suppress, bounce,     \* g_buf, g_closed, g_suppress, g_bounce
    tap,        \* the run loop: starting, noted, running, done
    drain,      \* the drain goroutine: where it is, the batch, its moves
    dir, past,  \* direction of the notch being collected; its window is over
    acc,        \* accumulated pixels
    stop,       \* no, closing, waiting, stopped
    heard,      \* the run loop was running when Stop stopped it
    turning,    \* direction the wheel is being turned in, within one detent
    moved, told,        \* movement of the mouse, movement OnMove was told
    scrolled, lines,    \* pixels of the trackpad, lines OnScroll was told
    detents, notches,   \* detents of the wheel, notches OnScroll was told
    dropped,    \* an event found the ring full
    late,       \* the window closed before all of its detent was handled
    crossed,    \* the node began to suppress while it was being stopped
    count, starts

static   == <<ring, closed, suppress, bounce>>
scroll   == <<dir, past, acc>>
life     == <<tap, stop, heard>>
movement == <<moved, told>>
wheel    == <<turning, detents, notches, late>>
pad      == <<scrolled, lines>>
rest     == <<dropped, crossed, count, starts>>
vars     == <<static, drain, scroll, life, movement, wheel, pad, rest>>

NoBatch == [at |-> "top", batch |-> <<>>, sum |-> 0, moves |-> FALSE]

Init ==
    /\ ring = <<>> /\ closed = FALSE /\ suppress = FALSE /\ bounce = FALSE
    /\ tap = "starting" /\ stop = "no" /\ heard = FALSE
    /\ drain = NoBatch
    /\ dir = 0 /\ past = FALSE /\ acc = 0
    /\ turning = 0 /\ detents = 0 /\ notches = 0 /\ late = FALSE
    /\ moved = 0 /\ told = 0 /\ scrolled = 0 /\ lines = 0
    /\ dropped = FALSE /\ crossed = FALSE
    /\ count = 0 /\ starts = 1

-----------------------------------------------------------------------------
(* The tap. *)

Ev(typ, d) == [typ |-> typ, d |-> d]

(* Mutant: the ring is filled to the last slot. *)
Push_OffByOne(e) ==
    /\ tap = "running"
    /\ IF Len(ring) < RingCap
       THEN ring' = Append(ring, e) /\ UNCHANGED dropped
       ELSE dropped' = TRUE /\ UNCHANGED ring

(* cs_tap_cb and cs_push: the callback is called by the run loop. *)
Push(e) ==
    /\ tap = "running"
    /\ IF Len(ring) < RingCap - 1
       THEN ring' = Append(ring, e) /\ UNCHANGED dropped
       ELSE dropped' = TRUE /\ UNCHANGED ring

Counted == count < MaxEvents /\ count' = count + 1

MouseMove(d) ==
    /\ Push(Ev("move", d)) /\ Counted
    /\ moved' = moved + d
    /\ UNCHANGED <<closed, suppress, bounce, drain, scroll, life, told, wheel, pad,
                   crossed, starts>>

(* The wheel reaches the next detent; one detent may come as several       *)
(* events.                                                                 *)
Detent(d) ==
    /\ turning = 0 /\ turning' = d /\ detents' = detents + 1
    /\ Push(Ev("wheel", d)) /\ Counted
    /\ UNCHANGED <<closed, suppress, bounce, drain, scroll, life, movement, notches, late,
                   pad, crossed, starts>>

DetentGoesOn ==
    /\ turning # 0
    /\ Push(Ev("wheel", turning)) /\ Counted
    /\ UNCHANGED <<closed, suppress, bounce, drain, scroll, life, movement, wheel, pad,
                   crossed, starts>>

DetentEnds ==
    /\ turning # 0 /\ turning' = 0
    /\ UNCHANGED <<static, drain, scroll, life, movement, detents, notches, late, pad, rest>>

Trackpad(px) ==
    /\ Push(Ev("pad", px)) /\ Counted
    /\ scrolled' = scrolled + px
    /\ UNCHANGED <<closed, suppress, bounce, drain, scroll, life, movement, wheel, lines,
                   crossed, starts>>

Key ==
    /\ Push(Ev("key", 0)) /\ Counted
    /\ UNCHANGED <<closed, suppress, bounce, drain, scroll, life, movement, wheel, pad,
                   crossed, starts>>

Waiting(typ) == \E i \in DOMAIN ring : ring[i].typ = typ
Taken(typ)   == \E i \in DOMAIN drain.batch : drain.batch[i].typ = typ

(* scrollClusterWindow passes after the last wheel event that was handled. *)
WindowCloses ==
    /\ dir # 0 /\ ~past /\ past' = TRUE
    /\ late' = (late \/ turning # 0 \/ Waiting("wheel") \/ Taken("wheel"))
    /\ UNCHANGED <<static, drain, dir, acc, life, movement, turning, detents, notches,
                   pad, rest>>

-----------------------------------------------------------------------------
(* The drain goroutine. *)

DrainAt(here, there) == drain.at = here /\ drain' = [drain EXCEPT !.at = there]

CheckStop ==
    /\ DrainAt("top", IF stop = "no" THEN "wait" ELSE "done")
    /\ UNCHANGED <<static, scroll, life, movement, wheel, pad, rest>>

(* cs_drain_batch: drainBatchSize is larger than the ring. *)
DrainBatch ==
    /\ drain.at = "wait" /\ ring # <<>>
    /\ drain' = [at |-> "batch", batch |-> ring, sum |-> 0, moves |-> FALSE]
    /\ ring' = <<>>
    /\ UNCHANGED <<closed, suppress, bounce, scroll, life, movement, wheel, pad, rest>>

(* Nothing came in 8 ms, or the queue is closed: a notch whose window is   *)
(* over is emitted.                                                        *)
NothingCame ==
    /\ ring = <<>> /\ DrainAt("wait", "top")
    /\ IF dir # 0 /\ past
       THEN notches' = notches + 1 /\ dir' = 0
       ELSE UNCHANGED <<notches, dir>>
    /\ UNCHANGED <<static, past, acc, life, movement, turning, detents, late, pad, rest>>

Event == Head(drain.batch)
Pop   == [drain EXCEPT !.batch = Tail(@)]

(* Mutant: the batch reports its last movement. *)
SumMove_Last ==
    /\ drain.at = "batch" /\ drain.batch # <<>> /\ Event.typ = "move"
    /\ drain' = [Pop EXCEPT !.sum = Event.d, !.moves = TRUE]
    /\ UNCHANGED <<static, scroll, life, movement, wheel, pad, rest>>

SumMove ==
    /\ drain.at = "batch" /\ drain.batch # <<>> /\ Event.typ = "move"
    /\ drain' = [Pop EXCEPT !.sum = @ + Event.d, !.moves = TRUE]
    /\ UNCHANGED <<static, scroll, life, movement, wheel, pad, rest>>

(* Mutant: the window is not looked at. *)
Wheel_AlwaysFlushes ==
    /\ drain.at = "batch" /\ drain.batch # <<>> /\ Event.typ = "wheel"
    /\ drain' = Pop
    /\ notches' = IF dir # 0 THEN notches + 1 ELSE notches
    /\ dir' = Event.d /\ past' = FALSE
    /\ UNCHANGED <<static, acc, life, movement, turning, detents, late, pad, rest>>

(* dispatch of a discrete wheel event. *)
Wheel ==
    /\ drain.at = "batch" /\ drain.batch # <<>> /\ Event.typ = "wheel"
    /\ drain' = Pop
    /\ notches' = IF dir = 0 \/ (dir = Event.d /\ ~past) THEN notches ELSE notches + 1
    /\ dir' = Event.d /\ past' = FALSE
    /\ UNCHANGED <<static, acc, life, movement, turning, detents, late, pad, rest>>

(* int32(): towards zero. *)
WholeLines(px) == IF px >= 0 THEN px \div LinePx ELSE -((-px) \div LinePx)

(* dispatch of a trackpad event: whole lines are emitted, but not twice    *)
(* within scrollTrackpadInterval.                                          *)
Scroll ==
    /\ drain.at = "batch" /\ drain.batch # <<>> /\ Event.typ = "pad"
    /\ drain' = Pop
    /\ \E now \in {0, WholeLines(acc + Event.d)} :
          /\ lines' = lines + now
          /\ acc' = acc + Event.d - now * LinePx
    /\ UNCHANGED <<static, dir, past, life, movement, wheel, scrolled, rest>>

PassKey ==
    /\ drain.at = "batch" /\ drain.batch # <<>> /\ Event.typ = "key"
    /\ drain' = Pop
    /\ UNCHANGED <<static, scroll, life, movement, wheel, pad, rest>>

(* OnMove after the rest of the batch; the shared cursor may cross in it,  *)
(* and then the node pins the cursor before it suppresses, or come back.   *)
(* The warps of drain move the cursor and nothing else.                    *)
OnMove ==
    /\ drain.at = "batch" /\ drain.batch = <<>>
    /\ told' = told + drain.sum
    /\ \/ drain' = NoBatch /\ UNCHANGED <<suppress, bounce, crossed>>
       \/ /\ drain.moves /\ ~suppress
          /\ drain' = [NoBatch EXCEPT !.at = "engage"]
          /\ bounce' = TRUE /\ crossed' = (stop # "no")
          /\ UNCHANGED suppress
       \/ /\ drain.moves /\ suppress
          /\ drain' = NoBatch
          /\ suppress' = FALSE /\ bounce' = FALSE
          /\ UNCHANGED crossed
    /\ UNCHANGED <<ring, closed, scroll, life, moved, wheel, pad, dropped, count, starts>>

Suppress ==
    /\ DrainAt("engage", "top")
    /\ suppress' = TRUE /\ crossed' = (stop # "no")
    /\ UNCHANGED <<ring, closed, bounce, scroll, life, movement, wheel, pad,
                   dropped, count, starts>>

(* SetRelativeMode(false) by another goroutine of the node. *)
Release ==
    /\ suppress /\ suppress' = FALSE /\ bounce' = FALSE
    /\ UNCHANGED <<ring, closed, drain, scroll, life, movement, wheel, pad, rest>>

-----------------------------------------------------------------------------
(* Start, Stop and the run loop. *)

RunLoop ==
    /\ \/ tap = "starting" /\ tap' \in {"noted", "done"}
       \/ tap = "noted" /\ tap' = "running"
    /\ UNCHANGED <<static, drain, scroll, stop, heard, movement, wheel, pad, rest>>

(* Mutant: the suppression is not taken back. *)
Stop_Suppressed ==
    /\ stop = "no" /\ stop' = "closing"
    /\ closed' = TRUE
    /\ UNCHANGED <<ring, suppress, bounce, drain, scroll, tap, heard, movement, wheel, pad, rest>>

Stop ==
    /\ stop = "no" /\ stop' = "closing"
    /\ suppress' = FALSE /\ bounce' = FALSE /\ closed' = TRUE
    /\ UNCHANGED <<ring, drain, scroll, tap, heard, movement, wheel, pad, rest>>

(* CFRunLoopStop, which needs a run loop that has been noted and runs. *)
StopRunLoop ==
    /\ stop = "closing" /\ stop' = "waiting"
    /\ heard' = (tap \in {"running", "done"})
    /\ tap' = IF tap = "running" THEN "done" ELSE tap
    /\ UNCHANGED <<static, drain, scroll, movement, wheel, pad, rest>>

Waited ==
    /\ stop = "waiting" /\ tap = "done" /\ drain.at = "done"
    /\ stop' = "stopped"
    /\ UNCHANGED <<static, drain, scroll, tap, heard, movement, wheel, pad, rest>>

(* The next driver: the pixels the old one had accumulated are forgotten. *)
Start ==
    /\ stop = "stopped" /\ starts < MaxStarts
    /\ starts' = starts + 1
    /\ tap' = "starting" /\ stop' = "no" /\ heard' = FALSE
    /\ drain' = NoBatch /\ dir' = 0 /\ past' = FALSE /\ acc' = 0
    /\ scrolled' = scrolled - acc
    /\ crossed' = FALSE
    /\ UNCHANGED <<static, movement, wheel, lines, dropped, count>>

TapEvent ==
    \/ \E d \in Deltas : MouseMove(d)
    \/ \E d \in {-1, 1} : Detent(d)
    \/ \E px \in Pixels : Trackpad(px)
    \/ DetentGoesOn \/ DetentEnds \/ Key

Drain ==
    \/ CheckStop \/ DrainBatch \/ NothingCame
    \/ SumMove \/ Wheel \/ Scroll \/ PassKey \/ OnMove \/ Suppress

Next == TapEvent \/ WindowCloses \/ Drain \/ Release \/ RunLoop
        \/ Stop \/ StopRunLoop \/ Waited \/ Start

Spec == Init /\ [][Next]_vars

-----------------------------------------------------------------------------
(* Type invariant.  The ring keeps one slot free. *)
TypeOK ==
    /\ Len(ring) < RingCap
    /\ \A i \in DOMAIN ring : ring[i].typ \in {"move", "wheel", "pad", "key"}
    /\ {closed, suppress, bounce, past, heard, dropped, late, crossed} \subseteq BOOLEAN
    /\ tap \in {"starting", "noted", "running", "done"}
    /\ drain.at \in {"top", "wait", "batch", "engage", "done"}
    /\ {dir, turning} \subseteq {-1, 0, 1}
    /\ stop \in {"no", "closing", "waiting", "stopped"}

Total(s, typ) ==
    LET sum[i \in 0 .. Len(s)] ==
          IF i = 0 THEN 0 ELSE sum[i - 1] + (IF s[i].typ = typ THEN s[i].d ELSE 0)
    IN  sum[Len(s)]

Queued(typ) == Total(ring, typ) + Total(drain.batch, typ)

(* While no event finds the ring full, OnMove and OnScroll are told of all *)
(* movement and all pixels, except for what is on its way: over batches,   *)
(* rounding, emission intervals and drivers that follow one another.       *)
MotionSummed ==
    ~dropped => /\ moved = told + drain.sum + Queued("move")
                /\ scrolled = lines * LinePx + acc + Queued("pad")

(* A detent is never several notches, if it is handled before the window   *)
(* closes on it.                                                           *)
NotchesCounted == ~late => notches + (IF dir = 0 THEN 0 ELSE 1) <= detents

(* Stop returns if the run loop was running or had failed, and the local   *)
(* input is not suppressed then, unless the node crossed meanwhile:        *)
(* StopHeard ~> StopDone.                                                  *)
StopHeard == stop = "waiting" /\ heard
StopDone  == stop = "stopped" /\ (crossed \/ ~(suppress \/ bounce))
=============================================================================
