------------------------------- MODULE MCCapture -------------------------------
(***************************************************************************)
(* Small instances of the capture drivers.  A build contains one of them:  *)
(* newCapture is WindowsCapture's on Windows and DarwinCapture's on macOS.  *)
(***************************************************************************)
EXTENDS WindowsCapture

CONSTANTS Pixels, RingCap, LinePx, MaxEvents, MaxStarts

VARIABLES
    platform,
    ring, closed, suppress, bounce, tap, drain, dir, past, acc, dstop, heard, turning,
    moved, told, scrolled, lines, detents, notches, dropped, late, crossed, count, starts

Mac == INSTANCE DarwinCapture WITH stop <- dstop

ASSUME MacAssumption == Mac!DarwinAssumption

macVars == <<ring, closed, suppress, bounce, tap, drain, dir, past, acc, dstop, heard, turning,
             moved, told, scrolled, lines, detents, notches, dropped, late, crossed, count,
             starts>>

CaptureInit == platform \in {"windows", "darwin"} /\ Init /\ Mac!Init

OnWindows == platform = "windows" /\ UNCHANGED <<platform, macVars>>
OnMac     == platform = "darwin" /\ UNCHANGED <<platform, vars>>

CaptureNext == (OnWindows /\ Next) \/ (OnMac /\ Mac!Next)

all == <<platform, vars, macVars>>

(* In each driver, every thread that can go on does.  The last formula is  *)
(* about the end of the Windows threads: no case of a select and no kind   *)
(* of message is passed over for ever.                                     *)
Fairness ==
    /\ WF_all(\/ OnWindows /\ HookThread
              \/ OnMac /\ Mac!Drain)
    /\ WF_all(\/ OnWindows /\ Dispatcher
              \/ OnMac /\ Mac!RunLoop)
    /\ WF_all(\/ OnWindows /\ Waited
              \/ OnMac /\ (Mac!StopRunLoop \/ Mac!Waited))
    /\ WF_all(OnWindows /\ PullLoop)
    /\ SF_all(OnWindows /\ Ends)

CaptureSpec == CaptureInit /\ [][CaptureNext]_all /\ Fairness

(* Type invariants of both drivers. *)
CaptureTypeOK == TypeOK /\ Mac!TypeOK

(* drain reports every movement and every pixel. *)
MotionSummed == Mac!MotionSummed

(* One detent of the wheel is not several notches. *)
NotchesCounted == Mac!NotchesCounted

(* Stop, once heard, returns; on macOS, with the local input given back.   *)
(* What is not the driver of the build never leaves its initial state.     *)
StopReturns == StopHeard \/ Mac!StopHeard ~> StopDone \/ Mac!StopDone
=============================================================================
