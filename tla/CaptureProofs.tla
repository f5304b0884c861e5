----------------------------- MODULE CaptureProofs -----------------------------
(***************************************************************************)
(* Theorems about both capture drivers, for every set of movements,        *)
(* positions and pixels, every queue and every bound: what the threads of  *)
(* the Windows driver tell the node, and how the driver of macOS makes     *)
(* notches of the events of a wheel.                                       *)
(***************************************************************************)
EXTENDS MCCapture, Sequences, TLAPS, WellFoundedInduction

-----------------------------------------------------------------------------
(* Type correctness, one part of it at a time. *)

(* A thread is where its code can be. *)
LEMMA ThreadsStep == TypeOK /\ [Next]_vars => ThreadsOK'
<1> SUFFICES ASSUME TypeOK, [Next]_vars PROVE ThreadsOK'
  OBVIOUS
<1> USE WindowsAssumption DEF TypeOK, ThreadsOK, FlagsOK, NumbersOK, shared, pending, last, chans, threads, life, world, bounds, HookIdle, DispIdle
<1>1. ASSUME NEW d \in Deltas, MouseMove(d) PROVE ThreadsOK'
  BY <1>1 DEF MouseMove
<1>2. CASE Enqueue
  BY <1>2 DEF Enqueue
<1>3. CASE Listen
  BY <1>3 DEF Listen, HookAt
<1>4. CASE LoadAnchor
  BY <1>4 DEF LoadAnchor
<1>5. CASE AddPending
  BY <1>5 DEF AddPending, HookAt
<1>6. CASE StoreAbs
  BY <1>6 DEF StoreAbs, HookAt
<1>7. CASE StoreRel
  BY <1>7 DEF StoreRel, HookAt
<1>8. CASE SignalMove
  BY <1>8 DEF SignalMove, HookAt
<1>9. CASE TakeSignal
  BY <1>9 DEF TakeSignal, DispAt
<1>10. CASE Drain
  BY <1>10 DEF Drain, DispAt
<1>11. CASE LoadAbs
  BY <1>11 DEF LoadAbs
<1>12. CASE LoadRel
  BY <1>12 DEF LoadRel, DispAt
<1>13. CASE SwapDX
  BY <1>13 DEF SwapDX
<1>14. CASE OnMoveRelative
  BY <1>14 DEF OnMoveRelative, Handled, PinCursor, Leave, Stay
<1>15. CASE RequestPull
  BY <1>15 DEF RequestPull, DispAt
<1>16. CASE OnMoveCoupled
  BY <1>16 DEF OnMoveCoupled, Handled, PinCursor, Leave, Stay
<1>17. CASE SetRelativeMode
  BY <1>17 DEF SetRelativeMode, DispAt
<1>18. CASE HandleInput
  BY <1>18 DEF HandleInput
<1>19. CASE TakePull
  BY <1>19 DEF TakePull
<1>20. CASE Warp
  BY <1>20 DEF Warp
<1>21. CASE HookQuits
  BY <1>21 DEF HookQuits, HookAt
<1>22. CASE DispatcherStops
  BY <1>22 DEF DispatcherStops, DispAt
<1>23. CASE PullStops
  BY <1>23 DEF PullStops
<1>24. ASSUME NEW r \in Rebuilders, ReleaseMoves(r) PROVE ThreadsOK'
  BY <1>24 DEF ReleaseMoves
<1>28. ASSUME NEW r \in Rebuilders, ReleaseClears(r) PROVE ThreadsOK'
  BY <1>28 DEF ReleaseClears
<1>29. CASE Resync
  BY <1>29 DEF Resync
<1>25. CASE Stop
  BY <1>25 DEF Stop
<1>26. CASE Waited
  BY <1>26 DEF Waited
<1>27. CASE UNCHANGED vars
  BY <1>27 DEF vars
<1> QED
  BY <1>1, <1>2, <1>3, <1>4, <1>5, <1>6, <1>7, <1>8, <1>9, <1>10, <1>11,
     <1>12, <1>13, <1>14, <1>15, <1>16, <1>17, <1>18, <1>19, <1>20, <1>21,
     <1>22, <1>23, <1>24, <1>25, <1>26, <1>27, <1>28, <1>29
  DEF Next, HookThread, Dispatcher, PullLoop, Ends

(* Flags and channels of one slot stay Booleans. *)
LEMMA FlagsStep == TypeOK /\ [Next]_vars => FlagsOK'
<1> SUFFICES ASSUME TypeOK, [Next]_vars PROVE FlagsOK'
  OBVIOUS
<1> USE WindowsAssumption DEF TypeOK, ThreadsOK, FlagsOK, NumbersOK, shared, pending, last, chans, threads, life, world, bounds, HookIdle, DispIdle
<1>1. ASSUME NEW d \in Deltas, MouseMove(d) PROVE FlagsOK'
  BY <1>1 DEF MouseMove
<1>2. CASE Enqueue
  BY <1>2 DEF Enqueue
<1>3. CASE Listen
  BY <1>3 DEF Listen, HookAt
<1>4. CASE LoadAnchor
  BY <1>4 DEF LoadAnchor
<1>5. CASE AddPending
  BY <1>5 DEF AddPending, HookAt
<1>6. CASE StoreAbs
  BY <1>6 DEF StoreAbs, HookAt
<1>7. CASE StoreRel
  BY <1>7 DEF StoreRel, HookAt
<1>8. CASE SignalMove
  BY <1>8 DEF SignalMove, HookAt
<1>9. CASE TakeSignal
  BY <1>9 DEF TakeSignal, DispAt
<1>10. CASE Drain
  BY <1>10 DEF Drain, DispAt
<1>11. CASE LoadAbs
  BY <1>11 DEF LoadAbs
<1>12. CASE LoadRel
  BY <1>12 DEF LoadRel, DispAt
<1>13. CASE SwapDX
  BY <1>13 DEF SwapDX
<1>14. CASE OnMoveRelative
  BY <1>14 DEF OnMoveRelative, Handled, PinCursor, Leave, Stay
<1>15. CASE RequestPull
  BY <1>15 DEF RequestPull, DispAt
<1>16. CASE OnMoveCoupled
  BY <1>16 DEF OnMoveCoupled, Handled, PinCursor, Leave, Stay
<1>17. CASE SetRelativeMode
  BY <1>17 DEF SetRelativeMode, DispAt
<1>18. CASE HandleInput
  BY <1>18 DEF HandleInput
<1>19. CASE TakePull
  BY <1>19 DEF TakePull
<1>20. CASE Warp
  BY <1>20 DEF Warp
<1>21. CASE HookQuits
  BY <1>21 DEF HookQuits, HookAt
<1>22. CASE DispatcherStops
  BY <1>22 DEF DispatcherStops, DispAt
<1>23. CASE PullStops
  BY <1>23 DEF PullStops
<1>24. ASSUME NEW r \in Rebuilders, ReleaseMoves(r) PROVE FlagsOK'
  BY <1>24 DEF ReleaseMoves
<1>28. ASSUME NEW r \in Rebuilders, ReleaseClears(r) PROVE FlagsOK'
  BY <1>28 DEF ReleaseClears
<1>29. CASE Resync
  BY <1>29 DEF Resync
<1>25. CASE Stop
  BY <1>25 DEF Stop
<1>26. CASE Waited
  BY <1>26 DEF Waited
<1>27. CASE UNCHANGED vars
  BY <1>27 DEF vars
<1> QED
  BY <1>1, <1>2, <1>3, <1>4, <1>5, <1>6, <1>7, <1>8, <1>9, <1>10, <1>11,
     <1>12, <1>13, <1>14, <1>15, <1>16, <1>17, <1>18, <1>19, <1>20, <1>21,
     <1>22, <1>23, <1>24, <1>25, <1>26, <1>27, <1>28, <1>29
  DEF Next, HookThread, Dispatcher, PullLoop, Ends

(* Counters and the channel of events stay within their bounds. *)
LEMMA NumbersStep == TypeOK /\ [Next]_vars => NumbersOK'
<1> SUFFICES ASSUME TypeOK, [Next]_vars PROVE NumbersOK'
  OBVIOUS
<1> USE WindowsAssumption DEF TypeOK, ThreadsOK, FlagsOK, NumbersOK, shared, pending, last, chans, threads, life, world, bounds, HookIdle, DispIdle
<1>1. ASSUME NEW d \in Deltas, MouseMove(d) PROVE NumbersOK'
  BY <1>1 DEF MouseMove
<1>2. CASE Enqueue
  BY <1>2 DEF Enqueue
<1>3. CASE Listen
  BY <1>3 DEF Listen, HookAt
<1>4. CASE LoadAnchor
  BY <1>4 DEF LoadAnchor
<1>5. CASE AddPending
  BY <1>5 DEF AddPending, HookAt
<1>6. CASE StoreAbs
  BY <1>6 DEF StoreAbs, HookAt
<1>7. CASE StoreRel
  BY <1>7 DEF StoreRel, HookAt
<1>8. CASE SignalMove
  BY <1>8 DEF SignalMove, HookAt
<1>9. CASE TakeSignal
  BY <1>9 DEF TakeSignal, DispAt
<1>10. CASE Drain
  BY <1>10 DEF Drain, DispAt
<1>11. CASE LoadAbs
  BY <1>11 DEF LoadAbs
<1>12. CASE LoadRel
  BY <1>12 DEF LoadRel, DispAt
<1>13. CASE SwapDX
  BY <1>13 DEF SwapDX
<1>14. CASE OnMoveRelative
  BY <1>14 DEF OnMoveRelative, Handled, PinCursor, Leave, Stay
<1>15. CASE RequestPull
  BY <1>15 DEF RequestPull, DispAt
<1>16. CASE OnMoveCoupled
  BY <1>16 DEF OnMoveCoupled, Handled, PinCursor, Leave, Stay
<1>17. CASE SetRelativeMode
  BY <1>17 DEF SetRelativeMode, DispAt
<1>18. CASE HandleInput
  BY <1>18 DEF HandleInput
<1>19. CASE TakePull
  BY <1>19 DEF TakePull
<1>20. CASE Warp
  BY <1>20 DEF Warp
<1>21. CASE HookQuits
  BY <1>21 DEF HookQuits, HookAt
<1>22. CASE DispatcherStops
  BY <1>22 DEF DispatcherStops, DispAt
<1>23. CASE PullStops
  BY <1>23 DEF PullStops
<1>24. ASSUME NEW r \in Rebuilders, ReleaseMoves(r) PROVE NumbersOK'
  BY <1>24 DEF ReleaseMoves
<1>28. ASSUME NEW r \in Rebuilders, ReleaseClears(r) PROVE NumbersOK'
  BY <1>28 DEF ReleaseClears
<1>29. CASE Resync
  BY <1>29 DEF Resync
<1>25. CASE Stop
  BY <1>25 DEF Stop
<1>26. CASE Waited
  BY <1>26 DEF Waited
<1>27. CASE UNCHANGED vars
  BY <1>27 DEF vars
<1> QED
  BY <1>1, <1>2, <1>3, <1>4, <1>5, <1>6, <1>7, <1>8, <1>9, <1>10, <1>11,
     <1>12, <1>13, <1>14, <1>15, <1>16, <1>17, <1>18, <1>19, <1>20, <1>21,
     <1>22, <1>23, <1>24, <1>25, <1>26, <1>27, <1>28, <1>29
  DEF Next, HookThread, Dispatcher, PullLoop, Ends

LEMMA WindowsInit == Init => TypeOK
<1> SUFFICES ASSUME Init PROVE TypeOK
  OBVIOUS
<1>1. ThreadsOK
  BY DEF Init, ThreadsOK, HookIdle, DispIdle
<1>2. FlagsOK
  BY DEF Init, FlagsOK
<1>3. NumbersOK
  BY WindowsAssumption DEF Init, NumbersOK
<1> QED BY <1>1, <1>2, <1>3 DEF TypeOK

LEMMA WindowsStep == TypeOK /\ [Next]_vars => TypeOK'
BY ThreadsStep, FlagsStep, NumbersStep DEF TypeOK

(* The type invariant holds: the channel of events never holds more than   *)
(* its capacity, and every thread is where its code can be.                *)
THEOREM WindowsTypeCorrect == Spec => []TypeOK
BY WindowsInit, WindowsStep, PTL DEF Spec

-----------------------------------------------------------------------------
(* Raw movement.  MotionIsRaw is not inductive: that a movement adds what  *)
(* the mouse has moved needs the cursor on the anchor, and no hook that    *)
(* was called in coupled mode and has still to let its event pass.         *)

MotionInv ==
    ~raced =>
        /\ travel = reported + pendDX + (IF disp.at = "relative" THEN disp.dx ELSE 0)
        /\ relative => cursor = anchor \/ freeing # {}
        /\ disp.at = "engage" => ~relative /\ cursor = anchor
        /\ disp.at = "engage" => hook.at \in {"starting", "listening", "done"}
        /\ disp.at = "resync" => ~relative \/ freeing # {}
        /\ hook.at \in {"anchor", "add"} => hook.rel
        /\ hook.at \in {"abs", "rel", "signal"} /\ relative => hook.rel
        /\ hook.at = "anchor" => hook.pt - anchor = hook.d
        /\ hook.at = "add" => hook.pt - hook.ax = hook.d

(* No step spoils the strengthening. *)
LEMMA MotionStep == TypeOK /\ MotionInv /\ [Next]_vars => MotionInv'
<1> SUFFICES ASSUME TypeOK, MotionInv, [Next]_vars PROVE MotionInv'
  OBVIOUS
<1> USE WindowsAssumption DEF TypeOK, ThreadsOK, FlagsOK, NumbersOK, MotionInv, shared, pending, last, chans, threads, life, world, bounds, HookIdle, DispIdle
<1>1. ASSUME NEW d \in Deltas, MouseMove(d) PROVE MotionInv'
  <2>1. d \in Int /\ (raced' => MotionInv')
    BY WindowsAssumption
  <2>2. CASE ~raced' /\ relative
    <3>1. hook' = [at |-> "anchor", pt |-> cursor + d, rel |-> TRUE, ax |-> 0, d |-> d]
      BY <1>1, <2>2 DEF MouseMove
    <3>2. raced' = (raced \/ disp.at = "engage" \/ (relative /\ freeing # {}))
      BY <1>1 DEF MouseMove
    <3>3. ~raced /\ disp.at # "engage" /\ ~(relative /\ freeing # {})
      BY Zenon, <2>2, <3>2
    <3>4. freeing = {} /\ cursor = anchor
      BY <2>2, <3>3
    <3>5. cursor + d - anchor = d
      BY <2>1, <3>4
    <3> QED BY <1>1, <2>1, <2>2, <3>1, <3>3, <3>4, <3>5 DEF MouseMove
  <2>3. CASE ~raced' /\ ~relative
    <3>1. hook' = [at |-> "abs", pt |-> cursor + d, rel |-> FALSE, ax |-> 0, d |-> d]
      BY <1>1, <2>3 DEF MouseMove
    <3>2. ~raced /\ disp.at # "engage" /\ ~relative' /\ UNCHANGED <<disp, pendDX>>
      BY <1>1, <2>3 DEF MouseMove
    <3>3. UNCHANGED <<travel, reported>>
      BY <1>1 DEF MouseMove
    <3> QED BY <3>1, <3>2, <3>3
  <2> QED BY <2>1, <2>2, <2>3
<1>2. CASE Enqueue
  BY <1>2 DEF Enqueue
<1>3. CASE Listen
  BY <1>3 DEF Listen, HookAt
<1>4. CASE LoadAnchor
  BY <1>4 DEF LoadAnchor
<1>5. CASE AddPending
  BY <1>5 DEF AddPending, HookAt
<1>6. CASE StoreAbs
  BY <1>6 DEF StoreAbs, HookAt
<1>7. CASE StoreRel
  BY <1>7 DEF StoreRel, HookAt
<1>8. CASE SignalMove
  BY <1>8 DEF SignalMove, HookAt
<1>9. CASE TakeSignal
  BY <1>9 DEF TakeSignal, DispAt
<1>10. CASE Drain
  BY <1>10 DEF Drain, DispAt
<1>11. CASE LoadAbs
  BY <1>11 DEF LoadAbs
<1>12. CASE LoadRel
  BY <1>12 DEF LoadRel, DispAt
<1>13. CASE SwapDX
  BY <1>13 DEF SwapDX
<1>14. CASE OnMoveRelative
  <2>1. raced' => MotionInv'
    OBVIOUS
  <2>2. CASE ~raced' /\ PinCursor
    <3>1. disp'.at = "engage" /\ ~relative' /\ cursor' = anchor' /\ ~raced
      BY <1>14, <2>2 DEF OnMoveRelative, PinCursor
    <3>2. hook.at \in {"starting", "listening", "done"} /\ hook' = hook
      BY <1>14, <2>2 DEF OnMoveRelative, PinCursor
    <3>3. travel' = reported' + pendDX'
      BY <1>14, <3>1 DEF OnMoveRelative
    <3> QED BY <3>1, <3>2, <3>3
  <2>3. CASE Leave
    BY <1>14, <2>3 DEF OnMoveRelative, Leave
  <2>4. CASE Stay
    BY <1>14, <2>4 DEF OnMoveRelative, Stay
  <2> QED BY <1>14, <2>1, <2>2, <2>3, <2>4 DEF OnMoveRelative, Handled
<1>15. CASE RequestPull
  BY <1>15 DEF RequestPull, DispAt
<1>16. CASE OnMoveCoupled
  <2>1. raced' => MotionInv'
    OBVIOUS
  <2>2. CASE ~raced' /\ PinCursor
    <3>1. disp'.at = "engage" /\ ~relative' /\ cursor' = anchor' /\ ~raced
      BY <1>16, <2>2 DEF OnMoveCoupled, PinCursor
    <3>2. hook.at \in {"starting", "listening", "done"} /\ hook' = hook
      BY <1>16, <2>2 DEF OnMoveCoupled, PinCursor
    <3>3. travel' = reported' + pendDX'
      BY <1>16, <3>1 DEF OnMoveCoupled
    <3> QED BY <3>1, <3>2, <3>3
  <2>3. CASE Leave
    BY <1>16, <2>3 DEF OnMoveCoupled, Leave
  <2>4. CASE Stay
    BY <1>16, <2>4 DEF OnMoveCoupled, Stay
  <2> QED BY <1>16, <2>1, <2>2, <2>3, <2>4 DEF OnMoveCoupled, Handled
<1>17. CASE SetRelativeMode
  BY <1>17 DEF SetRelativeMode, DispAt
<1>18. CASE HandleInput
  BY <1>18 DEF HandleInput
<1>19. CASE TakePull
  BY <1>19 DEF TakePull
<1>20. CASE Warp
  BY <1>20 DEF Warp
<1>21. CASE HookQuits
  BY <1>21 DEF HookQuits, HookAt
<1>22. CASE DispatcherStops
  BY <1>22 DEF DispatcherStops, DispAt
<1>23. CASE PullStops
  BY <1>23 DEF PullStops
<1>24. ASSUME NEW r \in Rebuilders, ReleaseMoves(r) PROVE MotionInv'
  BY <1>24 DEF ReleaseMoves
<1>28. ASSUME NEW r \in Rebuilders, ReleaseClears(r) PROVE MotionInv'
  BY <1>28 DEF ReleaseClears
<1>29. CASE Resync
  BY <1>29 DEF Resync
<1>25. CASE Stop
  BY <1>25 DEF Stop
<1>26. CASE Waited
  BY <1>26 DEF Waited
<1>27. CASE UNCHANGED vars
  BY <1>27 DEF vars
<1> QED
  BY <1>1, <1>2, <1>3, <1>4, <1>5, <1>6, <1>7, <1>8, <1>9, <1>10, <1>11,
     <1>12, <1>13, <1>14, <1>15, <1>16, <1>17, <1>18, <1>19, <1>20, <1>21,
     <1>22, <1>23, <1>24, <1>25, <1>26, <1>27, <1>28, <1>29
  DEF Next, HookThread, Dispatcher, PullLoop, Ends

(* Apart from movements measured while the anchor and the cursor are being *)
(* set apart, what OnMove is told in relative mode is what the mouse has   *)
(* moved, whatever the hook thread, the dispatcher, pullLoop and the       *)
(* goroutines that release the input do in between.                        *)
THEOREM RawMotion == Spec => []MotionIsRaw
<1>1. Init => MotionInv
  BY DEF Init, MotionInv, HookIdle, DispIdle
<1>2. MotionInv => MotionIsRaw
  BY DEF MotionInv, MotionIsRaw
<1> QED BY <1>1, <1>2, MotionStep, WindowsTypeCorrect, PTL DEF Spec

-----------------------------------------------------------------------------
(* No lost wakeup.  A move is told, or the hook will signal it, or the     *)
(* dispatcher is on its way with what it has loaded since the last signal. *)

Due == moveSig \/ hook.at \in {"anchor", "add", "abs", "rel", "signal"}

Told == motions > 0 => IF pendRel THEN pendDX = 0 ELSE haveLast /\ lastX = pendAbs

DueInv ==
    /\ disp.at \in {"select", "relative", "pull", "engage", "resync"} => Due \/ Told
    /\ disp.at = "rel" => Due \/ disp.x = pendAbs
    /\ disp.at = "coupled" => Due \/ (~pendRel /\ disp.x = pendAbs)
    /\ disp.at = "swap" => Due \/ pendRel

(* No step spoils the strengthening. *)
LEMMA DueStep == TypeOK /\ DueInv /\ [Next]_vars => DueInv'
<1> SUFFICES ASSUME TypeOK, DueInv, [Next]_vars PROVE DueInv'
  OBVIOUS
<1> USE WindowsAssumption DEF TypeOK, ThreadsOK, FlagsOK, NumbersOK, DueInv, Due, Told, shared, pending, last, chans, threads, life, world, bounds, HookIdle, DispIdle
<1>1. ASSUME NEW d \in Deltas, MouseMove(d) PROVE DueInv'
  BY <1>1 DEF MouseMove
<1>2. CASE Enqueue
  BY <1>2 DEF Enqueue
<1>3. CASE Listen
  BY <1>3 DEF Listen, HookAt
<1>4. CASE LoadAnchor
  BY <1>4 DEF LoadAnchor
<1>5. CASE AddPending
  BY <1>5 DEF AddPending, HookAt
<1>6. CASE StoreAbs
  BY <1>6 DEF StoreAbs, HookAt
<1>7. CASE StoreRel
  BY <1>7 DEF StoreRel, HookAt
<1>8. CASE SignalMove
  BY <1>8 DEF SignalMove, HookAt
<1>9. CASE TakeSignal
  BY <1>9 DEF TakeSignal, DispAt
<1>10. CASE Drain
  BY <1>10 DEF Drain, DispAt
<1>11. CASE LoadAbs
  BY <1>11 DEF LoadAbs
<1>12. CASE LoadRel
  BY <1>12 DEF LoadRel, DispAt
<1>13. CASE SwapDX
  BY <1>13 DEF SwapDX
<1>14. CASE OnMoveRelative
  BY <1>14 DEF OnMoveRelative, Handled, PinCursor, Leave, Stay
<1>15. CASE RequestPull
  BY <1>15 DEF RequestPull, DispAt
<1>16. CASE OnMoveCoupled
  BY <1>16 DEF OnMoveCoupled, Handled, PinCursor, Leave, Stay
<1>17. CASE SetRelativeMode
  BY <1>17 DEF SetRelativeMode, DispAt
<1>18. CASE HandleInput
  BY <1>18 DEF HandleInput
<1>19. CASE TakePull
  BY <1>19 DEF TakePull
<1>20. CASE Warp
  BY <1>20 DEF Warp
<1>21. CASE HookQuits
  BY <1>21 DEF HookQuits, HookAt
<1>22. CASE DispatcherStops
  BY <1>22 DEF DispatcherStops, DispAt
<1>23. CASE PullStops
  BY <1>23 DEF PullStops
<1>24. ASSUME NEW r \in Rebuilders, ReleaseMoves(r) PROVE DueInv'
  BY <1>24 DEF ReleaseMoves
<1>28. ASSUME NEW r \in Rebuilders, ReleaseClears(r) PROVE DueInv'
  BY <1>28 DEF ReleaseClears
<1>29. CASE Resync
  BY <1>29 DEF Resync
<1>25. CASE Stop
  BY <1>25 DEF Stop
<1>26. CASE Waited
  BY <1>26 DEF Waited
<1>27. CASE UNCHANGED vars
  BY <1>27 DEF vars
<1> QED
  BY <1>1, <1>2, <1>3, <1>4, <1>5, <1>6, <1>7, <1>8, <1>9, <1>10, <1>11,
     <1>12, <1>13, <1>14, <1>15, <1>16, <1>17, <1>18, <1>19, <1>20, <1>21,
     <1>22, <1>23, <1>24, <1>25, <1>26, <1>27, <1>28, <1>29
  DEF Next, HookThread, Dispatcher, PullLoop, Ends

(* When the dispatcher waits without a signal, the last position or all    *)
(* relative movement has been dispatched: the signals that the hook drops  *)
(* because one is pending, and those that the dispatcher drains, are       *)
(* never the last word on a move.                                          *)
THEOREM NoLostWakeup == Spec => []NothingForgotten
<1>1. Init => DueInv
  BY DEF Init, DueInv, Due, Told, HookIdle, DispIdle
<1>2. DueInv => NothingForgotten
  BY DEF DueInv, Due, Told, NothingForgotten
<1> QED BY <1>1, <1>2, DueStep, WindowsTypeCorrect, PTL DEF Spec

-----------------------------------------------------------------------------
(* The driver of macOS. *)

MacEvent == [typ : {"move", "wheel", "pad", "key"}, d : Int]

(* The ring and the batch; a batch is taken only when the last is done.    *)
MacQueues ==
    /\ ring \in Seq(MacEvent) /\ Len(ring) < RingCap
    /\ drain \in [at : {"top", "wait", "batch", "engage", "done"}, batch : Seq(MacEvent), sum : Int, moves : BOOLEAN]
    /\ (drain.at # "batch" => drain.batch = <<>>)
    /\ \A i \in DOMAIN ring : ring[i].typ = "wheel" => ring[i].d \in {-1, 1}
    /\ \A i \in DOMAIN drain.batch : drain.batch[i].typ = "wheel" => drain.batch[i].d \in {-1, 1}

MacFlags ==
    /\ closed \in BOOLEAN /\ suppress \in BOOLEAN /\ bounce \in BOOLEAN
    /\ past \in BOOLEAN /\ heard \in BOOLEAN /\ dropped \in BOOLEAN /\ late \in BOOLEAN /\ crossed \in BOOLEAN

MacValues ==
    /\ tap \in {"starting", "noted", "running", "done"}
    /\ dstop \in {"no", "closing", "waiting", "stopped"}
    /\ dir \in {-1, 0, 1} /\ turning \in {-1, 0, 1}
    /\ notches \in Nat /\ detents \in Nat

MacTyped == MacQueues /\ MacFlags /\ MacValues

LEMMA PushTyped ==
    ASSUME MacTyped, NEW e \in MacEvent, e.typ = "wheel" => e.d \in {-1, 1}, Mac!Push(e)
    PROVE  /\ ring' \in Seq(MacEvent) /\ Len(ring') < RingCap /\ dropped' \in BOOLEAN
           /\ \A i \in DOMAIN ring' : ring'[i].typ = "wheel" => ring'[i].d \in {-1, 1}
<1>0. RingCap \in Nat \ {0}
  BY MacAssumption DEF Mac!DarwinAssumption
<1>1. CASE ring' = ring /\ dropped' = TRUE
  BY <1>1 DEF MacTyped, MacQueues, MacFlags
<1>2. CASE Len(ring) < RingCap - 1 /\ ring' = Append(ring, e) /\ dropped' = dropped
  <2>1. ring' \in Seq(MacEvent) /\ Len(ring') = Len(ring) + 1 /\ Len(ring) \in Nat
    BY <1>2 DEF MacTyped, MacQueues
  <2>2. ASSUME NEW i \in DOMAIN ring', ring'[i].typ = "wheel" PROVE ring'[i].d \in {-1, 1}
    <3>1. i \in 1 .. Len(ring) + 1
      BY <2>1
    <3>2. CASE i = Len(ring) + 1
      BY <1>2, <2>2, <3>2 DEF MacTyped, MacQueues
    <3>3. CASE i \in 1 .. Len(ring)
      BY <1>2, <2>2, <3>3 DEF MacTyped, MacQueues
    <3> QED BY <3>1, <3>2, <3>3
  <2> QED BY <1>0, <1>2, <2>1, <2>2 DEF MacTyped, MacQueues, MacFlags
<1> QED BY <1>1, <1>2 DEF Mac!Push

LEMMA TapTyped == ASSUME MacTyped, Mac!TapEvent PROVE MacTyped'
<1> USE DEF Mac!static, Mac!scroll, Mac!life, Mac!movement, Mac!wheel, Mac!pad, Mac!rest, Mac!Ev, Mac!Counted
<1>1. ASSUME NEW d \in Deltas, Mac!MouseMove(d) PROVE MacTyped'
  <2>1. Mac!Ev("move", d) \in MacEvent /\ Mac!Push(Mac!Ev("move", d))
    BY <1>1, MacAssumption DEF Mac!MouseMove, MacEvent, Mac!DarwinAssumption
  <2> QED BY <1>1, <2>1, PushTyped DEF Mac!MouseMove, MacTyped, MacQueues, MacFlags, MacValues
<1>2. ASSUME NEW d \in {-1, 1}, Mac!Detent(d) PROVE MacTyped'
  <2>1. Mac!Ev("wheel", d) \in MacEvent /\ Mac!Push(Mac!Ev("wheel", d))
    BY <1>2 DEF Mac!Detent, MacEvent
  <2> QED BY <1>2, <2>1, PushTyped DEF Mac!Detent, MacTyped, MacQueues, MacFlags, MacValues
<1>3. CASE Mac!DetentGoesOn
  <2>1. Mac!Ev("wheel", turning) \in MacEvent /\ Mac!Push(Mac!Ev("wheel", turning)) /\ turning \in {-1, 1}
    BY <1>3 DEF Mac!DetentGoesOn, MacEvent, MacTyped, MacValues
  <2> QED BY <1>3, <2>1, PushTyped DEF Mac!DetentGoesOn, MacTyped, MacQueues, MacFlags, MacValues
<1>4. CASE Mac!DetentEnds
  BY <1>4 DEF Mac!DetentEnds, MacTyped, MacQueues, MacFlags, MacValues
<1>5. ASSUME NEW px \in Pixels, Mac!Trackpad(px) PROVE MacTyped'
  <2>1. Mac!Ev("pad", px) \in MacEvent /\ Mac!Push(Mac!Ev("pad", px))
    BY <1>5, MacAssumption DEF Mac!Trackpad, MacEvent, Mac!DarwinAssumption
  <2> QED BY <1>5, <2>1, PushTyped DEF Mac!Trackpad, MacTyped, MacQueues, MacFlags, MacValues
<1>6. CASE Mac!Key
  <2>1. Mac!Ev("key", 0) \in MacEvent /\ Mac!Push(Mac!Ev("key", 0))
    BY <1>6 DEF Mac!Key, MacEvent
  <2> QED BY <1>6, <2>1, PushTyped DEF Mac!Key, MacTyped, MacQueues, MacFlags, MacValues
<1> QED BY <1>1, <1>2, <1>3, <1>4, <1>5, <1>6 DEF Mac!TapEvent

(* A handled event leaves the batch. *)
LEMMA PopTyped ==
    ASSUME MacTyped, drain.at = "batch", drain.batch # <<>>
    PROVE  /\ Mac!Event \in MacEvent /\ (Mac!Event.typ = "wheel" => Mac!Event.d \in {-1, 1})
           /\ Mac!Pop = [at |-> "batch", batch |-> Tail(drain.batch), sum |-> drain.sum, moves |-> drain.moves]
           /\ Tail(drain.batch) \in Seq(MacEvent) /\ Len(drain.batch) \in Nat \ {0}
           /\ Len(Tail(drain.batch)) = Len(drain.batch) - 1
           /\ Mac!Event = drain.batch[1]
           /\ \A i \in 1 .. Len(drain.batch) - 1 : Tail(drain.batch)[i] = drain.batch[i + 1]
           /\ \A i \in DOMAIN Tail(drain.batch) :
                 Tail(drain.batch)[i].typ = "wheel" => Tail(drain.batch)[i].d \in {-1, 1}
<1>1. drain.batch \in Seq(MacEvent) /\ Len(drain.batch) \in Nat \ {0}
  BY DEF MacTyped, MacQueues
<1>2. /\ Tail(drain.batch) \in Seq(MacEvent) /\ Len(Tail(drain.batch)) = Len(drain.batch) - 1
      /\ \A i \in 1 .. Len(drain.batch) - 1 : Tail(drain.batch)[i] = drain.batch[i + 1]
      /\ DOMAIN Tail(drain.batch) = 1 .. Len(drain.batch) - 1 /\ DOMAIN drain.batch = 1 .. Len(drain.batch)
  BY <1>1
<1>3. Mac!Event = drain.batch[1] /\ Mac!Event \in MacEvent
  BY <1>1 DEF Mac!Event
<1>4. Mac!Pop = [at |-> "batch", batch |-> Tail(drain.batch), sum |-> drain.sum, moves |-> drain.moves]
  <2>1. \A s \in Seq(MacEvent) : [drain EXCEPT !.batch = s] =
                                  [at |-> "batch", batch |-> s, sum |-> drain.sum, moves |-> drain.moves]
    BY DEF MacTyped, MacQueues
  <2> QED BY <1>2, <2>1 DEF Mac!Pop
<1>5. \A i \in DOMAIN drain.batch : drain.batch[i].typ = "wheel" => drain.batch[i].d \in {-1, 1}
  BY DEF MacTyped, MacQueues
<1>6. \A i \in 1 .. Len(drain.batch) - 1 : i + 1 \in 1 .. Len(drain.batch)
  BY <1>1
<1> QED BY <1>1, <1>2, <1>3, <1>4, <1>5, <1>6

LEMMA BatchTyped ==
    ASSUME MacTyped, Mac!SumMove \/ Mac!Wheel \/ Mac!Scroll \/ Mac!PassKey
    PROVE  MacTyped'
<1> USE DEF Mac!static, Mac!scroll, Mac!life, Mac!movement, Mac!wheel, Mac!pad, Mac!rest
<1>0. drain.at = "batch" /\ drain.batch # <<>>
  BY DEF Mac!SumMove, Mac!Wheel, Mac!Scroll, Mac!PassKey
<1>1. /\ Mac!Event \in MacEvent /\ (Mac!Event.typ = "wheel" => Mac!Event.d \in {-1, 1})
      /\ Mac!Pop = [at |-> "batch", batch |-> Tail(drain.batch), sum |-> drain.sum, moves |-> drain.moves]
      /\ Tail(drain.batch) \in Seq(MacEvent)
      /\ \A i \in DOMAIN Tail(drain.batch) :
            Tail(drain.batch)[i].typ = "wheel" => Tail(drain.batch)[i].d \in {-1, 1}
  BY <1>0, PopTyped
<1>2. CASE Mac!SumMove
  <2>1. drain' = [at |-> "batch", batch |-> Tail(drain.batch), sum |-> drain.sum + Mac!Event.d, moves |-> TRUE]
    BY <1>1, <1>2 DEF Mac!SumMove
  <2>2. MacQueues'
    <3>1. drain.sum + Mac!Event.d \in Int /\ ring' = ring
      BY <1>1, <1>2 DEF Mac!SumMove, MacTyped, MacQueues, MacEvent
    <3> DEFINE sum == drain.sum + Mac!Event.d
               rest == Tail(drain.batch)
    <3>2. /\ sum \in Int /\ rest \in Seq(MacEvent)
          /\ drain' = [at |-> "batch", batch |-> rest, sum |-> sum, moves |-> TRUE]
          /\ \A i \in DOMAIN rest : rest[i].typ = "wheel" => rest[i].d \in {-1, 1}
      BY <1>1, <2>1, <3>1
    <3> HIDE DEF sum, rest
    <3> QED BY <3>1, <3>2 DEF MacTyped, MacQueues
  <2>3. MacFlags'
    BY <1>2 DEF Mac!SumMove, MacTyped, MacFlags
  <2>4. MacValues'
    BY <1>2 DEF Mac!SumMove, MacTyped, MacValues
  <2> QED BY <2>2, <2>3, <2>4 DEF MacTyped
<1>3. CASE Mac!Wheel \/ Mac!Scroll \/ Mac!PassKey
  <2>1. drain' = Mac!Pop /\ ring' = ring
    BY <1>3 DEF Mac!Wheel, Mac!Scroll, Mac!PassKey
  <2>2. MacQueues'
    BY <1>1, <2>1 DEF MacTyped, MacQueues
  <2>3. CASE Mac!Wheel
    <3>1. notches' \in Nat
      BY <2>3 DEF Mac!Wheel, MacTyped, MacValues
    <3>2. dir' \in {-1, 1}
      BY <1>1, <2>3 DEF Mac!Wheel
    <3>3. MacFlags'
      BY <2>3 DEF Mac!Wheel, MacTyped, MacFlags
    <3> QED BY <2>2, <2>3, <3>1, <3>2, <3>3 DEF Mac!Wheel, MacTyped, MacValues
  <2>4. CASE Mac!Scroll
    BY <2>2, <2>4 DEF Mac!Scroll, MacTyped, MacFlags, MacValues
  <2>5. CASE Mac!PassKey
    BY <2>2, <2>5 DEF Mac!PassKey, MacTyped, MacFlags, MacValues
  <2> QED BY <1>3, <2>3, <2>4, <2>5
<1> QED BY <1>2, <1>3

(* Where the drain goroutine goes without an event in its hands. *)
LEMMA DrainGoes ==
    ASSUME MacTyped, Mac!CheckStop \/ Mac!DrainBatch \/ Mac!NothingCame \/ Mac!OnMove \/ Mac!Suppress
    PROVE  MacTyped'
<1> USE DEF Mac!static, Mac!scroll, Mac!life, Mac!movement, Mac!wheel, Mac!pad, Mac!rest
<1>1. CASE Mac!DrainBatch
  <2>1. MacQueues'
    BY <1>1, MacAssumption DEF Mac!DrainBatch, MacTyped, MacQueues, Mac!DarwinAssumption
  <2>2. MacFlags'
    BY <1>1 DEF Mac!DrainBatch, MacTyped, MacFlags
  <2>3. MacValues'
    BY <1>1 DEF Mac!DrainBatch, MacTyped, MacValues
  <2> QED BY <2>1, <2>2, <2>3 DEF MacTyped
<1>2. ASSUME NEW where \in {"top", "wait", "done"}, drain' = [drain EXCEPT !.at = where], drain.at # "batch",
             ring' = ring
      PROVE  MacQueues'
  BY <1>2 DEF MacTyped, MacQueues
<1>3. ASSUME NEW where \in {"top", "engage"}, ring' = ring,
             drain' = [at |-> where, batch |-> <<>>, sum |-> 0, moves |-> FALSE]
      PROVE  MacQueues'
  BY <1>3 DEF MacTyped, MacQueues
<1>4. CASE Mac!CheckStop
  <2>1. MacQueues'
    BY <1>2, <1>4 DEF Mac!CheckStop, Mac!DrainAt
  <2>2. MacFlags'
    BY <1>4 DEF Mac!CheckStop, MacTyped, MacFlags
  <2>3. MacValues'
    BY <1>4 DEF Mac!CheckStop, MacTyped, MacValues
  <2> QED BY <2>1, <2>2, <2>3 DEF MacTyped
<1>5. CASE Mac!NothingCame
  <2>1. MacQueues'
    BY <1>2, <1>5 DEF Mac!NothingCame, Mac!DrainAt
  <2>2. MacFlags'
    BY <1>5 DEF Mac!NothingCame, MacTyped, MacFlags
  <2>3. MacValues'
    BY <1>5 DEF Mac!NothingCame, MacTyped, MacValues
  <2> QED BY <2>1, <2>2, <2>3 DEF MacTyped
<1>6. CASE Mac!Suppress
  <2>1. MacQueues'
    BY <1>2, <1>6 DEF Mac!Suppress, Mac!DrainAt
  <2>2. MacFlags'
    BY <1>6 DEF Mac!Suppress, MacTyped, MacFlags
  <2>3. MacValues'
    BY <1>6 DEF Mac!Suppress, MacTyped, MacValues
  <2> QED BY <2>1, <2>2, <2>3 DEF MacTyped
<1>7. CASE Mac!OnMove
  <2>1. drain' = Mac!NoBatch \/ drain' = [Mac!NoBatch EXCEPT !.at = "engage"]
    BY <1>7 DEF Mac!OnMove
  <2>2. [Mac!NoBatch EXCEPT !.at = "engage"] = [at |-> "engage", batch |-> <<>>, sum |-> 0, moves |-> FALSE]
    <3>1. \A r \in [at : {"top"}, batch : Seq(MacEvent), sum : Int, moves : BOOLEAN] :
             [r EXCEPT !.at = "engage"] = [at |-> "engage", batch |-> r.batch, sum |-> r.sum, moves |-> r.moves]
      OBVIOUS
    <3>2. Mac!NoBatch \in [at : {"top"}, batch : Seq(MacEvent), sum : Int, moves : BOOLEAN]
      BY DEF Mac!NoBatch
    <3>3. Mac!NoBatch.batch = <<>> /\ Mac!NoBatch.sum = 0 /\ Mac!NoBatch.moves = FALSE
      BY DEF Mac!NoBatch
    <3> QED BY <3>1, <3>2, <3>3
  <2>3. MacQueues'
    BY <1>3, <1>7, <2>1, <2>2 DEF Mac!OnMove, Mac!NoBatch
  <2>4. crossed' \in BOOLEAN
    <3>1. crossed' = crossed \/ crossed' = (dstop # "no")
      BY Zenon, <1>7 DEF Mac!OnMove
    <3> QED BY Zenon, <3>1 DEF MacTyped, MacFlags
  <2>5. suppress' \in BOOLEAN /\ bounce' \in BOOLEAN
    BY <1>7 DEF Mac!OnMove, MacTyped, MacFlags
  <2>6. MacFlags'
    BY <1>7, <2>4, <2>5 DEF Mac!OnMove, MacTyped, MacFlags
  <2>7. MacValues'
    BY <1>7 DEF Mac!OnMove, MacTyped, MacValues
  <2> QED BY <2>3, <2>6, <2>7 DEF MacTyped
<1> QED BY <1>1, <1>4, <1>5, <1>6, <1>7

(* What touches neither queue. *)
LEMMA OthersTyped ==
    ASSUME MacTyped,
           \/ Mac!WindowCloses \/ Mac!Release \/ Mac!RunLoop \/ Mac!Stop \/ Mac!StopRunLoop \/ Mac!Waited
           \/ Mac!Start \/ UNCHANGED Mac!vars
    PROVE  MacTyped'
<1> USE DEF Mac!static, Mac!scroll, Mac!life, Mac!movement, Mac!wheel, Mac!pad, Mac!rest
<1>1. ASSUME ring' = ring, drain' = drain PROVE MacQueues'
  BY <1>1 DEF MacTyped, MacQueues
<1>2. CASE Mac!WindowCloses
  <2>1. MacQueues'
    BY <1>1, <1>2 DEF Mac!WindowCloses
  <2>2. MacFlags'
    BY <1>2 DEF Mac!WindowCloses, MacTyped, MacFlags
  <2>3. MacValues'
    BY <1>2 DEF Mac!WindowCloses, MacTyped, MacValues
  <2> QED BY <2>1, <2>2, <2>3 DEF MacTyped
<1>3. CASE Mac!Release
  <2>1. MacQueues'
    BY <1>1, <1>3 DEF Mac!Release
  <2>2. MacFlags'
    BY <1>3 DEF Mac!Release, MacTyped, MacFlags
  <2>3. MacValues'
    BY <1>3 DEF Mac!Release, MacTyped, MacValues
  <2> QED BY <2>1, <2>2, <2>3 DEF MacTyped
<1>4. CASE Mac!RunLoop
  <2>1. MacQueues'
    BY <1>1, <1>4 DEF Mac!RunLoop
  <2>2. MacFlags'
    BY <1>4 DEF Mac!RunLoop, MacTyped, MacFlags
  <2>3. MacValues'
    BY <1>4 DEF Mac!RunLoop, MacTyped, MacValues
  <2> QED BY <2>1, <2>2, <2>3 DEF MacTyped
<1>5. CASE Mac!Stop
  <2>1. MacQueues'
    BY <1>1, <1>5 DEF Mac!Stop
  <2>2. MacFlags'
    BY <1>5 DEF Mac!Stop, MacTyped, MacFlags
  <2>3. MacValues'
    BY <1>5 DEF Mac!Stop, MacTyped, MacValues
  <2> QED BY <2>1, <2>2, <2>3 DEF MacTyped
<1>6. CASE Mac!StopRunLoop
  <2>1. MacQueues'
    BY <1>1, <1>6 DEF Mac!StopRunLoop
  <2>2. MacFlags'
    BY <1>6 DEF Mac!StopRunLoop, MacTyped, MacFlags
  <2>3. MacValues'
    BY <1>6 DEF Mac!StopRunLoop, MacTyped, MacValues
  <2> QED BY <2>1, <2>2, <2>3 DEF MacTyped
<1>7. CASE Mac!Waited
  <2>1. MacQueues'
    BY <1>1, <1>7 DEF Mac!Waited
  <2>2. MacFlags'
    BY <1>7 DEF Mac!Waited, MacTyped, MacFlags
  <2>3. MacValues'
    BY <1>7 DEF Mac!Waited, MacTyped, MacValues
  <2> QED BY <2>1, <2>2, <2>3 DEF MacTyped
<1>8. CASE Mac!Start
  <2>1. MacQueues'
    BY <1>8 DEF Mac!Start, Mac!NoBatch, MacTyped, MacQueues
  <2>2. MacFlags'
    BY <1>8 DEF Mac!Start, MacTyped, MacFlags
  <2>3. MacValues'
    BY <1>8 DEF Mac!Start, MacTyped, MacValues
  <2> QED BY <2>1, <2>2, <2>3 DEF MacTyped
<1>9. CASE UNCHANGED Mac!vars
  <2>1. MacQueues'
    BY <1>1, <1>9 DEF Mac!vars
  <2>2. MacFlags'
    BY <1>9 DEF Mac!vars, MacTyped, MacFlags
  <2>3. MacValues'
    BY <1>9 DEF Mac!vars, MacTyped, MacValues
  <2> QED BY <2>1, <2>2, <2>3 DEF MacTyped
<1> QED BY <1>2, <1>3, <1>4, <1>5, <1>6, <1>7, <1>8, <1>9

LEMMA MacStep == MacTyped /\ [Mac!Next]_(Mac!vars) => MacTyped'
BY TapTyped, BatchTyped, DrainGoes, OthersTyped DEF Mac!Next, Mac!Drain

(* Both drivers, as a build may contain either. *)
LEMMA MacInit == Mac!Init => MacTyped
<1> SUFFICES ASSUME Mac!Init PROVE MacTyped
  OBVIOUS
<1> USE MacAssumption DEF Mac!DarwinAssumption
<1>1. MacQueues
  BY DEF Mac!Init, Mac!NoBatch, MacQueues
<1>2. MacFlags /\ MacValues
  BY DEF Mac!Init, MacFlags, MacValues
<1> QED BY <1>1, <1>2 DEF MacTyped

LEMMA MacTypedIsTypeOK == MacTyped => Mac!TypeOK
<1> SUFFICES ASSUME MacTyped PROVE Mac!TypeOK
  OBVIOUS
<1>1. /\ Len(ring) < RingCap
      /\ \A i \in DOMAIN ring : ring[i].typ \in {"move", "wheel", "pad", "key"}
      /\ drain.at \in {"top", "wait", "batch", "engage", "done"}
  <2>1. Len(ring) < RingCap /\ \A i \in DOMAIN ring : ring[i] \in MacEvent
    BY DEF MacTyped, MacQueues
  <2>2. drain.at \in {"top", "wait", "batch", "engage", "done"}
    BY DEF MacTyped, MacQueues
  <2> QED BY <2>1, <2>2 DEF MacEvent
<1>2. {closed, suppress, bounce, past, heard, dropped, late, crossed} \subseteq BOOLEAN
  BY DEF MacTyped, MacFlags
<1>3. /\ tap \in {"starting", "noted", "running", "done"} /\ dstop \in {"no", "closing", "waiting", "stopped"}
      /\ {dir, turning} \subseteq {-1, 0, 1}
  BY DEF MacTyped, MacValues
<1> QED BY <1>1, <1>2, <1>3 DEF Mac!TypeOK

-----------------------------------------------------------------------------
(* The wheel.  The events that wait, in the order they are handled.        *)
Size  == Len(drain.batch) + Len(ring)
At(i) == IF i <= Len(drain.batch) THEN drain.batch[i] ELSE ring[i - Len(drain.batch)]

(* The number of the notch an event of direction d belongs to, if it is    *)
(* handled next.                                                           *)
From(d) == notches + (IF dir = 0 \/ (dir = d /\ ~past) THEN 1 ELSE 2)

(* Every wheel event that waits can be given the number of a detent: not a *)
(* smaller one than its notch will have, not a larger one than there are,  *)
(* in order, and with one number only events of one direction.  The detent *)
(* under way is the last one.                                              *)
Numbered(num) ==
    /\ \A i \in 1 .. Size : At(i).typ = "wheel" => From(At(i).d) <= num[i] /\ num[i] <= detents
    /\ \A i, j \in 1 .. Size : i < j /\ At(i).typ = "wheel" /\ At(j).typ = "wheel" =>
          num[i] <= num[j] /\ (num[i] = num[j] => At(i).d = At(j).d)
    /\ turning # 0 => /\ From(turning) <= detents
                      /\ \A i \in 1 .. Size : At(i).typ = "wheel" /\ num[i] = detents => At(i).d = turning
    /\ notches + (IF dir = 0 THEN 0 ELSE 1) <= detents

OneNotchEach == ~late => \E num \in [Nat -> Int] : Numbered(num)

LEMMA SizeIs ==
    ASSUME MacTyped
    PROVE  /\ Len(drain.batch) \in Nat /\ Len(ring) \in Nat /\ Size \in Nat
           /\ \A i \in 1 .. Size : /\ At(i) \in MacEvent /\ (At(i).typ = "wheel" => At(i).d \in {-1, 1})
                                   /\ At(i).d \in Int
<1>1. Len(drain.batch) \in Nat /\ Len(ring) \in Nat
  BY DEF MacTyped, MacQueues
<1>2. \A i \in 1 .. Len(ring) : ring[i] \in MacEvent /\ (ring[i].typ = "wheel" => ring[i].d \in {-1, 1})
  BY DEF MacTyped, MacQueues
<1>3. \A i \in 1 .. Len(drain.batch) :
         drain.batch[i] \in MacEvent /\ (drain.batch[i].typ = "wheel" => drain.batch[i].d \in {-1, 1})
  BY DEF MacTyped, MacQueues
<1>4. ASSUME NEW i \in 1 .. Size
      PROVE  /\ At(i) \in MacEvent /\ (At(i).typ = "wheel" => At(i).d \in {-1, 1})
             /\ At(i).d \in Int
  <2>1. i \in 1 .. Len(drain.batch) \/ i - Len(drain.batch) \in 1 .. Len(ring)
    BY <1>1 DEF Size
  <2>2. At(i) \in MacEvent /\ (At(i).typ = "wheel" => At(i).d \in {-1, 1})
    BY <1>1, <1>2, <1>3, <1>4, <2>1 DEF At
  <2> QED BY <2>2 DEF MacEvent
<1> QED BY <1>1, <1>4 DEF Size

(* What a pushed event does to the queue. *)
LEMMA PushQueues ==
    ASSUME MacTyped, NEW e, Mac!Push(e), drain' = drain
    PROVE  /\ \A i \in 1 .. Size : At(i)' = At(i)
           /\ Size' = Size \/ (Size' = Size + 1 /\ \A n : n = Size + 1 => At(n)' = e)
<1>0. Len(drain.batch) \in Nat /\ Len(ring) \in Nat /\ ring \in Seq(MacEvent)
  BY SizeIs DEF MacTyped, MacQueues
<1>1. CASE ring' = ring
  BY <1>1 DEF Size, At
<1>2. CASE ring' = Append(ring, e)
  <2>1. Len(ring') = Len(ring) + 1 /\ ring'[Len(ring) + 1] = e /\ \A i \in 1 .. Len(ring) : ring'[i] = ring[i]
    BY <1>0, <1>2
  <2>2. \A i \in 1 .. Size : i <= Len(drain.batch) \/ i - Len(drain.batch) \in 1 .. Len(ring)
    BY <1>0 DEF Size
  <2>3. \A i \in 1 .. Size : At(i)' = At(i)
    BY <2>1, <2>2 DEF At
  <2> DEFINE b == Len(drain.batch)
             r == Len(ring)
  <2>4. b \in Nat /\ r \in Nat /\ Size' = b + (r + 1) /\ Size = b + r
    BY <1>0, <2>1 DEF Size
  <2>5. ASSUME NEW n, n = Size + 1 PROVE At(n)' = e
    <3>1. At(n)' = IF n <= b THEN drain.batch[n] ELSE ring'[n - b]
      BY DEF At
    <3> HIDE DEF b, r
    <3>2. ~(n <= b) /\ n - b = r + 1
      BY <2>4, <2>5
    <3> QED BY <2>1, <3>1, <3>2 DEF r
  <2> HIDE DEF b, r
  <2>6. Size' = Size + 1
    BY <2>4
  <2> QED BY <2>3, <2>5, <2>6
<1> QED BY <1>1, <1>2 DEF Mac!Push

(* What a handled event does to the queue. *)
LEMMA PopQueues ==
    ASSUME MacTyped, drain.at = "batch", drain.batch # <<>>, ring' = ring, drain'.batch = Tail(drain.batch)
    PROVE  /\ Size \in Nat \ {0} /\ Size' = Size - 1 /\ At(1) = Mac!Event
           /\ \A i \in 1 .. Size - 1 : i + 1 \in 1 .. Size /\ At(i)' = At(i + 1)
<1>0. /\ Len(ring) \in Nat /\ Len(drain.batch) \in Nat \ {0}
      /\ Len(Tail(drain.batch)) = Len(drain.batch) - 1 /\ Mac!Event = drain.batch[1]
      /\ \A i \in 1 .. Len(drain.batch) - 1 : Tail(drain.batch)[i] = drain.batch[i + 1]
  BY PopTyped, SizeIs
<1>1. Size \in Nat \ {0} /\ Size' = Size - 1 /\ At(1) = Mac!Event
  BY <1>0 DEF Size, At
<1>2. ASSUME NEW i \in 1 .. Size - 1 PROVE At(i)' = At(i + 1)
  <2>1. CASE i <= Len(drain.batch) - 1
    BY <1>0, <1>1, <2>1 DEF At
  <2>2. CASE i > Len(drain.batch) - 1
    <3>1. At(i)' = IF i <= Len(Tail(drain.batch)) THEN Tail(drain.batch)[i] ELSE ring[i - Len(Tail(drain.batch))]
      BY DEF At
    <3>2. At(i + 1) = IF i + 1 <= Len(drain.batch) THEN drain.batch[i + 1] ELSE ring[i + 1 - Len(drain.batch)]
      BY DEF At
    <3>3. i \in Int /\ Size \in Int
      BY <1>1
    <3>4. /\ i - Len(Tail(drain.batch)) = i + 1 - Len(drain.batch) /\ ~(i + 1 <= Len(drain.batch))
          /\ ~(i <= Len(Tail(drain.batch)))
      <4> DEFINE n == Len(drain.batch)
                 t == Len(Tail(drain.batch))
      <4>1. n \in Nat /\ t = n - 1 /\ i > n - 1 /\ i \in Int
        BY <1>0, <2>2, <3>3
      <4> HIDE DEF n, t
      <4>2. i - t = i + 1 - n /\ ~(i + 1 <= n) /\ ~(i <= t)
        BY <4>1
      <4> QED BY <4>2 DEF n, t
    <3> QED BY <3>1, <3>2, <3>4
  <2> QED BY <1>0, <1>1, <2>1, <2>2
<1> QED BY <1>1, <1>2

(* Steps that leave the waiting events and the counters alone. *)
LEMMA NumberedStays ==
    ASSUME MacTyped, NEW num \in [Nat -> Int], Numbered(num),
           Size' = Size \/ (Size' = Size + 1 /\ \A n : n = Size + 1 => At(n)'.typ # "wheel"),
           \A i \in 1 .. Size : At(i)' = At(i),
           UNCHANGED <<notches, detents, dir, past, turning>>
    PROVE  Numbered(num)'
<1>1. Size \in Nat
  BY SizeIs
<1>2. \A i \in 1 .. Size' : At(i)'.typ = "wheel" => i \in 1 .. Size /\ At(i)' = At(i)
  BY <1>1
<1>3. \A d : From(d)' = From(d)
  BY DEF From
<1> HIDE DEF From
<1>4. UNCHANGED <<notches, detents, dir, turning>>
  OBVIOUS
<1> QED BY <1>2, <1>3, <1>4 DEF Numbered

(* A further wheel event of detent number x. *)
LEMMA NumberedGrows ==
    ASSUME MacTyped, NEW num \in [Nat -> Int], Numbered(num), NEW d \in {-1, 1}, NEW x \in Int,
           Size' = Size + 1, \A n : n = Size + 1 => At(n)' = [typ |-> "wheel", d |-> d],
           \A i \in 1 .. Size : At(i)' = At(i),
           UNCHANGED <<notches, dir, past>>, turning' = d, detents' = x,
           From(d) <= x,
           \/ detents < x
           \/ turning = d /\ detents = x
    PROVE  \E new \in [Nat -> Int] : Numbered(new)'
<1>1. Size \in Nat /\ \A i \in 1 .. Size : At(i).d \in Int
  BY SizeIs
<1>2. PICK new \in [Nat -> Int] : (\A n : n = Size + 1 => new[n] = x) /\ \A i \in 1 .. Size : new[i] = num[i]
  <2> DEFINE f == [num EXCEPT ![Size + 1] = x]
  <2>1. f \in [Nat -> Int] /\ (\A n : n = Size + 1 => f[n] = x) /\ \A i \in 1 .. Size : f[i] = num[i]
    BY <1>1
  <2> QED BY <2>1
<1>3. \A i \in 1 .. Size' : i \in 1 .. Size \/ i = Size + 1
  BY <1>1
<1>4. \A e : From(e)' = From(e)
  BY DEF From
<1>5. detents \in Int /\ notches \in Int /\ dir' = dir /\ notches' = notches
  BY DEF MacTyped, MacValues
<1>6. \A i \in 1 .. Size : At(i).typ = "wheel" => From(At(i).d) <= num[i] /\ num[i] <= detents
  BY DEF Numbered
<1>7. \A i \in 1 .. Size : At(i).typ = "wheel" => num[i] < x \/ At(i).d = d
  <2>1. CASE detents < x
    BY <1>5, <1>6, <1>1, <2>1
  <2>2. CASE turning = d /\ detents = x
    BY <1>5, <1>6, <1>1, <2>2 DEF Numbered
  <2> QED BY <2>1, <2>2
<1>8. \A i \in 1 .. Size : At(i).typ = "wheel" => num[i] \in Int /\ num[i] <= x
  BY <1>1, <1>5, <1>6
<1>9. \A i \in 1 .. Size' : At(i)'.typ = "wheel" => From(At(i).d)' <= new[i] /\ new[i] <= detents'
  BY <1>2, <1>3, <1>4, <1>6, <1>8
<1>10. ASSUME NEW i \in 1 .. Size', NEW j \in 1 .. Size', i < j, At(i)'.typ = "wheel", At(j)'.typ = "wheel"
       PROVE  new[i] <= new[j] /\ (new[i] = new[j] => At(i)'.d = At(j)'.d)
  <2>1. i \in 1 .. Size
    BY <1>1, <1>10
  <2>2. CASE j \in 1 .. Size
    BY <1>2, <1>10, <2>1, <2>2 DEF Numbered
  <2>3. CASE j = Size + 1
    BY <1>2, <1>7, <1>8, <1>10, <2>1, <2>3
  <2> QED BY <1>3, <2>2, <2>3
<1>11. /\ From(turning)' <= detents'
       /\ \A i \in 1 .. Size' : At(i)'.typ = "wheel" /\ new[i] = detents' => At(i)'.d = turning'
  BY <1>1, <1>2, <1>3, <1>4, <1>7, <1>8
<1>12. notches' + (IF dir' = 0 THEN 0 ELSE 1) <= detents'
  BY <1>5 DEF Numbered
<1>13. Numbered(new)'
  BY <1>9, <1>10, <1>11, <1>12 DEF Numbered
<1> QED BY <1>2, <1>13

(* The first event is handled. *)
LEMMA NumberedShrinks ==
    ASSUME MacTyped, NEW num \in [Nat -> Int], Numbered(num),
           Size \in Nat \ {0}, Size' = Size - 1,
           \A i \in 1 .. Size - 1 : i + 1 \in 1 .. Size /\ At(i)' = At(i + 1),
           UNCHANGED <<detents, turning>>,
           \/ At(1).typ # "wheel" /\ UNCHANGED <<notches, dir, past>>
           \/ /\ At(1).typ = "wheel" /\ dir' = At(1).d /\ past' = FALSE
              /\ notches' = IF dir = 0 \/ (dir = At(1).d /\ ~past) THEN notches ELSE notches + 1
    PROVE  \E new \in [Nat -> Int] : Numbered(new)'
<1> DEFINE new == [i \in Nat |-> num[i + 1]]
<1>1. new \in [Nat -> Int] /\ (\A i \in 1 .. Size - 1 : new[i] = num[i + 1])
  OBVIOUS
<1> HIDE DEF new
<1>2. \A i \in 1 .. Size' : i \in 1 .. Size - 1 /\ i + 1 \in 1 .. Size
  OBVIOUS
<1>3. \A i \in 1 .. Size : At(i).d \in Int /\ (At(i).typ = "wheel" => At(i).d \in {-1, 1})
  BY SizeIs
<1>4. notches \in Nat /\ detents \in Nat /\ dir \in {-1, 0, 1} /\ turning \in {-1, 0, 1} /\ 1 \in 1 .. Size
  BY DEF MacTyped, MacValues
<1>5. CASE At(1).typ # "wheel" /\ UNCHANGED <<notches, dir, past>>
  <2>1. \A d : From(d)' = From(d)
    BY <1>5 DEF From
  <2>2. ASSUME NEW i \in 1 .. Size', At(i)'.typ = "wheel"
        PROVE  From(At(i).d)' <= new[i] /\ new[i] <= detents'
    BY <1>1, <1>2, <2>1, <2>2 DEF Numbered
  <2>3. ASSUME NEW i \in 1 .. Size', NEW j \in 1 .. Size', i < j, At(i)'.typ = "wheel", At(j)'.typ = "wheel"
        PROVE  new[i] <= new[j] /\ (new[i] = new[j] => At(i)'.d = At(j)'.d)
    <3>1. i + 1 \in 1 .. Size /\ j + 1 \in 1 .. Size /\ i + 1 < j + 1
      BY <1>2, <2>3
    <3> QED BY <1>1, <1>2, <2>3, <3>1 DEF Numbered
  <2>4. turning' # 0 => /\ From(turning)' <= detents'
                        /\ \A i \in 1 .. Size' : At(i)'.typ = "wheel" /\ new[i] = detents' => At(i)'.d = turning'
    BY <1>1, <1>2, <2>1 DEF Numbered
  <2>5. notches' + (IF dir' = 0 THEN 0 ELSE 1) <= detents'
    BY <1>5 DEF Numbered
  <2>6. Numbered(new)'
    BY <2>2, <2>3, <2>4, <2>5 DEF Numbered
  <2> QED BY <1>1, <2>6
<1>6. CASE /\ At(1).typ = "wheel" /\ dir' = At(1).d /\ past' = FALSE
           /\ notches' = IF dir = 0 \/ (dir = At(1).d /\ ~past) THEN notches ELSE notches + 1
  <2>1. /\ notches' + 1 = From(At(1).d) /\ At(1).d \in {-1, 1} /\ notches' \in Nat
        /\ num[1] \in Int /\ From(At(1).d) <= num[1] /\ num[1] <= detents
    BY <1>3, <1>4, <1>6 DEF From, Numbered
  <2>2. \A d : From(d)' = notches' + (IF d = At(1).d THEN 1 ELSE 2)
    <3>1. ~past' /\ dir' # 0 /\ dir' = At(1).d
      BY <1>6, <2>1
    <3> QED BY <3>1 DEF From
  <2>3. ASSUME NEW i \in 1 .. Size', At(i)'.typ = "wheel"
        PROVE  num[1] <= new[i] /\ (new[i] = num[1] => At(i)'.d = At(1).d) /\ new[i] <= detents' /\ new[i] \in Int
    <3>1. i + 1 \in 1 .. Size /\ 1 < i + 1 /\ At(i)' = At(i + 1) /\ new[i] = num[i + 1]
      BY <1>1, <1>2
    <3> QED BY <1>1, <1>4, <1>6, <2>3, <3>1 DEF Numbered
  <2>4. ASSUME NEW i \in 1 .. Size', At(i)'.typ = "wheel"
        PROVE  From(At(i).d)' <= new[i]
    BY <2>1, <2>2, <2>3, <2>4
  <2>5. ASSUME NEW i \in 1 .. Size', NEW j \in 1 .. Size', i < j, At(i)'.typ = "wheel", At(j)'.typ = "wheel"
        PROVE  new[i] <= new[j] /\ (new[i] = new[j] => At(i)'.d = At(j)'.d)
    <3>1. i + 1 \in 1 .. Size /\ j + 1 \in 1 .. Size /\ i + 1 < j + 1
      BY <1>2, <2>5
    <3> QED BY <1>1, <1>2, <2>5, <3>1 DEF Numbered
  <2>6. ASSUME turning # 0 PROVE From(turning)' <= detents
    <3>1. num[1] = detents => At(1).d = turning
      BY <1>4, <1>6, <2>6 DEF Numbered
    <3> QED BY <1>4, <2>1, <2>2, <3>1
  <2>7. turning' # 0 => /\ From(turning)' <= detents'
                        /\ \A i \in 1 .. Size' : At(i)'.typ = "wheel" /\ new[i] = detents' => At(i)'.d = turning'
    BY <1>1, <1>2, <2>6 DEF Numbered
  <2>8. notches' + (IF dir' = 0 THEN 0 ELSE 1) <= detents'
    BY <1>4, <1>6, <2>1
  <2>9. Numbered(new)'
    BY <2>3, <2>4, <2>5, <2>7, <2>8 DEF Numbered
  <2> QED BY <1>1, <2>9
<1> QED BY <1>5, <1>6

(* The window closes in time, or it has closed late. *)
LEMMA WindowInTime ==
    ASSUME [Mac!Next]_(Mac!vars), ~late'
    PROVE  ~late /\ (Mac!WindowCloses => turning = 0 /\ ~Mac!Waiting("wheel") /\ ~Mac!Taken("wheel"))
<1>1. late' = late \/ Mac!WindowCloses
  BY DEF Mac!Next, Mac!TapEvent, Mac!MouseMove, Mac!Detent, Mac!DetentGoesOn, Mac!DetentEnds, Mac!Trackpad, Mac!Key,
         Mac!Drain, Mac!CheckStop, Mac!DrainBatch, Mac!NothingCame, Mac!SumMove, Mac!Wheel, Mac!Scroll, Mac!PassKey,
         Mac!OnMove, Mac!Suppress, Mac!Release, Mac!RunLoop, Mac!Stop, Mac!StopRunLoop, Mac!Waited, Mac!Start,
         Mac!vars, Mac!wheel
<1>2. ASSUME Mac!WindowCloses
      PROVE  ~late /\ turning = 0 /\ ~Mac!Waiting("wheel") /\ ~Mac!Taken("wheel")
  BY Zenon, <1>2 DEF Mac!WindowCloses
<1>3. CASE late' = late
  <2>1. ~late
    BY <1>3
  <2>2. Mac!WindowCloses => turning = 0 /\ ~Mac!Waiting("wheel") /\ ~Mac!Taken("wheel")
    BY Zenon, <1>2
  <2> QED BY Zenon, <2>1, <2>2
<1>4. CASE Mac!WindowCloses
  <2>1. ~late /\ turning = 0 /\ ~Mac!Waiting("wheel") /\ ~Mac!Taken("wheel")
    BY Zenon, <1>2, <1>4
  <2> QED BY Zenon, <2>1
<1> QED BY Zenon, <1>1, <1>3, <1>4

LEMMA OneNotchStep == MacTyped /\ OneNotchEach /\ [Mac!Next]_(Mac!vars) => OneNotchEach'
<1> SUFFICES ASSUME MacTyped, OneNotchEach, [Mac!Next]_(Mac!vars), ~late' PROVE \E new \in [Nat -> Int] : Numbered(new)'
  BY DEF OneNotchEach
<1> USE DEF Mac!static, Mac!scroll, Mac!life, Mac!movement, Mac!wheel, Mac!pad, Mac!rest
<1>0. ~late /\ (Mac!WindowCloses => turning = 0 /\ ~Mac!Waiting("wheel") /\ ~Mac!Taken("wheel"))
  BY WindowInTime
<1> PICK num \in [Nat -> Int] : Numbered(num)
  BY <1>0 DEF OneNotchEach
<1>1. /\ notches \in Nat /\ detents \in Nat /\ dir \in {-1, 0, 1} /\ turning \in {-1, 0, 1} /\ Size \in Nat
      /\ notches + (IF dir = 0 THEN 0 ELSE 1) <= detents
  BY SizeIs DEF MacTyped, MacValues, Numbered
<1>2. ASSUME NEW e, Mac!Push(e), e.typ # "wheel", drain' = drain,
             UNCHANGED <<notches, detents, dir, past, turning>>
      PROVE  Numbered(num)'
  BY <1>2, PushQueues, NumberedStays
<1>3. ASSUME NEW d \in Deltas, Mac!MouseMove(d) PROVE Numbered(num)'
  <2>1. Mac!Push(Mac!Ev("move", d)) /\ Mac!Ev("move", d).typ # "wheel"
    BY <1>3 DEF Mac!MouseMove, Mac!Ev
  <2> QED BY <1>2, <1>3, <2>1 DEF Mac!MouseMove
<1>4. ASSUME NEW px \in Pixels, Mac!Trackpad(px) PROVE Numbered(num)'
  <2>1. Mac!Push(Mac!Ev("pad", px)) /\ Mac!Ev("pad", px).typ # "wheel"
    BY <1>4 DEF Mac!Trackpad, Mac!Ev
  <2> QED BY <1>2, <1>4, <2>1 DEF Mac!Trackpad
<1>5. CASE Mac!Key
  <2>1. Mac!Push(Mac!Ev("key", 0)) /\ Mac!Ev("key", 0).typ # "wheel"
    BY <1>5 DEF Mac!Key, Mac!Ev
  <2>2. Numbered(num)'
    BY <1>2, <1>5, <2>1 DEF Mac!Key
  <2> QED BY <2>2
<1>6. ASSUME NEW d \in {-1, 1}, Mac!Detent(d) PROVE \E new \in [Nat -> Int] : Numbered(new)'
  <2>1. /\ Mac!Push([typ |-> "wheel", d |-> d]) /\ drain' = drain /\ UNCHANGED <<notches, dir, past>>
        /\ turning = 0 /\ turning' = d /\ detents' = detents + 1
    BY <1>6 DEF Mac!Detent, Mac!Ev
  <2>2. /\ \A i \in 1 .. Size : At(i)' = At(i)
        /\ Size' = Size \/ (Size' = Size + 1 /\ \A n : n = Size + 1 => At(n)' = [typ |-> "wheel", d |-> d])
    BY <2>1, PushQueues
  <2>3. \A e \in {-1, 1} : From(e) <= detents + 1 /\ From(e)' = From(e) /\ From(e) \in Int
    BY <1>1, <2>1 DEF From
  <2>4. CASE Size' = Size
    <3>1. \A i \in 1 .. Size : At(i).typ = "wheel" => From(At(i).d) <= num[i] /\ num[i] <= detents
                                                    /\ At(i).d \in {-1, 1} /\ num[i] \in Int
      BY SizeIs DEF Numbered
    <3>2. \A i \in 1 .. Size' : At(i)'.typ = "wheel" =>
             From(At(i).d)' <= num[i] /\ num[i] <= detents' /\ num[i] # detents'
      BY <1>1, <2>1, <2>2, <2>3, <2>4, <3>1
    <3>3. \A i, j \in 1 .. Size' : i < j /\ At(i)'.typ = "wheel" /\ At(j)'.typ = "wheel" =>
             num[i] <= num[j] /\ (num[i] = num[j] => At(i)'.d = At(j)'.d)
      BY <2>2, <2>4 DEF Numbered
    <3>4. From(turning)' <= detents'
      BY <2>1, <2>3
    <3>5. notches' + (IF dir' = 0 THEN 0 ELSE 1) <= detents'
      BY <1>1, <2>1
    <3>6. Numbered(num)'
      BY <3>2, <3>3, <3>4, <3>5 DEF Numbered
    <3> QED BY <3>6
  <2>5. CASE Size' = Size + 1 /\ \A n : n = Size + 1 => At(n)' = [typ |-> "wheel", d |-> d]
    <3>1. From(d) <= detents + 1 /\ detents < detents + 1 /\ detents + 1 \in Int
      BY <1>1, <2>3
    <3> QED BY <2>1, <2>2, <2>5, <3>1, NumberedGrows
  <2> QED BY <2>2, <2>4, <2>5
<1>7. CASE Mac!DetentGoesOn
  <2>1. /\ Mac!Push([typ |-> "wheel", d |-> turning]) /\ drain' = drain /\ turning \in {-1, 1}
        /\ UNCHANGED <<notches, detents, dir, past, turning>>
    BY <1>1, <1>7 DEF Mac!DetentGoesOn, Mac!Ev
  <2>2. /\ \A i \in 1 .. Size : At(i)' = At(i)
        /\ Size' = Size \/ (Size' = Size + 1 /\ \A n : n = Size + 1 => At(n)' = [typ |-> "wheel", d |-> turning])
    BY <2>1, PushQueues
  <2>3. CASE Size' = Size
    <3>1. Numbered(num)'
      BY <2>1, <2>2, <2>3, NumberedStays
    <3> QED BY <3>1
  <2>4. CASE Size' = Size + 1 /\ \A n : n = Size + 1 => At(n)' = [typ |-> "wheel", d |-> turning]
    <3>1. From(turning) <= detents /\ detents \in Int
      BY <1>1, <2>1 DEF Numbered
    <3> QED BY <2>1, <2>2, <2>4, <3>1, NumberedGrows
  <2> QED BY <2>2, <2>3, <2>4
<1>8. ASSUME Size' = Size, \A i \in 1 .. Size : At(i)' = At(i), UNCHANGED <<notches, detents, dir, past, turning>>
      PROVE  Numbered(num)'
  BY <1>8, NumberedStays
<1>9. ASSUME UNCHANGED <<ring, drain>> \/ (ring' = ring /\ drain'.batch = drain.batch),
             UNCHANGED <<notches, detents, dir, past, turning>>
      PROVE  Numbered(num)'
  BY <1>8, <1>9 DEF Size, At
<1>10. ASSUME Size = 0, Size' = 0, turning' = turning, detents' = detents,
              turning # 0 => From(turning)' <= detents,
              notches' + (IF dir' = 0 THEN 0 ELSE 1) <= detents
       PROVE  Numbered(num)'
  BY <1>1, <1>10 DEF Numbered
<1>11. CASE Mac!DetentEnds
  <2>1. turning' = 0 /\ UNCHANGED <<ring, drain, notches, detents, dir, past>>
    BY <1>11 DEF Mac!DetentEnds
  <2>2. Size' = Size /\ (\A i \in 1 .. Size : At(i)' = At(i)) /\ \A d : From(d)' = From(d)
    BY <2>1 DEF Size, At, From
  <2>3. Numbered(num)'
    BY <2>1, <2>2 DEF Numbered
  <2> QED BY <2>3
<1>12. CASE Mac!WindowCloses
  <2>1. turning = 0 /\ turning' = turning /\ UNCHANGED <<ring, drain, notches, detents, dir>>
    BY <1>0, <1>12 DEF Mac!WindowCloses
  <2>2. \A i \in 1 .. Size : At(i).typ # "wheel"
    <3> DEFINE b == Len(drain.batch)
    <3>1. /\ \A i \in 1 .. Len(ring) : ring[i].typ # "wheel"
          /\ \A i \in 1 .. b : drain.batch[i].typ # "wheel"
      BY <1>0, <1>12 DEF Mac!Waiting, Mac!Taken, MacTyped, MacQueues
    <3>2. b \in Nat /\ Len(ring) \in Nat /\ Size = b + Len(ring)
      BY SizeIs DEF Size
    <3>3. \A i \in 1 .. Size : At(i) = IF i <= b THEN drain.batch[i] ELSE ring[i - b]
      BY DEF At
    <3> HIDE DEF b
    <3>4. ASSUME NEW i \in 1 .. Size PROVE At(i).typ # "wheel"
      <4>1. CASE i <= b
        <5>1. i \in 1 .. b /\ At(i) = drain.batch[i]
          BY <3>2, <3>3, <4>1
        <5> QED BY <3>1, <5>1
      <4>2. CASE ~(i <= b)
        <5>1. i - b \in 1 .. Len(ring) /\ At(i) = ring[i - b]
          BY <3>2, <3>3, <4>2
        <5> QED BY <3>1, <5>1
      <4> QED BY <4>1, <4>2
    <3> QED BY <3>4
  <2>3. Size' = Size /\ \A i \in 1 .. Size : At(i)' = At(i)
    BY <2>1 DEF Size, At
  <2>4. Numbered(num)'
    BY <1>1, <2>1, <2>2, <2>3 DEF Numbered
  <2> QED BY <2>4
<1>13. CASE Mac!SumMove \/ Mac!Wheel \/ Mac!Scroll \/ Mac!PassKey
  <2>1. drain.at = "batch" /\ drain.batch # <<>> /\ ring' = ring
    BY <1>13 DEF Mac!SumMove, Mac!Wheel, Mac!Scroll, Mac!PassKey
  <2>2. Mac!Pop = [at |-> "batch", batch |-> Tail(drain.batch), sum |-> drain.sum, moves |-> drain.moves]
    BY <2>1, PopTyped
  <2>3. drain'.batch = Tail(drain.batch)
    <3>1. CASE Mac!SumMove
      <4>1. drain' = [at |-> "batch", batch |-> Tail(drain.batch), sum |-> drain.sum + Mac!Event.d, moves |-> TRUE]
        BY <2>2, <3>1 DEF Mac!SumMove
      <4> QED BY <4>1
    <3>2. CASE Mac!Wheel \/ Mac!Scroll \/ Mac!PassKey
      <4>1. drain' = Mac!Pop
        BY Zenon, <3>2 DEF Mac!Wheel, Mac!Scroll, Mac!PassKey
      <4> QED BY <2>2, <4>1
    <3> QED BY <1>13, <3>1, <3>2
  <2>4. /\ Size \in Nat \ {0} /\ Size' = Size - 1 /\ At(1) = Mac!Event
        /\ \A i \in 1 .. Size - 1 : i + 1 \in 1 .. Size /\ At(i)' = At(i + 1)
    BY <2>1, <2>3, PopQueues
  <2>5. UNCHANGED <<detents, turning>>
    BY <1>13 DEF Mac!SumMove, Mac!Wheel, Mac!Scroll, Mac!PassKey
  <2>6. \/ At(1).typ # "wheel" /\ UNCHANGED <<notches, dir, past>>
        \/ /\ At(1).typ = "wheel" /\ dir' = At(1).d /\ past' = FALSE
           /\ notches' = IF dir = 0 \/ (dir = At(1).d /\ ~past) THEN notches ELSE notches + 1
    <3>1. CASE Mac!Wheel
      BY <2>4, <3>1 DEF Mac!Wheel
    <3>2. CASE Mac!SumMove \/ Mac!Scroll \/ Mac!PassKey
      BY <2>4, <3>2 DEF Mac!SumMove, Mac!Scroll, Mac!PassKey
    <3> QED BY <1>13, <3>1, <3>2
  <2> QED BY <2>4, <2>5, <2>6, NumberedShrinks
<1>14. CASE Mac!DrainBatch
  <2>1. drain.at = "wait" /\ drain'.batch = ring /\ ring' = <<>> /\ UNCHANGED <<notches, detents, dir, past, turning>>
    BY <1>14 DEF Mac!DrainBatch
  <2>2. drain.batch = <<>> /\ Len(ring) \in Nat
    BY <2>1, SizeIs DEF MacTyped, MacQueues
  <2>3. Size = Len(ring) /\ Size' = Len(ring)
    BY <2>1, <2>2 DEF Size
  <2>4. \A i \in 1 .. Size : At(i) = ring[i] /\ At(i)' = ring[i]
    BY <2>1, <2>2, <2>3 DEF At
  <2> QED BY <1>8, <2>1, <2>3, <2>4
<1>15. CASE Mac!NothingCame
  <2>1. /\ ring = <<>> /\ ring' = ring /\ drain.at = "wait" /\ drain'.batch = drain.batch
        /\ UNCHANGED <<past, turning, detents>>
    BY <1>15 DEF Mac!NothingCame, Mac!DrainAt, MacTyped, MacQueues
  <2>2. drain.batch = <<>>
    BY <2>1 DEF MacTyped, MacQueues
  <2>3. Size = 0 /\ Size' = 0
    BY <2>1, <2>2 DEF Size
  <2>4. CASE dir # 0 /\ past
    <3>1. notches' = notches + 1 /\ dir' = 0
      BY <1>15, <2>4 DEF Mac!NothingCame
    <3>2. turning # 0 => From(turning) <= detents /\ From(turning) = notches + 2
      BY <2>4 DEF Numbered, From
    <3>3. From(turning)' = notches' + 1
      BY <3>1 DEF From
    <3>4. Numbered(num)'
      BY <1>1, <1>10, <2>1, <2>3, <2>4, <3>1, <3>2, <3>3
    <3> QED BY <3>4
  <2>5. CASE ~(dir # 0 /\ past)
    BY <1>9, <1>15, <2>1, <2>5 DEF Mac!NothingCame
  <2> QED BY <2>4, <2>5
<1>16. CASE Mac!CheckStop \/ Mac!OnMove \/ Mac!Suppress
  <2>1. ring' = ring /\ UNCHANGED <<notches, detents, dir, past, turning>>
    BY <1>16 DEF Mac!CheckStop, Mac!OnMove, Mac!Suppress
  <2>2. CASE Mac!CheckStop \/ Mac!Suppress
    <3>1. drain'.batch = drain.batch
      BY <2>2 DEF Mac!CheckStop, Mac!Suppress, Mac!DrainAt, MacTyped, MacQueues
    <3> QED BY <1>9, <2>1, <3>1
  <2>3. CASE Mac!OnMove
    <3>1. drain'.batch = drain.batch
      BY <2>3 DEF Mac!OnMove, Mac!NoBatch, MacTyped, MacQueues
    <3> QED BY <1>9, <2>1, <3>1
  <2> QED BY <1>16, <2>2, <2>3
<1>17. CASE \/ Mac!Release \/ Mac!RunLoop \/ Mac!Stop \/ Mac!StopRunLoop \/ Mac!Waited
            \/ UNCHANGED Mac!vars
  BY <1>9, <1>17 DEF Mac!Release, Mac!RunLoop, Mac!Stop, Mac!StopRunLoop, Mac!Waited, Mac!vars
<1>18. CASE Mac!Start
  <2>1. /\ ring' = ring /\ drain'.batch = <<>> /\ dir' = 0 /\ UNCHANGED <<notches, detents, turning>>
    BY <1>18 DEF Mac!Start, Mac!NoBatch
  <2> DEFINE b == Len(drain.batch)
  <2>2. b \in Nat /\ Len(ring) \in Nat /\ Size = b + Len(ring) /\ Size' = Len(ring)
    BY <2>1, SizeIs DEF Size
  <2>3. \A i \in 1 .. Len(ring) : At(i + b) = ring[i]
    <3>1. \A i \in 1 .. Len(ring) : At(i + b) = IF i + b <= b THEN drain.batch[i + b] ELSE ring[i + b - b]
      BY DEF At
    <3> HIDE DEF b
    <3>2. \A i \in 1 .. Len(ring) : ~(i + b <= b) /\ i + b - b = i
      BY <2>2
    <3> QED BY <3>1, <3>2
  <2>4. \A i \in 1 .. Len(ring) : At(i)' = ring[i]
    BY <2>1, <2>2 DEF At
  <2>5. /\ \A i \in 1 .. Len(ring) : i + b \in 1 .. Size
        /\ \A i, j \in 1 .. Len(ring) : i < j => i + b < j + b
    <3> HIDE DEF b
    <3> QED BY <2>2
  <2>6. \E new \in [Nat -> Int] : \A i \in 1 .. Len(ring) : new[i] = num[i + b]
    <3> DEFINE f == [i \in Nat |-> num[i + b]]
    <3>1. f \in [Nat -> Int] /\ \A i \in 1 .. Len(ring) : f[i] = num[i + b]
      BY <2>2
    <3> QED BY <3>1
  <2>7. PICK new \in [Nat -> Int] : \A i \in 1 .. Len(ring) : new[i] = num[i + b]
    BY <2>6
  <2> HIDE DEF b
  <2>8. \A d : From(d)' = notches + 1 /\ (From(d) = notches + 1 \/ From(d) = notches + 2)
    BY <2>1 DEF From
  <2>9. \A i \in 1 .. Size' : At(i)'.typ = "wheel" => From(At(i).d)' <= new[i] /\ new[i] <= detents'
    <3>1. ASSUME NEW i \in 1 .. Len(ring), ring[i].typ = "wheel" PROVE notches + 1 <= new[i] /\ new[i] <= detents
      <4>1. i + b \in 1 .. Size /\ At(i + b) = ring[i] /\ num[i + b] = new[i]
        BY <2>3, <2>5, <2>7
      <4>2. \A n \in 1 .. Size : At(n).typ = "wheel" => From(At(n).d) <= num[n] /\ num[n] <= detents
        BY DEF Numbered
      <4>3. From(ring[i].d) <= new[i] /\ new[i] <= detents
        BY <3>1, <4>1, <4>2
      <4>4. new[i] \in Int
        BY SizeIs, <4>1
      <4>5. CASE From(ring[i].d) = notches + 1
        BY <4>3, <4>5
      <4>6. CASE From(ring[i].d) = notches + 2
        BY <1>1, <4>3, <4>4, <4>6
      <4> QED BY <2>8, <4>5, <4>6
    <3> QED BY <2>1, <2>2, <2>4, <2>8, <3>1
  <2>10. ASSUME NEW i \in 1 .. Size', NEW j \in 1 .. Size', i < j, At(i)'.typ = "wheel", At(j)'.typ = "wheel"
         PROVE  new[i] <= new[j] /\ (new[i] = new[j] => At(i)'.d = At(j)'.d)
    <3>1. i + b \in 1 .. Size /\ j + b \in 1 .. Size /\ i + b < j + b
      BY <2>2, <2>5, <2>10
    <3>2. At(i)' = At(i + b) /\ At(j)' = At(j + b) /\ new[i] = num[i + b] /\ new[j] = num[j + b]
      BY <2>2, <2>3, <2>4, <2>7
    <3> QED BY <2>10, <3>1, <3>2 DEF Numbered
  <2>11. turning' # 0 => /\ From(turning)' <= detents'
                         /\ \A i \in 1 .. Size' : At(i)'.typ = "wheel" /\ new[i] = detents' => At(i)'.d = turning'
    <3>1. turning # 0 => From(turning) <= detents
      BY DEF Numbered
    <3>2. turning # 0 => notches + 1 <= detents
      BY <1>1, <2>8, <3>1
    <3>3. ASSUME turning # 0, NEW i \in 1 .. Len(ring), ring[i].typ = "wheel", new[i] = detents PROVE ring[i].d = turning
      BY <2>3, <2>5, <2>7, <3>3 DEF Numbered
    <3> QED BY <2>1, <2>2, <2>4, <2>8, <3>2, <3>3
  <2>12. notches' + (IF dir' = 0 THEN 0 ELSE 1) <= detents'
    BY <1>1, <2>1
  <2>13. Numbered(new)'
    BY <2>9, <2>10, <2>11, <2>12 DEF Numbered
  <2> QED BY <2>13
<1> QED BY <1>3, <1>4, <1>5, <1>6, <1>7, <1>11, <1>12, <1>13, <1>14, <1>15, <1>16, <1>17, <1>18
        DEF Mac!Next, Mac!TapEvent, Mac!Drain

-----------------------------------------------------------------------------
(* The drivers as a build has one of them. *)

CaptureInv == TypeOK /\ MacTyped /\ OneNotchEach

LEMMA CaptureInvInit == CaptureInit => CaptureInv
<1> SUFFICES ASSUME CaptureInit PROVE CaptureInv
  OBVIOUS
<1>1. TypeOK
  BY WindowsInit DEF CaptureInit
<1>2. MacTyped
  BY MacInit DEF CaptureInit
<1>3. OneNotchEach
  <2>1. Size = 0 /\ notches = 0 /\ dir = 0 /\ turning = 0 /\ detents = 0
    BY DEF CaptureInit, Mac!Init, Mac!NoBatch, Size
  <2>2. [n \in Nat |-> 0] \in [Nat -> Int]
    OBVIOUS
  <2>3. Numbered([n \in Nat |-> 0])
    BY <2>1 DEF Numbered
  <2> QED BY <2>2, <2>3 DEF OneNotchEach
<1> QED BY <1>1, <1>2, <1>3 DEF CaptureInv

(* A step of one driver is a step of it, and leaves the other alone. *)
LEMMA CaptureSteps == [CaptureNext]_all => [Next]_vars /\ [Mac!Next]_(Mac!vars)
<1> SUFFICES ASSUME [CaptureNext]_all PROVE [Next]_vars /\ [Mac!Next]_(Mac!vars)
  OBVIOUS
<1>1. UNCHANGED macVars => UNCHANGED Mac!vars
  BY DEF macVars, Mac!vars, Mac!static, Mac!scroll, Mac!life, Mac!movement, Mac!wheel, Mac!pad, Mac!rest
<1>2. CASE OnWindows /\ Next
  BY Zenon, <1>1, <1>2 DEF OnWindows
<1>3. CASE OnMac /\ Mac!Next
  BY Zenon, <1>3 DEF OnMac
<1>4. CASE UNCHANGED all
  BY Zenon, <1>1, <1>4 DEF all
<1> QED BY Zenon, <1>2, <1>3, <1>4 DEF CaptureNext

LEMMA CaptureInvStep == CaptureInv /\ [CaptureNext]_all => CaptureInv'
BY CaptureSteps, WindowsStep, MacStep, OneNotchStep DEF CaptureInv

(* Types: the channel of the Windows driver and the ring of the macOS one  *)
(* hold no more than they have room for, a batch is taken only when the    *)
(* last is done, and every thread is where its code can be.                *)
THEOREM CaptureTypeCorrect == CaptureSpec => []CaptureTypeOK
<1>1. CaptureInv => CaptureTypeOK
  BY MacTypedIsTypeOK DEF CaptureInv, CaptureTypeOK
<1> QED BY <1>1, CaptureInvInit, CaptureInvStep, PTL DEF CaptureSpec

(* One detent of the wheel makes one notch at most, however its events are *)
(* spread over the batches of drain and whatever comes between them, as    *)
(* long as they are handled before the window for a detent closes.         *)
THEOREM DetentsAreNotches == CaptureSpec => []NotchesCounted
<1>1. CaptureInv => NotchesCounted
  BY DEF CaptureInv, OneNotchEach, Numbered, NotchesCounted, Mac!NotchesCounted
<1> QED BY <1>1, CaptureInvInit, CaptureInvStep, PTL DEF CaptureSpec

-----------------------------------------------------------------------------
(* What drain reports.  The total of the events of one kind in a queue is  *)
(* a running sum: f[i] is the sum over the first i events.                 *)
Value(e, typ) == IF e.typ = typ THEN e.d ELSE 0

Running(f, s, typ, n) ==
    /\ f \in [0 .. n -> Int] /\ f[0] = 0
    /\ \A i \in 1 .. n : f[i] = f[i - 1] + Value(s[i], typ)

(* Of a set of natural numbers that is not empty, one is the least. *)
LEMMA Least ==
    ASSUME NEW S \in SUBSET Nat, S # {}
    PROVE  \E k \in S : \A j \in S : k <= j
<1> DEFINE less == OpToRel(<, Nat)
<1>1. PICK k \in S : \A j \in S : ~(<<j, k>> \in less)
  BY NatLessThanWellFounded, WFMin
<1>2. \A j \in S : ~(j < k)
  BY <1>1, Zenon DEF OpToRel, less
<1> QED BY <1>2

LEMMA ValueIsInt ==
    ASSUME NEW s \in Seq(MacEvent), NEW i \in 1 .. Len(s), NEW typ
    PROVE  Value(s[i], typ) \in Int
<1>1. s[i] \in MacEvent
  OBVIOUS
<1> QED BY <1>1 DEF Value, MacEvent

(* Every queue has its running sums. *)
LEMMA RunningExists ==
    ASSUME NEW s \in Seq(MacEvent), NEW typ
    PROVE  \E f : Running(f, s, typ, Len(s))
<1> DEFINE Bad == {n \in 0 .. Len(s) : ~\E f : Running(f, s, typ, n)}
<1>0. Len(s) \in Nat
  OBVIOUS
<1>1. CASE Bad = {}
  BY <1>0, <1>1
<1>2. CASE Bad # {}
  <2>1. Bad \in SUBSET Nat
    BY <1>0
  <2>2. PICK n \in Bad : \A m \in Bad : n <= m
    BY <1>2, <2>1, Least
  <2>3. n \in 0 .. Len(s) /\ ~\E f : Running(f, s, typ, n)
    BY <2>2
  <2>4. Running([i \in 0 .. 0 |-> 0], s, typ, 0)
    BY DEF Running
  <2>5. n # 0 /\ n \in Nat
    BY <1>0, <2>3, <2>4
  <2>6. n - 1 \in 0 .. Len(s) /\ n - 1 \notin Bad
    BY <1>0, <2>1, <2>2, <2>3, <2>5
  <2>7. PICK f : Running(f, s, typ, n - 1)
    BY <2>6
  <2> DEFINE g == [i \in 0 .. n |-> IF i = n THEN f[n - 1] + Value(s[n], typ) ELSE f[i]]
  <2>8. f \in [0 .. n - 1 -> Int] /\ f[0] = 0 /\ \A i \in 1 .. n - 1 : f[i] = f[i - 1] + Value(s[i], typ)
    BY <2>7 DEF Running
  <2>9. Value(s[n], typ) \in Int
    BY <1>0, <2>3, <2>5, ValueIsInt
  <2>10. g \in [0 .. n -> Int]
    <3>1. ASSUME NEW i \in 0 .. n PROVE (IF i = n THEN f[n - 1] + Value(s[n], typ) ELSE f[i]) \in Int
      <4>1. CASE i = n
        BY <2>5, <2>8, <2>9, <4>1
      <4>2. CASE i # n
        BY <2>5, <2>8, <4>2
      <4> QED BY <4>1, <4>2
    <3> QED BY <3>1
  <2>11. g[0] = 0 /\ g[n] = f[n - 1] + Value(s[n], typ) /\ \A i \in 0 .. n - 1 : g[i] = f[i]
    BY <2>5, <2>8
  <2> HIDE DEF g
  <2>12. ASSUME NEW i \in 1 .. n PROVE g[i] = g[i - 1] + Value(s[i], typ)
    <3>1. CASE i = n
      BY <2>5, <2>11, <3>1
    <3>2. CASE i # n
      <4>1. i \in 1 .. n - 1 /\ i \in 0 .. n - 1 /\ i - 1 \in 0 .. n - 1
        BY <2>5, <3>2
      <4> QED BY <2>8, <2>11, <4>1
    <3> QED BY <3>1, <3>2
  <2>13. Running(g, s, typ, n)
    BY <2>10, <2>11, <2>12 DEF Running
  <2> QED BY <2>3, <2>13
<1> QED BY <1>1, <1>2

(* Its last running sum is the total. *)
LEMMA RunningIsTotal ==
    ASSUME NEW s \in Seq(MacEvent), NEW typ, NEW f, Running(f, s, typ, Len(s))
    PROVE  Mac!Total(s, typ) = f[Len(s)]
<1> DEFINE n == Len(s)
           sum[i \in 0 .. n] ==
             IF i = 0 THEN 0 ELSE sum[i - 1] + (IF s[i].typ = typ THEN s[i].d ELSE 0)
           Is(g) == g = [i \in 0 .. n |->
                          IF i = 0 THEN 0 ELSE g[i - 1] + (IF s[i].typ = typ THEN s[i].d ELSE 0)]
<1>1. Mac!Total(s, typ) = sum[n]
  BY DEF Mac!Total
<1>2. sum = CHOOSE g : Is(g)
  OBVIOUS
<1>3. f \in [0 .. n -> Int] /\ f[0] = 0 /\ \A i \in 1 .. n : f[i] = f[i - 1] + Value(s[i], typ)
  BY DEF Running
<1>4. n \in Nat
  OBVIOUS
<1> HIDE DEF n, sum
<1>5. Is(f)
  <2>1. \A i \in 0 .. n : f[i] = IF i = 0 THEN 0 ELSE f[i - 1] + (IF s[i].typ = typ THEN s[i].d ELSE 0)
    BY <1>3, <1>4 DEF Value
  <2>2. f = [i \in 0 .. n |-> f[i]]
    BY <1>3
  <2> QED BY <2>1, <2>2
<1>6. Is(sum)
  <2> HIDE DEF Is
  <2> QED BY <1>2, <1>5
<1>7. \A i \in 0 .. n : sum[i] = IF i = 0 THEN 0 ELSE sum[i - 1] + (IF s[i].typ = typ THEN s[i].d ELSE 0)
  BY <1>6
<1> HIDE DEF Is
<1> DEFINE Bad == {i \in 0 .. n : sum[i] # f[i]}
<1>8. CASE Bad = {}
  BY <1>1, <1>4, <1>8 DEF n
<1>9. CASE Bad # {}
  <2>0. Bad \in SUBSET Nat
    BY <1>4
  <2>1. PICK k \in Bad : \A j \in Bad : k <= j
    <3> HIDE DEF Bad
    <3> QED BY <1>9, <2>0, Least
  <2>2. k \in 0 .. n /\ sum[k] # f[k]
    BY <2>1
  <2>3. k # 0
    BY <1>3, <1>4, <1>7, <2>2
  <2>4. k - 1 \in 0 .. n /\ k \in 1 .. n /\ ~(k <= k - 1)
    BY <1>4, <2>2, <2>3
  <2>5. sum[k - 1] = f[k - 1]
    BY <2>1, <2>4
  <2>6. sum[k] = sum[k - 1] + Value(s[k], typ)
    BY <1>7, <2>2, <2>3 DEF Value
  <2> QED BY <1>3, <2>2, <2>4, <2>5, <2>6
<1> QED BY <1>8, <1>9

(* So the total is an integer, of no event zero, and grows and shrinks by  *)
(* the events that come and go.                                            *)
LEMMA TotalEmpty ==
    ASSUME NEW typ
    PROVE  Mac!Total(<<>>, typ) = 0
<1>1. <<>> \in Seq(MacEvent) /\ Len(<<>>) = 0
  OBVIOUS
<1>2. PICK f : Running(f, <<>>, typ, Len(<<>>))
  BY <1>1, RunningExists
<1> QED BY <1>1, <1>2, RunningIsTotal DEF Running

LEMMA TotalIsInt ==
    ASSUME NEW s \in Seq(MacEvent), NEW typ
    PROVE  Mac!Total(s, typ) \in Int
<1>1. PICK f : Running(f, s, typ, Len(s))
  BY RunningExists
<1>2. Len(s) \in 0 .. Len(s) /\ f \in [0 .. Len(s) -> Int]
  BY <1>1 DEF Running
<1> QED BY <1>1, <1>2, RunningIsTotal

LEMMA TotalAppend ==
    ASSUME NEW s \in Seq(MacEvent), NEW e \in MacEvent, NEW typ
    PROVE  Mac!Total(Append(s, e), typ) = Mac!Total(s, typ) + Value(e, typ)
<1> DEFINE n == Len(s)
           t == Append(s, e)
<1>1. n \in Nat /\ t \in Seq(MacEvent) /\ Len(t) = n + 1 /\ t[n + 1] = e /\ \A i \in 1 .. n : t[i] = s[i]
  OBVIOUS
<1>2. PICK f : Running(f, t, typ, Len(t))
  BY <1>1, RunningExists
<1> HIDE DEF t
<1>3. f \in [0 .. n + 1 -> Int] /\ f[0] = 0 /\ \A i \in 1 .. n + 1 : f[i] = f[i - 1] + Value(t[i], typ)
  BY <1>1, <1>2 DEF Running
<1> DEFINE g == [i \in 0 .. n |-> f[i]]
<1>4. Running(g, s, typ, n)
  <2>1. g \in [0 .. n -> Int] /\ g[0] = 0
    BY <1>1, <1>3
  <2>2. ASSUME NEW i \in 1 .. n PROVE g[i] = g[i - 1] + Value(s[i], typ)
    BY <1>1, <1>3
  <2> HIDE DEF g
  <2> QED BY <2>1, <2>2 DEF Running
<1>5. Mac!Total(s, typ) = f[n]
  <2>1. Mac!Total(s, typ) = g[n]
    BY <1>4, RunningIsTotal
  <2> QED BY <1>1, <2>1
<1>6. f[n + 1] = f[n] + Value(e, typ)
  <2>1. n + 1 \in 1 .. n + 1 /\ (n + 1) - 1 = n
    BY <1>1
  <2> QED BY <1>1, <1>3, <2>1
<1>7. Mac!Total(t, typ) = f[n + 1]
  BY <1>1, <1>2, RunningIsTotal
<1> QED BY <1>5, <1>6, <1>7 DEF t

LEMMA TotalPop ==
    ASSUME NEW s \in Seq(MacEvent), s # <<>>, NEW typ
    PROVE  Mac!Total(s, typ) = Value(Head(s), typ) + Mac!Total(Tail(s), typ)
<1> DEFINE n == Len(Tail(s))
           t == Tail(s)
<1>1. /\ n \in Nat /\ t \in Seq(MacEvent) /\ Len(s) = n + 1 /\ Head(s) = s[1]
      /\ \A i \in 1 .. n : t[i] = s[i + 1]
  OBVIOUS
<1>2. PICK f : Running(f, s, typ, n + 1)
  BY <1>1, RunningExists
<1>3. Len(t) = n
  OBVIOUS
<1> HIDE DEF t, n
<1>4. f \in [0 .. n + 1 -> Int] /\ f[0] = 0 /\ \A i \in 1 .. n + 1 : f[i] = f[i - 1] + Value(s[i], typ)
  BY <1>2 DEF Running
<1>5. Value(s[1], typ) \in Int /\ f[1] = Value(s[1], typ)
  <2>1. 1 \in 1 .. n + 1 /\ 1 \in 1 .. Len(s)
    BY <1>1
  <2>2. Value(s[1], typ) \in Int
    BY <2>1, ValueIsInt
  <2>3. f[1] = f[1 - 1] + Value(s[1], typ) /\ 1 - 1 = 0
    BY <1>4, <2>1
  <2> QED BY <1>4, <2>2, <2>3
<1> DEFINE g == [i \in 0 .. n |-> f[i + 1] - f[1]]
<1>6. Running(g, t, typ, n)
  <2>1. \A i \in 0 .. n : i + 1 \in 0 .. n + 1 /\ f[i + 1] \in Int /\ f[1] \in Int
    BY <1>1, <1>4, <1>5
  <2>2. g \in [0 .. n -> Int] /\ g[0] = 0
    BY <1>1, <2>1
  <2>3. ASSUME NEW i \in 1 .. n PROVE g[i] = g[i - 1] + Value(t[i], typ)
    <3>1. /\ i \in 0 .. n /\ i - 1 \in 0 .. n /\ i + 1 \in 1 .. n + 1 /\ i + 1 \in 1 .. Len(s)
          /\ (i + 1) - 1 = i /\ (i - 1) + 1 = i
      BY <1>1
    <3>2. g[i] = f[i + 1] - f[1] /\ g[i - 1] = f[i] - f[1]
      BY <3>1
    <3>3. f[i + 1] = f[i] + Value(s[i + 1], typ) /\ t[i] = s[i + 1]
      BY <1>1, <1>4, <3>1
    <3>4. Value(s[i + 1], typ) \in Int
      BY <3>1, ValueIsInt
    <3>5. i \in 0 .. n + 1 /\ f[1] \in Int
      BY <1>1, <1>5, <3>1
    <3>6. f[i] \in Int
      BY <1>4, <3>5
    <3> HIDE DEF g
    <3> QED BY <3>2, <3>3, <3>4, <3>5, <3>6
  <2> HIDE DEF g
  <2> QED BY <2>2, <2>3 DEF Running
<1>7. Mac!Total(t, typ) = f[n + 1] - f[1]
  <2>1. Mac!Total(t, typ) = g[n]
    BY <1>1, <1>3, <1>6, RunningIsTotal
  <2> QED BY <1>1, <2>1
<1>8. Mac!Total(s, typ) = f[n + 1]
  BY <1>1, <1>2, RunningIsTotal
<1>9. f[n + 1] \in Int
  BY <1>1, <1>4
<1> QED BY <1>1, <1>5, <1>7, <1>8, <1>9 DEF t

(* What is on its way to OnMove and OnScroll.  A batch's movements are     *)
(* summed until it is reported, and Stop waits for drain.                  *)
MotionTyped ==
    /\ moved \in Int /\ told \in Int /\ scrolled \in Int /\ lines \in Int /\ acc \in Int
    /\ drain.at # "batch" => drain.sum = 0
    /\ dstop = "stopped" => drain.at = "done"

Summed ==
    ~dropped => /\ moved = told + drain.sum + Mac!Queued("move")
                /\ scrolled = lines * LinePx + acc + Mac!Queued("pad")

(* An event is pushed: its value is on its way, or it is dropped.          *)
LEMMA PushSums ==
    ASSUME MacTyped, NEW e \in MacEvent, Mac!Push(e), drain' = drain
    PROVE  \/ dropped'
           \/ dropped' = dropped /\ \A typ : Mac!Queued(typ)' = Mac!Queued(typ) + Value(e, typ)
<1>0. ring \in Seq(MacEvent) /\ drain.batch \in Seq(MacEvent)
  BY DEF MacTyped, MacQueues
<1>1. dropped' = TRUE \/ (ring' = Append(ring, e) /\ dropped' = dropped)
  BY DEF Mac!Push
<1>2. ASSUME ring' = Append(ring, e), NEW typ
      PROVE  Mac!Queued(typ)' = Mac!Queued(typ) + Value(e, typ)
  <2>1. Mac!Queued(typ)' = Mac!Total(ring', typ) + Mac!Total(drain.batch, typ)
    BY DEF Mac!Queued
  <2>2. Mac!Total(ring', typ) = Mac!Total(ring, typ) + Value(e, typ)
    BY <1>0, <1>2, TotalAppend
  <2>3. Mac!Total(ring, typ) \in Int /\ Mac!Total(drain.batch, typ) \in Int
    BY <1>0, TotalIsInt
  <2>4. Value(e, typ) \in Int
    BY DEF Value, MacEvent
  <2> QED BY <2>1, <2>2, <2>3, <2>4 DEF Mac!Queued
<1>3. CASE dropped' = TRUE
  BY <1>3, Zenon
<1>4. CASE ring' = Append(ring, e) /\ dropped' = dropped
  BY <1>2, <1>4, Zenon
<1> QED BY <1>1, <1>3, <1>4

(* An event is handled: its value is taken off what is on its way.         *)
LEMMA PopSums ==
    ASSUME MacTyped, drain.batch # <<>>, ring' = ring, drain'.batch = Tail(drain.batch), NEW typ
    PROVE  Mac!Queued(typ)' = Mac!Queued(typ) - Value(Mac!Event, typ)
<1>0. ring \in Seq(MacEvent) /\ drain.batch \in Seq(MacEvent)
  BY DEF MacTyped, MacQueues
<1>1. Mac!Queued(typ)' = Mac!Total(ring, typ) + Mac!Total(Tail(drain.batch), typ)
  BY DEF Mac!Queued
<1>2. Mac!Total(drain.batch, typ) = Value(Head(drain.batch), typ) + Mac!Total(Tail(drain.batch), typ)
  BY <1>0, TotalPop
<1>3. Tail(drain.batch) \in Seq(MacEvent) /\ Head(drain.batch) \in MacEvent
  BY <1>0
<1>4. Mac!Total(ring, typ) \in Int /\ Mac!Total(Tail(drain.batch), typ) \in Int
  BY <1>0, <1>3, TotalIsInt
<1>5. Value(Head(drain.batch), typ) \in Int
  BY <1>3 DEF Value, MacEvent
<1> QED BY <1>1, <1>2, <1>4, <1>5 DEF Mac!Queued, Mac!Event

LEMMA QueuedIsInt ==
    ASSUME MacTyped, NEW typ
    PROVE  Mac!Queued(typ) \in Int
<1>0. ring \in Seq(MacEvent) /\ drain.batch \in Seq(MacEvent)
  BY DEF MacTyped, MacQueues
<1> QED BY <1>0, TotalIsInt DEF Mac!Queued

(* The steps that push. *)
LEMMA TapSums ==
    ASSUME MacTyped, MotionTyped, Summed, Mac!TapEvent
    PROVE  MotionTyped' /\ Summed'
<1> USE DEF Mac!static, Mac!scroll, Mac!life, Mac!movement, Mac!wheel, Mac!pad, Mac!rest, Mac!Counted
<1>0. /\ LinePx \in Int /\ Mac!Queued("move") \in Int /\ Mac!Queued("pad") \in Int
      /\ Deltas \subseteq Int /\ Pixels \subseteq Int /\ drain.sum \in Int
  BY QueuedIsInt, MacAssumption DEF Mac!DarwinAssumption, MacTyped, MacQueues
<1> DEFINE px == lines * LinePx
<1>1. px \in Int
  BY <1>0 DEF MotionTyped
<1>2. ASSUME NEW e \in MacEvent, Mac!Push(e), drain' = drain,
             UNCHANGED <<told, lines, acc, dstop>>,
             moved' = moved + Value(e, "move"), scrolled' = scrolled + Value(e, "pad")
      PROVE  MotionTyped' /\ Summed'
  <2>1. Value(e, "move") \in Int /\ Value(e, "pad") \in Int
    BY DEF Value, MacEvent
  <2>2. MotionTyped'
    BY <1>2, <2>1 DEF MotionTyped
  <2>3. CASE dropped'
    BY <2>2, <2>3 DEF Summed
  <2>4. CASE /\ dropped' = dropped
             /\ \A typ : Mac!Queued(typ)' = Mac!Queued(typ) + Value(e, typ)
    <3> SUFFICES ASSUME ~dropped'
                 PROVE  /\ moved' = told' + drain'.sum + Mac!Queued("move")'
                        /\ scrolled' = lines' * LinePx + acc' + Mac!Queued("pad")'
      BY <2>2, Zenon DEF Summed
    <3>1. ~dropped
      BY <2>4, Zenon
    <3>2. moved = told + drain.sum + Mac!Queued("move") /\ scrolled = px + acc + Mac!Queued("pad")
      BY <3>1 DEF Summed
    <3>3. lines' * LinePx = px /\ acc' = acc /\ told' = told /\ drain'.sum = drain.sum
      BY <1>2
    <3>4. Mac!Queued("move")' = Mac!Queued("move") + Value(e, "move")
          /\ Mac!Queued("pad")' = Mac!Queued("pad") + Value(e, "pad")
      BY <2>4
    <3>5. moved \in Int /\ told \in Int /\ acc \in Int /\ scrolled \in Int
      BY DEF MotionTyped
    <3> HIDE DEF px
    <3> QED BY <1>0, <1>1, <1>2, <2>1, <3>2, <3>3, <3>4, <3>5
  <2> QED BY <1>2, <2>3, <2>4, PushSums
<1>3. ASSUME NEW d \in Deltas, Mac!MouseMove(d) PROVE MotionTyped' /\ Summed'
  <2>1. Mac!Ev("move", d) \in MacEvent /\ Value(Mac!Ev("move", d), "move") = d
        /\ Value(Mac!Ev("move", d), "pad") = 0
    BY <1>0 DEF Mac!Ev, MacEvent, Value
  <2>2. /\ Mac!Push(Mac!Ev("move", d)) /\ drain' = drain /\ moved' = moved + d
        /\ UNCHANGED <<told, scrolled, lines, acc, dstop>>
    BY <1>3 DEF Mac!MouseMove
  <2> QED BY <1>2, <2>1, <2>2 DEF MotionTyped
<1>4. ASSUME NEW d \in Pixels, Mac!Trackpad(d) PROVE MotionTyped' /\ Summed'
  <2>1. Mac!Ev("pad", d) \in MacEvent /\ Value(Mac!Ev("pad", d), "move") = 0
        /\ Value(Mac!Ev("pad", d), "pad") = d
    BY <1>0 DEF Mac!Ev, MacEvent, Value
  <2>2. /\ Mac!Push(Mac!Ev("pad", d)) /\ drain' = drain /\ scrolled' = scrolled + d
        /\ UNCHANGED <<told, moved, lines, acc, dstop>>
    BY <1>4 DEF Mac!Trackpad
  <2> QED BY <1>2, <2>1, <2>2 DEF MotionTyped
<1>5. CASE (\E d \in {-1, 1} : Mac!Detent(d)) \/ Mac!DetentGoesOn \/ Mac!Key
  <2>1. PICK e \in MacEvent : Mac!Push(e) /\ e.typ \in {"wheel", "key"}
    <3>1. \A d \in {-1, 1} : Mac!Ev("wheel", d) \in MacEvent /\ Mac!Ev("wheel", d).typ = "wheel"
      BY DEF Mac!Ev, MacEvent
    <3>2. Mac!Ev("key", 0) \in MacEvent /\ Mac!Ev("key", 0).typ = "key"
      BY DEF Mac!Ev, MacEvent
    <3>3. turning # 0 => turning \in {-1, 1}
      BY DEF MacTyped, MacValues
    <3> QED BY <1>5, <3>1, <3>2, <3>3 DEF Mac!Detent, Mac!DetentGoesOn, Mac!Key
  <2>2. Value(e, "move") = 0 /\ Value(e, "pad") = 0
    BY <2>1 DEF Value
  <2>3. drain' = drain /\ UNCHANGED <<told, moved, scrolled, lines, acc, dstop>>
    BY <1>5 DEF Mac!Detent, Mac!DetentGoesOn, Mac!Key
  <2> QED BY <1>2, <2>1, <2>2, <2>3 DEF MotionTyped
<1>6. CASE Mac!DetentEnds
  <2>1. UNCHANGED <<told, moved, scrolled, lines, acc, dstop, drain, ring, dropped>>
    BY <1>6 DEF Mac!DetentEnds
  <2> QED BY <2>1 DEF MotionTyped, Summed, Mac!Queued
<1> QED BY <1>3, <1>4, <1>5, <1>6 DEF Mac!TapEvent

(* The steps that handle an event. *)
LEMMA BatchSums ==
    ASSUME MacTyped, MotionTyped, Summed, Mac!SumMove \/ Mac!Wheel \/ Mac!Scroll \/ Mac!PassKey
    PROVE  MotionTyped' /\ Summed'
<1> USE DEF Mac!static, Mac!scroll, Mac!life, Mac!movement, Mac!wheel, Mac!pad, Mac!rest
<1> DEFINE px == lines * LinePx
           ev == Mac!Event
<1>0. /\ LinePx \in Nat \ {0} /\ Mac!Queued("move") \in Int /\ Mac!Queued("pad") \in Int /\ drain.sum \in Int
      /\ drain.at = "batch" /\ drain.batch # <<>> /\ ring' = ring
      /\ UNCHANGED <<moved, told, scrolled, dstop, dropped>>
  BY QueuedIsInt, MacAssumption
     DEF Mac!DarwinAssumption, MacTyped, MacQueues, Mac!SumMove, Mac!Wheel, Mac!Scroll, Mac!PassKey
<1>1. /\ moved \in Int /\ told \in Int /\ acc \in Int /\ scrolled \in Int /\ lines \in Int
  BY DEF MotionTyped
<1>2. px \in Int
  BY <1>0, <1>1
<1>3. ev \in MacEvent /\ ev.d \in Int
  <2>1. drain.batch \in Seq(MacEvent)
    BY DEF MacTyped, MacQueues
  <2>2. Head(drain.batch) \in MacEvent
    BY <1>0, <2>1
  <2> QED BY <2>2 DEF Mac!Event, MacEvent
<1>4. ASSUME drain'.batch = Tail(drain.batch)
      PROVE  Mac!Queued("move")' = Mac!Queued("move") - Value(ev, "move") /\ Mac!Queued("pad")' = Mac!Queued("pad") - Value(ev, "pad")
  BY <1>0, <1>4, PopSums
<1>5. DOMAIN drain = {"at", "batch", "sum", "moves"}
  BY DEF MacTyped, MacQueues
<1>6. CASE Mac!SumMove
  <2>1. drain' = [Mac!Pop EXCEPT !.sum = @ + ev.d, !.moves = TRUE] /\ UNCHANGED <<lines, acc>>
    BY <1>6 DEF Mac!SumMove
  <2>2. drain'.batch = Tail(drain.batch) /\ drain'.sum = drain.sum + ev.d /\ drain'.at = "batch"
    BY <1>0, <1>5, <2>1 DEF Mac!Pop
  <2>3. Value(ev, "move") = ev.d /\ Value(ev, "pad") = 0
    BY <1>6 DEF Mac!SumMove, Value
  <2>4. Mac!Queued("move")' = Mac!Queued("move") - ev.d /\ Mac!Queued("pad")' = Mac!Queued("pad")
    BY <1>0, <1>4, <2>2, <2>3
  <2>5. MotionTyped'
    BY <1>0, <1>1, <2>1, <2>2 DEF MotionTyped
  <2>6. Summed'
    <3> SUFFICES ASSUME ~dropped
                 PROVE  /\ moved' = told' + drain'.sum + Mac!Queued("move")'
                        /\ scrolled' = lines' * LinePx + acc' + Mac!Queued("pad")'
      BY <1>0, Zenon DEF Summed
    <3>1. moved = told + drain.sum + Mac!Queued("move") /\ scrolled = px + acc + Mac!Queued("pad")
      BY DEF Summed
    <3>2. lines' * LinePx = px
      BY <2>1
    <3>3. \A a, b, c, e \in Int : a = b + drain.sum + c => a = b + (drain.sum + e) + (c - e)
      BY <1>0
    <3>4. moved = told + (drain.sum + ev.d) + (Mac!Queued("move") - ev.d)
      <4> HIDE DEF ev
      <4> QED BY <1>0, <1>1, <1>3, <3>1, <3>3
    <3>5. moved' = moved /\ told' = told /\ scrolled' = scrolled /\ acc' = acc
      BY <1>0, <2>1
    <3>6. moved' = told' + drain'.sum + Mac!Queued("move")'
      BY <2>2, <2>4, <3>4, <3>5, Zenon
    <3>7. scrolled' = lines' * LinePx + acc' + Mac!Queued("pad")'
      BY <2>4, <3>1, <3>2, <3>5, Zenon
    <3> QED BY <3>6, <3>7
  <2> QED BY <2>5, <2>6
<1>7. CASE Mac!Wheel \/ Mac!PassKey
  <2>1. drain' = Mac!Pop /\ UNCHANGED <<lines, acc>>
    BY <1>7 DEF Mac!Wheel, Mac!PassKey
  <2>2. drain'.batch = Tail(drain.batch) /\ drain'.sum = drain.sum /\ drain'.at = "batch"
    BY <1>0, <1>5, <2>1 DEF Mac!Pop
  <2>3. Value(ev, "move") = 0 /\ Value(ev, "pad") = 0
    BY <1>7 DEF Mac!Wheel, Mac!PassKey, Value
  <2>4. Mac!Queued("move")' = Mac!Queued("move") /\ Mac!Queued("pad")' = Mac!Queued("pad")
    BY <1>0, <1>4, <2>2, <2>3
  <2>5. MotionTyped'
    BY <1>0, <1>1, <2>1, <2>2 DEF MotionTyped
  <2>6. Summed'
    BY <1>0, <2>1, <2>2, <2>4 DEF Summed
  <2> QED BY <2>5, <2>6
<1>8. CASE Mac!Scroll
  <2>1. drain' = Mac!Pop
    BY <1>8 DEF Mac!Scroll
  <2>2. drain'.batch = Tail(drain.batch) /\ drain'.sum = drain.sum /\ drain'.at = "batch"
    BY <1>0, <1>5, <2>1 DEF Mac!Pop
  <2>3. Value(ev, "move") = 0 /\ Value(ev, "pad") = ev.d
    BY <1>8 DEF Mac!Scroll, Value
  <2>4. Mac!Queued("move")' = Mac!Queued("move") /\ Mac!Queued("pad")' = Mac!Queued("pad") - ev.d
    BY <1>0, <1>4, <2>2, <2>3
  <2>5. PICK now \in {0, Mac!WholeLines(acc + ev.d)} :
          lines' = lines + now /\ acc' = acc + ev.d - now * LinePx
    BY <1>8 DEF Mac!Scroll
  <2>6. now \in Int
    <3>1. \A n \in Int : n \div LinePx \in Int
      BY <1>0
    <3> DEFINE n == acc + ev.d
    <3>2. n \in Int /\ -n \in Int
      BY <1>1, <1>3
    <3> HIDE DEF n
    <3>3. Mac!WholeLines(n) \in Int
      BY <3>1, <3>2 DEF Mac!WholeLines
    <3> QED BY <2>5, <3>3 DEF n
  <2> DEFINE out == now * LinePx
  <2>7. out \in Int /\ lines' * LinePx = px + out /\ acc' = acc + ev.d - out
    <3>1. (lines + now) * LinePx = lines * LinePx + now * LinePx
      BY <1>0, <1>1, <2>6
    <3> QED BY <1>0, <2>5, <2>6, <3>1
  <2>8. MotionTyped'
    <3>1. lines' \in Int /\ acc' \in Int
      <4> HIDE DEF out, ev
      <4> QED BY <1>1, <1>3, <2>5, <2>6, <2>7
    <3> QED BY <1>0, <1>1, <2>2, <3>1 DEF MotionTyped
  <2>9. Summed'
    <3> SUFFICES ASSUME ~dropped
                 PROVE  /\ moved' = told' + drain'.sum + Mac!Queued("move")'
                        /\ scrolled' = lines' * LinePx + acc' + Mac!Queued("pad")'
      BY <1>0, Zenon DEF Summed
    <3>1. moved = told + drain.sum + Mac!Queued("move") /\ scrolled = px + acc + Mac!Queued("pad")
      BY DEF Summed
    <3>2. \A a, b, c, e, o, x \in Int : a = b + c + e => a = (b + o) + (c + x - o) + (e - x)
      OBVIOUS
    <3>3. scrolled = (px + out) + (acc + ev.d - out) + (Mac!Queued("pad") - ev.d)
      <4>1. out \in Int
        BY <2>7
      <4> HIDE DEF px, ev, out
      <4>2. scrolled = px + acc + Mac!Queued("pad")
        BY <3>1
      <4>3. px \in Int /\ acc \in Int /\ ev.d \in Int /\ scrolled \in Int /\ Mac!Queued("pad") \in Int
        BY <1>0, <1>1, <1>2, <1>3
      <4> QED BY <4>1, <4>2, <4>3, <3>2
    <3>4. moved' = moved /\ told' = told /\ scrolled' = scrolled
      BY <1>0
    <3>5. moved' = told' + drain'.sum + Mac!Queued("move")'
      BY <2>2, <2>4, <3>1, <3>4, Zenon
    <3>6. scrolled' = lines' * LinePx + acc' + Mac!Queued("pad")'
      BY <2>4, <2>7, <3>3, <3>4, Zenon
    <3> QED BY <3>5, <3>6
  <2> QED BY <2>8, <2>9
<1> QED BY <1>6, <1>7, <1>8


(* The steps that only look, or only move the goroutines. *)
LEMMA OthersSums ==
    ASSUME MacTyped, MotionTyped, Summed,
           \/ Mac!CheckStop \/ Mac!NothingCame \/ Mac!Suppress \/ Mac!WindowCloses \/ Mac!Release
           \/ Mac!RunLoop \/ Mac!Stop \/ Mac!StopRunLoop \/ Mac!Waited \/ UNCHANGED Mac!vars
    PROVE  MotionTyped' /\ Summed'
<1> USE DEF Mac!static, Mac!scroll, Mac!life, Mac!movement, Mac!wheel, Mac!pad, Mac!rest
<1>1. /\ UNCHANGED <<moved, told, scrolled, lines, acc, dropped, ring>>
  BY Zenon DEF Mac!CheckStop, Mac!NothingCame, Mac!Suppress, Mac!WindowCloses, Mac!Release, Mac!RunLoop,
         Mac!Stop, Mac!StopRunLoop, Mac!Waited, Mac!vars
<1>2. DOMAIN drain = {"at", "batch", "sum", "moves"}
  BY DEF MacTyped, MacQueues
<1>3. drain'.batch = drain.batch /\ drain'.sum = drain.sum
  <2>1. CASE drain' = drain
    BY <2>1
  <2>2. ASSUME NEW where, drain' = [drain EXCEPT !.at = where]
        PROVE  drain'.batch = drain.batch /\ drain'.sum = drain.sum
    BY <1>2, <2>2
  <2>3. drain' = drain \/ \E where : drain' = [drain EXCEPT !.at = where]
    BY Zenon DEF Mac!CheckStop, Mac!NothingCame, Mac!Suppress, Mac!WindowCloses, Mac!Release, Mac!RunLoop,
         Mac!Stop, Mac!StopRunLoop, Mac!Waited, Mac!vars, Mac!DrainAt
  <2> QED BY <2>1, <2>2, <2>3, Zenon
<1>4. /\ drain'.at # "batch" => drain.sum = 0
      /\ dstop' = "stopped" => drain'.at = "done"
  <2>1. CASE drain' = drain
    <3>1. dstop' = dstop \/ dstop' \in {"closing", "waiting"} \/ drain.at = "done"
      <4>1. CASE Mac!CheckStop \/ Mac!NothingCame \/ Mac!Suppress \/ Mac!WindowCloses \/ Mac!Release
                 \/ Mac!RunLoop \/ UNCHANGED Mac!vars
        BY <4>1, Zenon DEF Mac!CheckStop, Mac!NothingCame, Mac!Suppress, Mac!WindowCloses, Mac!Release,
             Mac!RunLoop, Mac!vars
      <4>2. CASE Mac!Stop \/ Mac!StopRunLoop \/ Mac!Waited
        BY <4>2 DEF Mac!Stop, Mac!StopRunLoop, Mac!Waited
      <4> QED BY <4>1, <4>2
    <3> QED BY <2>1, <3>1 DEF MotionTyped
  <2>2. ASSUME NEW here \in {"top", "wait", "engage"}, NEW there, drain.at = here,
               drain' = [drain EXCEPT !.at = there], dstop' = dstop
        PROVE  drain.sum = 0 /\ (dstop' = "stopped" => drain'.at = "done")
    BY <2>2 DEF MotionTyped
  <2>3. CASE Mac!CheckStop
    BY <2>2, <2>3 DEF Mac!CheckStop, Mac!DrainAt
  <2>4. CASE Mac!NothingCame
    BY <2>2, <2>4 DEF Mac!NothingCame, Mac!DrainAt
  <2>5. CASE Mac!Suppress
    BY <2>2, <2>5 DEF Mac!Suppress, Mac!DrainAt
  <2>6. CASE ~(Mac!CheckStop \/ Mac!NothingCame \/ Mac!Suppress)
    <3>1. drain' = drain
      BY <2>6, Zenon DEF Mac!WindowCloses, Mac!Release, Mac!RunLoop, Mac!Stop, Mac!StopRunLoop, Mac!Waited,
           Mac!vars
    <3> QED BY <2>1, <3>1
  <2> QED BY <2>3, <2>4, <2>5, <2>6
<1>5. MotionTyped'
  BY <1>1, <1>3, <1>4 DEF MotionTyped
<1>6. Summed'
  BY <1>1, <1>3 DEF Summed, Mac!Queued
<1> QED BY <1>5, <1>6

(* The ring becomes the batch, which was empty. *)
LEMMA TakeSums ==
    ASSUME MacTyped, MotionTyped, Summed, Mac!DrainBatch
    PROVE  MotionTyped' /\ Summed'
<1> USE DEF Mac!static, Mac!scroll, Mac!life, Mac!movement, Mac!wheel, Mac!pad, Mac!rest
<1>1. /\ UNCHANGED <<moved, told, scrolled, lines, acc, dropped, dstop>>
      /\ ring' = <<>> /\ drain'.batch = ring /\ drain'.sum = 0 /\ drain'.at = "batch"
      /\ drain.at = "wait"
  BY DEF Mac!DrainBatch
<1>2. drain.batch = <<>> /\ drain.sum = 0 /\ dstop # "stopped"
  BY <1>1 DEF MacTyped, MacQueues, MotionTyped
<1>3. ASSUME NEW typ PROVE Mac!Queued(typ)' = Mac!Queued(typ)
  <2>1. Mac!Total(ring, typ) \in Int
    BY TotalIsInt DEF MacTyped, MacQueues
  <2>2. Mac!Queued(typ)' = Mac!Total(<<>>, typ) + Mac!Total(ring, typ)
    BY <1>1 DEF Mac!Queued
  <2>3. Mac!Queued(typ) = Mac!Total(ring, typ) + Mac!Total(<<>>, typ)
    BY <1>2 DEF Mac!Queued
  <2>4. Mac!Total(<<>>, typ) = 0
    BY TotalEmpty
  <2> QED BY <2>1, <2>2, <2>3, <2>4
<1>4. MotionTyped'
  BY <1>1, <1>2 DEF MotionTyped
<1>5. Summed'
  BY <1>1, <1>2, <1>3 DEF Summed
<1> QED BY <1>4, <1>5

(* The sum is told. *)
LEMMA OnMoveSums ==
    ASSUME MacTyped, MotionTyped, Summed, Mac!OnMove
    PROVE  MotionTyped' /\ Summed'
<1> USE DEF Mac!static, Mac!scroll, Mac!life, Mac!movement, Mac!wheel, Mac!pad, Mac!rest
<1>1. /\ UNCHANGED <<moved, scrolled, lines, acc, dropped, dstop, ring>>
      /\ told' = told + drain.sum /\ drain.batch = <<>> /\ drain.at = "batch"
  BY DEF Mac!OnMove
<1>2. drain'.batch = <<>> /\ drain'.sum = 0
  <2>1. drain' = Mac!NoBatch \/ drain' = [Mac!NoBatch EXCEPT !.at = "engage"]
    BY Zenon DEF Mac!OnMove
  <2> QED BY <2>1 DEF Mac!NoBatch
<1>3. drain.sum \in Int /\ told \in Int /\ moved \in Int
      /\ Mac!Queued("move") \in Int
  BY QueuedIsInt DEF MacTyped, MacQueues, MotionTyped
<1>4. dstop # "stopped"
  BY <1>1 DEF MotionTyped
<1>5. MotionTyped'
  BY <1>1, <1>2, <1>3, <1>4 DEF MotionTyped
<1>6. ASSUME NEW typ PROVE Mac!Queued(typ)' = Mac!Queued(typ)
  BY <1>1, <1>2 DEF Mac!Queued
<1>7. Summed'
  <2>1. told + drain.sum + Mac!Queued("move") = (told + drain.sum) + 0 + Mac!Queued("move")
    BY <1>3
  <2> QED BY <1>1, <1>2, <1>6, <2>1 DEF Summed
<1> QED BY <1>5, <1>7

(* The next driver forgets the pixels that were not a line; the last has   *)
(* handled all that it took.                                               *)
LEMMA StartSums ==
    ASSUME MacTyped, MotionTyped, Summed, Mac!Start
    PROVE  MotionTyped' /\ Summed'
<1> USE DEF Mac!static, Mac!scroll, Mac!life, Mac!movement, Mac!wheel, Mac!pad, Mac!rest
<1>1. /\ UNCHANGED <<moved, told, lines, dropped, ring>>
      /\ scrolled' = scrolled - acc /\ acc' = 0 /\ dstop = "stopped" /\ dstop' = "no"
      /\ drain' = Mac!NoBatch
  BY DEF Mac!Start
<1>2. drain'.batch = <<>> /\ drain'.sum = 0
  BY <1>1 DEF Mac!NoBatch
<1>3. drain.batch = <<>> /\ drain.sum = 0
  BY <1>1 DEF MacTyped, MacQueues, MotionTyped
<1>4. ASSUME NEW typ PROVE Mac!Queued(typ)' = Mac!Queued(typ)
  BY <1>1, <1>2, <1>3 DEF Mac!Queued
<1>5. /\ acc \in Int /\ scrolled \in Int /\ lines \in Int /\ LinePx \in Int
      /\ Mac!Queued("pad") \in Int
  BY QueuedIsInt, MacAssumption DEF Mac!DarwinAssumption, MotionTyped
<1>6. MotionTyped'
  BY <1>1, <1>2, <1>5 DEF MotionTyped
<1>7. Summed'
  <2> DEFINE px == lines * LinePx
  <2>1. px \in Int
    BY <1>5
  <2> SUFFICES ASSUME ~dropped
               PROVE  /\ moved' = told' + drain'.sum + Mac!Queued("move")'
                      /\ scrolled' = lines' * LinePx + acc' + Mac!Queued("pad")'
    BY <1>1, Zenon DEF Summed
  <2>2. moved = told + drain.sum + Mac!Queued("move") /\ scrolled = px + acc + Mac!Queued("pad")
    BY DEF Summed
  <2>3. moved' = told' + drain'.sum + Mac!Queued("move")'
    BY <1>1, <1>2, <1>3, <1>4, <2>2
  <2>4. scrolled - acc = px + 0 + Mac!Queued("pad")
    <3> HIDE DEF px
    <3> QED BY <1>5, <2>1, <2>2
  <2>5. scrolled' = lines' * LinePx + acc' + Mac!Queued("pad")'
    BY <1>1, <1>4, <2>4
  <2> QED BY <2>3, <2>5
<1> QED BY <1>6, <1>7

LEMMA SumsStep ==
    MacTyped /\ MotionTyped /\ Summed /\ [Mac!Next]_(Mac!vars) => MotionTyped' /\ Summed'
BY TapSums, BatchSums, OthersSums, TakeSums, OnMoveSums, StartSums DEF Mac!Next, Mac!Drain

(* While no event finds the ring full, OnMove and OnScroll are told of all *)
(* movement and all pixels: over the batches of drain, the rounding to     *)
(* lines, the interval between two reports, and drivers that are stopped   *)
(* and followed by others.                                                 *)
THEOREM MotionIsSummed == CaptureSpec => []MotionSummed
<1> DEFINE Inv == CaptureInv /\ MotionTyped /\ Summed
<1>1. CaptureInit => Inv
  <2> SUFFICES ASSUME CaptureInit PROVE MotionTyped /\ Summed
    BY CaptureInvInit
  <2>1. /\ ring = <<>> /\ drain.batch = <<>> /\ drain.sum = 0 /\ dstop = "no"
        /\ moved = 0 /\ told = 0 /\ scrolled = 0 /\ lines = 0 /\ acc = 0
    BY DEF CaptureInit, Mac!Init, Mac!NoBatch
  <2>2. \A typ : Mac!Queued(typ) = 0
    BY <2>1, TotalEmpty DEF Mac!Queued
  <2>3. LinePx \in Int
    BY MacAssumption DEF Mac!DarwinAssumption
  <2> QED BY <2>1, <2>2, <2>3 DEF MotionTyped, Summed
<1>2. Inv /\ [CaptureNext]_all => Inv'
  BY CaptureSteps, CaptureInvStep, SumsStep DEF CaptureInv
<1>3. Inv => MotionSummed
  BY DEF Summed, MotionSummed, Mac!MotionSummed
<1> QED BY <1>1, <1>2, <1>3, PTL DEF CaptureSpec
=============================================================================
