------------------------------- MODULE Router -------------------------------
(***************************************************************************)
(* The shared virtual cursor of core/session/router.go: the authoritative  *)
(* layout, the cursor position and the screen the router believes is under *)
(* the cursor.  Whoever owns that screen receives the keyboard and mouse.  *)
(*                                                                         *)
(* Every method of Router runs under Router.mu, so each is one action.     *)
(* The readers (Layout, Position, Active, OnLocal, OnPeer) are operators   *)
(* over the state; the callers that combine them are in SharedInput.       *)
(***************************************************************************)
EXTENDS Layout

CONSTANTS
    Layouts,    \* the arrangements SetLayout may install
    Local,      \* the device this router runs on
    Coords,     \* coordinates callers pass to MoveTo and SetPosition
    Deltas      \* components of a raw mouse delta

ASSUME LayoutsAssumption == \A l \in Layouts : IsLayout(l)
ASSUME InputsAssumption  == Coords \subseteq Int32 /\ Deltas \subseteq Int32
ASSUME OriginAssumption  == 0 \in Int32

VARIABLES layout, vx, vy, cur

vars == <<layout, vx, vy, cur>>

Screens(l) == {l[i] : i \in DOMAIN l}

-----------------------------------------------------------------------------
(* NewRouter: the cursor starts at the origin of the virtual desktop. *)
Init ==
    /\ layout \in Layouts
    /\ vx = 0 /\ vy = 0
    /\ cur = ScreenAt(layout, vx, vy)

(* Mutant: the screen under the cursor is not looked up again. *)
SetLayout_KeepsScreen(l) == layout' = l /\ UNCHANGED <<vx, vy, cur>>

(* A new arrangement is installed; the position is kept, the screen under  *)
(* it is looked up again and may be none.                                  *)
SetLayout(l) ==
    /\ layout' = l
    /\ cur' = ScreenAt(l, vx, vy)
    /\ UNCHANGED <<vx, vy>>

(* Mutant: a move starts from the active screen, not from a lookup. *)
Advance_FromActive(nx, ny) ==
    \E res \in {IF cur # NoScreen /\ Contains(cur, nx, ny)
                  THEN [screen |-> cur, x |-> nx, y |-> ny]
                  ELSE MovePointer(layout, vx, vy, nx, ny)} :
        /\ vx' = res.x
        /\ vy' = res.y
        /\ cur' = res.screen
        /\ UNCHANGED layout

(* The body shared by the three move methods. *)
Advance(nx, ny) ==
    \E res \in {MovePointer(layout, vx, vy, nx, ny)} :
        /\ vx' = res.x
        /\ vy' = res.y
        /\ cur' = res.screen
        /\ UNCHANGED layout

(* s is a screen of the local machine, (lx, ly) a point in its pixels. *)
OnLocalMove(s, lx, ly) == Advance(Add(s.x, lx), Add(s.y, ly))

MoveByDelta(dx, dy) == Advance(Add(vx, dx), Add(vy, dy))

MoveTo(x, y) == Advance(x, y)

(* The cursor is teleported, on a screen or not. *)
SetPosition(x, y) ==
    /\ vx' = x
    /\ vy' = y
    /\ cur' = ScreenAt(layout, x, y)
    /\ UNCHANGED layout

OnLocal == cur # NoScreen /\ cur.device = Local
OnPeer  == cur # NoScreen /\ cur.device # Local

OwnScreens == {s \in Screens(layout) : s.device = Local}

Moving ==
    \/ \E s \in OwnScreens, lx, ly \in Coords : OnLocalMove(s, lx, ly)
    \/ \E dx, dy \in Deltas : MoveByDelta(dx, dy)
    \/ \E x, y \in Coords : MoveTo(x, y)

Next ==
    \/ \E l \in Layouts : SetLayout(l)
    \/ Moving
    \/ \E x, y \in Coords : SetPosition(x, y)

Spec == Init /\ [][Next]_vars

-----------------------------------------------------------------------------
(* Type invariant: the cursor is a pair of int32s, the active screen is a  *)
(* screen of the current layout or nil.                                    *)
TypeOK ==
    /\ layout \in Layouts
    /\ vx \in Int32
    /\ vy \in Int32
    /\ cur \in Screens(layout) \cup {NoScreen}

CursorOnActive == cur # NoScreen => Contains(cur, vx, vy)
NoBlindCursor  == cur = NoScreen => ScreenAt(layout, vx, vy) = NoScreen

(* Whatever sequence of moves, teleports and rearrangements came before    *)
(* (clamping included), the screen that Active reports is under the        *)
(* cursor, so input never goes to a device whose screen the cursor has     *)
(* left, and Active is nil, so that every event is dropped, only when no   *)
(* screen is under the cursor.                                             *)
CursorMatchesActive == CursorOnActive /\ NoBlindCursor

(* Where screens overlap, a move may enter another screen than the one a   *)
(* lookup names: a neighbour of the screen it leaves comes first.  The two *)
(* disagree until the next move only.  While the pointer stays on the same *)
(* screens, the first of them in the list is active, so input changes      *)
(* hands once and not to and fro; and input is taken from a screen that    *)
(* the pointer has not left only for one listed before it that overlaps    *)
(* it.                                                                     *)
OverlapSettles ==
    [][layout' = layout /\ cur # NoScreen =>
          /\ Hits(layout, vx', vy') = Hits(layout, vx, vy) => cur' = ScreenAt(layout, vx', vy')
          /\ cur' # cur /\ Contains(cur, vx', vy') =>
                \E i \in Hits(layout, vx, vy) \cup Hits(layout, vx', vy'), j \in DOMAIN layout :
                    i < j /\ layout[j] = cur]_vars

(* A move never loses a cursor that was on a screen: leaving the desktop   *)
(* clamps instead.  Only a rearrangement or a teleport can strand it.      *)
MoveKeepsCursor ==
    [][cur # NoScreen /\ cur' = NoScreen => ~Moving]_vars

Dist(a, b) == IF a < b THEN b - a ELSE a - b

(* From wherever the cursor may have got to, a move to a point of some     *)
(* screen reaches it exactly, and a move into a gap ends on the point of   *)
(* the screen being left that is nearest to it on both axes: the pointer   *)
(* slides along the border, it does not stop short or jump.                *)
MoveLandsNearest ==
    cur # NoScreen =>
      \A x, y \in Coords :
        LET res == MovePointer(layout, vx, vy, x, y)
            old == ScreenAt(layout, vx, vy)
        IN  IF ScreenAt(layout, x, y) # NoScreen
            THEN res.x = x /\ res.y = y
            ELSE /\ Contains(old, res.x, res.y)
                 /\ \A p \in old.x .. old.x + old.w - 1 : Dist(res.x, x) <= Dist(p, x)
                 /\ \A p \in old.y .. old.y + old.h - 1 : Dist(res.y, y) <= Dist(p, y)
=============================================================================
