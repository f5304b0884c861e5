------------------------------- MODULE Layout -------------------------------
(***************************************************************************)
(* The virtual desktop of core/layout: screens are rectangles in one       *)
(* shared coordinate space, a layout is a sequence of screens, and         *)
(* MovePointer decides where a pointer ends up.  The module is stateless:  *)
(* every operator is a pure function of its arguments.                     *)
(*                                                                         *)
(* Coordinates are Go int32 values.  MaxInt is the largest one (2^31 - 1   *)
(* in the program, a small number in the models), and every sum the code   *)
(* computes in int32 goes through Add or Sub, which wrap the way Go does.  *)
(***************************************************************************)
EXTENDS Integers, Sequences

CONSTANT MaxInt

ASSUME MaxIntAssumption == MaxInt \in Nat \ {0}

MinInt == -MaxInt - 1
Int32  == MinInt .. MaxInt

(* Two's complement wrap-around of a sum or difference of two int32s.  One *)
(* correction is enough: the exact result is off by at most one period.    *)
Wrap(i) == IF i > MaxInt THEN i - 2 * (MaxInt + 1)
           ELSE IF i < MinInt THEN i + 2 * (MaxInt + 1)
           ELSE i

Add(a, b) == Wrap(a + b)
Sub(a, b) == Wrap(a - b)

(* A screen without its display name and its primary flag, which the       *)
(* geometry never reads.                                                   *)
IsScreen(s) ==
    /\ DOMAIN s = {"id", "device", "x", "y", "w", "h"}
    /\ s.x \in Int32 /\ s.y \in Int32 /\ s.w \in Int32 /\ s.h \in Int32

(* The Go nil pointer: a screen that contains no point. *)
NoScreen == [id |-> "nil", device |-> "nil", x |-> 0, y |-> 0, w |-> 0, h |-> 0]

-----------------------------------------------------------------------------
Contains(s, x, y) ==
    /\ x >= s.x /\ x < Add(s.x, s.w)
    /\ y >= s.y /\ y < Add(s.y, s.h)

ToLocal(s, x, y) == <<Sub(x, s.x), Sub(y, s.y)>>

(* The screens of a layout that pass a test are tried in list order; the   *)
(* first one wins.                                                         *)
FirstOf(l, I) ==
    IF I = {} THEN NoScreen
    ELSE l[CHOOSE i \in I : \A j \in I : i <= j]

Hits(l, x, y) == {i \in DOMAIN l : Contains(l[i], x, y)}

ScreenAt(l, x, y) == FirstOf(l, Hits(l, x, y))

SpansOverlap(a0, a1, b0, b1) == a0 <= b1 /\ b0 <= a1

SpanX(s, d) == SpansOverlap(s.x, Sub(Add(s.x, s.w), 1), d.x, Sub(Add(d.x, d.w), 1))
SpanY(s, d) == SpansOverlap(s.y, Sub(Add(s.y, s.h), 1), d.y, Sub(Add(d.y, d.h), 1))

Adjacent(s, d) ==
    \/ Add(d.x, d.w) = s.x /\ SpanY(s, d)
    \/ Add(s.x, s.w) = d.x /\ SpanY(s, d)
    \/ Add(d.y, d.h) = s.y /\ SpanX(s, d)
    \/ Add(s.y, s.h) = d.y /\ SpanX(s, d)

(* Mutant: takes the first neighbour without looking at the target. *)
AcrossEdge_AnyNeighbour(l, s, nx, ny) ==
    FirstOf(l, {i \in DOMAIN l : l[i].id # s.id /\ Adjacent(s, l[i])})

(* The screen a pointer leaving s for (nx, ny) lands on.  A neighbour of s *)
(* is preferred, any screen under the target is the fallback.  The edge    *)
(* that exitEdge computes is handed to acrossEdge, which never reads it.   *)
AcrossEdge(l, s, nx, ny) ==
    LET near == {i \in Hits(l, nx, ny) : l[i].id # s.id /\ Adjacent(s, l[i])}
    IN  IF near # {} THEN FirstOf(l, near) ELSE ScreenAt(l, nx, ny)

(* Mutants: the far edge is off by one; the far side clamps to the near edge. *)
ClampSpan_OffByOne(lo, len, v) ==
    LET a == IF v < lo THEN lo ELSE v
    IN  IF a >= Add(lo, len) THEN Add(lo, len) ELSE a

ClampSpan_WrongEdge(lo, len, v) ==
    IF v < lo \/ v >= Add(lo, len) THEN lo ELSE v

(* One coordinate of clampTo: below the screen's first pixel, then beyond  *)
(* its last one, in the order the code tests them.                         *)
ClampSpan(lo, len, v) ==
    LET a == IF v < lo THEN lo ELSE v
    IN  IF a >= Add(lo, len) THEN Sub(Add(lo, len), 1) ELSE a

ClampTo(s, x, y) == <<ClampSpan(s.x, s.w, x), ClampSpan(s.y, s.h, y)>>

(* Mutant: a pointer off the desktop never finds a screen again.           *)
MovePointer_StaysLost(l, x, y, nx, ny) ==
    [screen |-> IF ScreenAt(l, x, y) = NoScreen THEN NoScreen ELSE ScreenAt(l, nx, ny),
     x |-> nx, y |-> ny, crossed |-> FALSE]

(* The outcome of moving the pointer from (x, y) to (nx, ny). *)
MovePointer(l, x, y, nx, ny) ==
    LET cur == ScreenAt(l, x, y)
        dst == AcrossEdge(l, cur, nx, ny)
        cl  == ClampTo(cur, nx, ny)
    IN  IF cur = NoScreen
          THEN [screen |-> ScreenAt(l, nx, ny), x |-> nx, y |-> ny, crossed |-> FALSE]
        ELSE IF Contains(cur, nx, ny)
          THEN [screen |-> cur, x |-> nx, y |-> ny, crossed |-> FALSE]
        ELSE IF dst # NoScreen
          THEN [screen |-> dst, x |-> nx, y |-> ny, crossed |-> TRUE]
        ELSE [screen |-> cur, x |-> cl[1], y |-> cl[2], crossed |-> FALSE]

-----------------------------------------------------------------------------
(* The layouts the geometry is defined for.  No screen's far edge          *)
(* overflows; adapter.rebuildLayout adds offsets to what devices report    *)
(* without checking it, so this is an assumption about the inputs.         *)
NoOverflow(s) == s.x + s.w \in Int32 /\ s.y + s.h \in Int32

IsLayout(l) ==
    /\ l \in Seq({l[i] : i \in DOMAIN l})
    /\ \A i \in DOMAIN l : IsScreen(l[i]) /\ NoOverflow(l[i])

(* No two screens share a point: what the arrangement editor aims for and  *)
(* SetPlacement does not enforce.                                          *)
Disjoint(l) ==
    \A i, j \in DOMAIN l : i # j =>
        \/ l[i].x + l[i].w <= l[j].x \/ l[j].x + l[j].w <= l[i].x
        \/ l[i].y + l[i].h <= l[j].y \/ l[j].y + l[j].h <= l[i].y
=============================================================================
