---------------------------- MODULE RouterProofs ----------------------------
(***************************************************************************)
(* Theorems about Layout and Router for every set of arrangements, every   *)
(* coordinate width and every input.                                       *)
(***************************************************************************)
EXTENDS Router, WellFoundedInduction, TLAPS

(* In-range sums are not disturbed by the wrap-around. *)
LEMMA AddExact ==
    ASSUME NEW a \in Int, NEW b \in Int, a + b \in Int32
    PROVE  Add(a, b) = a + b
BY MaxIntAssumption DEF Add, Wrap, Int32, MinInt

(* Whatever is added or subtracted, the result is an int32 again. *)
LEMMA AddInt32 ==
    ASSUME NEW a \in Int32, NEW b \in Int32
    PROVE  Add(a, b) \in Int32
BY MaxIntAssumption DEF Add, Wrap, Int32, MinInt

(* The far edges of a screen of a legal layout are where they look.        *)
LEMMA FarEdges ==
    ASSUME NEW s, IsScreen(s), NoOverflow(s)
    PROVE  /\ s.x \in Int /\ s.y \in Int /\ s.w \in Int /\ s.h \in Int
           /\ Add(s.x, s.w) = s.x + s.w
           /\ Add(s.y, s.h) = s.y + s.h
<1>1. s.x \in Int /\ s.y \in Int /\ s.w \in Int /\ s.h \in Int
  BY MaxIntAssumption DEF IsScreen, Int32, MinInt
<1> QED BY <1>1, AddExact DEF NoOverflow

(* The first match of a non-empty set of matches exists, is a match, and   *)
(* comes before every other.                                               *)
LEMMA FirstOfMatch ==
    ASSUME NEW l, DOMAIN l \subseteq Nat,
           NEW I \in SUBSET DOMAIN l, I # {}
    PROVE  \E i \in I : FirstOf(l, I) = l[i] /\ \A j \in I : i <= j
<1> DEFINE less == OpToRel(<, Nat)
<1>1. I \subseteq Nat
  OBVIOUS
<1>2. PICK i \in I : \A j \in I : ~(<<j, i>> \in less)
  BY <1>1, NatLessThanWellFounded, WFMin
<1>3. \A j \in I : ~(j < i)
  BY <1>1, <1>2, Zenon DEF OpToRel, less
<1>4. \A j \in I : i <= j
  BY <1>1, <1>3
<1> DEFINE first == CHOOSE k \in I : \A j \in I : k <= j
<1>5. first \in I /\ \A j \in I : first <= j
  BY <1>4
<1>6. FirstOf(l, I) = l[first]
  BY DEF FirstOf
<1> HIDE DEF first
<1> QED BY <1>5, <1>6

(* A layout is a sequence, so its domain is a set of naturals.             *)
LEMMA LayoutDomain ==
    ASSUME NEW l, IsLayout(l)
    PROVE  DOMAIN l \subseteq Nat
<1>1. l \in Seq({l[i] : i \in DOMAIN l})
  BY DEF IsLayout
<1>2. DOMAIN l = 1 .. Len(l) /\ Len(l) \in Nat
  BY <1>1
<1> QED BY <1>2

(* ScreenAt finds a screen of the layout under the point, and finds none   *)
(* only where there is none.                                               *)
LEMMA ScreenAtFinds ==
    ASSUME NEW l, IsLayout(l), NEW x \in Int, NEW y \in Int
    PROVE  /\ ScreenAt(l, x, y) \in Screens(l) \cup {NoScreen}
           /\ Hits(l, x, y) # {} => /\ ScreenAt(l, x, y) \in Screens(l)
                                    /\ Contains(ScreenAt(l, x, y), x, y)
           /\ Hits(l, x, y) = {} => ScreenAt(l, x, y) = NoScreen
<1>1. CASE Hits(l, x, y) = {}
  BY <1>1 DEF ScreenAt, FirstOf
<1>2. CASE Hits(l, x, y) # {}
  <2>1. PICK i \in Hits(l, x, y) : ScreenAt(l, x, y) = l[i]
    BY <1>2, FirstOfMatch, LayoutDomain DEF ScreenAt, Hits
  <2> QED BY <1>2, <2>1 DEF Hits, Screens
<1> QED BY <1>1, <1>2

(* The nil screen contains no point. *)
LEMMA NoScreenEmpty ==
    ASSUME NEW x \in Int, NEW y \in Int
    PROVE  ~Contains(NoScreen, x, y)
<1>1. NoScreen.x = 0 /\ NoScreen.w = 0
  BY DEF NoScreen
<1>2. Add(NoScreen.x, NoScreen.w) = 0
  BY <1>1, MaxIntAssumption DEF Add, Wrap, MinInt
<1> QED BY <1>1, <1>2 DEF Contains

(* A non-nil answer of ScreenAt contains the point it was asked about.     *)
LEMMA ScreenAtContains ==
    ASSUME NEW l, IsLayout(l), NEW x \in Int, NEW y \in Int,
           ScreenAt(l, x, y) # NoScreen
    PROVE  /\ ScreenAt(l, x, y) \in Screens(l)
           /\ Contains(ScreenAt(l, x, y), x, y)
BY ScreenAtFinds

(* A screen of the layout under the point is enough for a non-nil answer.  *)
LEMMA ScreenAtNotNil ==
    ASSUME NEW l, IsLayout(l), NEW x \in Int, NEW y \in Int,
           NEW s \in Screens(l), Contains(s, x, y)
    PROVE  ScreenAt(l, x, y) # NoScreen
<1>1. Hits(l, x, y) # {}
  BY DEF Hits, Screens
<1>2. Contains(ScreenAt(l, x, y), x, y)
  BY <1>1, ScreenAtFinds
<1> QED BY <1>2, NoScreenEmpty

(* Crossing an edge lands on a screen under the target, or nowhere when    *)
(* there is none: preferring a neighbour changes which screen is chosen,   *)
(* never whether one is found.                                             *)
LEMMA AcrossEdgeFinds ==
    ASSUME NEW l, IsLayout(l), NEW s, NEW x \in Int, NEW y \in Int
    PROVE  /\ AcrossEdge(l, s, x, y) # NoScreen =>
                 /\ AcrossEdge(l, s, x, y) \in Screens(l)
                 /\ Contains(AcrossEdge(l, s, x, y), x, y)
           /\ AcrossEdge(l, s, x, y) = NoScreen => ScreenAt(l, x, y) = NoScreen
<1> DEFINE near == {i \in Hits(l, x, y) : l[i].id # s.id /\ Adjacent(s, l[i])}
<1>1. CASE near # {}
  <2>1. PICK i \in near : FirstOf(l, near) = l[i]
    BY <1>1, FirstOfMatch, LayoutDomain DEF Hits
  <2>2. AcrossEdge(l, s, x, y) = l[i]
    BY <1>1, <2>1 DEF AcrossEdge
  <2>3. l[i] \in Screens(l) /\ Contains(l[i], x, y)
    BY <2>1 DEF Hits, Screens
  <2>4. l[i] # NoScreen
    BY <2>3, NoScreenEmpty
  <2> QED BY <2>2, <2>3, <2>4
<1>2. CASE near = {}
  <2>1. AcrossEdge(l, s, x, y) = ScreenAt(l, x, y)
    BY <1>2 DEF AcrossEdge
  <2> QED BY <2>1, ScreenAtContains
<1> QED BY <1>1, <1>2

(* Clamping one coordinate of a non-empty span ends inside the span, and   *)
(* no point of the span is nearer to the target.                           *)
LEMMA ClampSpanNearest ==
    ASSUME NEW lo \in Int32, NEW len \in Int, len > 0, lo + len \in Int32,
           NEW v \in Int32
    PROVE  /\ ClampSpan(lo, len, v) \in lo .. lo + len - 1
           /\ \A p \in lo .. lo + len - 1 :
                 Dist(ClampSpan(lo, len, v), v) <= Dist(p, v)
<1>1. Add(lo, len) = lo + len /\ lo \in Int /\ v \in Int
  BY AddExact, MaxIntAssumption DEF Int32, MinInt
<1>2. Sub(lo + len, 1) = lo + len - 1
  BY <1>1, MaxIntAssumption DEF Sub, Wrap, Int32, MinInt
<1>3. ClampSpan(lo, len, v) = IF v < lo THEN lo
                              ELSE IF v >= lo + len THEN lo + len - 1 ELSE v
  BY <1>1, <1>2 DEF ClampSpan
<1> QED BY <1>1, <1>3 DEF Dist

(* What Contains says of a screen whose far edges do not overflow. *)
LEMMA ContainsExact ==
    ASSUME NEW s, IsScreen(s), NoOverflow(s), NEW x \in Int, NEW y \in Int
    PROVE  Contains(s, x, y) <=> /\ x \in s.x .. s.x + s.w - 1
                                 /\ y \in s.y .. s.y + s.h - 1
BY FarEdges DEF Contains

(* Clamping to a screen that has a point ends on that screen, as near to   *)
(* the target as it gets.                                                  *)
LEMMA ClampToNearest ==
    ASSUME NEW s, IsScreen(s), NoOverflow(s),
           NEW x \in Int, NEW y \in Int, Contains(s, x, y),
           NEW nx \in Int32, NEW ny \in Int32
    PROVE  LET c == ClampTo(s, nx, ny) IN
           /\ c[1] \in Int32 /\ c[2] \in Int32
           /\ Contains(s, c[1], c[2])
           /\ \A p \in s.x .. s.x + s.w - 1 : Dist(c[1], nx) <= Dist(p, nx)
           /\ \A p \in s.y .. s.y + s.h - 1 : Dist(c[2], ny) <= Dist(p, ny)
<1> DEFINE cx == ClampSpan(s.x, s.w, nx)
           cy == ClampSpan(s.y, s.h, ny)
<1>1. /\ s.x \in Int32 /\ s.y \in Int32 /\ s.w \in Int /\ s.h \in Int
      /\ s.x + s.w \in Int32 /\ s.y + s.h \in Int32
  BY FarEdges DEF IsScreen, NoOverflow
<1>2. s.w > 0 /\ s.h > 0
  BY <1>1, ContainsExact DEF Int32, MinInt
<1>3. /\ cx \in s.x .. s.x + s.w - 1
      /\ \A p \in s.x .. s.x + s.w - 1 : Dist(cx, nx) <= Dist(p, nx)
  BY <1>1, <1>2, ClampSpanNearest
<1>4. /\ cy \in s.y .. s.y + s.h - 1
      /\ \A p \in s.y .. s.y + s.h - 1 : Dist(cy, ny) <= Dist(p, ny)
  BY <1>1, <1>2, ClampSpanNearest
<1>5. cx \in Int32 /\ cy \in Int32
  BY <1>1, <1>3, <1>4, MaxIntAssumption DEF Int32, MinInt
<1>6. Contains(s, cx, cy)
  BY <1>3, <1>4, <1>5, ContainsExact, MaxIntAssumption DEF Int32, MinInt
<1>7. ClampTo(s, nx, ny) = <<cx, cy>>
  BY DEF ClampTo
<1> QED BY <1>3, <1>4, <1>5, <1>6, <1>7

(* The screens of a legal layout are legal. *)
LEMMA ScreensLegal ==
    ASSUME NEW l, IsLayout(l), NEW s \in Screens(l)
    PROVE  IsScreen(s) /\ NoOverflow(s)
BY DEF IsLayout, Screens

(* What a move from the screen old towards (nx, ny) may return. *)
MoveEnds(l, old, res, nx, ny) ==
    /\ res.x \in Int32 /\ res.y \in Int32
    /\ res.screen \in Screens(l) \cup {NoScreen}
    /\ res.screen # NoScreen => Contains(res.screen, res.x, res.y)
    /\ res.screen = NoScreen => ScreenAt(l, res.x, res.y) = NoScreen
    /\ old # NoScreen => res.screen # NoScreen
    /\ old # NoScreen =>
          IF ScreenAt(l, nx, ny) # NoScreen
          THEN res.x = nx /\ res.y = ny
          ELSE /\ Contains(old, res.x, res.y)
               /\ \A p \in old.x .. old.x + old.w - 1 : Dist(res.x, nx) <= Dist(p, nx)
               /\ \A p \in old.y .. old.y + old.h - 1 : Dist(res.y, ny) <= Dist(p, ny)

(* Where a move can end, from any position and to any target. *)
LEMMA MovePointerEnds ==
    ASSUME NEW l, IsLayout(l),
           NEW x \in Int32, NEW y \in Int32, NEW nx \in Int32, NEW ny \in Int32
    PROVE  MoveEnds(l, ScreenAt(l, x, y), MovePointer(l, x, y, nx, ny), nx, ny)
<1> DEFINE res == MovePointer(l, x, y, nx, ny)
           old == ScreenAt(l, x, y)
           dst == AcrossEdge(l, old, nx, ny)
           cl  == ClampTo(old, nx, ny)
<1> SUFFICES MoveEnds(l, old, res, nx, ny)
  OBVIOUS
<1>0. x \in Int /\ y \in Int /\ nx \in Int /\ ny \in Int
  BY MaxIntAssumption DEF Int32, MinInt
<1>1. CASE old = NoScreen
  <2>1. res = [screen |-> ScreenAt(l, nx, ny), x |-> nx, y |-> ny, crossed |-> FALSE]
    BY <1>1 DEF MovePointer
  <2>2. res.screen = ScreenAt(l, nx, ny) /\ res.x = nx /\ res.y = ny
    BY <2>1
  <2> HIDE DEF res, old
  <2> QED BY <1>0, <1>1, <2>2, ScreenAtFinds, ScreenAtContains DEF MoveEnds
<1>2. CASE old # NoScreen /\ Contains(old, nx, ny)
  <2>1. res = [screen |-> old, x |-> nx, y |-> ny, crossed |-> FALSE]
    BY <1>2 DEF MovePointer
  <2>2. res.screen = old /\ res.x = nx /\ res.y = ny
    BY <2>1
  <2>3. old \in Screens(l)
    BY <1>0, <1>2, ScreenAtContains
  <2>4. ScreenAt(l, nx, ny) # NoScreen
    BY <1>0, <1>2, <2>3, ScreenAtNotNil
  <2> HIDE DEF res, old
  <2> QED BY <1>2, <2>2, <2>3, <2>4 DEF MoveEnds
<1>3. CASE old # NoScreen /\ ~Contains(old, nx, ny) /\ dst # NoScreen
  <2>1. res = [screen |-> dst, x |-> nx, y |-> ny, crossed |-> TRUE]
    BY <1>3 DEF MovePointer
  <2>2. res.screen = dst /\ res.x = nx /\ res.y = ny
    BY <2>1
  <2>3. dst \in Screens(l) /\ Contains(dst, nx, ny)
    BY <1>0, <1>3, AcrossEdgeFinds
  <2>4. ScreenAt(l, nx, ny) # NoScreen
    BY <1>0, <2>3, ScreenAtNotNil
  <2> HIDE DEF res, old, dst
  <2> QED BY <1>3, <2>2, <2>3, <2>4 DEF MoveEnds
<1>4. CASE old # NoScreen /\ ~Contains(old, nx, ny) /\ dst = NoScreen
  <2>1. res = [screen |-> old, x |-> cl[1], y |-> cl[2], crossed |-> FALSE]
    BY <1>4 DEF MovePointer
  <2>2. res.screen = old /\ res.x = cl[1] /\ res.y = cl[2]
    BY <2>1
  <2>3. old \in Screens(l) /\ Contains(old, x, y)
    BY <1>0, <1>4, ScreenAtContains
  <2>4. IsScreen(old) /\ NoOverflow(old)
    BY <2>3, ScreensLegal
  <2>5. ScreenAt(l, nx, ny) = NoScreen
    BY <1>0, <1>4, AcrossEdgeFinds
  <2>6. /\ cl[1] \in Int32 /\ cl[2] \in Int32
        /\ Contains(old, cl[1], cl[2])
        /\ \A p \in old.x .. old.x + old.w - 1 : Dist(cl[1], nx) <= Dist(p, nx)
        /\ \A p \in old.y .. old.y + old.h - 1 : Dist(cl[2], ny) <= Dist(p, ny)
    BY <1>0, <2>3, <2>4, ClampToNearest
  <2> HIDE DEF res, old, cl
  <2> QED BY <1>4, <2>2, <2>3, <2>5, <2>6 DEF MoveEnds
<1> QED BY <1>1, <1>2, <1>3, <1>4

-----------------------------------------------------------------------------
(* The inductive invariant of the router: its type, the active screen      *)
(* under the cursor, and nil only where no screen is.                      *)
IInv == TypeOK /\ CursorOnActive /\ NoBlindCursor

(* NewRouter establishes the invariant.                                    *)
LEMMA InitInv == Init => IInv
<1> SUFFICES ASSUME Init PROVE IInv
  OBVIOUS
<1>1. IsLayout(layout) /\ layout \in Layouts
  BY LayoutsAssumption DEF Init
<1>2. vx = 0 /\ vy = 0 /\ vx \in Int /\ vy \in Int
  BY DEF Init
<1>3. cur = ScreenAt(layout, vx, vy)
  BY DEF Init
<1> QED BY <1>1, <1>2, <1>3, OriginAssumption, ScreenAtFinds, ScreenAtContains
        DEF IInv, TypeOK, CursorOnActive, NoBlindCursor

(* Any move preserves it and does not lose a cursor that was on a screen.  *)
LEMMA AdvanceInv ==
    ASSUME IInv, NEW nx \in Int32, NEW ny \in Int32, Advance(nx, ny)
    PROVE  IInv' /\ (cur # NoScreen => cur' # NoScreen)
<1> DEFINE res == MovePointer(layout, vx, vy, nx, ny)
           old == ScreenAt(layout, vx, vy)
<1>1. vx' = res.x /\ vy' = res.y /\ cur' = res.screen /\ layout' = layout
  BY DEF Advance
<1>2. IsLayout(layout) /\ layout \in Layouts /\ vx \in Int32 /\ vy \in Int32
  BY LayoutsAssumption DEF IInv, TypeOK
<1>3. MoveEnds(layout, old, res, nx, ny)
  BY <1>2, MovePointerEnds
<1>4. cur # NoScreen => old # NoScreen
  <2> SUFFICES ASSUME cur # NoScreen PROVE old # NoScreen
    OBVIOUS
  <2>1. cur \in Screens(layout) /\ Contains(cur, vx, vy)
    BY DEF IInv, TypeOK, CursorOnActive
  <2>2. vx \in Int /\ vy \in Int
    BY <1>2, MaxIntAssumption DEF Int32, MinInt
  <2> QED BY <1>2, <2>1, <2>2, ScreenAtNotNil
<1> HIDE DEF res, old
<1>5. TypeOK'
  BY <1>1, <1>2, <1>3 DEF TypeOK, MoveEnds
<1>6. CursorOnActive' /\ NoBlindCursor'
  BY <1>1, <1>3 DEF CursorOnActive, NoBlindCursor, MoveEnds
<1>7. cur # NoScreen => cur' # NoScreen
  BY <1>1, <1>3, <1>4 DEF MoveEnds
<1> QED BY <1>5, <1>6, <1>7 DEF IInv

(* Each of the three move methods is such a move, whatever its arguments.  *)
LEMMA MovingInv ==
    ASSUME IInv, Moving
    PROVE  IInv' /\ (cur # NoScreen => cur' # NoScreen)
<1>0. Coords \subseteq Int32 /\ Deltas \subseteq Int32 /\ IsLayout(layout)
      /\ vx \in Int32 /\ vy \in Int32
  BY InputsAssumption, LayoutsAssumption DEF IInv, TypeOK
<1>1. ASSUME NEW s \in OwnScreens, NEW lx \in Coords, NEW ly \in Coords,
             OnLocalMove(s, lx, ly)
      PROVE  IInv' /\ (cur # NoScreen => cur' # NoScreen)
  <2>1. s.x \in Int32 /\ s.y \in Int32
    BY <1>0, ScreensLegal DEF OwnScreens, IsScreen
  <2>2. Add(s.x, lx) \in Int32 /\ Add(s.y, ly) \in Int32
    BY <1>0, <2>1, AddInt32
  <2> QED BY <1>1, <2>2, AdvanceInv DEF OnLocalMove
<1>2. ASSUME NEW dx \in Deltas, NEW dy \in Deltas, MoveByDelta(dx, dy)
      PROVE  IInv' /\ (cur # NoScreen => cur' # NoScreen)
  <2>1. Add(vx, dx) \in Int32 /\ Add(vy, dy) \in Int32
    BY <1>0, AddInt32
  <2> QED BY <1>2, <2>1, AdvanceInv DEF MoveByDelta
<1>3. ASSUME NEW x \in Coords, NEW y \in Coords, MoveTo(x, y)
      PROVE  IInv' /\ (cur # NoScreen => cur' # NoScreen)
  BY <1>0, <1>3, AdvanceInv DEF MoveTo
<1> QED BY <1>1, <1>2, <1>3 DEF Moving

(* Every method of the router preserves it.                                *)
LEMMA NextInv == IInv /\ [Next]_vars => IInv'
<1> SUFFICES ASSUME IInv, [Next]_vars PROVE IInv'
  OBVIOUS
<1>0. vx \in Int /\ vy \in Int
  BY MaxIntAssumption DEF IInv, TypeOK, Int32, MinInt
<1>1. ASSUME NEW l \in Layouts, SetLayout(l)
      PROVE  IInv'
  <2>1. /\ layout' = l /\ cur' = ScreenAt(l, vx, vy)
        /\ vx' = vx /\ vy' = vy /\ IsLayout(l)
    BY <1>1, LayoutsAssumption DEF SetLayout
  <2> QED BY <1>0, <2>1, ScreenAtFinds, ScreenAtContains
          DEF IInv, TypeOK, CursorOnActive, NoBlindCursor
<1>2. CASE Moving
  BY <1>2, MovingInv
<1>3. ASSUME NEW x \in Coords, NEW y \in Coords, SetPosition(x, y)
      PROVE  IInv'
  <2>1. /\ layout' = layout /\ cur' = ScreenAt(layout, x, y)
        /\ vx' = x /\ vy' = y /\ IsLayout(layout)
    BY <1>3, LayoutsAssumption DEF SetPosition, IInv, TypeOK
  <2>2. x \in Int /\ y \in Int /\ x \in Int32 /\ y \in Int32
    BY InputsAssumption, MaxIntAssumption DEF Int32, MinInt
  <2> QED BY <2>1, <2>2, ScreenAtFinds, ScreenAtContains
          DEF IInv, TypeOK, CursorOnActive, NoBlindCursor
<1>4. CASE UNCHANGED vars
  BY <1>4 DEF vars, IInv, TypeOK, CursorOnActive, NoBlindCursor
<1> QED BY <1>1, <1>2, <1>3, <1>4 DEF Next

(* The inductive invariant of the router: all three facts together, since  *)
(* an exact clamp needs the cursor to have been on a screen of the layout. *)
THEOREM RouterInv == Spec => []IInv
BY InitInv, NextInv, PTL DEF Spec

(* Type correctness of the router. *)
THEOREM RouterTypeOK == Spec => []TypeOK
<1>1. IInv => TypeOK
  BY DEF IInv
<1> QED BY <1>1, RouterInv, PTL

(* Input is only ever routed to a screen that is under the cursor, and     *)
(* Active answers nil only when no screen is.                              *)
THEOREM RouterCursorMatchesActive == Spec => []CursorMatchesActive
<1>1. IInv => CursorMatchesActive
  BY DEF IInv, CursorMatchesActive
<1> QED BY <1>1, RouterInv, PTL

(* Without overlaps, at most one screen contains a point.                  *)
LEMMA DisjointUnique ==
    ASSUME NEW l, IsLayout(l), Disjoint(l), NEW x \in Int, NEW y \in Int,
           NEW s \in Screens(l), NEW t \in Screens(l),
           Contains(s, x, y), Contains(t, x, y)
    PROVE  s = t
<1>1. PICK i \in DOMAIN l : s = l[i]
  BY DEF Screens
<1>2. PICK j \in DOMAIN l : t = l[j]
  BY DEF Screens
<1>3. CASE i = j
  BY <1>1, <1>2, <1>3
<1>4. CASE i # j
  <2>1. \/ s.x + s.w <= t.x \/ t.x + t.w <= s.x
        \/ s.y + s.h <= t.y \/ t.y + t.h <= s.y
    BY <1>1, <1>2, <1>4 DEF Disjoint
  <2>2. /\ x \in s.x .. s.x + s.w - 1 /\ y \in s.y .. s.y + s.h - 1
        /\ x \in t.x .. t.x + t.w - 1 /\ y \in t.y .. t.y + t.h - 1
    BY ScreensLegal, ContainsExact
  <2>3. /\ s.x \in Int /\ s.y \in Int /\ s.w \in Int /\ s.h \in Int
        /\ t.x \in Int /\ t.y \in Int /\ t.w \in Int /\ t.h \in Int
    BY ScreensLegal, FarEdges
  <2> QED BY <2>1, <2>2, <2>3
<1> QED BY <1>3, <1>4

(* A lookup names the first of the screens under the point. *)
LEMMA ScreenAtFirst ==
    ASSUME NEW l, IsLayout(l), NEW x \in Int, NEW y \in Int, NEW j \in Hits(l, x, y)
    PROVE  \E i \in Hits(l, x, y) : i <= j /\ ScreenAt(l, x, y) = l[i]
<1>1. PICK i \in Hits(l, x, y) : ScreenAt(l, x, y) = l[i] /\ \A k \in Hits(l, x, y) : i <= k
  BY FirstOfMatch, LayoutDomain DEF ScreenAt, Hits
<1> QED BY <1>1

(* A move ends on the screen it starts from, or where that screen is not.  *)
LEMMA MoveLeaves ==
    ASSUME NEW l, IsLayout(l), NEW x \in Int, NEW y \in Int, NEW nx \in Int, NEW ny \in Int,
           ScreenAt(l, x, y) # NoScreen
    PROVE  LET res == MovePointer(l, x, y, nx, ny) IN
           res.screen = ScreenAt(l, x, y) \/ ~Contains(ScreenAt(l, x, y), res.x, res.y)
<1> DEFINE old == ScreenAt(l, x, y)
           dst == AcrossEdge(l, old, nx, ny)
           cl  == ClampTo(old, nx, ny)
<1>1. CASE Contains(old, nx, ny) \/ dst = NoScreen
  <2>1. MovePointer(l, x, y, nx, ny).screen = old
    BY <1>1 DEF MovePointer
  <2> QED BY <2>1
<1>2. CASE ~Contains(old, nx, ny) /\ dst # NoScreen
  <2>1. MovePointer(l, x, y, nx, ny) = [screen |-> dst, x |-> nx, y |-> ny, crossed |-> TRUE]
    BY <1>2 DEF MovePointer
  <2> HIDE DEF old, dst
  <2> QED BY <1>2, <2>1 DEF old
<1> QED BY <1>1, <1>2

(* The three move methods are moves of MovePointer. *)
LEMMA MovingAdvances ==
    ASSUME IInv, Moving
    PROVE  \E nx, ny \in Int32 : Advance(nx, ny)
<1>0. Coords \subseteq Int32 /\ Deltas \subseteq Int32 /\ IsLayout(layout)
      /\ vx \in Int32 /\ vy \in Int32
  BY InputsAssumption, LayoutsAssumption DEF IInv, TypeOK
<1>1. ASSUME NEW s \in OwnScreens, NEW lx \in Coords, NEW ly \in Coords, OnLocalMove(s, lx, ly)
      PROVE  \E nx, ny \in Int32 : Advance(nx, ny)
  <2>1. s.x \in Int32 /\ s.y \in Int32
    BY <1>0, ScreensLegal DEF OwnScreens, IsScreen
  <2>2. Add(s.x, lx) \in Int32 /\ Add(s.y, ly) \in Int32
    BY <1>0, <2>1, AddInt32
  <2> QED BY <1>1, <2>2 DEF OnLocalMove
<1>2. ASSUME NEW dx \in Deltas, NEW dy \in Deltas, MoveByDelta(dx, dy)
      PROVE  \E nx, ny \in Int32 : Advance(nx, ny)
  <2>1. Add(vx, dx) \in Int32 /\ Add(vy, dy) \in Int32
    BY <1>0, AddInt32
  <2> QED BY <1>2, <2>1 DEF MoveByDelta
<1>3. ASSUME NEW x \in Coords, NEW y \in Coords, MoveTo(x, y)
      PROVE  \E nx, ny \in Int32 : Advance(nx, ny)
  BY <1>0, <1>3 DEF MoveTo
<1> QED BY <1>1, <1>2, <1>3 DEF Moving

(* What a step that keeps the arrangement may do on overlapping screens. *)
Settles ==
    /\ Hits(layout, vx', vy') = Hits(layout, vx, vy) => cur' = ScreenAt(layout, vx', vy')
    /\ cur' # cur /\ Contains(cur, vx', vy') =>
          \E i \in Hits(layout, vx, vy) \cup Hits(layout, vx', vy'), j \in DOMAIN layout :
              i < j /\ layout[j] = cur

(* A lookup settles at once. *)
LEMMA LookupSettles ==
    ASSUME IInv, IInv', layout' = layout, cur # NoScreen, cur' = ScreenAt(layout, vx', vy')
    PROVE  Settles
<1>1. /\ IsLayout(layout) /\ vx' \in Int /\ vy' \in Int
      /\ cur \in Screens(layout)
  BY LayoutsAssumption, MaxIntAssumption DEF IInv, TypeOK, Int32, MinInt
<1>2. ASSUME cur' # cur, Contains(cur, vx', vy')
      PROVE  \E i \in Hits(layout, vx', vy'), j \in DOMAIN layout : i < j /\ layout[j] = cur
  <2>1. PICK j \in DOMAIN layout : layout[j] = cur
    BY <1>1 DEF Screens
  <2>2. j \in Hits(layout, vx', vy')
    BY <1>2, <2>1 DEF Hits
  <2>3. PICK i \in Hits(layout, vx', vy') : i <= j /\ cur' = layout[i]
    BY <1>1, <2>2, ScreenAtFirst
  <2>4. i # j /\ i \in Nat /\ j \in Nat
    BY <1>1, <1>2, <2>1, <2>3, LayoutDomain DEF Hits
  <2> QED BY <2>1, <2>3, <2>4
<1> QED BY <1>2 DEF Settles

(* A move starts from a lookup, so the screens that it leaves the pointer  *)
(* on decide.                                                              *)
LEMMA MoveSettles ==
    ASSUME IInv, NEW nx \in Int32, NEW ny \in Int32, Advance(nx, ny), cur # NoScreen
    PROVE  Settles
<1> DEFINE res == MovePointer(layout, vx, vy, nx, ny)
           old == ScreenAt(layout, vx, vy)
<1>1. /\ IsLayout(layout) /\ vx \in Int /\ vy \in Int /\ nx \in Int /\ ny \in Int
      /\ cur \in Screens(layout) /\ Contains(cur, vx, vy)
  BY LayoutsAssumption, MaxIntAssumption DEF IInv, TypeOK, CursorOnActive, Int32, MinInt
<1>2. vx' = res.x /\ vy' = res.y /\ cur' = res.screen
  BY DEF Advance
<1>3. PICK j \in DOMAIN layout : layout[j] = cur
  BY <1>1 DEF Screens
<1>4. j \in Hits(layout, vx, vy)
  BY <1>1, <1>3 DEF Hits
<1>5. PICK i \in Hits(layout, vx, vy) : i <= j /\ old = layout[i]
  BY <1>1, <1>4, ScreenAtFirst
<1>6. cur' = old \/ ~Contains(old, vx', vy')
  <2>1. old # NoScreen
    BY <1>1, ScreenAtNotNil
  <2> QED BY <1>1, <1>2, <2>1, MoveLeaves
<1> HIDE DEF res, old
<1>7. ASSUME Hits(layout, vx', vy') = Hits(layout, vx, vy)
      PROVE  cur' = ScreenAt(layout, vx', vy')
  <2>1. Contains(old, vx', vy')
    BY <1>5, <1>7 DEF Hits
  <2>2. ScreenAt(layout, vx', vy') = old
    BY <1>7 DEF ScreenAt, old
  <2> QED BY <1>6, <2>1, <2>2
<1>8. ASSUME cur' # cur, Contains(cur, vx', vy')
      PROVE  i < j
  <2>1. i # j
    BY <1>3, <1>5, <1>6, <1>8
  <2>2. i \in Nat /\ j \in Nat
    BY <1>1, <1>3, <1>5, LayoutDomain DEF Hits
  <2> QED BY <1>5, <2>1, <2>2
<1> QED BY <1>3, <1>5, <1>7, <1>8 DEF Settles

(* However screens overlap, the active screen and the one a lookup finds   *)
(* disagree for one move at most, and no screen loses the input while the  *)
(* pointer stays on it but to an earlier one that overlaps it.             *)
THEOREM RouterOverlapSettles == Spec => OverlapSettles
<1>1. IInv /\ IInv' /\ [Next]_vars =>
        [layout' = layout /\ cur # NoScreen =>
          /\ Hits(layout, vx', vy') = Hits(layout, vx, vy) => cur' = ScreenAt(layout, vx', vy')
          /\ cur' # cur /\ Contains(cur, vx', vy') =>
                \E i \in Hits(layout, vx, vy) \cup Hits(layout, vx', vy'), j \in DOMAIN layout :
                    i < j /\ layout[j] = cur]_vars
  <2> SUFFICES ASSUME IInv, IInv', Next, layout' = layout, cur # NoScreen
               PROVE  Settles
    BY DEF Settles
  <2>1. ASSUME NEW l \in Layouts, SetLayout(l) PROVE Settles
    BY <2>1, LookupSettles DEF SetLayout
  <2>2. CASE Moving
    BY <2>2, MovingAdvances, MoveSettles
  <2>3. ASSUME NEW x \in Coords, NEW y \in Coords, SetPosition(x, y) PROVE Settles
    BY <2>3, LookupSettles DEF SetPosition
  <2> QED BY <2>1, <2>2, <2>3 DEF Next
<1> QED BY <1>1, RouterInv, PTL DEF Spec, OverlapSettles

(* Moving into a gap slides along the border, moving onto a screen is      *)
(* exact.                                                                  *)
THEOREM RouterMoveLandsNearest == Spec => []MoveLandsNearest
<1>1. IInv => MoveLandsNearest
  <2> SUFFICES ASSUME IInv, cur # NoScreen, NEW x \in Coords, NEW y \in Coords
               PROVE  LET res == MovePointer(layout, vx, vy, x, y)
                          old == ScreenAt(layout, vx, vy)
                      IN  IF ScreenAt(layout, x, y) # NoScreen
                          THEN res.x = x /\ res.y = y
                          ELSE /\ Contains(old, res.x, res.y)
                               /\ \A p \in old.x .. old.x + old.w - 1 : Dist(res.x, x) <= Dist(p, x)
                               /\ \A p \in old.y .. old.y + old.h - 1 : Dist(res.y, y) <= Dist(p, y)
    BY DEF MoveLandsNearest
  <2>1. IsLayout(layout) /\ vx \in Int32 /\ vy \in Int32 /\ x \in Int32 /\ y \in Int32
    BY LayoutsAssumption, InputsAssumption DEF IInv, TypeOK
  <2>2. vx \in Int /\ vy \in Int
    BY <2>1, MaxIntAssumption DEF Int32, MinInt
  <2>3. MoveEnds(layout, ScreenAt(layout, vx, vy), MovePointer(layout, vx, vy, x, y), x, y)
    BY <2>1, MovePointerEnds
  <2>4. cur \in Screens(layout) /\ Contains(cur, vx, vy)
    BY DEF IInv, TypeOK, CursorOnActive
  <2>5. ScreenAt(layout, vx, vy) # NoScreen
    BY <2>1, <2>2, <2>4, ScreenAtNotNil
  <2> QED BY <2>3, <2>5 DEF MoveEnds
<1> QED BY <1>1, RouterInv, PTL

(* Only a rearrangement or a teleport can take the cursor off the desktop. *)
THEOREM RouterMoveKeepsCursor == Spec => MoveKeepsCursor
<1>1. IInv /\ [Next]_vars =>
        [cur # NoScreen /\ cur' = NoScreen => ~Moving]_vars
  BY MovingInv
<1> QED BY <1>1, RouterInv, PTL DEF Spec, MoveKeepsCursor
=============================================================================
