--------------------------- MODULE CoordinatesProofs ---------------------------
(***************************************************************************)
(* The conversions of Coordinates undo each other, on every arrangement    *)
(* without overlaps, for every device and every coordinate width.          *)
(***************************************************************************)
EXTENDS Coordinates, RouterProofs

(* A search by identifier that finds something finds a match.              *)
LEMMA FindScreenFinds ==
    ASSUME NEW l, IsLayout(l), NEW id, \E i \in DOMAIN l : l[i].id = id
    PROVE  \E i \in DOMAIN l : FindScreen(l, id) = l[i] /\ l[i].id = id
<1> DEFINE I == {i \in DOMAIN l : l[i].id = id}
<1>1. PICK i \in I : FirstOf(l, I) = l[i]
  BY FirstOfMatch, LayoutDomain
<1> QED BY <1>1 DEF FindScreen

(* A search that finds nothing answers nil.                                *)
LEMMA FindScreenMisses ==
    ASSUME NEW l, NEW id, ~\E i \in DOMAIN l : l[i].id = id
    PROVE  FindScreen(l, id) = NoScreen
<1>1. {i \in DOMAIN l : l[i].id = id} = {}
  OBVIOUS
<1> QED BY <1>1 DEF FindScreen, FirstOf

(* One axis of the shift between two places of a span: it does not wrap,   *)
(* stays within the span, and the shift back undoes it.                    *)
LEMMA ShiftSpan ==
    ASSUME NEW a \in Int32, NEW b \in Int32, NEW w \in Int32,
           a + w \in Int32, b + w \in Int32,
           NEW p \in Int32, p >= a, p < a + w
    PROVE  /\ Add(b, Sub(p, a)) \in Int
           /\ Add(b, Sub(p, a)) >= b /\ Add(b, Sub(p, a)) < b + w
           /\ Add(a, Sub(Add(b, Sub(p, a)), b)) = p
<1>1. /\ a \in Int /\ b \in Int /\ w \in Int /\ p \in Int
      /\ MaxInt \in Int /\ MinInt = -MaxInt - 1
  BY MaxIntAssumption DEF Int32, MinInt
<1>2. Sub(p, a) = p - a
  BY <1>1 DEF Sub, Wrap, Int32
<1>3. Add(b, p - a) = b + (p - a)
  BY <1>1 DEF Add, Wrap, Int32
<1>4. Sub(b + (p - a), b) = p - a
  BY <1>1 DEF Sub, Wrap, Int32
<1>5. Add(a, p - a) = p
  BY <1>1 DEF Add, Wrap, Int32
<1> QED BY <1>1, <1>2, <1>3, <1>4, <1>5

(* A point that toVirtual maps comes back from toGlobal where it was: an   *)
(* event recorded on one device and injected on the same one ends on the   *)
(* same pixel, wherever the arrangement has put the device's screens.      *)
THEOREM ConversionsUndoEachOther ==
    ASSUME NEW l, IsLayout(l), Disjoint(l),
           NEW local, IsLayout(local), Shows(l, local),
           NEW x \in Int32, NEW y \in Int32
    PROVE  RoundTrip(l, local, [x |-> x, y |-> y])
<1> DEFINE p  == [x |-> x, y |-> y]
           ls == ScreenAt(local, x, y)
           s  == FindScreen(l, ls.id)
           v  == Shifted(ls, s, p)
<1>0. x \in Int /\ y \in Int /\ p.x = x /\ p.y = y
  BY MaxIntAssumption DEF Int32, MinInt
<1>1. CASE ls = NoScreen \/ s = NoScreen
  <2>1. ToVirtual(l, local, p) = Nowhere
    BY <1>0, <1>1 DEF ToVirtual, ScreenAtGlobal
  <2> QED BY <2>1 DEF RoundTrip, Nowhere
<1>2. CASE ls # NoScreen /\ s # NoScreen
  <2>1. ls \in Screens(local) /\ Contains(ls, x, y)
    BY <1>0, <1>2, ScreenAtContains
  <2>2. PICK j \in DOMAIN local : ls = local[j]
    BY <2>1 DEF Screens
  <2>3. \E i \in DOMAIN l : l[i].id = ls.id
    BY <1>2, FindScreenMisses
  <2>4. PICK i \in DOMAIN l : s = l[i] /\ l[i].id = ls.id
    BY <2>3, FindScreenFinds
  <2>5. s.w = ls.w /\ s.h = ls.h
    BY <2>2, <2>4 DEF Shows
  <2>6. /\ IsScreen(ls) /\ NoOverflow(ls)
        /\ IsScreen(s) /\ NoOverflow(s)
    BY <2>2, <2>4 DEF IsLayout
  <2>7. x \in ls.x .. ls.x + ls.w - 1 /\ y \in ls.y .. ls.y + ls.h - 1
    BY <1>0, <2>1, <2>6, ContainsExact
  <2>8. v.x = Add(s.x, Sub(x, ls.x)) /\ v.y = Add(s.y, Sub(y, ls.y))
    BY <1>0 DEF Shifted
  <2> HIDE DEF ls, s, v, p
  <2>a. /\ ls.x \in Int32 /\ s.x \in Int32 /\ ls.w \in Int32
        /\ ls.x + ls.w \in Int32 /\ s.x + ls.w \in Int32
        /\ x >= ls.x /\ x < ls.x + ls.w
    BY <1>0, <2>5, <2>6, <2>7 DEF IsScreen, NoOverflow, Int32
  <2>b. /\ ls.y \in Int32 /\ s.y \in Int32 /\ ls.h \in Int32
        /\ ls.y + ls.h \in Int32 /\ s.y + ls.h \in Int32
        /\ y >= ls.y /\ y < ls.y + ls.h
    BY <1>0, <2>5, <2>6, <2>7 DEF IsScreen, NoOverflow, Int32
  <2>9. /\ v.x \in Int /\ v.x >= s.x /\ v.x < s.x + s.w
        /\ Add(ls.x, Sub(v.x, s.x)) = x
    <3>1. /\ Add(s.x, Sub(x, ls.x)) \in Int
          /\ Add(s.x, Sub(x, ls.x)) >= s.x
          /\ Add(s.x, Sub(x, ls.x)) < s.x + ls.w
          /\ Add(ls.x, Sub(Add(s.x, Sub(x, ls.x)), s.x)) = x
      BY <2>a, ShiftSpan
    <3> QED BY <3>1, <2>5, <2>8
  <2>10. /\ v.y \in Int /\ v.y >= s.y /\ v.y < s.y + s.h
         /\ Add(ls.y, Sub(v.y, s.y)) = y
    <3>1. /\ Add(s.y, Sub(y, ls.y)) \in Int
          /\ Add(s.y, Sub(y, ls.y)) >= s.y
          /\ Add(s.y, Sub(y, ls.y)) < s.y + ls.h
          /\ Add(ls.y, Sub(Add(s.y, Sub(y, ls.y)), s.y)) = y
      BY <2>b, ShiftSpan
    <3> QED BY <3>1, <2>5, <2>8
  <2>11. /\ s.x \in Int /\ s.y \in Int /\ s.w \in Int /\ s.h \in Int
         /\ v.x \in Int /\ v.y \in Int
    BY <2>6, <2>9, <2>10, FarEdges
  <2>12. Contains(s, v.x, v.y)
    <3>1. v.x \in s.x .. s.x + s.w - 1 /\ v.y \in s.y .. s.y + s.h - 1
      BY <2>9, <2>10, <2>11
    <3> QED BY <2>6, <2>11, <3>1, ContainsExact
  <2>13. s \in Screens(l)
    BY <2>4 DEF Screens
  <2>14. /\ ScreenAt(l, v.x, v.y) \in Screens(l)
         /\ Contains(ScreenAt(l, v.x, v.y), v.x, v.y)
    BY <2>11, <2>12, <2>13, ScreenAtNotNil, ScreenAtContains
  <2>15. ScreenAt(l, v.x, v.y) = s
    BY <2>11, <2>12, <2>13, <2>14, DisjointUnique
  <2>16. \E k \in DOMAIN local : FindScreen(local, s.id) = local[k] /\ local[k].id = s.id
    BY <2>2, <2>4, FindScreenFinds
  <2>17. FindScreen(local, s.id) = ls
    BY <2>2, <2>4, <2>16 DEF Shows
  <2>18. ToVirtual(l, local, p) = Found(v)
    BY <1>0, <1>2 DEF ToVirtual, ScreenAtGlobal, ls, s, v, p
  <2>19. Found(v).x = v.x /\ Found(v).y = v.y
    BY DEF Found
  <2>20. ToGlobal(l, local, Found(v)) = Found(Shifted(s, ls, Found(v)))
    BY <1>2, <2>15, <2>17, <2>19 DEF ToGlobal
  <2>21. Shifted(s, ls, Found(v)) = p
    BY <2>9, <2>10, <2>19 DEF Shifted, p
  <2>22. ToGlobal(l, local, Found(v)) = Found(p)
    BY <2>20, <2>21
  <2> QED BY <2>18, <2>22 DEF RoundTrip, p
<1> QED BY <1>1, <1>2
=============================================================================
