------------------------------ MODULE Coordinates ------------------------------
(***************************************************************************)
(* The conversions between a device's own screen coordinates and the       *)
(* virtual desktop (core in platform/adapter), and the one from pixels to  *)
(* the scale of SendInput (the Windows injector).  A device reports its    *)
(* screens with their physical positions; the server may place them        *)
(* elsewhere, under the same identifiers and with the same sizes.  Pure    *)
(* functions, checked on small desktops by MCRouter; that the conversions  *)
(* undo each other is proved in CoordinatesProofs.                         *)
(***************************************************************************)
EXTENDS Layout

CONSTANT Scale    \* the largest coordinate of SendInput, 65535 in the code

ASSUME ScaleAssumption == Scale \in Nat \ {0}

(* screenAtGlobal: the local screen under a point, as ScreenAt finds it.   *)
ScreenAtGlobal(local, x, y) == ScreenAt(local, x, y)

(* findScreen *)
FindScreen(l, id) == FirstOf(l, {i \in DOMAIN l : l[i].id = id})

Shifted(from, to, p) == [x |-> Add(to.x, Sub(p.x, from.x)), y |-> Add(to.y, Sub(p.y, from.y))]

Nowhere == [x |-> 0, y |-> 0, ok |-> FALSE]
Found(p) == [x |-> p.x, y |-> p.y, ok |-> TRUE]

(* toVirtual, with an arrangement: where the server sees a local point.    *)
ToVirtual(l, local, p) ==
    LET ls == ScreenAtGlobal(local, p.x, p.y)
        s  == FindScreen(l, ls.id)
    IN  IF ls = NoScreen \/ s = NoScreen THEN Nowhere ELSE Found(Shifted(ls, s, p))

(* toGlobal, with an arrangement: the local point of a virtual one.  A     *)
(* point on a screen of another device is passed through.                  *)
ToGlobal(l, local, p) ==
    LET s  == ScreenAt(l, p.x, p.y)
        ls == FindScreen(local, s.id)
    IN  IF s = NoScreen THEN Nowhere
        ELSE IF ls = NoScreen THEN Found(p)
        ELSE Found(Shifted(s, ls, p))

(* MovePointer of the Windows injector, on one axis: pixels of a desktop   *)
(* that starts at origin and is extent wide, or of a desktop of the full   *)
(* scale when the system reports none.  Go divides towards zero and \div   *)
(* down; both are clamped to 0 where they differ.                          *)
Clamped(v, lo, hi) == IF v < lo THEN lo ELSE IF v > hi THEN hi ELSE v

Normalised(x, origin, extent) ==
    LET o == IF extent > 0 THEN origin ELSE 0
        e == IF extent > 0 THEN extent ELSE Scale + 1
    IN  Clamped((Sub(x, o) * Scale) \div e, 0, Scale)

-----------------------------------------------------------------------------
(* local are the physical screens of a device that an arrangement l shows  *)
(* with their identifiers and sizes, wherever it places them.              *)
Shows(l, local) ==
    /\ \A i, j \in DOMAIN local : local[i].id = local[j].id => i = j
    /\ \A i \in DOMAIN l, j \in DOMAIN local :
          l[i].id = local[j].id => l[i].w = local[j].w /\ l[i].h = local[j].h

(* Going to the virtual desktop and back ends where it began, wherever the *)
(* server has put the screens.                                             *)
RoundTrip(l, local, p) ==
    LET v == ToVirtual(l, local, p) IN
    v.ok => ToGlobal(l, local, v) = Found(p)

(* Distinct pixels of a desktop no wider than the scale stay distinct and  *)
(* keep their order.                                                       *)
KeepsOrder(origin, extent) ==
    \A x, y \in origin .. origin + extent - 1 :
        x < y => Normalised(x, origin, extent) < Normalised(y, origin, extent)
=============================================================================
