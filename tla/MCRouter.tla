------------------------------ MODULE MCRouter ------------------------------
(***************************************************************************)
(* A small instance of Router: two devices, a 4-bit coordinate space       *)
(* (-8 .. 7), arrangements with a shared edge, a gap, an overlap, a        *)
(* partial vertical overlap, no peer and no screen at all.  The assumptions at the    *)
(* end check the coordinate conversions on the same screens.               *)
(***************************************************************************)
EXTENDS Router, Coordinates

Scr(id, dev, x, y, w, h) ==
    [id |-> id, device |-> dev, x |-> x, y |-> y, w |-> w, h |-> h]

M0 == Scr("mac:0", "mac", 0, 0, 3, 2)

MCLayouts ==
    { << >>,                                                    \* no screens yet
      << M0 >>,
      << M0, Scr("win:0", "win", 3, 0, 2, 2) >>,                \* shared edge
      << M0, Scr("win:0", "win", 4, 0, 2, 2) >>,                \* gap
      << M0, Scr("win:0", "win", 3, 1, 2, 2) >>,                \* partial edge
      << M0, Scr("mac:1", "mac", 0, -2, 3, 2),
             Scr("win:0", "win", -2, -1, 2, 3) >>,              \* three screens
      << M0, Scr("pad:0", "pad", 2, 0, 2, 2),
             Scr("win:0", "win", 3, 0, 3, 2) >> }               \* overlaps

MCCoords == {-3, -2, -1, 0, 1, 2, 3, 5, 6}
MCDeltas == {-7, -2, -1, 0, 1, 7}

(* The screens of mac where its system has them: side by side, or as the   *)
(* arrangement has them.                                                   *)
MCLocals == { << M0 >>,
              << Scr("mac:0", "mac", -1, 0, 3, 2), Scr("mac:1", "mac", 2, 0, 3, 2) >> }

(* From every local pixel to the virtual desktop and back, on every        *)
(* arrangement without overlaps.                                           *)
ASSUME ConversionsAgree ==
    \A l \in MCLayouts, local \in MCLocals, x, y \in Int32 :
        Disjoint(l) => RoundTrip(l, local, [x |-> x, y |-> y])

(* No two pixels of any desktop within the scale are injected as one.      *)
ASSUME PixelsStayApart ==
    \A origin \in Int32, extent \in 1 .. MaxInt :
        origin + extent \in Int32 => KeepsOrder(origin, extent)
=============================================================================
