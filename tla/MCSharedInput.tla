---------------------------- MODULE MCSharedInput ----------------------------
(***************************************************************************)
(* Small instances of SharedInput.  The local machine has one or two       *)
(* screens of two pixels in a row, each peer one screen of two pixels; a   *)
(* mouse step of 2 crosses a screen, and an edge band of one pixel leaves  *)
(* positions inside and outside it.                                        *)
(***************************************************************************)
EXTENDS SharedInput, TLC

CONSTANTS c1, c2

Scr(id, dev, x, w) == [id |-> id, device |-> dev, x |-> x, y |-> 0, w |-> w, h |-> 1]

OneScreen  == << Scr("mac:0", "mac", 0, 2) >>
TwoScreens == << Scr("mac:0", "mac", 0, 2), Scr("mac:1", "mac", 2, 2) >>

OnePeer   == [c \in {c1} |-> Scr("win:0", "win", 0, 2)]
TwoPeers  == c1 :> Scr("win:0", "win", 0, 2) @@ c2 :> Scr("pad:0", "pad", 0, 2)

Steps == {-2, 0, 2}
Spots == {-2, 0, 1, 3}
Wide  == {-2, 0, 1, 2, 3, 5}

LeftOfLocal == {-2}
=============================================================================
