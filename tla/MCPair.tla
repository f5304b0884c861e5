-------------------------------- MODULE MCPair --------------------------------
(***************************************************************************)
(* One local screen and one peer, with one kind of trouble at a time:      *)
(* links that break, or users and controllers who move screens and the     *)
(* cursor.                                                                 *)
(***************************************************************************)
EXTENDS MCSharedInput

VARIABLE trouble

PairInit == Init /\ trouble \in {"links", "users"}

PairNext ==
    /\ Next
    /\ trouble = "links" => UNCHANGED <<changes, meddled>>
    /\ trouble = "users" => \A c \in Conns : link[c] = "up" => link'[c] = "up"
    /\ UNCHANGED trouble

PairSpec == PairInit /\ [][PairNext]_<<vars, trouble>> /\ Fairness
=============================================================================
