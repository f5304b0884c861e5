-------------------------------- MODULE MCNode --------------------------------
(***************************************************************************)
(* What a process decides under one mutex: the router under Router.mu, and *)
(* the panel that starts and stops nodes under App.mu.  The panel never    *)
(* looks into a router: they share no state and run one at a time here.    *)
(***************************************************************************)
EXTENDS MCRouter, TLC

CONSTANTS Requests, MaxNodes, MaxStops

VARIABLES
    part,
    kind, server, client, gen, sender, conn, watch, capture, loop, stamp,
    pc, node, asked, stops, failed, overlap, early, late

Panel == INSTANCE NodeControl

ASSUME PanelAssumption == Panel!ControlAssumption

panelVars == <<kind, server, client, gen, sender, conn, watch, capture, loop, stamp,
               pc, node, asked, stops, failed, overlap, early, late>>

(* A router that does not run has no screens. *)
NodeInit ==
    /\ part \in {"router", "panel"}
    /\ Init /\ Panel!Init
    /\ part = "router" \/ layout = << >>

OnRouter == part = "router" /\ UNCHANGED <<part, panelVars>>
OnPanel  == part = "panel" /\ UNCHANGED <<part, vars>>

NodeNext == (OnRouter /\ Next) \/ (OnPanel /\ Panel!Next)

NodeSpec == NodeInit /\ [][NodeNext]_<<part, vars, panelVars>>

(* Requests are interchangeable. *)
Swap == Permutations(Requests)

(* Type invariants of both parts. *)
NodeTypeOK == TypeOK /\ Panel!TypeOK

(* What runs belongs to the node the panel shows. *)
NoOrphan == Panel!NoOrphan

(* A client whose connection has ended is no longer shown. *)
DropsDeadClient == Panel!DropsDeadClient

(* The file manager sends through the node the panel shows. *)
FilesAttached == Panel!FilesAttached

(* The callback of an older client leaves a newer node alone. *)
StaleCallbackHarmless == Panel!StaleCallbackHarmless
=============================================================================
