------------------------------ MODULE NodeControl ------------------------------
(***************************************************************************)
(* The life of a node: platform/control starts and stops nodes on the      *)
(* goroutines of HTTP requests, platform/adapter gives each node a          *)
(* clipboard watcher, the capture and, through Attach and Detach, the one   *)
(* file transfer manager of the process; a client node has a receive loop  *)
(* that cleans up and calls the panel back when its connection ends.        *)
(*                                                                         *)
(* What runs under App.mu is one step.  ConnectClient dials outside the    *)
(* lock, so it is several.  A receive loop ends at any time after its      *)
(* connection.  Nodes are numbered in the order they are asked for.        *)
(***************************************************************************)
EXTENDS Naturals, FiniteSets

CONSTANTS
    Requests,       \* HTTP requests that may be served at once
    MaxNodes,       \* bound: nodes asked for
    MaxStops        \* bound: StopNode requests

ControlAssumption == MaxNodes \in Nat /\ MaxStops \in Nat

Nodes == 1 .. MaxNodes
None  == 0

VARIABLES
    kind, server, client, gen,  \* App: kind of node, the node, the generation
    sender,     \* the node whose send function the file manager holds
    conn,       \* none, open, shut: a client's connection, a server's listener
    watch,      \* nodes whose clipboard watcher runs
    capture,    \* nodes that capture the local input
    loop,       \* receive loop of a client: none, serve, clean, tell, done
    stamp,      \* the generation a client's callback was made with
    pc, node,   \* each request: where it is, the node it makes
    asked, stops,
    failed,     \* nodes whose start returned an error
    overlap,    \* two requests have overlapped
    early,      \* a callback came before its client was recorded
    late        \* a receive loop detached another node's file manager

panel == <<kind, server, client, gen>>
parts == <<sender, conn, watch, capture, loop, stamp>>
reqs  == <<pc, node, asked, stops>>
book  == <<failed, overlap, early, late>>
vars  == <<panel, parts, reqs, book>>

Init ==
    /\ kind = "none" /\ server = None /\ client = None /\ gen = 0
    /\ sender = None
    /\ conn = [n \in Nodes |-> "none"] /\ loop = [n \in Nodes |-> "none"]
    /\ stamp = [n \in Nodes |-> 0]
    /\ watch = {} /\ capture = {}
    /\ pc = [r \in Requests |-> "idle"] /\ node = [r \in Requests |-> None]
    /\ asked = 0 /\ stops = 0
    /\ failed = {} /\ overlap = FALSE /\ early = FALSE /\ late = FALSE

-----------------------------------------------------------------------------
Held == {server, client} \ {None}

NoNode == kind' = "none" /\ server' = None /\ client' = None

(* The connections after closing the nodes the panel holds. *)
Closed == [n \in Nodes |-> IF n \in Held /\ conn[n] = "open" THEN "shut" ELSE conn[n]]

(* Mutant: the file manager stays attached to the closed node. *)
StopLocked_KeepsFiles ==
    /\ UNCHANGED sender
    /\ watch' = watch \ Held /\ capture' = capture \ Held
    /\ conn' = Closed
    /\ NoNode

(* stopLocked: Close of the node in use: capture, watcher, Detach and      *)
(* connection.  Detach forgets the send function, whoever's it is.         *)
StopLocked ==
    /\ sender' = IF Held = {} THEN sender ELSE None
    /\ watch' = watch \ Held /\ capture' = capture \ Held
    /\ conn' = Closed
    /\ NoNode

Begins(r) ==
    /\ pc[r] = "idle"
    /\ overlap' = (overlap \/ \E q \in Requests : pc[q] # "idle")

NewNode(r) == asked < MaxNodes /\ asked' = asked + 1 /\ node' = [node EXCEPT ![r] = asked + 1]

Goto(r, where) == pc' = [pc EXCEPT ![r] = where]

(* RunServer after stopLocked, up to the capture. *)
RunServer(r, n, captures) ==
    /\ Begins(r) /\ NewNode(r)
    /\ gen' = gen + 1
    /\ sender' = n
    /\ watch' = (watch \ Held) \cup {n}
    /\ capture' = (capture \ Held) \cup captures

(* StartServer.  Without a capture driver the node runs headless. *)
StartServer(r) ==
    LET n == asked + 1 IN
    /\ \E captures \in {{}, {n}} : RunServer(r, n, captures)
    /\ conn' = [Closed EXCEPT ![n] = "open"]
    /\ kind' = "server" /\ server' = n /\ client' = None
    /\ UNCHANGED <<loop, stamp, pc, stops, failed, early, late>>

(* The capture does not start: RunServer returns without taking back the   *)
(* watcher and the attachment.                                             *)
CaptureFails(r) ==
    /\ RunServer(r, asked + 1, {})
    /\ conn' = Closed /\ NoNode
    /\ failed' = failed \cup {asked + 1}
    /\ UNCHANGED <<loop, stamp, pc, stops, early, late>>

(* The address cannot be listened on: the lock is released and the node    *)
(* closed after it.                                                        *)
ListenFails(r) ==
    /\ \E captures \in {{}, {asked + 1}} : RunServer(r, asked + 1, captures)
    /\ conn' = Closed /\ NoNode
    /\ failed' = failed \cup {asked + 1}
    /\ Goto(r, "close")
    /\ UNCHANGED <<loop, stamp, stops, early, late>>

CloseFailed(r) ==
    /\ pc[r] = "close" /\ Goto(r, "idle")
    /\ sender' = None
    /\ watch' = watch \ {node[r]} /\ capture' = capture \ {node[r]}
    /\ UNCHANGED <<panel, conn, loop, stamp, node, asked, stops, book>>

(* Mutants: the old node is not stopped; the generation is read too early. *)
ConnectClient_KeepsNode(r) ==
    /\ Begins(r) /\ NewNode(r)
    /\ gen' = gen + 1
    /\ stamp' = [stamp EXCEPT ![asked + 1] = gen + 1]
    /\ Goto(r, "dial")
    /\ UNCHANGED <<kind, server, client, sender, watch, capture, conn, loop, stops, failed, early, late>>

ConnectClient_OldGen(r) ==
    /\ Begins(r) /\ NewNode(r)
    /\ gen' = gen + 1
    /\ stamp' = [stamp EXCEPT ![asked + 1] = gen]
    /\ StopLocked
    /\ Goto(r, "dial")
    /\ UNCHANGED <<loop, stops, failed, early, late>>

(* ConnectClient, up to the dialing. *)
ConnectClient(r) ==
    /\ Begins(r) /\ NewNode(r)
    /\ gen' = gen + 1
    /\ stamp' = [stamp EXCEPT ![asked + 1] = gen + 1]
    /\ StopLocked
    /\ Goto(r, "dial")
    /\ UNCHANGED <<loop, stops, failed, early, late>>

-----------------------------------------------------------------------------
(* RunClient, without the lock. *)

Dial(r) ==
    /\ pc[r] = "dial"
    /\ \/ /\ conn' = [conn EXCEPT ![node[r]] = "open"]
          /\ Goto(r, "attach") /\ UNCHANGED failed
       \/ Goto(r, "idle") /\ failed' = failed \cup {node[r]} /\ UNCHANGED conn
    /\ UNCHANGED <<panel, sender, watch, capture, loop, stamp, node, asked, stops, overlap, early, late>>

Attach(r) ==
    /\ pc[r] = "attach" /\ Goto(r, "report")
    /\ sender' = node[r]
    /\ watch' = watch \cup {node[r]}
    /\ UNCHANGED <<panel, conn, capture, loop, stamp, node, asked, stops, book>>

(* SendLayout.  A write to a connection that has just ended may succeed.   *)
SendLayout(r) ==
    /\ pc[r] = "report" /\ Goto(r, "install")
    /\ loop' = [loop EXCEPT ![node[r]] = "serve"]
    /\ UNCHANGED <<panel, sender, conn, watch, capture, stamp, node, asked, stops, book>>

(* The watcher and the attachment stay. *)
SendLayoutFails(r) ==
    /\ pc[r] = "report" /\ conn[node[r]] = "shut" /\ Goto(r, "idle")
    /\ failed' = failed \cup {node[r]}
    /\ UNCHANGED <<panel, parts, node, asked, stops, overlap, early, late>>

(* ConnectClient records the node. *)
Install(r) ==
    /\ pc[r] = "install" /\ Goto(r, "idle")
    /\ kind' = "client" /\ client' = node[r]
    /\ UNCHANGED <<server, gen, parts, node, asked, stops, book>>

StopNode(r) ==
    /\ Begins(r) /\ stops < MaxStops /\ stops' = stops + 1
    /\ gen' = gen + 1
    /\ StopLocked
    /\ UNCHANGED <<loop, stamp, pc, node, asked, failed, early, late>>

-----------------------------------------------------------------------------
(* The connection and the receive loop of a client node. *)

ConnEnds(n) ==
    /\ conn[n] = "open" /\ n # server
    /\ conn' = [conn EXCEPT ![n] = "shut"]
    /\ UNCHANGED <<panel, sender, watch, capture, loop, stamp, reqs, book>>

(* Serve returns: reading fails, or injecting what arrived did, and then   *)
(* the connection stays open.                                              *)
ServeReturns(n) ==
    /\ loop[n] = "serve"
    /\ loop' = [loop EXCEPT ![n] = "clean"]
    /\ UNCHANGED <<panel, sender, conn, watch, capture, stamp, reqs, book>>

(* Mutant: the watcher is forgotten. *)
Cleanup_KeepsWatch(n) ==
    /\ loop[n] = "clean"
    /\ loop' = [loop EXCEPT ![n] = "tell"]
    /\ sender' = None
    /\ late' = (late \/ sender \notin {n, None})
    /\ UNCHANGED <<panel, conn, watch, capture, stamp, reqs, failed, overlap, early>>

Cleanup(n) ==
    /\ loop[n] = "clean"
    /\ loop' = [loop EXCEPT ![n] = "tell"]
    /\ watch' = watch \ {n}
    /\ sender' = None
    /\ late' = (late \/ sender \notin {n, None})
    /\ UNCHANGED <<panel, conn, capture, stamp, reqs, failed, overlap, early>>

Recorded(n) == \A r \in Requests : ~(pc[r] = "install" /\ node[r] = n)

(* Mutants: any generation; the kind of node is not reset. *)
OnClientDisconnected_AnyGen(n) ==
    /\ loop[n] = "tell" /\ loop' = [loop EXCEPT ![n] = "done"]
    /\ early' = (early \/ ~Recorded(n))
    /\ IF kind = "client"
       THEN kind' = "none" /\ client' = None /\ gen' = gen + 1
       ELSE UNCHANGED <<kind, client, gen>>
    /\ UNCHANGED <<server, sender, conn, watch, capture, stamp, reqs, failed, overlap, late>>

OnClientDisconnected_KeepsKind(n) ==
    /\ loop[n] = "tell" /\ loop' = [loop EXCEPT ![n] = "done"]
    /\ early' = (early \/ ~Recorded(n))
    /\ IF gen = stamp[n] /\ kind = "client"
       THEN client' = None /\ gen' = gen + 1
       ELSE UNCHANGED <<client, gen>>
    /\ UNCHANGED <<kind, server, sender, conn, watch, capture, stamp, reqs, failed, overlap, late>>

OnClientDisconnected(n) ==
    /\ loop[n] = "tell" /\ loop' = [loop EXCEPT ![n] = "done"]
    /\ early' = (early \/ ~Recorded(n))
    /\ IF gen = stamp[n] /\ kind = "client"
       THEN kind' = "none" /\ client' = None /\ gen' = gen + 1
       ELSE UNCHANGED <<kind, client, gen>>
    /\ UNCHANGED <<server, sender, conn, watch, capture, stamp, reqs, failed, overlap, late>>

Next ==
    \/ \E r \in Requests :
          \/ StartServer(r) \/ CaptureFails(r) \/ ListenFails(r) \/ CloseFailed(r)
          \/ ConnectClient(r) \/ Dial(r) \/ Attach(r) \/ SendLayout(r)
          \/ SendLayoutFails(r) \/ Install(r) \/ StopNode(r)
    \/ \E n \in Nodes : ConnEnds(n) \/ ServeReturns(n) \/ Cleanup(n) \/ OnClientDisconnected(n)

Spec == Init /\ [][Next]_vars

-----------------------------------------------------------------------------
(* Type invariant: the kind of node always names a node that is there,     *)
(* which State dereferences without looking.                               *)
TypeOK ==
    /\ kind \in {"none", "server", "client"}
    /\ {server, client, sender} \subseteq Nodes \cup {None} /\ gen \in Nat
    /\ (kind = "server" => server # None) /\ (kind = "client" => client # None)
    /\ conn \in [Nodes -> {"none", "open", "shut"}]
    /\ loop \in [Nodes -> {"none", "serve", "clean", "tell", "done"}]
    /\ watch \cup capture \cup failed \subseteq Nodes
    /\ pc \in [Requests -> {"idle", "dial", "attach", "report", "install", "close"}]

Leaving(n) == loop[n] \in {"clean", "tell"} \/ (loop[n] = "serve" /\ conn[n] = "shut")

(* No request is being served and no receive loop has something to do. *)
Settled == (\A r \in Requests : pc[r] = "idle") /\ (\A n \in Nodes : ~Leaving(n))

(* When requests come one at a time, a node that serves, captures or       *)
(* watches the clipboard is the one the panel holds, since starting        *)
(* another stops it; nodes that failed to start may have left a watcher.   *)
NoOrphan ==
    Settled /\ ~overlap =>
        /\ \A n \in Nodes : loop[n] = "serve" \/ n \in capture => n \in Held
        /\ watch \subseteq Held \cup failed
        /\ server # None => client = None

(* A client whose connection has ended is not shown as connected, unless   *)
(* the callback came before the client was recorded.                       *)
DropsDeadClient ==
    Settled /\ ~overlap /\ ~early => (kind = "client" => loop[client] = "serve")

(* The file manager of the process is bound to the node in use             *)
(* (attachFiles: "binds a file transfer manager to the active node"), or   *)
(* to none, or to one that failed to start, unless the receive loop of an  *)
(* older client has detached it late.                                      *)
FilesAttached ==
    Settled /\ ~overlap /\ ~early /\ ~late =>
        IF Held = {} THEN sender \in failed \cup {None} ELSE sender \in Held

(* The callback of a client that is not the panel's changes nothing in the *)
(* panel: a stale callback cannot take down a newer node.                  *)
StaleCallbackHarmless ==
    [][\A n \in Nodes :
          loop[n] = "tell" /\ loop'[n] = "done" /\ ~overlap /\ n # client =>
              UNCHANGED <<kind, server, client>>]_vars
=============================================================================
