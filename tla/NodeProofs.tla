------------------------------ MODULE NodeProofs ------------------------------
(***************************************************************************)
(* Theorems about what a process decides under one mutex, for every number *)
(* of requests and nodes: types; nothing that runs is forgotten, no dead   *)
(* client is shown and the file manager follows the node in use, as long   *)
(* as requests come one at a time; and a stale callback changes nothing.   *)
(* The facts about the router are RouterProofs'.                           *)
(***************************************************************************)
EXTENDS MCNode, RouterProofs

-----------------------------------------------------------------------------
(* What the variables hold, whoever overlaps whom. *)
Typed ==
    /\ Panel!ControlAssumption
    /\ kind \in {"none", "server", "client"} /\ gen \in Nat
    /\ server \in Panel!Nodes \cup {Panel!None} /\ client \in Panel!Nodes \cup {Panel!None}
        /\ sender \in Panel!Nodes \cup {Panel!None}
    /\ (kind = "server" => server # Panel!None) /\ (kind = "client" => client # Panel!None)
    /\ conn \in [Panel!Nodes -> {"none", "open", "shut"}]
    /\ loop \in [Panel!Nodes -> {"none", "serve", "clean", "tell", "done"}]
    /\ stamp \in [Panel!Nodes -> Nat]
    /\ watch \subseteq Panel!Nodes /\ capture \subseteq Panel!Nodes /\ failed \subseteq Panel!Nodes
    /\ pc \in [Requests -> {"idle", "dial", "attach", "report", "install", "close"}]
    /\ node \in [Requests -> Panel!Nodes \cup {Panel!None}]
    /\ \A r \in Requests : pc[r] # "idle" => node[r] \in Panel!Nodes
    /\ asked \in 0 .. MaxNodes

(* A node that nobody has asked for has left no trace. *)
Unused ==
    \A n \in Panel!Nodes : n > asked =>
        /\ conn[n] = "none" /\ loop[n] = "none" /\ stamp[n] = 0
        /\ n \notin watch /\ n \notin capture
        /\ n # server /\ n # client
        /\ \A r \in Requests : node[r] # n

(* The generation of a callback names its client. *)
Stamped ==
    /\ \A n \in Panel!Nodes : stamp[n] <= gen
    /\ \A n, m \in Panel!Nodes : stamp[n] = stamp[m] /\ stamp[n] # 0 => n = m

(* Requests that do not overlap find the panel empty while they work. *)
Making(r) == pc[r] \in {"dial", "attach", "report", "install"}
Made(n)   == \E r \in Requests : pc[r] \in {"report", "install"} /\ node[r] = n

Alone ==
    ~overlap =>
        /\ \A r, q \in Requests : pc[r] # "idle" /\ pc[q] # "idle" => r = q
        /\ \A r \in Requests : pc[r] # "idle" => kind = "none"
        /\ kind # "server" => server = Panel!None
        /\ kind # "client" => client = Panel!None

Current ==
    ~overlap =>
        /\ kind = "client" => stamp[client] = gen /\ gen > 0 /\ conn[client] # "none"
        /\ kind = "server" => loop[server] = "none"
        /\ \A r \in Requests : Making(r) =>
              /\ stamp[node[r]] = gen /\ gen > 0
              /\ pc[r] # "dial" => conn[node[r]] # "none"
              /\ pc[r] # "install" => loop[node[r]] = "none"

(* Who captures, serves or watches belongs to the panel, to the request    *)
(* that makes it, or is on its way out.                                    *)
Owned ==
    ~overlap =>
        /\ \A n \in capture : n = server \/ \E r \in Requests : pc[r] = "close" /\ node[r] = n
        /\ \A n \in Panel!Nodes : loop[n] = "serve" =>
              n \in Panel!Held \/ conn[n] = "shut" \/ Made(n)
        /\ \A n \in watch : n \in Panel!Held \/ n \in failed \/ Made(n)
        /\ \A n \in Panel!Nodes : loop[n] \in {"tell", "done"} => n \notin watch

Alive == {"serve", "clean", "tell"}
Dropped ==
    ~overlap /\ ~early =>
        /\ kind = "client" => loop[client] \in Alive
        /\ \A r \in Requests : pc[r] = "install" => loop[node[r]] \in Alive

(* The send function follows the node until its loop has detached it. *)
Follows(n) ==
    /\ loop[n] \in {"none", "serve", "clean"} => sender = n
    /\ loop[n] = "tell" => sender = Panel!None

Sends ==
    ~overlap /\ ~early /\ ~late =>
        /\ sender = Panel!None \/ sender \in failed \/ sender \in Panel!Held \/ Made(sender)
        /\ kind = "server" => sender = server
        /\ kind = "client" => Follows(client)
        /\ \A r \in Requests : pc[r] \in {"report", "install"} => Follows(node[r])

-----------------------------------------------------------------------------
(* A request that begins finds every other at rest, or has overlapped it.  *)
LEMMA BeginsAlone ==
    ASSUME NEW r \in Requests, Panel!Begins(r)
    PROVE  pc[r] = "idle" /\ (~overlap' => ~overlap /\ \A q \in Requests : pc[q] = "idle")
BY Zenon DEF Panel!Begins

LEMMA NoneIsNoNode == Panel!None \notin Panel!Nodes /\ \A n \in Panel!Nodes : n \in Nat /\ n > 0
BY DEF Panel!None, Panel!Nodes

(* The next node. *)
LEMMA NewNodeIs ==
    ASSUME Typed, NEW r \in Requests, Panel!NewNode(r)
    PROVE  /\ asked + 1 \in Panel!Nodes /\ asked' = asked + 1 /\ asked' \in 0 .. MaxNodes
           /\ node' \in [Requests -> Panel!Nodes \cup {Panel!None}] /\ node'[r] = asked + 1
           /\ \A q \in Requests : q # r => node'[q] = node[q]
BY DEF Typed, Panel!ControlAssumption, Panel!NewNode, Panel!Nodes, Panel!None

LEMMA ClosedTyped == Typed => Panel!Closed \in [Panel!Nodes -> {"none", "open", "shut"}]
BY DEF Typed, Panel!Closed

LEMMA StartTyped ==
    ASSUME Typed, NEW r \in Requests,
           Panel!StartServer(r) \/ Panel!CaptureFails(r) \/ Panel!ListenFails(r) \/ Panel!ConnectClient(r)
               \/ Panel!StopNode(r)
    PROVE  Typed'
<1>0. Panel!Closed \in [Panel!Nodes -> {"none", "open", "shut"}] /\ pc[r] = "idle"
  BY ClosedTyped, BeginsAlone DEF Panel!StartServer, Panel!CaptureFails, Panel!ListenFails,
       Panel!ConnectClient, Panel!StopNode, Panel!RunServer
<1>1. CASE Panel!StartServer(r)
  <2>1. Panel!NewNode(r)
    BY <1>1 DEF Panel!StartServer, Panel!RunServer
  <2> QED BY <1>0, <1>1, <2>1, NewNodeIs, NoneIsNoNode DEF Panel!StartServer, Panel!RunServer, Typed, Panel!Held
<1>2. CASE Panel!CaptureFails(r)
  <2>1. Panel!NewNode(r)
    BY <1>2 DEF Panel!CaptureFails, Panel!RunServer
  <2> QED BY <1>0, <1>2, <2>1, NewNodeIs, NoneIsNoNode DEF Panel!CaptureFails, Panel!RunServer, Typed,
             Panel!NoNode
<1>3. CASE Panel!ListenFails(r)
  <2>1. Panel!NewNode(r)
    BY <1>3 DEF Panel!ListenFails, Panel!RunServer
  <2> QED BY <1>0, <1>3, <2>1, NewNodeIs, NoneIsNoNode DEF Panel!ListenFails, Panel!RunServer, Typed,
             Panel!NoNode, Panel!Goto
<1>4. CASE Panel!ConnectClient(r)
  <2>1. Panel!NewNode(r)
    BY <1>4 DEF Panel!ConnectClient
  <2> QED BY <1>0, <1>4, <2>1, NewNodeIs, NoneIsNoNode DEF Panel!ConnectClient, Panel!StopLocked, Typed,
             Panel!NoNode, Panel!Goto
<1>5. CASE Panel!StopNode(r)
  BY <1>0, <1>5, NoneIsNoNode DEF Panel!StopNode, Panel!StopLocked, Typed, Panel!NoNode
<1> QED BY <1>1, <1>2, <1>3, <1>4, <1>5

LEMMA MakeTyped ==
    ASSUME Typed, NEW r \in Requests,
           \/ Panel!CloseFailed(r) \/ Panel!Dial(r) \/ Panel!Attach(r) \/ Panel!SendLayout(r)
               \/ Panel!SendLayoutFails(r) \/ Panel!Install(r)
    PROVE  Typed'
<1>0. node[r] \in Panel!Nodes
  BY DEF Typed, Panel!CloseFailed, Panel!Dial, Panel!Attach, Panel!SendLayout, Panel!SendLayoutFails,
       Panel!Install
<1>1. CASE Panel!CloseFailed(r)
  BY <1>1, NoneIsNoNode DEF Panel!CloseFailed, Typed, Panel!Goto, Panel!panel, Panel!book
<1>2. CASE Panel!Dial(r)
  BY <1>0, <1>2 DEF Panel!Dial, Typed, Panel!Goto, Panel!panel
<1>3. CASE Panel!Attach(r)
  BY <1>0, <1>3 DEF Panel!Attach, Typed, Panel!Goto, Panel!panel, Panel!book
<1>4. CASE Panel!SendLayout(r)
  BY <1>0, <1>4 DEF Panel!SendLayout, Typed, Panel!Goto, Panel!panel, Panel!book
<1>5. CASE Panel!SendLayoutFails(r)
  BY <1>0, <1>5 DEF Panel!SendLayoutFails, Typed, Panel!Goto, Panel!panel, Panel!parts
<1>6. CASE Panel!Install(r)
  BY <1>0, <1>6, NoneIsNoNode DEF Panel!Install, Typed, Panel!Goto, Panel!parts, Panel!book
<1> QED BY <1>1, <1>2, <1>3, <1>4, <1>5, <1>6

LEMMA LoopTyped ==
    ASSUME Typed, NEW n \in Panel!Nodes, Panel!ConnEnds(n) \/ Panel!ServeReturns(n) \/ Panel!Cleanup(n)
        \/ Panel!OnClientDisconnected(n)
    PROVE  Typed'
<1>1. CASE Panel!ConnEnds(n)
  BY <1>1 DEF Panel!ConnEnds, Typed, Panel!panel, Panel!reqs, Panel!book
<1>2. CASE Panel!ServeReturns(n)
  BY <1>2 DEF Panel!ServeReturns, Typed, Panel!panel, Panel!reqs, Panel!book
<1>3. CASE Panel!Cleanup(n)
  BY <1>3 DEF Panel!Cleanup, Typed, Panel!panel, Panel!reqs
<1>4. CASE Panel!OnClientDisconnected(n)
  BY <1>4, NoneIsNoNode DEF Panel!OnClientDisconnected, Typed, Panel!reqs
<1> QED BY <1>1, <1>2, <1>3, <1>4

LEMMA TypedStep == Typed /\ [Panel!Next]_(Panel!vars) => Typed'
<1>1. Typed /\ UNCHANGED Panel!vars => Typed'
  BY DEF Typed, Panel!vars, Panel!panel, Panel!parts, Panel!reqs, Panel!book
<1> QED BY <1>1, StartTyped, MakeTyped, LoopTyped DEF Panel!Next

-----------------------------------------------------------------------------
(* Nodes are numbered in order, and no generation is given twice. *)
LEMMA UnusedStep == Typed /\ Unused /\ [Panel!Next]_(Panel!vars) => Unused'
<1> SUFFICES ASSUME Typed, Unused, [Panel!Next]_(Panel!vars) PROVE Unused'
  OBVIOUS
<1>1. ASSUME NEW r \in Requests, Panel!NewNode(r), UNCHANGED loop,
             \A n \in Panel!Nodes : n > asked + 1 => /\ conn'[n] = conn[n] /\ stamp'[n] = stamp[n]
                                                     /\ (n \in watch' => n \in watch)
                                                         /\ (n \in capture' => n \in capture)
                                                     /\ n # server' /\ n # client'
      PROVE  Unused'
  BY <1>1, NewNodeIs DEF Unused, Typed, Panel!Nodes
<1>2. ASSUME asked' = asked, node' = node,
             \A n \in Panel!Nodes : n > asked => /\ conn'[n] = conn[n] /\ loop'[n] = loop[n] /\ stamp'[n] = stamp[n]
                                                 /\ (n \in watch' => n \in watch)
                                                     /\ (n \in capture' => n \in capture)
                                                 /\ n # server' /\ n # client'
      PROVE  Unused'
  BY <1>2 DEF Unused
<1>3. \A n \in Panel!Nodes : n > asked => Panel!Closed[n] = conn[n]
  BY DEF Unused, Panel!Closed
<1>4. \A n \in Panel!Nodes : n > asked + 1 => n > asked /\ n # asked + 1
  BY DEF Typed, Panel!Nodes
<1>5. ASSUME NEW r \in Requests, Panel!StartServer(r) \/ Panel!CaptureFails(r) \/ Panel!ListenFails(r)
           \/ Panel!ConnectClient(r)
      PROVE  Unused'
  <2>0. Panel!NewNode(r) /\ UNCHANGED loop
    BY <1>5 DEF Panel!StartServer, Panel!CaptureFails, Panel!ListenFails, Panel!ConnectClient, Panel!RunServer
  <2>1. CASE Panel!StartServer(r)
    <3>1. \A n \in Panel!Nodes : n > asked + 1 => /\ conn'[n] = conn[n] /\ stamp'[n] = stamp[n]
                                                     /\ (n \in watch' => n \in watch)
                                                         /\ (n \in capture' => n \in capture)
                                                     /\ n # server' /\ n # client'
      BY <1>3, <1>4, <2>1, NoneIsNoNode DEF Panel!StartServer, Panel!RunServer, Panel!Closed
    <3> QED BY <1>1, <2>0, <3>1
  <2>2. CASE Panel!CaptureFails(r) \/ Panel!ListenFails(r)
    <3>1. \A n \in Panel!Nodes : n > asked + 1 => /\ conn'[n] = conn[n] /\ stamp'[n] = stamp[n]
                                                     /\ (n \in watch' => n \in watch)
                                                         /\ (n \in capture' => n \in capture)
                                                     /\ n # server' /\ n # client'
      BY <1>3, <1>4, <2>2, NoneIsNoNode DEF Panel!CaptureFails, Panel!ListenFails, Panel!RunServer,
           Panel!NoNode
    <3> QED BY <1>1, <2>0, <3>1
  <2>3. CASE Panel!ConnectClient(r)
    <3>1. \A n \in Panel!Nodes : n > asked + 1 => /\ conn'[n] = conn[n] /\ stamp'[n] = stamp[n]
                                                     /\ (n \in watch' => n \in watch)
                                                         /\ (n \in capture' => n \in capture)
                                                     /\ n # server' /\ n # client'
      BY <1>3, <1>4, <2>3, NoneIsNoNode DEF Panel!ConnectClient, Panel!StopLocked, Panel!NoNode, Typed
    <3> QED BY <1>1, <2>0, <3>1
  <2> QED BY <1>5, <2>1, <2>2, <2>3
<1>6. ASSUME NEW r \in Requests, Panel!StopNode(r) PROVE Unused'
  BY <1>2, <1>3, <1>6, NoneIsNoNode DEF Panel!StopNode, Panel!StopLocked, Panel!NoNode
<1>7. ASSUME NEW r \in Requests,
             Panel!CloseFailed(r) \/ Panel!Dial(r) \/ Panel!Attach(r) \/ Panel!SendLayout(r)
                 \/ Panel!SendLayoutFails(r) \/ Panel!Install(r)
      PROVE  Unused'
  <2>1. \A n \in Panel!Nodes : n > asked => n # node[r]
    BY DEF Unused
  <2>2. asked' = asked /\ node' = node
    BY <1>7 DEF Panel!CloseFailed, Panel!Dial, Panel!Attach, Panel!SendLayout, Panel!SendLayoutFails,
         Panel!Install
  <2>3. \A n \in Panel!Nodes : n > asked => /\ conn'[n] = conn[n] /\ loop'[n] = loop[n] /\ stamp'[n] = stamp[n]
                                            /\ (n \in watch' => n \in watch)
                                                /\ (n \in capture' => n \in capture)
                                            /\ n # server' /\ n # client'
    BY <1>7, <2>1 DEF Panel!CloseFailed, Panel!Dial, Panel!Attach, Panel!SendLayout, Panel!SendLayoutFails,
         Panel!Install, Panel!panel, Panel!parts, Typed, Unused
  <2> QED BY <1>2, <2>2, <2>3
<1>8. ASSUME NEW m \in Panel!Nodes, Panel!ConnEnds(m) \/ Panel!ServeReturns(m) \/ Panel!Cleanup(m)
           \/ Panel!OnClientDisconnected(m)
      PROVE  Unused'
  <2>1. asked' = asked /\ node' = node
    BY <1>8 DEF Panel!ConnEnds, Panel!ServeReturns, Panel!Cleanup, Panel!OnClientDisconnected, Panel!reqs
  <2>2. ~(m > asked)
    BY <1>8 DEF Panel!ConnEnds, Panel!ServeReturns, Panel!Cleanup, Panel!OnClientDisconnected, Unused
  <2>3. \A n \in Panel!Nodes : n > asked => /\ conn'[n] = conn[n] /\ loop'[n] = loop[n] /\ stamp'[n] = stamp[n]
                                            /\ (n \in watch' => n \in watch)
                                                /\ (n \in capture' => n \in capture)
                                            /\ n # server' /\ n # client'
    BY <1>8, <2>2, NoneIsNoNode DEF Panel!ConnEnds, Panel!ServeReturns, Panel!Cleanup,
         Panel!OnClientDisconnected, Panel!panel, Typed, Unused
  <2> QED BY <1>2, <2>1, <2>3
<1>9. CASE UNCHANGED Panel!vars
  BY <1>2, <1>9 DEF Panel!vars, Panel!panel, Panel!parts, Panel!reqs, Unused
<1> QED BY <1>5, <1>6, <1>7, <1>8, <1>9 DEF Panel!Next

LEMMA StampedStep == Typed /\ Unused /\ Stamped /\ [Panel!Next]_(Panel!vars) => Stamped'
<1> SUFFICES ASSUME Typed, Unused, Stamped, [Panel!Next]_(Panel!vars) PROVE Stamped'
  OBVIOUS
<1>0. gen \in Nat /\ stamp \in [Panel!Nodes -> Nat]
  BY DEF Typed
<1>1. ASSUME NEW r \in Requests, Panel!ConnectClient(r) PROVE Stamped'
  <2>1. Panel!NewNode(r)
    BY <1>1 DEF Panel!ConnectClient
  <2>2. asked + 1 \in Panel!Nodes
    BY <2>1, NewNodeIs
  <2>3. gen' = gen + 1 /\ stamp' = [stamp EXCEPT ![asked + 1] = gen + 1]
    BY <1>1 DEF Panel!ConnectClient
  <2> QED BY <1>0, <2>2, <2>3 DEF Stamped
<1>2. ASSUME stamp' = stamp, gen' = gen \/ gen' = gen + 1 PROVE Stamped'
  BY <1>0, <1>2 DEF Stamped
<1>3. (\A r \in Requests : ~Panel!ConnectClient(r)) => stamp' = stamp /\ (gen' = gen \/ gen' = gen + 1)
  BY DEF Panel!Next, Panel!StartServer, Panel!CaptureFails, Panel!ListenFails, Panel!RunServer,
       Panel!CloseFailed, Panel!Dial, Panel!Attach, Panel!SendLayout,
         Panel!SendLayoutFails, Panel!Install, Panel!StopNode, Panel!ConnEnds, Panel!ServeReturns,
         Panel!Cleanup, Panel!OnClientDisconnected,
         Panel!vars, Panel!panel, Panel!parts
<1> QED BY <1>1, <1>2, <1>3

-----------------------------------------------------------------------------
(* While requests do not overlap. *)
LEMMA OverlapBefore ==
    ASSUME [Panel!Next]_(Panel!vars), ~overlap'
    PROVE  ~overlap
BY Zenon DEF Panel!Next, Panel!StartServer, Panel!CaptureFails, Panel!ListenFails, Panel!RunServer,
    Panel!ConnectClient, Panel!StopNode, Panel!Begins, Panel!CloseFailed, Panel!Dial,
    Panel!Attach, Panel!SendLayout, Panel!SendLayoutFails, Panel!Install, Panel!ConnEnds,
    Panel!ServeReturns, Panel!Cleanup, Panel!OnClientDisconnected, Panel!vars, Panel!book

LEMMA AloneStep == Typed /\ Alone /\ [Panel!Next]_(Panel!vars) => Alone'
<1> SUFFICES ASSUME Typed, Alone, [Panel!Next]_(Panel!vars), ~overlap' PROVE Alone'
  BY DEF Alone
<1>0. ~overlap
  BY OverlapBefore
<1>1. ASSUME NEW r \in Requests, Panel!StartServer(r) \/ Panel!CaptureFails(r) \/ Panel!ListenFails(r)
           \/ Panel!ConnectClient(r) \/ Panel!StopNode(r)
      PROVE  Alone'
  <2>1. Panel!Begins(r)
    BY <1>1 DEF Panel!StartServer, Panel!CaptureFails, Panel!ListenFails, Panel!RunServer,
         Panel!ConnectClient, Panel!StopNode
  <2>2. \A q \in Requests : pc[q] = "idle"
    BY <2>1, BeginsAlone
  <2>3. \A q \in Requests : q # r => pc'[q] = "idle"
    BY <1>1, <2>2 DEF Panel!StartServer, Panel!CaptureFails, Panel!ListenFails, Panel!ConnectClient,
         Panel!StopNode, Panel!Goto, Typed
  <2>4. \/ kind' = "none" /\ server' = Panel!None /\ client' = Panel!None
        \/ kind' = "server" /\ client' = Panel!None /\ pc' = pc
    BY <1>1 DEF Panel!StartServer, Panel!CaptureFails, Panel!ListenFails, Panel!ConnectClient,
         Panel!StopNode, Panel!StopLocked, Panel!NoNode
  <2> QED BY <2>2, <2>3, <2>4 DEF Alone
<1>2. ASSUME NEW r \in Requests,
             Panel!CloseFailed(r) \/ Panel!Dial(r) \/ Panel!Attach(r) \/ Panel!SendLayout(r)
                 \/ Panel!SendLayoutFails(r) \/ Panel!Install(r)
      PROVE  Alone'
  <2>1. /\ pc[r] # "idle" /\ kind = "none" /\ server = Panel!None /\ client = Panel!None
        /\ \A q \in Requests : q # r => pc[q] = "idle"
    BY <1>0, <1>2 DEF Alone, Panel!CloseFailed, Panel!Dial, Panel!Attach, Panel!SendLayout,
         Panel!SendLayoutFails, Panel!Install
  <2>2. \A q \in Requests : q # r => pc'[q] = "idle"
    BY <1>2, <2>1 DEF Panel!CloseFailed, Panel!Dial, Panel!Attach, Panel!SendLayout, Panel!SendLayoutFails,
         Panel!Install, Panel!Goto, Typed
  <2>3. \/ kind' = "none" /\ server' = Panel!None /\ client' = Panel!None
        \/ kind' = "client" /\ server' = Panel!None /\ pc'[r] = "idle"
    BY <1>2, <2>1 DEF Panel!CloseFailed, Panel!Dial, Panel!Attach, Panel!SendLayout, Panel!SendLayoutFails,
         Panel!Install, Panel!panel, Panel!Goto, Typed
  <2> QED BY <2>1, <2>2, <2>3 DEF Alone
<1>3. ASSUME NEW n \in Panel!Nodes, Panel!ConnEnds(n) \/ Panel!ServeReturns(n) \/ Panel!Cleanup(n)
           \/ Panel!OnClientDisconnected(n)
      PROVE  Alone'
  <2>1. pc' = pc
    BY <1>3 DEF Panel!ConnEnds, Panel!ServeReturns, Panel!Cleanup, Panel!OnClientDisconnected, Panel!reqs
  <2>2. \/ UNCHANGED <<kind, server, client>>
        \/ kind = "client" /\ kind' = "none" /\ client' = Panel!None /\ server' = server
    BY <1>3 DEF Panel!ConnEnds, Panel!ServeReturns, Panel!Cleanup, Panel!OnClientDisconnected, Panel!panel
  <2> QED BY <1>0, <2>1, <2>2 DEF Alone
<1>4. CASE UNCHANGED Panel!vars
  BY <1>0, <1>4 DEF Panel!vars, Panel!panel, Panel!reqs, Panel!book, Alone
<1> QED BY <1>1, <1>2, <1>3, <1>4 DEF Panel!Next

(* The callback of a client that is not the panel's finds a generation     *)
(* that is not its own.                                                    *)
LEMMA OwnCallback ==
    ASSUME Typed, Stamped, Current, ~overlap, NEW n \in Panel!Nodes, Panel!OnClientDisconnected(n)
    PROVE  /\ n # client \/ kind # "client" => UNCHANGED <<kind, server, client, gen>>
           /\ n = client /\ kind = "client" => kind' = "none" /\ client' = Panel!None /\ server' = server
<1>1. kind = "client" => client \in Panel!Nodes /\ stamp[client] = gen /\ gen > 0
  BY DEF Typed, Current
<1>2. kind = "client" /\ gen = stamp[n] => n = client
  BY <1>1 DEF Stamped
<1> QED BY <1>1, <1>2 DEF Panel!OnClientDisconnected

LEMMA CurrentStep == Typed /\ Unused /\ Stamped /\ Alone /\ Current /\ [Panel!Next]_(Panel!vars) => Current'
<1> SUFFICES ASSUME Typed, Unused, Stamped, Alone, Current, [Panel!Next]_(Panel!vars), ~overlap' PROVE Current'
  BY DEF Current
<1>0. ~overlap /\ gen \in Nat
  BY OverlapBefore DEF Typed
<1>1. ASSUME NEW r \in Requests, Panel!StartServer(r) \/ Panel!CaptureFails(r) \/ Panel!ListenFails(r)
           \/ Panel!ConnectClient(r) \/ Panel!StopNode(r)
      PROVE  Current'
  <2>1. \A q \in Requests : pc[q] = "idle"
    BY <1>1, BeginsAlone DEF Panel!StartServer, Panel!CaptureFails, Panel!ListenFails, Panel!RunServer,
         Panel!ConnectClient, Panel!StopNode
  <2>2. CASE Panel!StartServer(r)
    <3>1. asked + 1 \in Panel!Nodes
      BY <2>2, NewNodeIs DEF Panel!StartServer, Panel!RunServer
    <3>2. loop[asked + 1] = "none"
      BY <3>1 DEF Unused, Typed
    <3> QED BY <2>1, <2>2, <3>2 DEF Panel!StartServer, Current, Making
  <2>3. CASE Panel!CaptureFails(r) \/ Panel!StopNode(r)
    BY <2>1, <2>3 DEF Panel!CaptureFails, Panel!StopNode, Panel!StopLocked, Panel!NoNode, Current, Making
  <2>4. CASE Panel!ListenFails(r)
    <3>1. pc'[r] = "close" /\ \A q \in Requests : q # r => pc'[q] = "idle"
      BY <2>1, <2>4 DEF Panel!ListenFails, Panel!Goto, Typed
    <3> QED BY <2>4, <3>1 DEF Panel!ListenFails, Panel!NoNode, Current, Making
  <2>5. CASE Panel!ConnectClient(r)
    <3>1. pc'[r] = "dial" /\ \A q \in Requests : q # r => pc'[q] = "idle"
      BY <2>1, <2>5 DEF Panel!ConnectClient, Panel!Goto, Typed
    <3>2. Panel!NewNode(r)
      BY <2>5 DEF Panel!ConnectClient
    <3>3. asked + 1 \in Panel!Nodes /\ node'[r] = asked + 1
      BY <3>2, NewNodeIs
    <3>4. stamp' = [stamp EXCEPT ![asked + 1] = gen + 1] /\ gen' = gen + 1 /\ loop' = loop /\ kind' = "none"
      BY <2>5 DEF Panel!ConnectClient, Panel!StopLocked, Panel!NoNode
    <3>5. stamp'[node'[r]] = gen' /\ gen' > 0 /\ loop'[node'[r]] = "none"
      BY <1>0, <3>3, <3>4 DEF Typed, Unused
    <3> QED BY <3>1, <3>4, <3>5 DEF Current, Making
  <2> QED BY <1>1, <2>2, <2>3, <2>4, <2>5
<1>2. ASSUME NEW r \in Requests,
             Panel!CloseFailed(r) \/ Panel!Dial(r) \/ Panel!Attach(r) \/ Panel!SendLayout(r)
                 \/ Panel!SendLayoutFails(r) \/ Panel!Install(r)
      PROVE  Current'
  <2>1. /\ pc[r] # "idle" /\ kind = "none" /\ node[r] \in Panel!Nodes
        /\ \A q \in Requests : q # r => pc[q] = "idle"
    BY <1>0, <1>2 DEF Alone, Typed, Panel!CloseFailed, Panel!Dial, Panel!Attach, Panel!SendLayout,
         Panel!SendLayoutFails, Panel!Install
  <2>2. \A q \in Requests : q # r => pc'[q] = "idle"
    BY <1>2, <2>1 DEF Panel!CloseFailed, Panel!Dial, Panel!Attach, Panel!SendLayout, Panel!SendLayoutFails,
         Panel!Install, Panel!Goto, Typed
  <2>3. gen' = gen /\ stamp' = stamp /\ node' = node
    BY <1>2 DEF Panel!CloseFailed, Panel!Dial, Panel!Attach, Panel!SendLayout, Panel!SendLayoutFails,
         Panel!Install, Panel!panel, Panel!parts
  <2>4. Making(r) => stamp[node[r]] = gen /\ gen > 0 /\ (pc[r] # "dial" => conn[node[r]] # "none")
                     /\ (pc[r] # "install" => loop[node[r]] = "none")
    BY <1>0 DEF Current
  <2>5. CASE Panel!CloseFailed(r) \/ Panel!SendLayoutFails(r)
    <3>1. pc'[r] = "idle" /\ kind' = kind
      BY <2>5 DEF Panel!CloseFailed, Panel!SendLayoutFails, Panel!Goto, Typed, Panel!panel
    <3> QED BY <2>1, <2>2, <3>1 DEF Current, Making
  <2>6. CASE Panel!Dial(r)
    <3>1. kind' = kind /\ loop' = loop /\ Making(r)
      BY <2>6 DEF Panel!Dial, Panel!panel, Making
    <3>2. \/ pc'[r] = "idle"
          \/ pc'[r] = "attach" /\ conn'[node[r]] = "open"
      BY <2>1, <2>6 DEF Panel!Dial, Panel!Goto, Typed
    <3> QED BY <2>1, <2>2, <2>3, <2>4, <2>6, <3>1, <3>2 DEF Current, Making, Panel!Dial
  <2>7. CASE Panel!Attach(r)
    <3>1. kind' = kind /\ loop' = loop /\ conn' = conn /\ pc'[r] = "report" /\ pc[r] = "attach"
      BY <2>7 DEF Panel!Attach, Panel!panel, Panel!Goto, Typed
    <3> QED BY <2>1, <2>2, <2>3, <2>4, <3>1 DEF Current, Making
  <2>8. CASE Panel!SendLayout(r)
    <3>1. kind' = kind /\ conn' = conn /\ pc'[r] = "install" /\ pc[r] = "report"
      BY <2>8 DEF Panel!SendLayout, Panel!panel, Panel!Goto, Typed
    <3> QED BY <2>1, <2>2, <2>3, <2>4, <3>1 DEF Current, Making
  <2>9. CASE Panel!Install(r)
    <3>1. kind' = "client" /\ client' = node[r] /\ conn' = conn /\ pc'[r] = "idle" /\ pc[r] = "install"
      BY <2>9 DEF Panel!Install, Panel!parts, Panel!Goto, Typed
    <3> QED BY <2>2, <2>3, <2>4, <3>1 DEF Current, Making
  <2> QED BY <1>2, <2>5, <2>6, <2>7, <2>8, <2>9
<1>3. ASSUME NEW n \in Panel!Nodes, Panel!ConnEnds(n) \/ Panel!ServeReturns(n) \/ Panel!Cleanup(n)
           \/ Panel!OnClientDisconnected(n)
      PROVE  Current'
  <2>1. UNCHANGED <<pc, node, stamp>> /\ \A m \in Panel!Nodes : conn[m] # "none" => conn'[m] # "none"
    BY <1>3 DEF Panel!ConnEnds, Panel!ServeReturns, Panel!Cleanup, Panel!OnClientDisconnected, Panel!reqs,
         Typed
  <2>2. \A m \in Panel!Nodes : loop[m] = "none" => loop'[m] = "none"
    BY <1>3 DEF Panel!ConnEnds, Panel!ServeReturns, Panel!Cleanup, Panel!OnClientDisconnected, Typed
  <2>3. \/ UNCHANGED <<kind, server, client, gen>>
        \/ kind = "client" /\ kind' = "none"
    BY <1>0, <1>3, OwnCallback DEF Panel!ConnEnds, Panel!ServeReturns, Panel!Cleanup, Panel!panel
  <2>4. kind = "client" => \A r \in Requests : ~Making(r)
    BY <1>0 DEF Alone, Making
  <2>5. \A r \in Requests : Making(r) => node[r] \in Panel!Nodes
    BY DEF Typed, Making
  <2>6. (kind = "client" => client \in Panel!Nodes) /\ (kind = "server" => server \in Panel!Nodes)
    BY DEF Typed
  <2>7. CASE UNCHANGED <<kind, server, client, gen>>
    BY <1>0, <2>1, <2>2, <2>5, <2>6, <2>7 DEF Current, Making
  <2>8. CASE kind = "client" /\ kind' = "none"
    BY <2>1, <2>4, <2>8 DEF Current, Making
  <2> QED BY <2>3, <2>7, <2>8
<1>4. CASE UNCHANGED Panel!vars
  BY <1>0, <1>4 DEF Panel!vars, Panel!panel, Panel!parts, Panel!reqs, Panel!book, Current, Making
<1> QED BY <1>1, <1>2, <1>3, <1>4 DEF Panel!Next

-----------------------------------------------------------------------------
(* A receive loop tells early or detaches late for good. *)
LEMMA NoticedBefore ==
    ASSUME [Panel!Next]_(Panel!vars)
    PROVE  /\ ~early' => ~early
           /\ ~late' => ~late
<1>1. \/ early' = early /\ late' = late
      \/ \E n \in Panel!Nodes : Panel!Cleanup(n) \/ Panel!OnClientDisconnected(n)
  BY DEF Panel!Next, Panel!StartServer, Panel!CaptureFails, Panel!ListenFails, Panel!ConnectClient,
       Panel!StopNode, Panel!CloseFailed, Panel!Dial, Panel!Attach,
         Panel!SendLayout, Panel!SendLayoutFails, Panel!Install, Panel!ConnEnds, Panel!ServeReturns,
         Panel!vars, Panel!book
<1>2. ASSUME NEW n \in Panel!Nodes, Panel!Cleanup(n) PROVE early' = early /\ (~late' => ~late)
  <2>1. early' = early
    BY <1>2 DEF Panel!Cleanup
  <2>2. ~late' => ~late
    BY Zenon, <1>2 DEF Panel!Cleanup
  <2> QED BY <2>1, <2>2
<1>3. ASSUME NEW n \in Panel!Nodes, Panel!OnClientDisconnected(n) PROVE late' = late /\ (~early' => ~early)
  <2>1. late' = late
    BY <1>3 DEF Panel!OnClientDisconnected
  <2>2. ~early' => ~early
    BY Zenon, <1>3 DEF Panel!OnClientDisconnected
  <2> QED BY <2>1, <2>2
<1> QED BY Zenon, <1>1, <1>2, <1>3

LEMMA ToldInTime ==
    ASSUME NEW n \in Panel!Nodes, Panel!OnClientDisconnected(n), ~early'
    PROVE  Panel!Recorded(n)
BY Zenon DEF Panel!OnClientDisconnected

LEMMA DetachedInTime ==
    ASSUME NEW n \in Panel!Nodes, Panel!Cleanup(n), ~late'
    PROVE  sender \in {n, Panel!None}
BY Zenon DEF Panel!Cleanup

(* What holds of the other requests while one works. *)
LEMMA Working ==
    ASSUME Typed, Alone, ~overlap, NEW r \in Requests,
           Panel!CloseFailed(r) \/ Panel!Dial(r) \/ Panel!Attach(r) \/ Panel!SendLayout(r)
               \/ Panel!SendLayoutFails(r) \/ Panel!Install(r)
    PROVE  /\ pc[r] # "idle" /\ kind = "none" /\ Panel!Held = {} /\ node[r] \in Panel!Nodes /\ node' = node
           /\ \A q \in Requests : q # r => pc[q] = "idle" /\ pc'[q] = "idle"
           /\ \A n \in Panel!Nodes : Made(n) => n = node[r] /\ pc[r] \in {"report", "install"}
<1>1. pc[r] # "idle" /\ node' = node
  BY DEF Panel!CloseFailed, Panel!Dial, Panel!Attach, Panel!SendLayout, Panel!SendLayoutFails, Panel!Install
<1>2. kind = "none" /\ Panel!Held = {} /\ node[r] \in Panel!Nodes /\ \A q \in Requests : q # r => pc[q] = "idle"
  BY <1>1 DEF Typed, Alone, Panel!Held
<1>3. \A q \in Requests : q # r => pc'[q] = "idle"
  BY <1>2 DEF Panel!CloseFailed, Panel!Dial, Panel!Attach, Panel!SendLayout, Panel!SendLayoutFails,
       Panel!Install, Panel!Goto, Typed
<1>4. \A n \in Panel!Nodes : Made(n) => n = node[r] /\ pc[r] \in {"report", "install"}
  BY <1>2 DEF Made
<1> QED BY <1>1, <1>2, <1>3, <1>4

LEMMA DroppedStep == Typed /\ Alone /\ Stamped /\ Current /\ Dropped /\ [Panel!Next]_(Panel!vars) => Dropped'
<1> SUFFICES ASSUME Typed, Alone, Stamped, Current, Dropped, [Panel!Next]_(Panel!vars), ~overlap',
           ~early' PROVE Dropped'
  BY DEF Dropped
<1>0. ~overlap /\ ~early
  BY OverlapBefore, NoticedBefore
<1>1. ASSUME NEW r \in Requests, Panel!StartServer(r) \/ Panel!CaptureFails(r) \/ Panel!ListenFails(r)
           \/ Panel!ConnectClient(r) \/ Panel!StopNode(r)
      PROVE  Dropped'
  <2>1. \A q \in Requests : pc[q] = "idle"
    BY <1>1, BeginsAlone DEF Panel!StartServer, Panel!CaptureFails, Panel!ListenFails, Panel!RunServer,
         Panel!ConnectClient, Panel!StopNode
  <2>2. \A q \in Requests : pc'[q] # "install"
    BY <1>1, <2>1 DEF Panel!StartServer, Panel!CaptureFails, Panel!ListenFails, Panel!ConnectClient,
         Panel!StopNode, Panel!Goto, Typed
  <2>3. kind' # "client"
    BY <1>1 DEF Panel!StartServer, Panel!CaptureFails, Panel!ListenFails, Panel!ConnectClient,
         Panel!StopNode, Panel!StopLocked, Panel!NoNode
  <2> QED BY <2>2, <2>3 DEF Dropped
<1>2. ASSUME NEW r \in Requests,
             Panel!CloseFailed(r) \/ Panel!Dial(r) \/ Panel!Attach(r) \/ Panel!SendLayout(r)
                 \/ Panel!SendLayoutFails(r) \/ Panel!Install(r)
      PROVE  Dropped'
  <2>1. /\ kind = "none" /\ node[r] \in Panel!Nodes /\ node' = node
        /\ \A q \in Requests : q # r => pc'[q] = "idle"
    BY <1>0, <1>2, Working
  <2>2. CASE Panel!Install(r)
    <3>1. loop' = loop /\ client' = node[r] /\ pc[r] = "install" /\ pc'[r] = "idle"
      BY <2>2 DEF Panel!Install, Panel!parts, Panel!Goto, Typed
    <3> QED BY <1>0, <2>1, <3>1 DEF Dropped
  <2>3. CASE Panel!SendLayout(r)
    <3>1. kind' = kind /\ loop'[node[r]] = "serve"
      BY <2>1, <2>3 DEF Panel!SendLayout, Panel!panel, Typed
    <3> QED BY <2>1, <3>1 DEF Dropped, Alive
  <2>4. CASE Panel!CloseFailed(r) \/ Panel!Dial(r) \/ Panel!Attach(r) \/ Panel!SendLayoutFails(r)
    <3>1. kind' = kind /\ pc'[r] # "install"
      BY <2>4 DEF Panel!CloseFailed, Panel!Dial, Panel!Attach, Panel!SendLayoutFails, Panel!panel,
           Panel!Goto, Typed
    <3> QED BY <2>1, <3>1 DEF Dropped
  <2> QED BY <1>2, <2>2, <2>3, <2>4
<1>3. ASSUME NEW n \in Panel!Nodes, Panel!ConnEnds(n) \/ Panel!ServeReturns(n) \/ Panel!Cleanup(n)
      PROVE  Dropped'
  <2>1. UNCHANGED <<kind, client, pc, node>>
    BY <1>3 DEF Panel!ConnEnds, Panel!ServeReturns, Panel!Cleanup, Panel!panel, Panel!reqs
  <2>2. \A m \in Panel!Nodes : loop[m] \in Alive => loop'[m] \in Alive
    BY <1>3 DEF Panel!ConnEnds, Panel!ServeReturns, Panel!Cleanup, Alive, Typed
  <2>3. (kind = "client" => client \in Panel!Nodes)
             /\ \A r \in Requests : pc[r] = "install" => node[r] \in Panel!Nodes
    BY DEF Typed
  <2> QED BY <1>0, <2>1, <2>2, <2>3 DEF Dropped
<1>4. ASSUME NEW n \in Panel!Nodes, Panel!OnClientDisconnected(n)
      PROVE  Dropped'
  <2>1. UNCHANGED <<pc, node>> /\ \A m \in Panel!Nodes : m # n => loop'[m] = loop[m]
    BY <1>4 DEF Panel!OnClientDisconnected, Panel!reqs, Typed
  <2>2. \A r \in Requests : pc[r] = "install" => node[r] # n /\ node[r] \in Panel!Nodes
    BY <1>4, ToldInTime DEF Panel!Recorded, Typed
  <2>3. kind' = "client" => kind = "client" /\ client' = client /\ client # n /\ client \in Panel!Nodes
    BY <1>0, <1>4, OwnCallback DEF Typed
  <2> QED BY <1>0, <2>1, <2>2, <2>3 DEF Dropped
<1>5. CASE UNCHANGED Panel!vars
  BY <1>0, <1>5 DEF Panel!vars, Panel!panel, Panel!parts, Panel!reqs, Panel!book, Dropped
<1> QED BY <1>1, <1>2, <1>3, <1>4, <1>5 DEF Panel!Next

-----------------------------------------------------------------------------
(* What stopLocked leaves when it finds no request at work: nobody who     *)
(* captures, no open connection that is served.                            *)
LEMMA StopLockedClears ==
    ASSUME Typed, Alone, Current, Owned, ~overlap, \A q \in Requests : pc[q] = "idle"
    PROVE  /\ capture \ Panel!Held = {} /\ watch \ Panel!Held \subseteq failed
           /\ \A n \in Panel!Nodes : loop[n] = "serve" => Panel!Closed[n] = "shut"
<1>1. \A n \in capture : n = server /\ n \in Panel!Nodes
  BY DEF Owned, Typed
<1>2. \A n \in capture : n \in Panel!Held
  BY <1>1, NoneIsNoNode DEF Panel!Held
<1>3. \A n \in Panel!Nodes : ~Made(n)
  BY DEF Made
<1>4. watch \ Panel!Held \subseteq failed
  BY <1>3 DEF Owned, Typed
<1>5. ASSUME NEW n \in Panel!Nodes, loop[n] = "serve" PROVE Panel!Closed[n] = "shut"
  <2>1. CASE n \in Panel!Held
    <3>1. kind = "client" /\ n = client
      BY <1>5, <2>1 DEF Panel!Held, Alone, Current
    <3>2. conn[n] \in {"open", "shut"}
      BY <3>1 DEF Current, Typed
    <3> QED BY <2>1, <3>2 DEF Panel!Closed
  <2>2. CASE n \notin Panel!Held
    <3>1. conn[n] = "shut"
      BY <1>3, <1>5, <2>2 DEF Owned
    <3> QED BY <2>2, <3>1 DEF Panel!Closed
  <2> QED BY <2>1, <2>2
<1> QED BY <1>2, <1>4, <1>5

LEMMA OwnedStart ==
    ASSUME Typed, Unused, Alone, Current, Owned, ~overlap, NEW r \in Requests,
           Panel!StartServer(r) \/ Panel!CaptureFails(r) \/ Panel!ListenFails(r) \/ Panel!ConnectClient(r)
               \/ Panel!StopNode(r), ~overlap'
    PROVE  Owned'
<1>0. \A q \in Requests : pc[q] = "idle"
  BY BeginsAlone DEF Panel!StartServer, Panel!CaptureFails, Panel!ListenFails, Panel!RunServer,
       Panel!ConnectClient, Panel!StopNode
<1>1. /\ capture \ Panel!Held = {} /\ watch \ Panel!Held \subseteq failed
      /\ \A n \in Panel!Nodes : loop[n] = "serve" => Panel!Closed[n] = "shut"
  BY <1>0, StopLockedClears
<1>2. \A n \in Panel!Nodes : loop[n] \in {"tell", "done"} => n \notin watch
  BY DEF Owned
<1>3. CASE Panel!StartServer(r)
  <2>1. Panel!NewNode(r) /\ \A n \in capture' : n \in (capture \ Panel!Held) \cup {asked + 1}
    BY <1>3 DEF Panel!StartServer, Panel!RunServer
  <2>2. asked + 1 \in Panel!Nodes /\ loop[asked + 1] = "none"
    BY <2>1, NewNodeIs DEF Unused, Typed
  <2>3. server' = asked + 1 /\ asked + 1 \in Panel!Held'
    BY <1>3, <2>2, NoneIsNoNode DEF Panel!StartServer, Panel!Held
  <2>4. /\ watch' = (watch \ Panel!Held) \cup {asked + 1} /\ loop' = loop /\ failed' = failed
        /\ conn' = [Panel!Closed EXCEPT ![asked + 1] = "open"]
    BY <1>3 DEF Panel!StartServer, Panel!RunServer
  <2>5. \A n \in Panel!Nodes : loop[n] = "serve" => conn'[n] = "shut"
    BY <1>1, <2>2, <2>4, ClosedTyped
  <2> QED BY <1>1, <1>2, <2>1, <2>2, <2>3, <2>4, <2>5 DEF Owned
<1>4. CASE Panel!CaptureFails(r)
  <2>1. Panel!NewNode(r)
    BY <1>4 DEF Panel!CaptureFails, Panel!RunServer
  <2>2. asked + 1 \in Panel!Nodes /\ loop[asked + 1] = "none"
    BY <2>1, NewNodeIs DEF Unused, Typed
  <2>3. /\ capture' = (capture \ Panel!Held) \cup {} /\ watch' = (watch \ Panel!Held) \cup {asked + 1}
        /\ loop' = loop /\ conn' = Panel!Closed /\ failed' = failed \cup {asked + 1}
    BY <1>4 DEF Panel!CaptureFails, Panel!RunServer
  <2> QED BY <1>1, <1>2, <2>2, <2>3 DEF Owned
<1>5. CASE Panel!ListenFails(r)
  <2>1. Panel!NewNode(r) /\ \A n \in capture' : n \in (capture \ Panel!Held) \cup {asked + 1}
    BY <1>5 DEF Panel!ListenFails, Panel!RunServer
  <2>2. asked + 1 \in Panel!Nodes /\ loop[asked + 1] = "none" /\ node'[r] = asked + 1
    BY <2>1, NewNodeIs DEF Unused, Typed
  <2>3. pc'[r] = "close"
    BY <1>5 DEF Panel!ListenFails, Panel!Goto, Typed
  <2>4. /\ watch' = (watch \ Panel!Held) \cup {asked + 1}
        /\ loop' = loop /\ conn' = Panel!Closed /\ failed' = failed \cup {asked + 1}
    BY <1>5 DEF Panel!ListenFails, Panel!RunServer
  <2> QED BY <1>1, <1>2, <2>1, <2>2, <2>3, <2>4 DEF Owned
<1>6. CASE Panel!ConnectClient(r) \/ Panel!StopNode(r)
  <2>1. capture' = capture \ Panel!Held /\ watch' = watch \ Panel!Held /\ loop' = loop /\ conn' = Panel!Closed
             /\ failed' = failed
    BY <1>6 DEF Panel!ConnectClient, Panel!StopNode, Panel!StopLocked
  <2> QED BY <1>1, <1>2, <2>1 DEF Owned
<1> QED BY <1>3, <1>4, <1>5, <1>6

LEMMA OwnedMake ==
    ASSUME Typed, Alone, Current, Owned, ~overlap, NEW r \in Requests,
           Panel!CloseFailed(r) \/ Panel!Dial(r) \/ Panel!Attach(r) \/ Panel!SendLayout(r)
               \/ Panel!SendLayoutFails(r) \/ Panel!Install(r)
    PROVE  Owned'
<1>0. /\ pc[r] # "idle" /\ kind = "none" /\ Panel!Held = {} /\ node[r] \in Panel!Nodes /\ node' = node
      /\ \A q \in Requests : q # r => pc[q] = "idle" /\ pc'[q] = "idle"
      /\ \A n \in Panel!Nodes : Made(n) => n = node[r] /\ pc[r] \in {"report", "install"}
  BY Working
<1>1. \A n \in capture : pc[r] = "close" /\ node[r] = n
  <2>1. server = Panel!None
    BY <1>0 DEF Alone
  <2>2. \A n \in capture : n # server
    BY <2>1, NoneIsNoNode DEF Typed
  <2> QED BY <1>0, <2>2 DEF Owned
<1>2. /\ \A n \in Panel!Nodes : loop[n] = "serve" => conn[n] = "shut" \/ (n = node[r] /\ pc[r] \in {"report",
           "install"})
      /\ \A n \in watch : n \in failed \/ (n = node[r] /\ pc[r] \in {"report", "install"})
      /\ \A n \in Panel!Nodes : loop[n] \in {"tell", "done"} => n \notin watch
  BY <1>0 DEF Owned, Typed
<1>3. \A n \in Panel!Nodes : pc'[r] \in {"report", "install"} /\ node[r] = n => Made(n)'
  BY <1>0 DEF Made
<1>4. CASE Panel!CloseFailed(r)
  <2>1. /\ capture' = capture \ {node[r]} /\ watch' = watch \ {node[r]} /\ pc[r] = "close"
        /\ UNCHANGED <<loop, conn, failed>>
    BY <1>4 DEF Panel!CloseFailed, Panel!book
  <2> QED BY <1>1, <1>2, <2>1 DEF Owned, Typed
<1>5. CASE Panel!Dial(r)
  <2>1. pc[r] = "dial" /\ UNCHANGED <<watch, capture, loop>> /\ failed \subseteq failed'
        /\ \A n \in Panel!Nodes : n # node[r] => conn'[n] = conn[n]
    BY <1>5 DEF Panel!Dial, Typed
  <2>2. loop[node[r]] = "none"
    BY <2>1 DEF Current, Making
  <2> QED BY <1>1, <1>2, <2>1, <2>2 DEF Owned, Typed
<1>6. CASE Panel!Attach(r)
  <2>1. /\ pc[r] = "attach" /\ pc'[r] = "report" /\ watch' = watch \cup {node[r]}
        /\ UNCHANGED <<capture, loop, conn, failed>>
    BY <1>6 DEF Panel!Attach, Panel!Goto, Typed, Panel!book
  <2>2. loop[node[r]] = "none"
    BY <2>1 DEF Current, Making
  <2> QED BY <1>0, <1>1, <1>2, <1>3, <2>1, <2>2 DEF Owned, Typed
<1>7. CASE Panel!SendLayout(r)
  <2>1. /\ pc[r] = "report" /\ pc'[r] = "install" /\ loop' = [loop EXCEPT ![node[r]] = "serve"]
        /\ UNCHANGED <<capture, watch, conn, failed>>
    BY <1>7 DEF Panel!SendLayout, Panel!Goto, Typed, Panel!book
  <2> QED BY <1>0, <1>1, <1>2, <1>3, <2>1 DEF Owned, Typed
<1>8. CASE Panel!SendLayoutFails(r)
  <2>1. /\ pc[r] = "report" /\ conn[node[r]] = "shut" /\ failed' = failed \cup {node[r]}
        /\ UNCHANGED <<capture, watch, conn, loop>>
    BY <1>8 DEF Panel!SendLayoutFails, Panel!parts
  <2> QED BY <1>1, <1>2, <2>1 DEF Owned, Typed
<1>9. CASE Panel!Install(r)
  <2>1. pc[r] = "install" /\ client' = node[r] /\ UNCHANGED <<capture, watch, conn, loop, failed>>
    BY <1>9 DEF Panel!Install, Panel!parts, Panel!book
  <2>2. node[r] \in Panel!Held'
    BY <1>0, <2>1, NoneIsNoNode DEF Panel!Held
  <2> QED BY <1>1, <1>2, <2>1, <2>2 DEF Owned, Typed
<1> QED BY <1>4, <1>5, <1>6, <1>7, <1>8, <1>9

LEMMA OwnedStep == Typed /\ Unused /\ Stamped /\ Alone /\ Current /\ Owned
    /\ [Panel!Next]_(Panel!vars) => Owned'
<1> SUFFICES ASSUME Typed, Unused, Stamped, Alone, Current, Owned, [Panel!Next]_(Panel!vars),
           ~overlap' PROVE Owned'
  BY DEF Owned
<1>0. ~overlap
  BY OverlapBefore
<1>1. ASSUME NEW n \in Panel!Nodes, Panel!ConnEnds(n) \/ Panel!ServeReturns(n) \/ Panel!Cleanup(n)
      PROVE  Owned'
  <2>1. UNCHANGED <<server, client, capture, pc, node, failed>>
    BY <1>1 DEF Panel!ConnEnds, Panel!ServeReturns, Panel!Cleanup, Panel!panel, Panel!reqs, Panel!book
  <2>2. Panel!Held' = Panel!Held /\ \A m \in Panel!Nodes : Made(m)' <=> Made(m)
    BY <2>1 DEF Panel!Held, Made
  <2>3. /\ watch' \subseteq watch
        /\ \A m \in Panel!Nodes : /\ loop'[m] = "serve" => loop[m] = "serve"
                                  /\ conn[m] = "shut" => conn'[m] = "shut"
                                  /\ loop'[m] \in {"tell", "done"} => loop[m] \in {"tell", "done"}
                                      \/ m \notin watch'
    BY <1>1 DEF Panel!ConnEnds, Panel!ServeReturns, Panel!Cleanup, Typed
  <2> QED BY <1>0, <2>1, <2>2, <2>3 DEF Owned, Typed
<1>2. ASSUME NEW n \in Panel!Nodes, Panel!OnClientDisconnected(n)
      PROVE  Owned'
  <2>1. /\ UNCHANGED <<server, capture, watch, conn, pc, node, failed>> /\ loop[n] = "tell"
        /\ loop' = [loop EXCEPT ![n] = "done"]
    BY <1>2 DEF Panel!OnClientDisconnected, Panel!reqs
  <2>2. \A m \in Panel!Nodes : m \in Panel!Held /\ m # n => m \in Panel!Held'
    BY <1>0, <1>2, <2>1, OwnCallback DEF Panel!Held
  <2>3. \A m \in Panel!Nodes : Made(m) => Made(m)'
    BY <2>1 DEF Made
  <2>4. n \notin watch
    BY <1>0, <2>1 DEF Owned
  <2> QED BY <1>0, <2>1, <2>2, <2>3, <2>4 DEF Owned, Typed
<1>3. CASE UNCHANGED Panel!vars
  BY <1>0, <1>3 DEF Panel!vars, Panel!panel, Panel!parts, Panel!reqs, Panel!book, Owned, Panel!Held, Made
<1> QED BY <1>0, <1>1, <1>2, <1>3, OwnedStart, OwnedMake DEF Panel!Next

-----------------------------------------------------------------------------
LEMMA SendsMake ==
    ASSUME Typed, Alone, Current, Sends, ~overlap, ~early, ~late, NEW r \in Requests,
           Panel!CloseFailed(r) \/ Panel!Dial(r) \/ Panel!Attach(r) \/ Panel!SendLayout(r)
               \/ Panel!SendLayoutFails(r) \/ Panel!Install(r)
    PROVE  Sends'
<1>0. /\ pc[r] # "idle" /\ kind = "none" /\ Panel!Held = {} /\ node[r] \in Panel!Nodes /\ node' = node
      /\ \A q \in Requests : q # r => pc[q] = "idle" /\ pc'[q] = "idle"
      /\ \A n \in Panel!Nodes : Made(n) => n = node[r] /\ pc[r] \in {"report", "install"}
  BY Working
<1>1. sender = Panel!None \/ sender \in failed \/ (sender = node[r] /\ pc[r] \in {"report", "install"})
  <2>1. sender \in Panel!Nodes \cup {Panel!None}
    BY DEF Typed
  <2> QED BY <1>0, <2>1 DEF Sends
<1>2. pc'[r] \in {"report", "install"} => Made(node[r])'
  BY <1>0 DEF Made
<1>3. pc[r] \in {"report", "install"} => Follows(node[r])
  BY DEF Sends
<1>4. pc[r] \in {"attach", "report"} => loop[node[r]] = "none"
  BY DEF Current, Making
<1>5. CASE Panel!CloseFailed(r)
  <2>1. sender' = Panel!None /\ kind' = kind /\ pc'[r] = "idle"
    BY <1>5 DEF Panel!CloseFailed, Panel!panel, Panel!Goto, Typed
  <2> QED BY <1>0, <2>1 DEF Sends
<1>6. CASE Panel!Dial(r)
  <2>1. /\ pc[r] = "dial" /\ pc'[r] \in {"attach", "idle"} /\ sender' = sender /\ kind' = kind
        /\ failed \subseteq failed'
    BY <1>6 DEF Panel!Dial, Panel!panel, Panel!Goto, Typed
  <2> QED BY <1>0, <1>1, <2>1 DEF Sends
<1>7. CASE Panel!Attach(r)
  <2>1. pc[r] = "attach" /\ pc'[r] = "report" /\ sender' = node[r] /\ kind' = kind /\ loop' = loop
    BY <1>7 DEF Panel!Attach, Panel!panel, Panel!Goto, Typed
  <2> QED BY <1>0, <1>2, <1>4, <2>1 DEF Sends, Follows
<1>8. CASE Panel!SendLayout(r)
  <2>1. /\ pc[r] = "report" /\ pc'[r] = "install" /\ sender' = sender /\ kind' = kind
        /\ loop'[node[r]] = "serve"
    BY <1>0, <1>8 DEF Panel!SendLayout, Panel!panel, Panel!Goto, Typed
  <2> QED BY <1>0, <1>2, <1>3, <1>4, <2>1 DEF Sends, Follows
<1>9. CASE Panel!SendLayoutFails(r)
  <2>1. pc'[r] = "idle" /\ sender' = sender /\ kind' = kind /\ failed' = failed \cup {node[r]}
    BY <1>9 DEF Panel!SendLayoutFails, Panel!panel, Panel!parts, Panel!Goto, Typed
  <2> QED BY <1>0, <1>1, <2>1 DEF Sends
<1>10. CASE Panel!Install(r)
  <2>1. /\ pc[r] = "install" /\ pc'[r] = "idle" /\ kind' = "client" /\ client' = node[r]
        /\ UNCHANGED <<sender, loop, failed>>
    BY <1>10 DEF Panel!Install, Panel!parts, Panel!book, Panel!Goto, Typed
  <2>2. node[r] \in Panel!Held'
    BY <1>0, <2>1, NoneIsNoNode DEF Panel!Held
  <2> QED BY <1>0, <1>1, <1>3, <2>1, <2>2 DEF Sends, Follows
<1> QED BY <1>5, <1>6, <1>7, <1>8, <1>9, <1>10

LEMMA SendsStep == Typed /\ Unused /\ Stamped /\ Alone /\ Current /\ Sends
    /\ [Panel!Next]_(Panel!vars) => Sends'
<1> SUFFICES ASSUME Typed, Unused, Stamped, Alone, Current, Sends, [Panel!Next]_(Panel!vars), ~overlap',
           ~early', ~late'
             PROVE  Sends'
  BY DEF Sends
<1>0. ~overlap /\ ~early /\ ~late
  BY OverlapBefore, NoticedBefore
<1>1. ASSUME NEW r \in Requests, Panel!StartServer(r) \/ Panel!CaptureFails(r) \/ Panel!ListenFails(r)
           \/ Panel!ConnectClient(r) \/ Panel!StopNode(r)
      PROVE  Sends'
  <2>1. \A q \in Requests : pc[q] = "idle"
    BY <1>1, BeginsAlone DEF Panel!StartServer, Panel!CaptureFails, Panel!ListenFails, Panel!RunServer,
         Panel!ConnectClient, Panel!StopNode
  <2>2. \A q \in Requests : pc'[q] \notin {"report", "install"}
    BY <1>1, <2>1 DEF Panel!StartServer, Panel!CaptureFails, Panel!ListenFails, Panel!ConnectClient,
         Panel!StopNode, Panel!Goto, Typed
  <2>3. CASE Panel!StartServer(r)
    <3>1. Panel!NewNode(r) /\ server' = asked + 1 /\ sender' = asked + 1 /\ kind' = "server"
      BY <2>3 DEF Panel!StartServer, Panel!RunServer
    <3>2. asked + 1 \in Panel!Held'
      BY <3>1, NewNodeIs, NoneIsNoNode DEF Panel!Held
    <3> QED BY <2>2, <3>1, <3>2 DEF Sends
  <2>4. CASE Panel!CaptureFails(r) \/ Panel!ListenFails(r)
    <3>1. sender' = asked + 1 /\ kind' = "none" /\ failed' = failed \cup {asked + 1}
      BY <2>4 DEF Panel!CaptureFails, Panel!ListenFails, Panel!RunServer, Panel!NoNode
    <3> QED BY <2>2, <3>1 DEF Sends
  <2>5. CASE Panel!ConnectClient(r) \/ Panel!StopNode(r)
    <3>1. kind' = "none" /\ failed' = failed /\ sender' = IF Panel!Held = {} THEN sender ELSE Panel!None
      BY <2>5 DEF Panel!ConnectClient, Panel!StopNode, Panel!StopLocked, Panel!NoNode
    <3>2. Panel!Held = {} => sender = Panel!None \/ sender \in failed
      BY <1>0, <2>1 DEF Sends, Made
    <3> QED BY <2>2, <3>1, <3>2 DEF Sends
  <2> QED BY <1>1, <2>3, <2>4, <2>5
<1>2. /\ kind = "server" => server \in Panel!Nodes /\ loop[server] = "none"
      /\ kind = "client" => client \in Panel!Nodes
      /\ \A r \in Requests : pc[r] \in {"report", "install"} => node[r] \in Panel!Nodes
      /\ \A r \in Requests : pc[r] = "report" => loop[node[r]] = "none"
  BY <1>0 DEF Typed, Current, Making
<1>3. ASSUME NEW n \in Panel!Nodes, Panel!ConnEnds(n) \/ Panel!ServeReturns(n) PROVE Sends'
  <2>1. UNCHANGED <<kind, server, client, pc, node, failed, sender>>
    BY <1>3 DEF Panel!ConnEnds, Panel!ServeReturns, Panel!panel, Panel!reqs, Panel!book
  <2>2. Panel!Held' = Panel!Held /\ (Made(sender)' <=> Made(sender))
    BY <2>1 DEF Panel!Held, Made
  <2>3. \A m \in Panel!Nodes : Follows(m) => Follows(m)'
    BY <1>3, <2>1 DEF Panel!ConnEnds, Panel!ServeReturns, Follows, Typed
  <2> QED BY <1>0, <1>2, <2>1, <2>2, <2>3 DEF Sends
<1>4. ASSUME NEW n \in Panel!Nodes, Panel!Cleanup(n) PROVE Sends'
  <2>1. /\ UNCHANGED <<kind, server, client, pc, node>> /\ sender' = Panel!None /\ loop[n] = "clean"
        /\ loop' = [loop EXCEPT ![n] = "tell"]
    BY <1>4 DEF Panel!Cleanup, Panel!panel, Panel!reqs
  <2>2. sender \in {n, Panel!None}
    BY <1>0, <1>4, DetachedInTime
  <2>3. \A m \in Panel!Nodes : Follows(m) => Follows(m)'
    BY <2>1, <2>2, NoneIsNoNode DEF Follows, Typed
  <2>4. kind # "server"
    BY <1>0, <1>2, <2>1, <2>2, NoneIsNoNode DEF Sends
  <2> QED BY <1>0, <1>2, <2>1, <2>3, <2>4 DEF Sends
<1>5. ASSUME NEW n \in Panel!Nodes, Panel!OnClientDisconnected(n) PROVE Sends'
  <2>1. /\ UNCHANGED <<server, pc, node, failed, sender>> /\ loop[n] = "tell"
        /\ loop' = [loop EXCEPT ![n] = "done"]
    BY <1>5 DEF Panel!OnClientDisconnected, Panel!reqs
  <2>2. \A m \in Panel!Nodes : m # n /\ Follows(m) => Follows(m)'
    BY <2>1 DEF Follows, Typed
  <2>3. \A r \in Requests : pc[r] \in {"report", "install"} => node[r] # n
    BY <1>2, <1>5, <2>1, ToldInTime DEF Panel!Recorded
  <2>4. Made(sender)' <=> Made(sender)
    BY <2>1 DEF Made
  <2>5. CASE kind = "client" /\ n = client
    <3>1. kind' = "none" /\ sender' = Panel!None
      BY <1>0, <1>5, <2>1, <2>5, OwnCallback DEF Sends, Follows
    <3> QED BY <1>0, <1>2, <2>1, <2>2, <2>3, <3>1 DEF Sends
  <2>6. CASE ~(kind = "client" /\ n = client)
    <3>1. UNCHANGED <<kind, client>> /\ Panel!Held' = Panel!Held
      BY <1>0, <1>5, <2>1, <2>6, OwnCallback DEF Panel!Held
    <3> QED BY <1>0, <1>2, <2>1, <2>2, <2>3, <2>4, <2>6, <3>1 DEF Sends
  <2> QED BY <2>5, <2>6
<1>6. CASE UNCHANGED Panel!vars
  BY <1>0, <1>6 DEF Panel!vars, Panel!panel, Panel!parts, Panel!reqs, Panel!book, Sends, Panel!Held, Made,
       Follows
<1> QED BY <1>0, <1>1, <1>3, <1>4, <1>5, <1>6, SendsMake DEF Panel!Next

-----------------------------------------------------------------------------
(* All of it together. *)
PanelInv == Typed /\ Unused /\ Stamped /\ Alone /\ Current /\ Owned /\ Dropped /\ Sends

LEMMA PanelInit == Panel!Init => PanelInv
<1> SUFFICES ASSUME Panel!Init PROVE PanelInv
  OBVIOUS
<1>1. Typed
  BY PanelAssumption DEF Panel!ControlAssumption, Panel!Init, Typed, Panel!Nodes, Panel!None
<1>2. Unused /\ Stamped
  BY NoneIsNoNode DEF Panel!Init, Unused, Stamped
<1>3. Alone /\ Current
  BY DEF Panel!Init, Alone, Current, Making
<1>4. Owned /\ Dropped /\ Sends
  BY DEF Panel!Init, Owned, Dropped, Sends
<1> QED BY <1>1, <1>2, <1>3, <1>4 DEF PanelInv

LEMMA PanelStep == PanelInv /\ [Panel!Next]_(Panel!vars) => PanelInv'
BY TypedStep, UnusedStep, StampedStep, AloneStep, CurrentStep, OwnedStep, DroppedStep, SendsStep DEF PanelInv

-----------------------------------------------------------------------------
(* The process: a step of the router leaves the panel alone, and the other *)
(* way round.                                                              *)
LEMMA NodeSteps == [NodeNext]_<<part, vars, panelVars>> => [Next]_vars /\ [Panel!Next]_(Panel!vars)
<1> SUFFICES ASSUME [NodeNext]_<<part, vars, panelVars>> PROVE [Next]_vars /\ [Panel!Next]_(Panel!vars)
  OBVIOUS
<1>1. UNCHANGED panelVars => UNCHANGED Panel!vars
  BY DEF panelVars, Panel!vars, Panel!panel, Panel!parts, Panel!reqs, Panel!book
<1>2. CASE OnRouter /\ Next
  BY Zenon, <1>1, <1>2 DEF OnRouter
<1>3. CASE OnPanel /\ Panel!Next
  BY Zenon, <1>3 DEF OnPanel
<1>4. CASE UNCHANGED <<part, vars, panelVars>>
  BY Zenon, <1>1, <1>4
<1> QED BY Zenon, <1>2, <1>3, <1>4 DEF NodeNext

(* The inductive invariant of the process: the router's and the panel's.   *)
THEOREM NodeInvariant == NodeSpec => [](IInv /\ PanelInv)
<1>1. NodeInit => IInv /\ PanelInv
  BY InitInv, PanelInit DEF NodeInit
<1>2. IInv /\ PanelInv /\ [NodeNext]_<<part, vars, panelVars>> => IInv' /\ PanelInv'
  BY NodeSteps, NextInv, PanelStep
<1> QED BY <1>1, <1>2, PTL DEF NodeSpec

(* Type correctness of the router, of the panel and of the nodes.  A kind  *)
(* other than "none" has a node: what the panel answers of a node that     *)
(* runs is never read from none.                                           *)
THEOREM NodeTypeCorrect == NodeSpec => []NodeTypeOK
<1>1. IInv /\ PanelInv => NodeTypeOK
  BY DEF IInv, PanelInv, NodeTypeOK, Typed, Panel!TypeOK
<1> QED BY <1>1, NodeInvariant, PTL

(* Nothing that serves, captures or watches the clipboard is forgotten:    *)
(* when every request has been answered, what runs is the node the panel   *)
(* holds, however many nodes were started, failed and replaced before.     *)
THEOREM PanelNoOrphan == NodeSpec => []NoOrphan
<1>1. PanelInv => NoOrphan
  <2> SUFFICES ASSUME PanelInv, Panel!Settled, ~overlap
               PROVE  /\ \A n \in Panel!Nodes : loop[n] = "serve" \/ n \in capture => n \in Panel!Held
                      /\ watch \subseteq Panel!Held \cup failed
                      /\ server # Panel!None => client = Panel!None
    BY DEF NoOrphan, Panel!NoOrphan
  <2>0. Owned /\ Alone /\ Typed
    BY DEF PanelInv
  <2>1. \A n \in Panel!Nodes : ~Made(n)
    BY DEF Panel!Settled, Made
  <2>2. \A n \in Panel!Nodes : loop[n] = "serve" => n \in Panel!Held
    BY <2>0, <2>1 DEF Owned, Panel!Settled, Panel!Leaving
  <2>3. \A n \in Panel!Nodes : n \in capture => n \in Panel!Held
    BY <2>0, NoneIsNoNode DEF Owned, Panel!Settled, Panel!Held
  <2>4. watch \subseteq Panel!Held \cup failed
    BY <2>0, <2>1 DEF Owned, Typed
  <2>5. server # Panel!None => client = Panel!None
    BY <2>0 DEF Alone
  <2> QED BY <2>2, <2>3, <2>4, <2>5
<1> QED BY <1>1, NodeInvariant, PTL

(* The panel does not show a client whose connection has ended. *)
THEOREM PanelDropsDeadClient == NodeSpec => []DropsDeadClient
<1>1. PanelInv => DropsDeadClient
  <2> SUFFICES ASSUME PanelInv, Panel!Settled, ~overlap, ~early, kind = "client" PROVE loop[client] = "serve"
    BY DEF DropsDeadClient, Panel!DropsDeadClient
  <2>1. client \in Panel!Nodes /\ loop[client] \in Alive
    BY DEF PanelInv, Typed, Dropped
  <2> QED BY <2>1 DEF Panel!Settled, Panel!Leaving, Alive
<1> QED BY <1>1, NodeInvariant, PTL

(* The file manager sends through the node in use, or through none. *)
THEOREM PanelFilesAttached == NodeSpec => []FilesAttached
<1>1. PanelInv => FilesAttached
  <2> SUFFICES ASSUME PanelInv, Panel!Settled, ~overlap, ~early, ~late
               PROVE  IF Panel!Held = {} THEN sender \in failed \cup {Panel!None} ELSE sender \in Panel!Held
    BY DEF FilesAttached, Panel!FilesAttached
  <2>0. Typed /\ Alone /\ Dropped /\ Sends
    BY DEF PanelInv
  <2>1. ~Made(sender)
    BY DEF Panel!Settled, Made
  <2>2. CASE kind = "client"
    <3>1. client \in Panel!Nodes /\ loop[client] = "serve"
      BY <2>0, <2>2 DEF Typed, Dropped, Panel!Settled, Panel!Leaving, Alive
    <3>2. sender = client
      BY <2>0, <2>2, <3>1 DEF Sends, Follows
    <3> QED BY <3>1, <3>2, NoneIsNoNode DEF Panel!Held
  <2>3. CASE kind = "server"
    <3>1. server \in Panel!Nodes /\ sender = server
      BY <2>0, <2>3 DEF Typed, Sends
    <3> QED BY <3>1, NoneIsNoNode DEF Panel!Held
  <2>4. CASE kind = "none"
    <3>1. Panel!Held = {}
      BY <2>0, <2>4 DEF Alone, Panel!Held
    <3> QED BY <2>0, <2>1, <3>1 DEF Sends
  <2> QED BY <2>0, <2>2, <2>3, <2>4 DEF Typed
<1> QED BY <1>1, NodeInvariant, PTL

(* A stale callback changes nothing in the panel: the generation it was    *)
(* made with is no longer the panel's unless its client is.                *)
THEOREM PanelStaleCallbackHarmless == NodeSpec => StaleCallbackHarmless
<1>1. PanelInv /\ [Panel!Next]_(Panel!vars) => [\A n \in Panel!Nodes : loop[n] = "tell" /\ loop'[n] = "done"
           /\ ~overlap /\ n # client =>
                                 UNCHANGED <<kind, server, client>>]_(Panel!vars)
  <2> SUFFICES ASSUME PanelInv, Panel!Next, NEW n \in Panel!Nodes, loop[n] = "tell", loop'[n] = "done",
             ~overlap, n # client
               PROVE  UNCHANGED <<kind, server, client>>
    BY DEF Panel!vars
  <2>0. Typed /\ Stamped /\ Current
    BY DEF PanelInv
  <2>1. Panel!OnClientDisconnected(n)
    BY <2>0 DEF Panel!Next, Panel!StartServer, Panel!CaptureFails, Panel!ListenFails, Panel!RunServer,
         Panel!ConnectClient, Panel!StopNode, Panel!CloseFailed, Panel!Dial,
           Panel!Attach, Panel!SendLayout, Panel!SendLayoutFails, Panel!Install, Panel!ConnEnds,
           Panel!ServeReturns, Panel!Cleanup, Panel!OnClientDisconnected,
           Panel!parts, Typed
  <2> QED BY <2>0, <2>1, OwnCallback
<1>2. PanelInv /\ [NodeNext]_<<part, vars, panelVars>> =>
         [\A n \in Panel!Nodes : loop[n] = "tell" /\ loop'[n] = "done" /\ ~overlap /\ n # client =>
             UNCHANGED <<kind, server, client>>]_(Panel!vars)
  BY <1>1, NodeSteps
<1> QED BY <1>2, NodeInvariant, PTL DEF NodeSpec, StaleCallbackHarmless, Panel!StaleCallbackHarmless
=============================================================================
