------------------------------ MODULE SessionHub ------------------------------
(***************************************************************************)
(* The hub of core/session over core/transport: the handshake, the peers   *)
(* the server keeps, and what it writes to them: the arrangement, clipboard *)
(* changes, relayed messages and pings.  Each connection is two bounded    *)
(* FIFO queues, because a write blocks while the other side does not read  *)
(* and no write has a deadline.                                            *)
(*                                                                         *)
(* Threads of the server: the read goroutine of each connection, the       *)
(* goroutine that owns the local clipboard and input (Local), the ping     *)
(* loop (Pinger); Close is two actions.  Each client has its receive loop; *)
(* what its other goroutines send is an action of its own.  Module         *)
(* SharedInput has the routing of the cursor and the rest of rebuildLayout; *)
(* here a rebuild is reading the peers, installing and pushing.            *)
(***************************************************************************)
EXTENDS Naturals, Sequences, FiniteSets

CONSTANTS
    Conns,                  \* connections, each from a device of its own
    Local, Pinger,          \* the server's other threads
    Buffer,                 \* messages a connection holds in each direction
    MayClose,               \* whether the server may be closed
    MaxConnects,            \* bound: connections opened
    MaxEvents               \* bound: changes, messages, pings, breaks and closes in all

Threads  == Conns \cup {Local, Pinger}
Machines == Conns \cup {Local}

ASSUME HubAssumption ==
    /\ Local \notin Conns /\ Pinger \notin Conns \cup {Local}
    /\ Buffer \in Nat \ {0}
    /\ MayClose \in BOOLEAN
    /\ MaxConnects \in Nat /\ MaxEvents \in Nat

VARIABLES
    link,           \* none, up, half (nobody reads at the client), dead, closed
    down, up,       \* messages on their way to the client and to the server
    client,         \* the client: none, hello, serving, refused, gone
    view,           \* the arrangement the client last received
    seen,           \* clipboard changes applied on each machine, in order
    peers, ready,   \* Server.peers; peers whose state is peerReady
    reported,       \* peers whose screens are known
    layout,         \* the router's arrangement: the peers it shows
    server,         \* open, closing, closed
    pc, job,        \* where each thread is; what it is writing
    snap,           \* the arrangement a rebuilding thread has built
    changes,        \* clipboard changes so far, with who should see them
    overlap,        \* two rebuilds have overlapped
    broken,         \* a connection has been broken
    connects, events \* bounds

wires == <<link, down, up>>
ends  == <<client, view, seen>>
hub   == <<peers, ready, reported, layout, server>>
count == <<connects, events>>
book  == <<changes, overlap, broken, count>>
vars  == <<wires, ends, hub, pc, job, snap, book>>

-----------------------------------------------------------------------------
Msg(t)       == [t |-> t, shows |-> {}, id |-> 0, to |-> Local]
LayoutMsg(S) == [Msg("layout") EXCEPT !.shows = S]
ClipMsg(n)   == [Msg("clip") EXCEPT !.id = n]
FileMsg(d)   == [Msg("file") EXCEPT !.to = d]

NoView == {Local}
NoJob  == [msg |-> Msg("none"), to |-> {}, all |-> FALSE, ok |-> "idle", bad |-> "idle"]

Open(c)     == link[c] \in {"up", "half"}
Serving(c)  == link[c] = "up" /\ client[c] = "serving"
Room(q, c)  == Len(q[c]) < Buffer
Put(q, c, m) == [q EXCEPT ![c] = Append(@, m)]
Pop(q, c)   == [q EXCEPT ![c] = Tail(@)]
Event        == events < MaxEvents /\ events' = events + 1 /\ UNCHANGED connects

(* A connection that is closed or breaks loses what is on its way; what    *)
(* its client has received no longer matters.                              *)
Cut(S, to, state) ==
    /\ link' = [c \in Conns |-> IF c \in S THEN to ELSE link[c]]
    /\ down' = [c \in Conns |-> IF c \in S THEN << >> ELSE down[c]]
    /\ up' = [c \in Conns |-> IF c \in S THEN << >> ELSE up[c]]
    /\ view' = [c \in Conns |-> IF c \in S THEN NoView ELSE view[c]]
    /\ seen' = [m \in Machines |-> IF m \in S THEN << >> ELSE seen[m]]
    /\ client' = [c \in Conns |-> IF c \in S THEN state ELSE client[c]]

Rebuilding(t) ==
    pc[t] \in {"build", "install"} \/ (pc[t] = "write" /\ job[t].msg.t = "layout")

Enter(t, where) ==
    /\ pc' = [pc EXCEPT ![t] = where]
    /\ overlap' = (overlap \/ (where = "build" /\ \E u \in Threads \ {t} : Rebuilding(u)))

Init ==
    /\ link = [c \in Conns |-> "none"]
    /\ down = [c \in Conns |-> << >>] /\ up = [c \in Conns |-> << >>]
    /\ client = [c \in Conns |-> "none"] /\ view = [c \in Conns |-> NoView]
    /\ seen = [m \in Machines |-> << >>]
    /\ peers = {} /\ ready = {} /\ reported = {} /\ layout = {}
    /\ server = "open"
    /\ pc = [t \in Threads |-> "idle"] /\ job = [t \in Threads |-> NoJob]
    /\ snap = [t \in Conns |-> {}]
    /\ changes = << >> /\ overlap = FALSE
    /\ broken = FALSE /\ connects = 0 /\ events = 0

-----------------------------------------------------------------------------
(* Writing.  A job is one message for a snapshot of the peers, taken in    *)
(* the order of a Go map iteration; unless all is set, peers that are not  *)
(* ready are passed over.  After the last write the thread goes to ok,     *)
(* after a failed one to bad: the first failure ends the job.              *)

StartJob(t, msg, to, all, ok, bad) ==
    IF to = {} THEN pc' = [pc EXCEPT ![t] = ok] /\ UNCHANGED job
    ELSE /\ pc' = [pc EXCEPT ![t] = "write"]
         /\ job' = [job EXCEPT ![t] = [msg |-> msg, to |-> to, all |-> all, ok |-> ok, bad |-> bad]]

Done(t, c) ==
    IF job[t].to = {c} THEN Enter(t, job[t].ok) /\ job' = [job EXCEPT ![t] = NoJob]
    ELSE job' = [job EXCEPT ![t].to = @ \ {c}] /\ UNCHANGED <<pc, overlap>>

Writes(t, c) == pc[t] = "write" /\ c \in job[t].to
Wanted(t, c) == job[t].all \/ c \in ready

Write(t, c) ==
    /\ Writes(t, c) /\ Wanted(t, c) /\ Open(c) /\ Room(down, c)
    /\ down' = Put(down, c, job[t].msg)
    /\ Done(t, c)
    /\ UNCHANGED <<link, up, ends, hub, snap, changes, broken, count>>

(* Mutant: a connection that is full is passed over too. *)
PassOver_Full(t, c) ==
    /\ Writes(t, c) /\ (~Wanted(t, c) \/ (Open(c) /\ ~Room(down, c)))
    /\ Done(t, c)
    /\ UNCHANGED <<wires, ends, hub, snap, changes, broken, count>>

PassOver(t, c) ==
    /\ Writes(t, c) /\ ~Wanted(t, c)
    /\ Done(t, c)
    /\ UNCHANGED <<wires, ends, hub, snap, changes, broken, count>>

(* The ping loop closes the connection and goes on to the next peer. *)
WriteFails(t, c) ==
    /\ Writes(t, c) /\ Wanted(t, c) /\ ~Open(c)
    /\ IF t = Pinger THEN Done(t, c)
       ELSE Enter(t, job[t].bad) /\ job' = [job EXCEPT ![t] = NoJob]
    /\ UNCHANGED <<wires, ends, hub, snap, changes, broken, count>>

Writing(t) == \E c \in Conns : Write(t, c) \/ PassOver(t, c) \/ WriteFails(t, c)

-----------------------------------------------------------------------------
(* The read goroutine of connection c. *)

Next1(c, t) == pc[c] = "idle" /\ Open(c) /\ up[c] # << >> /\ Head(up[c]).t = t
Take(c)     == up' = Pop(up, c) /\ UNCHANGED <<link, down>>

(* handleHello: the peer is added, marked ready, acknowledged, and only    *)
(* then does the arrangement change.                                       *)
RecvHello(c) ==
    /\ Next1(c, "hello") /\ Take(c)
    /\ peers' = peers \cup {c}
    /\ pc' = [pc EXCEPT ![c] = "mark"]
    /\ UNCHANGED <<ends, ready, reported, layout, server, job, snap, book>>

MarkReady(c) ==
    /\ pc[c] = "mark"
    /\ ready' = ready \cup {c}
    /\ StartJob(c, Msg("ack"), {c}, TRUE, "build", "end")
    /\ UNCHANGED <<wires, ends, peers, reported, layout, server, snap, book>>

(* handleLayout. *)
RecvReport(c) ==
    /\ Next1(c, "report") /\ Take(c)
    /\ IF c \in peers
       THEN reported' = reported \cup {c} /\ Enter(c, "build")
       ELSE UNCHANGED <<reported, pc, overlap>>
    /\ UNCHANGED <<ends, peers, ready, layout, server, job, snap, changes, broken, count>>

(* Mutant: the change goes back where it came from. *)
RecvClip_Echo(c) ==
    /\ Next1(c, "clip") /\ Take(c)
    /\ seen' = [seen EXCEPT ![Local] = Append(@, Head(up[c]).id)]
    /\ StartJob(c, Head(up[c]), peers, TRUE, "idle", "end")
    /\ UNCHANGED <<client, view, hub, snap, book>>

(* handleClipboard: applied here, then written to every other peer, ready  *)
(* or not.                                                                 *)
RecvClip(c) ==
    /\ Next1(c, "clip") /\ Take(c)
    /\ seen' = [seen EXCEPT ![Local] = Append(@, Head(up[c]).id)]
    /\ StartJob(c, Head(up[c]), peers \ {c}, TRUE, "idle", "end")
    /\ UNCHANGED <<client, view, hub, snap, book>>

(* Writing the local clipboard fails: the error ends the connection of the *)
(* peer the change came from.                                              *)
ApplyFails(c) ==
    /\ Next1(c, "clip")
    /\ Event /\ broken' = TRUE
    /\ Take(c)
    /\ pc' = [pc EXCEPT ![c] = "end"]
    /\ UNCHANGED <<ends, hub, job, snap, changes, overlap>>

(* routeFile: to the ready peer the message is for, if there is one.       *)
RecvFile(c) ==
    /\ Next1(c, "file") /\ Take(c)
    /\ LET to == {Head(up[c]).to} \cap peers \cap ready IN
       IF to = {} THEN UNCHANGED <<pc, job>>
       ELSE StartJob(c, Head(up[c]), to, TRUE, "idle", "end")
    /\ UNCHANGED <<ends, hub, snap, book>>

RecvPong(c) ==
    /\ Next1(c, "pong") /\ Take(c)
    /\ UNCHANGED <<ends, hub, pc, job, snap, book>>

Ending(c) == pc[c] = "end" \/ (pc[c] = "idle" /\ link[c] = "dead")

(* Mutants: nobody is told; the peer stays. *)
Disconnect_Silent(c) ==
    /\ Ending(c)
    /\ Cut({c}, "closed", "gone")
    /\ peers' = peers \ {c} /\ reported' = reported \ {c}
    /\ pc' = [pc EXCEPT ![c] = "idle"]
    /\ UNCHANGED <<ready, layout, server, job, snap, book>>

Disconnect_KeepsPeer(c) ==
    /\ Ending(c)
    /\ Cut({c}, "closed", "gone")
    /\ Enter(c, "build")
    /\ UNCHANGED <<hub, job, snap, changes, broken, count>>

(* serveConn returns: the connection is closed, the peer deleted, and the  *)
(* arrangement rebuilt.                                                    *)
Disconnect(c) ==
    /\ Ending(c)
    /\ Cut({c}, "closed", "gone")
    /\ peers' = peers \ {c} /\ reported' = reported \ {c}
    /\ Enter(c, "build")
    /\ UNCHANGED <<ready, layout, server, job, snap, changes, broken, count>>

ReadPeers(c) ==
    /\ pc[c] = "build"
    /\ snap' = [snap EXCEPT ![c] = peers \cap ready \cap reported]
    /\ pc' = [pc EXCEPT ![c] = "install"]
    /\ UNCHANGED <<wires, ends, hub, job, book>>

(* SetLayout: the router, then every ready peer.  A peer that comes        *)
(* between the two gets a push of its own, from its own rebuild.           *)
Install(c) ==
    /\ pc[c] = "install"
    /\ layout' = snap[c]
    /\ StartJob(c, LayoutMsg(snap[c]), peers, FALSE, "idle", "idle")
    /\ snap' = [snap EXCEPT ![c] = {}]
    /\ UNCHANGED <<wires, ends, peers, ready, reported, server, book>>

Reader(c) ==
    \/ RecvHello(c) \/ MarkReady(c) \/ RecvReport(c) \/ RecvClip(c) \/ RecvFile(c)
    \/ RecvPong(c) \/ Disconnect(c)
    \/ ReadPeers(c) \/ Install(c)

-----------------------------------------------------------------------------
(* The server's other threads. *)

Audience(m) == {c \in (peers \cap ready) \ {m} : Serving(c)} \cup ({Local} \ {m})
Change(m)   == /\ Event
               /\ changes' = Append(changes, [from |-> m, for |-> Audience(m)])

(* BroadcastClipboard.  Without peers it and the ping loop do nothing. *)
LocalChange ==
    /\ pc[Local] = "idle" /\ peers # {} /\ Change(Local)
    /\ StartJob(Local, ClipMsg(Len(changes) + 1), peers, FALSE, "idle", "idle")
    /\ UNCHANGED <<wires, ends, hub, snap, overlap, broken>>

Ping ==
    /\ server = "open" /\ pc[Pinger] = "idle" /\ peers # {} /\ Event
    /\ StartJob(Pinger, Msg("ping"), peers, FALSE, "idle", "idle")
    /\ UNCHANGED <<wires, ends, hub, snap, changes, overlap, broken>>

(* Close: forget the peers; then close their connections, the listener and *)
(* every connection accepted before it.                                    *)
CloseBegin ==
    /\ MayClose /\ server = "open" /\ Event
    /\ server' = "closing" /\ peers' = {} /\ reported' = {}
    /\ UNCHANGED <<wires, ends, ready, layout, pc, job, snap, changes, overlap, broken>>

CloseEnd ==
    /\ server = "closing" /\ server' = "closed"
    /\ Cut({c \in Conns : Open(c)}, "dead", "gone")
    /\ UNCHANGED <<peers, ready, reported, layout, pc, job, snap, book>>

-----------------------------------------------------------------------------
(* Clients and the network. *)

(* Dial and the Hello.  A slot is used again when no thread still holds    *)
(* its old peer.                                                           *)
Connect(c) ==
    /\ server # "closed" /\ link[c] \in {"none", "closed"} /\ pc[c] = "idle"
    /\ \A t \in Threads : c \notin job[t].to
    /\ connects < MaxConnects /\ connects' = connects + 1
    /\ link' = [link EXCEPT ![c] = "up"]
    /\ up' = [up EXCEPT ![c] = <<Msg("hello")>>] /\ UNCHANGED down
    /\ client' = [client EXCEPT ![c] = "hello"]
    /\ view' = [view EXCEPT ![c] = NoView]
    /\ seen' = [seen EXCEPT ![c] = << >>]
    /\ ready' = ready \ {c}
    /\ UNCHANGED <<peers, reported, layout, server, pc, job, snap, changes, overlap, broken, events>>

Arrived(c) == link[c] = "up" /\ down[c] # << >>

(* handshake: the answer must be the ack; then SendLayout. *)
Handshake(c) ==
    /\ client[c] = "hello" /\ Arrived(c) /\ Head(down[c]).t = "ack" /\ Room(up, c)
    /\ down' = Pop(down, c) /\ up' = Put(up, c, Msg("report"))
    /\ client' = [client EXCEPT ![c] = "serving"]
    /\ UNCHANGED <<link, view, seen, hub, pc, job, snap, book>>

Refuse(c) ==
    /\ client[c] = "hello" /\ Arrived(c) /\ Head(down[c]).t # "ack"
    /\ Cut({c}, "dead", "refused")
    /\ broken' = TRUE
    /\ UNCHANGED <<hub, pc, job, snap, changes, overlap, count>>

(* dispatch, on the goroutine that receives. *)
Dispatch(c) ==
    /\ client[c] = "serving" /\ Arrived(c) /\ Head(down[c]).t # "ping"
    /\ down' = Pop(down, c)
    /\ LET m == Head(down[c]) IN
       /\ view' = IF m.t = "layout" THEN [view EXCEPT ![c] = m.shows] ELSE view
       /\ seen' = IF m.t = "clip" THEN [seen EXCEPT ![c] = Append(@, m.id)] ELSE seen
    /\ UNCHANGED <<link, up, client, hub, pc, job, snap, book>>

(* A ping is answered on that goroutine too: while the pong cannot be      *)
(* written nothing else is read.                                           *)
Pong(c) ==
    /\ client[c] = "serving" /\ Arrived(c) /\ Head(down[c]).t = "ping" /\ Room(up, c)
    /\ down' = Pop(down, c) /\ up' = Put(up, c, Msg("pong"))
    /\ UNCHANGED <<link, ends, hub, pc, job, snap, book>>

ClientChange(c) ==
    /\ Serving(c) /\ Room(up, c) /\ Change(c)
    /\ up' = Put(up, c, ClipMsg(Len(changes) + 1))
    /\ UNCHANGED <<link, down, ends, hub, pc, job, snap, overlap, broken>>

(* A file message for another client.  One for the server touches nothing *)
(* here.                                                                   *)
ClientRelay(c, d) ==
    /\ Serving(c) /\ Room(up, c) /\ Event
    /\ up' = Put(up, c, FileMsg(d))
    /\ UNCHANGED <<link, down, ends, hub, pc, job, snap, changes, overlap, broken>>

(* The connection breaks; or the client stops reading without closing it:  *)
(* its machine sleeps, or Serve has returned because injecting failed.     *)
Break(c) ==
    /\ link[c] = "up" /\ Event /\ broken' = TRUE
    /\ \/ Cut({c}, "dead", "gone")
       \/ /\ link' = [link EXCEPT ![c] = "half"]
          /\ client' = [client EXCEPT ![c] = "gone"]
          /\ view' = [view EXCEPT ![c] = NoView]
          /\ seen' = [seen EXCEPT ![c] = << >>]
          /\ UNCHANGED <<down, up>>
    /\ UNCHANGED <<hub, pc, job, snap, changes, overlap>>

(* TCP gives up, or the client's garbage collector closes the socket. *)
Detect(c) ==
    /\ link[c] = "half"
    /\ Cut({c}, "dead", "gone")
    /\ UNCHANGED <<hub, pc, job, snap, book>>

Receive(c) == Handshake(c) \/ Refuse(c) \/ Dispatch(c) \/ Pong(c)

Next ==
    \/ \E t \in Threads : Writing(t)
    \/ \E c \in Conns : Reader(c) \/ ApplyFails(c) \/ Receive(c)
    \/ \E c \in Conns : Connect(c) \/ ClientChange(c) \/ Break(c) \/ Detect(c)
    \/ \E c, d \in Conns : c # d /\ ClientRelay(c, d)
    \/ LocalChange \/ Ping \/ CloseBegin \/ CloseEnd

Spec == Init /\ [][Next]_vars

-----------------------------------------------------------------------------
(* Type invariant: no connection holds more than its buffer, and whoever   *)
(* is a peer has an open connection or a read goroutine that is ending.    *)
TypeOK ==
    /\ link \in [Conns -> {"none", "up", "half", "dead", "closed"}]
    /\ \A c \in Conns : Len(down[c]) <= Buffer /\ Len(up[c]) <= Buffer
    /\ client \in [Conns -> {"none", "hello", "serving", "refused", "gone"}]
    /\ \A c \in peers : link[c] \in {"up", "half", "dead"}
    /\ ready \cup reported \cup layout \subseteq Conns
    /\ server \in {"open", "closing", "closed"}
    /\ pc \in [Threads -> {"idle", "mark", "write", "build", "install", "end"}]
    /\ \A t \in Threads : job[t].to \subseteq Conns /\ (pc[t] # "write" => job[t] = NoJob)

(* Nothing is on its way and no goroutine of a server that is open works.  *)
Quiet ==
    /\ server = "open"
    /\ \A t \in Threads : pc[t] = "idle"
    /\ \A c \in Conns : /\ link[c] \in {"none", "up", "closed"}
                        /\ up[c] = << >> /\ down[c] = << >>

(* A clipboard change is applied at most once on a machine, never on the   *)
(* one it came from, and changes of one machine arrive in order.           *)
ClipOnce ==
    \A m \in Machines : \A i \in DOMAIN seen[m] :
        /\ changes[seen[m][i]].from # m
        /\ \A j \in 1 .. i - 1 :
              changes[seen[m][j]].from = changes[seen[m][i]].from => seen[m][j] < seen[m][i]

(* A client that dials is answered with the ack, as its handshake expects. *)
HandshakeFirst == \A c \in Conns : client[c] # "refused"

(* As long as no connection is closed or breaks, a clipboard change        *)
(* reaches every machine that was in the session when it was made.         *)
ChangeReachesAll ==
    Quiet /\ ~broken =>
        \A n \in DOMAIN changes : \A m \in changes[n].for :
            \E i \in DOMAIN seen[m] : seen[m][i] = n

(* Unless two rebuilds overlapped, every client ends up with the router's  *)
(* arrangement, which shows exactly the peers that reported: a push that   *)
(* fails for one peer and so misses the others is made up for.             *)
ViewsConverge ==
    Quiet /\ ~overlap =>
        /\ layout = reported
        /\ \A c \in peers : view[c] = layout
=============================================================================
