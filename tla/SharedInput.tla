----------------------------- MODULE SharedInput -----------------------------
(***************************************************************************)
(* The server node of platform/adapter (Server) over core/session: the     *)
(* shared cursor, the relative mode that suppresses the local keyboard and *)
(* mouse while the cursor is on a peer, and the arrangement that is        *)
(* rebuilt whenever a peer joins, reports its screens or leaves.           *)
(*                                                                         *)
(* Threads, as the program has them:                                       *)
(*   Capture   the capture dispatch goroutine: onMove, onKey, onButton,    *)
(*             onScroll, one event at a time                               *)
(*   c \in Conns  the read goroutine of one accepted connection: Hello,    *)
(*             Layout and pointer messages, then the disconnect callback   *)
(*   Ui        RunServer, then SetPlacement and ClearPlacement requests    *)
(* A step is what one thread does under one lock, or one call into the     *)
(* capture driver or the network; between steps any other thread may run.  *)
(*                                                                         *)
(* The desktop is cut to one row of pixels: y is 0 and every screen has    *)
(* height 1, so only the left and right edges exist.                       *)
(***************************************************************************)
EXTENDS Layout, FiniteSets

CONSTANTS
    Conns,          \* accepted connections, each a slot that may be reused
    Reported,       \* the screen the device behind a connection reports
    LocalScreens,   \* the screens of this machine, a sequence
    Local,          \* this device
    Sources,        \* connections of devices that also send pointer moves
    Deltas,         \* horizontal mouse deltas
    Coords,         \* coordinates the cursor may be sent to
    Places,         \* positions a user may give a screen
    EdgeBand,       \* width of the edge band of onMove (12 in the code)
    LinksBreak,     \* whether connections may fail
    MaxConnects,    \* bound: connections opened in all
    MaxPlacements,  \* bound: placement requests
    Capture, Ui     \* the two other threads

Threads    == Conns \cup {Capture, Ui}
Rebuilders == Conns \cup {Ui}

ASSUME ThreadsAssumption ==
    /\ IsFiniteSet(Conns) /\ Sources \subseteq Conns
    /\ Capture # Ui /\ Capture \notin Conns /\ Ui \notin Conns
ASSUME ScreensAssumption ==
    /\ IsLayout(LocalScreens) /\ LocalScreens # << >>
    /\ \A i \in DOMAIN LocalScreens :
          LocalScreens[i].device = Local /\ LocalScreens[i].y = 0 /\ LocalScreens[i].h = 1
    /\ \A c \in Conns : IsScreen(Reported[c])
ASSUME BoundsAssumption ==
    LinksBreak \in BOOLEAN /\ MaxConnects \in Nat /\ MaxPlacements \in Nat

VARIABLES
    layout, vx, vy, cur,    \* session.Router
    auth,                   \* core.authoritative
    placements,             \* Server.placements, screen id -> x
    relative,               \* Server.relative
    suppressed,             \* the capture driver's relative mode
    link,                   \* state of each TCP connection
    peers,                  \* connections in session.Server.peers, ready
    reported,               \* peers whose screens have arrived
    pc,                     \* where each thread is
    snap,                   \* the layout a rebuilding thread is installing
    places,                 \* its copy of placements
    arg,                    \* the capture thread's event
    connects, changes,      \* bounds
    meddled,                \* history: a controller has moved the cursor
    collided                \* history: two rebuilds have overlapped

router  == <<layout, vx, vy, cur>>
session == <<link, peers, reported>>
bounds  == <<connects, changes>>
history == <<meddled, collided>>
locals  == <<snap, places, arg>>
mode    == <<relative, suppressed>>
vars    == <<router, auth, placements, mode, session, pc, locals, bounds, history>>

-----------------------------------------------------------------------------
(* Building the arrangement (the body of rebuildLayout). *)

NoPlaces  == [id \in {} |-> 0]
LocalEnd  == LET ends == {0} \cup {Add(LocalScreens[i].x, LocalScreens[i].w) : i \in DOMAIN LocalScreens}
             IN  CHOOSE e \in ends : \A f \in ends : f <= e

(* The orders in which a Go map iteration may visit the elements of S.     *)
Orders(S) ==
    {o \in [1 .. Cardinality(S) -> S] : \A i, j \in DOMAIN o : i # j => o[i] # o[j]}

(* Local screens keep their geometry; each peer screen goes where the user *)
(* put it, or right of everything placed automatically before it.  The     *)
(* peers are visited in the order of a Go map iteration.                   *)
Build(pl, order) ==
    LET scr(i) == Reported[order[i]]
        auto(i) == scr(i).id \notin DOMAIN pl
        right[i \in 0 .. Len(order)] ==
            IF i = 0 THEN LocalEnd
            ELSE IF auto(i) THEN Add(right[i - 1], scr(i).w) ELSE right[i - 1]
    IN  LocalScreens \o
          [i \in 1 .. Len(order) |->
             [scr(i) EXCEPT !.x = IF auto(i) THEN right[i - 1] ELSE pl[scr(i).id]]]

Devices(l) == {l[i].device : i \in DOMAIN l}

LocalPoints == UNION {s.x .. s.x + s.w - 1 : s \in {LocalScreens[i] : i \in DOMAIN LocalScreens}}

(* primaryScreen: the primary local screen, here the first one. *)
Centre == LocalScreens[1].x + LocalScreens[1].w \div 2

(* Where the mouse may be taken.  x is a position in this machine's        *)
(* coordinates: Home is its screen, Project the target of a movement.      *)
Home(x) == CHOOSE i \in DOMAIN LocalScreens :
              /\ Contains(LocalScreens[i], x, 0)
              /\ \A j \in DOMAIN LocalScreens : Contains(LocalScreens[j], x, 0) => i <= j

Project(s, x, dx) ==
    LET right == s.x + s.w - 1 IN
    IF x >= right - EdgeBand + 1 /\ dx > 0 THEN Add(right, dx)
    ELSE IF x <= s.x + EdgeBand - 1 /\ dx < 0 THEN Add(s.x, dx)
    ELSE x

(* Coords and Deltas, all of int32 in the program, hold what this node     *)
(* itself moves the cursor to and by.                                      *)
ASSUME CoordsAssumption ==
    /\ Coords \subseteq Int32 /\ Deltas \subseteq Int32
    /\ {0, Centre} \cup LocalPoints \subseteq Coords /\ 0 \in Deltas
    /\ \A x \in LocalPoints, dx \in Deltas : Project(LocalScreens[Home(x)], x, dx) \in Coords

PeerIds == {Reported[c].id : c \in Conns}
AllPlacements == UNION {[D -> Places] : D \in SUBSET PeerIds}
AllLayouts == {Build(pl, o) : pl \in AllPlacements,
                              o \in UNION {Orders(S) : S \in SUBSET Conns}}

R == INSTANCE Router WITH Layouts <- AllLayouts

OnPeer(s) == s # NoScreen /\ s.device # Local

(* No arrangement that can be built overflows, as module Layout assumes.   *)
ASSUME LegalAssumption == \A l \in AllLayouts : IsLayout(l)

-----------------------------------------------------------------------------
NoArg == [home |-> 1, x |-> 0, nx |-> 0, dx |-> 0, to |-> "none", then |-> "idle"]

Init ==
    /\ layout = Build(NoPlaces, << >>)
    /\ vx = 0 /\ vy = 0 /\ cur = ScreenAt(layout, 0, 0)
    /\ auth = layout
    /\ placements = NoPlaces
    /\ relative = FALSE /\ suppressed = FALSE
    /\ link = [c \in Conns |-> "none"]
    /\ peers = {} /\ reported = {}
    /\ pc = [t \in Threads |-> IF t = Ui THEN "boot" ELSE "idle"]
    /\ snap = [t \in Rebuilders |-> << >>]
    /\ places = [t \in Rebuilders |-> NoPlaces]
    /\ arg = NoArg
    /\ connects = 0 /\ changes = 0 
    /\ meddled = FALSE /\ collided = FALSE

Goto(t, from, to) == pc[t] = from /\ pc' = [pc EXCEPT ![t] = to]

(* RunServer's last step: the shared cursor is put where the mouse is.     *)
(* Capture has already started by then.                                    *)
Boot ==
    /\ Goto(Ui, "boot", "idle")
    /\ \E x \in LocalPoints : R!SetPosition(x, 0)
    /\ UNCHANGED <<auth, placements, mode, session, locals, bounds, history>>

-----------------------------------------------------------------------------
(* rebuildLayout, run by thread t, from "places" to "idle". *)

Rebuilding == {"peers", "auth", "gone", "seed", "release", "releaseCall", "install"}

CopyPlaces(t) ==
    /\ Goto(t, "places", "peers")
    /\ places' = [places EXCEPT ![t] = placements]
    /\ collided' = (collided \/ \E q \in Rebuilders \ {t} : pc[q] \in Rebuilding)
    /\ UNCHANGED <<router, auth, placements, mode, session, snap, arg, bounds, meddled>>

ReadPeers(t) ==
    /\ Goto(t, "peers", "auth")
    /\ \E o \in Orders(peers \cap reported) :
          snap' = [snap EXCEPT ![t] = Build(places[t], o)]
    /\ places' = [places EXCEPT ![t] = NoPlaces]
    /\ UNCHANGED <<router, auth, placements, mode, session, arg, bounds, history>>

SetAuth(t) ==
    /\ Goto(t, "auth", "gone")
    /\ auth' = snap[t]
    /\ UNCHANGED <<router, placements, mode, session, locals, bounds, history>>

(* releaseIfActiveGone: the active screen's device is missing from the new *)
(* arrangement, which is not installed yet.                                *)
CheckGone(t) ==
    /\ pc[t] = "gone"
    /\ pc' = [pc EXCEPT ![t] =
                IF cur = NoScreen \/ cur.device \in Devices(snap[t])
                THEN "install" ELSE "seed"]
    /\ UNCHANGED <<router, auth, placements, mode, session, locals, bounds, history>>

SeedLocal(t) ==
    /\ Goto(t, "seed", "release")
    /\ R!SetPosition(Centre, 0)
    /\ UNCHANGED <<auth, placements, mode, session, locals, bounds, history>>

(* setRelative(on) in two steps: the flag under Server.mu, then, only when *)
(* it changed and after the unlock, the call into the capture driver.      *)
Flag(t, from, on, call, done) ==
    /\ pc[t] = from
    /\ pc' = [pc EXCEPT ![t] = IF relative # on THEN call ELSE done]
    /\ relative' = on

Drive(t, from, on, done) ==
    /\ Goto(t, from, done)
    /\ suppressed' = on

ReleaseFlag(t) ==
    /\ Flag(t, "release", FALSE, "releaseCall", "install")
    /\ UNCHANGED <<router, auth, placements, suppressed, session, locals, bounds, history>>

ReleaseCall(t) ==
    /\ Drive(t, "releaseCall", FALSE, "install")
    /\ UNCHANGED <<router, auth, placements, relative, session, locals, bounds, history>>

(* Mutant: the router keeps the screen it had. *)
Install_KeepsScreen(t) ==
    /\ Goto(t, "install", "idle")
    /\ layout' = snap[t]
    /\ snap' = [snap EXCEPT ![t] = << >>]
    /\ UNCHANGED <<vx, vy, cur, auth, placements, mode, session, places, arg, bounds, history>>

(* session.Server.SetLayout: the router takes the arrangement.  The pushes *)
(* to the peers that follow touch no state of this module.                 *)
Install(t) ==
    /\ Goto(t, "install", "idle")
    /\ R!SetLayout(snap[t])
    /\ snap' = [snap EXCEPT ![t] = << >>]
    /\ UNCHANGED <<auth, placements, mode, session, places, arg, bounds, history>>

Rebuild(t) ==
    \/ CopyPlaces(t) \/ ReadPeers(t) \/ SetAuth(t) \/ CheckGone(t)
    \/ SeedLocal(t) \/ ReleaseFlag(t) \/ ReleaseCall(t) \/ Install(t)

-----------------------------------------------------------------------------
(* Placement requests of the user interface. *)

SetPlacement(id, x) ==
    /\ changes < MaxPlacements
    /\ Goto(Ui, "idle", "places")
    /\ placements' = [i \in DOMAIN placements \cup {id} |-> IF i = id THEN x ELSE placements[i]]
    /\ changes' = changes + 1
    /\ UNCHANGED <<router, auth, mode, session, locals, connects, history>>

ClearPlacement(id) ==
    /\ changes < MaxPlacements
    /\ Goto(Ui, "idle", "places")
    /\ placements' = [i \in DOMAIN placements \ {id} |-> placements[i]]
    /\ changes' = changes + 1
    /\ UNCHANGED <<router, auth, mode, session, locals, connects, history>>

-----------------------------------------------------------------------------
(* Connections.  A link is up, half (the other side is gone and nobody has *)
(* noticed: a write may still succeed) or dead (reads and writes fail).    *)

Accept(c) ==
    /\ pc[Ui] # "boot" /\ connects < MaxConnects
    /\ pc[c] = "idle" /\ link[c] = "none"
    /\ link' = [link EXCEPT ![c] = "up"]
    /\ connects' = connects + 1
    /\ UNCHANGED <<router, auth, placements, mode, peers, reported, pc, locals, changes, history>>

Alive(c) == link[c] \in {"up", "half"}
MayFail(c) == link[c] \in {"half", "dead"}

Break(c) ==
    /\ LinksBreak /\ link[c] = "up"
    /\ \E to \in {"half", "dead"} : link' = [link EXCEPT ![c] = to]
    /\ UNCHANGED <<router, auth, placements, mode, peers, reported, pc, locals, bounds, history>>

(* The 20 s ping, or TCP itself, finds out that the other side is gone.    *)
Detect(c) ==
    /\ link[c] = "half"
    /\ link' = [link EXCEPT ![c] = "dead"]
    /\ UNCHANGED <<router, auth, placements, mode, peers, reported, pc, locals, bounds, history>>

(* handleHello: the peer is added and ready, then the ack is written and   *)
(* the arrangement rebuilt; a failing ack skips the rebuild and ends the   *)
(* connection.                                                             *)
Hello(c) ==
    /\ Alive(c) /\ c \notin peers
    /\ peers' = peers \cup {c}
    /\ \/ Goto(c, "idle", "places") /\ UNCHANGED link
       \/ pc[c] = "idle" /\ MayFail(c) /\ link' = [link EXCEPT ![c] = "dead"] /\ UNCHANGED pc
    /\ UNCHANGED <<router, auth, placements, mode, reported, locals, bounds, history>>

(* Mutant: the arrangement is not rebuilt. *)
Report_NoRebuild(c) ==
    /\ Alive(c) /\ c \in peers \ reported /\ pc[c] = "idle"
    /\ reported' = reported \cup {c}
    /\ UNCHANGED <<router, auth, placements, mode, link, peers, pc, locals, bounds, history>>

(* handleLayout: the peer's screens arrive. *)
Report(c) ==
    /\ Alive(c) /\ c \in peers \ reported
    /\ Goto(c, "idle", "places")
    /\ reported' = reported \cup {c}
    /\ UNCHANGED <<router, auth, placements, mode, link, peers, locals, bounds, history>>

(* Mutants: the arrangement is not rebuilt; the screens are not forgotten. *)
Disconnect_NoRebuild(c) ==
    /\ link[c] = "dead" /\ pc[c] = "idle"
    /\ link' = [link EXCEPT ![c] = "none"]
    /\ peers' = peers \ {c}
    /\ reported' = reported \ {c}
    /\ UNCHANGED <<router, auth, placements, mode, pc, locals, bounds, history>>

Disconnect_KeepsScreens(c) ==
    /\ link[c] = "dead"
    /\ Goto(c, "idle", "places")
    /\ link' = [link EXCEPT ![c] = "none"]
    /\ peers' = peers \ {c}
    /\ UNCHANGED <<router, auth, placements, mode, reported, locals, bounds, history>>

(* handleDisconnect: the read loop failed, the peer is dropped. *)
Disconnect(c) ==
    /\ link[c] = "dead"
    /\ Goto(c, "idle", "places")
    /\ link' = [link EXCEPT ![c] = "none"]
    /\ peers' = peers \ {c}
    /\ reported' = reported \ {c}
    /\ UNCHANGED <<router, auth, placements, mode, locals, bounds, history>>

(* Writing to the ready peer that owns device d: with no such peer the     *)
(* event is dropped without an error.                                      *)
Receivers(d)  == {c \in peers : Reported[c].device = d}
CanSucceed(d) == Receivers(d) = {} \/ \E c \in Receivers(d) : Alive(c)
CanFail(d)    == \E c \in Receivers(d) : MayFail(c)

(* routePeerMove: a controller moves the shared cursor.  Relaying this or  *)
(* another of its events to a peer may fail, which ends the controller's   *)
(* own connection: for this module one more way for a link to break.       *)
PeerMove(c) ==
    /\ c \in Sources \cap peers /\ pc[c] = "idle" /\ Alive(c)
    /\ \E x \in Coords : R!MoveTo(x, 0)
    /\ meddled' = TRUE
    /\ UNCHANGED <<auth, placements, mode, session, pc, locals, bounds, collided>>

Connection(c) ==
    \/ Accept(c) \/ Break(c) \/ Detect(c) \/ Hello(c) \/ Report(c) \/ Disconnect(c)
    \/ PeerMove(c)

-----------------------------------------------------------------------------
(* The capture thread. *)

(* onMove in relative mode: raw deltas advance the shared cursor. *)
MoveRelative(dx) ==
    /\ relative /\ dx # 0
    /\ Goto(Capture, "idle", "delta")
    /\ arg' = [NoArg EXCEPT !.dx = dx]
    /\ UNCHANGED <<router, auth, placements, mode, session, snap, places, bounds, history>>

(* onMove in coupled mode: at a border, movement outward is projected past *)
(* the border (Project, above).                                            *)
MoveCoupled(x, dx) ==
    /\ ~relative
    /\ Goto(Capture, "idle", "abs")
    /\ arg' = [NoArg EXCEPT !.home = Home(x), !.x = x,
                             !.nx = Project(LocalScreens[Home(x)], x, dx)]
    /\ UNCHANGED <<router, auth, placements, mode, session, snap, places, bounds, history>>

(* OnLocalPointerMove hands the projected global coordinate to             *)
(* Router.OnLocalMove as if it were relative to the screen.                *)
RouteAbs ==
    /\ pc[Capture] = "abs"
    /\ R!OnLocalMove(LocalScreens[arg.home], arg.nx, 0)
    /\ IF OnPeer(cur')
       THEN /\ pc' = [pc EXCEPT ![Capture] = "send"]
            /\ arg' = [arg EXCEPT !.to = cur'.device, !.then = "active"]
       ELSE /\ pc' = [pc EXCEPT ![Capture] = "active"]
            /\ arg' = [arg EXCEPT !.to = "none"]
    /\ UNCHANGED <<auth, placements, mode, session, snap, places, bounds, history>>

(* OnLocalDeltaMove. *)
RouteDelta ==
    /\ pc[Capture] = "delta"
    /\ R!MoveByDelta(arg.dx, 0)
    /\ IF OnPeer(cur')
       THEN /\ pc' = [pc EXCEPT ![Capture] = "send"]
            /\ arg' = [arg EXCEPT !.to = cur'.device, !.then = "check"]
       ELSE /\ pc' = [pc EXCEPT ![Capture] = "check"]
            /\ arg' = [arg EXCEPT !.to = "none"]
    /\ UNCHANGED <<auth, placements, mode, session, snap, places, bounds, history>>

(* onKey, onButton, onScroll: routeLocalEvent reads Active and forwards.   *)
LocalEvent ==
    /\ pc[Capture] = "idle" /\ OnPeer(cur)
    /\ pc' = [pc EXCEPT ![Capture] = "send"]
    /\ arg' = [NoArg EXCEPT !.to = cur.device, !.then = "idle"]
    /\ UNCHANGED <<router, auth, placements, mode, session, snap, places, bounds, history>>

SendOk ==
    /\ pc[Capture] = "send" /\ CanSucceed(arg.to)
    /\ pc' = [pc EXCEPT ![Capture] = arg.then]
    /\ arg' = IF arg.then = "idle" THEN NoArg ELSE [arg EXCEPT !.to = "none"]
    /\ UNCHANGED <<router, auth, placements, mode, session, snap, places, bounds, history>>

(* A failed forward releases the input, except on the coupled path, which  *)
(* logs and returns.                                                       *)
SendFail ==
    /\ pc[Capture] = "send" /\ CanFail(arg.to)
    /\ pc' = [pc EXCEPT ![Capture] = IF arg.then = "active" THEN "idle" ELSE "force"]
    /\ arg' = NoArg
    /\ UNCHANGED <<router, auth, placements, mode, session, snap, places, bounds, history>>

(* Mutant: the crossing goes unnoticed. *)
CheckActive_Never ==
    /\ Goto(Capture, "active", "idle")
    /\ arg' = NoArg
    /\ UNCHANGED <<router, auth, placements, mode, session, snap, places, bounds, history>>

(* After a coupled move: is the cursor on a peer now? *)
CheckActive ==
    /\ pc[Capture] = "active"
    /\ pc' = [pc EXCEPT ![Capture] = IF OnPeer(cur) THEN "engage" ELSE "idle"]
    /\ arg' = NoArg
    /\ UNCHANGED <<router, auth, placements, mode, session, snap, places, bounds, history>>

EngageFlag ==
    /\ Flag(Capture, "engage", TRUE, "engageCall", "idle")
    /\ UNCHANGED <<router, auth, placements, suppressed, session, locals, bounds, history>>

EngageCall ==
    /\ Drive(Capture, "engageCall", TRUE, "idle")
    /\ UNCHANGED <<router, auth, placements, relative, session, locals, bounds, history>>

(* Mutant: the return goes unnoticed. *)
CheckBack_Never ==
    /\ Goto(Capture, "check", "idle")
    /\ arg' = NoArg
    /\ UNCHANGED <<router, auth, placements, mode, session, snap, places, bounds, history>>

(* After a relative move: has the cursor come back? *)
CheckBack ==
    /\ pc[Capture] = "check"
    /\ pc' = [pc EXCEPT ![Capture] = IF OnPeer(cur) THEN "idle" ELSE "back"]
    /\ arg' = NoArg
    /\ UNCHANGED <<router, auth, placements, mode, session, snap, places, bounds, history>>

(* Re-coupling; resync then moves only the mouse pointer. *)
BackFlag ==
    /\ Flag(Capture, "back", FALSE, "backCall", "idle")
    /\ UNCHANGED <<router, auth, placements, suppressed, session, locals, bounds, history>>

BackCall ==
    /\ Drive(Capture, "backCall", FALSE, "idle")
    /\ UNCHANGED <<router, auth, placements, relative, session, locals, bounds, history>>

(* forceRelease. *)
ForceCheck ==
    /\ pc[Capture] = "force"
    /\ pc' = [pc EXCEPT ![Capture] = IF relative THEN "forceFlag" ELSE "idle"]
    /\ UNCHANGED <<router, auth, placements, mode, session, locals, bounds, history>>

ForceFlag ==
    /\ Flag(Capture, "forceFlag", FALSE, "forceCall", "forceSeed")
    /\ UNCHANGED <<router, auth, placements, suppressed, session, locals, bounds, history>>

ForceCall ==
    /\ Drive(Capture, "forceCall", FALSE, "forceSeed")
    /\ UNCHANGED <<router, auth, placements, relative, session, locals, bounds, history>>

ForceSeed ==
    /\ Goto(Capture, "forceSeed", "idle")
    /\ R!SetPosition(Centre, 0)
    /\ UNCHANGED <<auth, placements, mode, session, locals, bounds, history>>

UserMove ==
    \/ \E dx \in Deltas : MoveRelative(dx)
    \/ \E x \in LocalPoints, dx \in Deltas : MoveCoupled(x, dx)

CaptureStep ==
    \/ RouteAbs \/ RouteDelta \/ SendOk \/ SendFail
    \/ CheckActive \/ EngageFlag \/ EngageCall
    \/ CheckBack \/ BackFlag \/ BackCall
    \/ ForceCheck \/ ForceFlag \/ ForceCall \/ ForceSeed

Next ==
    \/ Boot
    \/ \E t \in Rebuilders : Rebuild(t)
    \/ \E id \in PeerIds, x \in Places : SetPlacement(id, x)
    \/ \E id \in PeerIds : ClearPlacement(id)
    \/ \E c \in Conns : Connection(c)
    \/ UserMove \/ LocalEvent \/ CaptureStep

(* Scheduling: a goroutine that can take its next step eventually does; a  *)
(* broken connection is eventually noticed.  And one assumption about the  *)
(* user: someone whose input is captured keeps moving the mouse.           *)
Fairness ==
    /\ WF_vars(Boot)
    /\ \A t \in Rebuilders : WF_vars(Rebuild(t))
    /\ WF_vars(CaptureStep)
    /\ \A c \in Conns : WF_vars(Detect(c)) /\ WF_vars(Disconnect(c))
    /\ WF_vars(\E dx \in Deltas : MoveRelative(dx))

Spec == Init /\ [][Next]_vars /\ Fairness

-----------------------------------------------------------------------------
(* Type invariant: the arrangement in use and the one being installed are  *)
(* buildable ones, and a peer's screens are forgotten with the peer.       *)
TypeOK ==
    /\ layout \in AllLayouts /\ auth \in AllLayouts
    /\ vx \in Int32 /\ vy = 0
    /\ cur \in {layout[i] : i \in DOMAIN layout} \cup {NoScreen}
    /\ placements \in AllPlacements
    /\ relative \in BOOLEAN /\ suppressed \in BOOLEAN
    /\ link \in [Conns -> {"none", "up", "half", "dead"}]
    /\ reported \subseteq peers /\ peers \subseteq Conns
    /\ \A t \in Rebuilders : snap[t] \in AllLayouts \cup {<< >>}
    /\ connects \in 0 .. MaxConnects /\ changes \in 0 .. MaxPlacements
    /\ {meddled, collided} \subseteq BOOLEAN

(* No thread is in the middle of anything. *)
Settled == \A t \in Threads : pc[t] = "idle"

(* Every use this node makes of the shared cursor is a use of the router   *)
(* as module Router specifies it.                                          *)
RouterSpec == R!Spec

(* After every join, report, leave and placement has been processed, the   *)
(* arrangement shows this machine and exactly the devices that are         *)
(* connected, and the copy used for injecting peers' events is the         *)
(* router's, however the rebuilds fell together.                           *)
ArrangementIsCurrent ==
    (\A t \in Rebuilders : pc[t] \in {"idle", "boot"}) =>
        /\ Devices(layout) = {Local} \cup {Reported[c].device : c \in reported}
        /\ auth = layout

(* The same as long as no two rebuilds have overlapped. *)
LayoutTracksPeers == ~collided => ArrangementIsCurrent

(* Every connection that was ever opened is still up, nobody else touches  *)
(* the cursor or the arrangement, and at most one peer has screens to show *)
(* (a second one may come before the first in the next arrangement, or two *)
(* rebuilds overlap and the older one leaves the first peer out: the       *)
(* screen under the cursor then changes hands without the capture driver   *)
(* being told, until the next movement).                                   *)
Undisturbed ==
    /\ connects = Cardinality({c \in Conns : link[c] = "up"})
    /\ changes = 0 /\ ~meddled
    /\ ~collided /\ \A c, d \in reported : c = d

(* Between events, the local keyboard and mouse are suppressed exactly     *)
(* while the shared cursor is on a peer: otherwise keys are lost, or typed *)
(* on two machines.                                                        *)
ExclusiveInput ==
    Settled /\ Undisturbed => /\ relative = OnPeer(cur)
                              /\ suppressed = relative

(* Relative mode with the cursor on no peer, however it came about, is     *)
(* left: the next mouse movement finds out.                                *)
RelativeMeansPeer ==
    (relative /\ ~OnPeer(cur)) ~> (~relative \/ OnPeer(cur))

(* A peer that has gone does not keep the keyboard and mouse suppressed.   *)
LocalInputComesBack == (suppressed /\ peers = {}) ~> (~suppressed \/ peers # {})

(* While the mouse is on this machine, the shared cursor is where it is,   *)
(* unless a push into an edge band has been projected.  On a screen that   *)
(* does not start at the origin it is not: onMove hands on the global      *)
(* coordinate where OnLocalMove expects one of the screen.                 *)
CursorIsMouse ==
    [][pc[Capture] = "abs" /\ pc'[Capture] # "abs" /\ arg.nx = arg.x
          => vx' = arg.x]_vars

(* A device that reported its screens becomes reachable for the cursor,    *)
(* unless two rebuilds have overlapped.                                    *)
PeerJoins ==
    \A c \in Conns :
        c \in reported ~>
            (c \notin reported \/ collided \/ Reported[c].device \in Devices(layout))
=============================================================================
