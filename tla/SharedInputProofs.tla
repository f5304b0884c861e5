-------------------------- MODULE SharedInputProofs --------------------------
(***************************************************************************)
(* Proofs about SharedInput, for every set of connections, screens,        *)
(* coordinates and placements.  The server node is shown to use the router *)
(* as module Router specifies it; the facts proved about the router in     *)
(* RouterProofs then hold of the node's cursor.                            *)
(***************************************************************************)
EXTENDS SharedInput, TLAPS, FiniteSetTheorems, WellFoundedInduction

P == INSTANCE RouterProofs WITH Layouts <- AllLayouts

-----------------------------------------------------------------------------
(* Where the threads may be, and a rebuilding thread that holds the        *)
(* arrangement it is going to install.                                     *)
Holding    == {"auth", "gone", "seed", "release", "releaseCall", "install"}
RebuildPcs == {"boot", "idle", "places", "peers"} \cup Holding
CapturePcs == {"idle", "abs", "delta", "send", "active", "check", "engage", "engageCall",
               "back", "backCall", "force", "forceFlag", "forceCall", "forceSeed"}

ThreadsTyped ==
    /\ pc \in [Threads -> RebuildPcs \cup CapturePcs]
    /\ pc[Capture] \in CapturePcs
    /\ \A t \in Rebuilders : pc[t] \in RebuildPcs

(* The copies a rebuild works on. *)
CopiesTyped ==
    /\ placements \in AllPlacements
    /\ places \in [Rebuilders -> AllPlacements]
    /\ snap \in [Rebuilders -> AllLayouts \cup {<< >>}]
    /\ \A t \in Rebuilders : pc[t] \in Holding => snap[t] \in AllLayouts
    /\ layout \in AllLayouts /\ auth \in AllLayouts

(* The capture thread's event. *)
IsArg(a) ==
    /\ a = [home |-> a.home, x |-> a.x, nx |-> a.nx, dx |-> a.dx, to |-> a.to, then |-> a.then]
    /\ a.home \in DOMAIN LocalScreens
    /\ a.nx \in Coords /\ a.dx \in Deltas
    /\ a.then \in {"idle", "active", "check"}

ArgTyped == IsArg(arg)

SessionTyped ==
    /\ link \in [Conns -> {"none", "up", "half", "dead"}]
    /\ reported \subseteq peers /\ peers \subseteq Conns
    /\ relative \in BOOLEAN /\ suppressed \in BOOLEAN
    /\ connects \in 0 .. MaxConnects /\ changes \in 0 .. MaxPlacements
    /\ meddled \in BOOLEAN /\ collided \in BOOLEAN

Typed == ThreadsTyped /\ CopiesTyped /\ ArgTyped /\ SessionTyped

(* Rebuilds that have not overlapped run one after the other.              *)
OneAtATime ==
    ~collided => \A t, q \in Rebuilders :
                    pc[t] \in Rebuilding /\ pc[q] \in Rebuilding => t = q

(* What every arrangement is built to show: this machine and the devices   *)
(* whose screens have arrived.                                             *)
Shown == {Local} \cup {Reported[c].device : c \in reported}

(* Unless a rebuild is still going to read the peers, the arrangement is   *)
(* current: the one being installed, or the one in use.                    *)
Current ==
    ~collided /\ (\A t \in Rebuilders : pc[t] \notin {"places", "peers"}) =>
        /\ \A t \in Rebuilders : pc[t] \in Holding =>
              /\ Devices(snap[t]) = Shown
              /\ pc[t] # "auth" => auth = snap[t]
        /\ (\A t \in Rebuilders : pc[t] \notin Holding) =>
              Devices(layout) = Shown /\ auth = layout

IInv == Typed /\ OneAtATime /\ Current

-----------------------------------------------------------------------------
(* Arrangements. *)

(* Functions on 1 .. n as sequences, and what concatenation does. *)
LEMMA FunctionIsSeq ==
    ASSUME NEW T, NEW n \in Nat, NEW f \in [1 .. n -> T]
    PROVE  f \in Seq(T) /\ Len(f) = n
OBVIOUS

LEMMA Concatenated ==
    ASSUME NEW T, NEW s \in Seq(T), NEW t \in Seq(T)
    PROVE  /\ DOMAIN (s \o t) = 1 .. Len(s) + Len(t)
           /\ \A i \in 1 .. Len(s) : (s \o t)[i] = s[i]
           /\ \A i \in 1 .. Len(t) : (s \o t)[Len(s) + i] = t[i]
OBVIOUS

(* The screens of this machine are a sequence of at least one. *)
LEMMA LocalSequence ==
    /\ LocalScreens \in Seq({LocalScreens[i] : i \in DOMAIN LocalScreens})
    /\ Len(LocalScreens) \in Nat \ {0}
    /\ DOMAIN LocalScreens = 1 .. Len(LocalScreens)
    /\ 1 \in DOMAIN LocalScreens
<1>1. LocalScreens \in Seq({LocalScreens[i] : i \in DOMAIN LocalScreens})
  BY ScreensAssumption DEF IsLayout
<1>2. LocalScreens # << >>
  BY ScreensAssumption
<1> QED BY <1>1, <1>2

(* The order of a visit is a sequence in which each element occurs.        *)
LEMMA OrdersVisitAll ==
    ASSUME NEW S \in SUBSET Conns, NEW o \in Orders(S)
    PROVE  /\ o \in Seq(S)
           /\ \A c \in S : \E i \in 1 .. Len(o) : o[i] = c
<1> DEFINE n == Cardinality(S)
<1>1. IsFiniteSet(S) /\ n \in Nat
  BY ThreadsAssumption, FS_Subset, FS_CardinalityType
<1>2. o \in [1 .. n -> S] /\ \A i, j \in 1 .. n : i # j => o[i] # o[j]
  BY DEF Orders
<1>3. o \in Seq(S) /\ Len(o) = n
  BY <1>1, <1>2
<1>4. o \in Injection(1 .. n, S)
  BY <1>2 DEF Injection, IsInjective
<1>5. Cardinality(1 .. n) = n
  BY <1>1, FS_Interval
<1>6. o \in Surjection(1 .. n, S)
  BY <1>1, <1>4, <1>5, FS_Injection
<1> QED BY <1>3, <1>6 DEF Surjection

(* An arrangement is the local screens and one screen per peer visited.    *)
LEMMA BuildParts ==
    ASSUME NEW pl, NEW S \in SUBSET Conns, NEW o \in Orders(S)
    PROVE  LET l == Build(pl, o)
               n == Len(LocalScreens) IN
           /\ DOMAIN l = 1 .. n + Len(o)
           /\ \A i \in DOMAIN LocalScreens : i \in DOMAIN l /\ l[i] = LocalScreens[i]
           /\ \A i \in 1 .. Len(o) : l[n + i].device = Reported[o[i]].device
<1> DEFINE n == Len(LocalScreens)
           auto(i) == Reported[o[i]].id \notin DOMAIN pl
           right[i \in 0 .. Len(o)] ==
             IF i = 0 THEN LocalEnd
             ELSE IF auto(i) THEN Add(right[i - 1], Reported[o[i]].w) ELSE right[i - 1]
           x(i) == IF auto(i) THEN right[i - 1] ELSE pl[Reported[o[i]].id]
           theirs == [i \in 1 .. Len(o) |-> [Reported[o[i]] EXCEPT !.x = x(i)]]
           Their == {[Reported[o[i]] EXCEPT !.x = x(i)] : i \in 1 .. Len(o)}
           Own == {LocalScreens[i] : i \in DOMAIN LocalScreens}
<1>1. Build(pl, o) = LocalScreens \o theirs
  BY DEF Build
<1> HIDE DEF x
<1>2. Len(o) \in Nat /\ \A i \in 1 .. Len(o) : o[i] \in S
  BY OrdersVisitAll
<1>3. theirs \in Seq(Their) /\ Len(theirs) = Len(o)
  <2>1. theirs \in [1 .. Len(o) -> Their]
    OBVIOUS
  <2>2. Len(o) \in Nat
    BY <1>2
  <2> HIDE DEF theirs, Their
  <2> QED BY <2>1, <2>2, FunctionIsSeq
<1>4. \A i \in 1 .. Len(o) : theirs[i].device = Reported[o[i]].device
  <2> SUFFICES ASSUME NEW i \in 1 .. Len(o)
               PROVE  theirs[i].device = Reported[o[i]].device
    OBVIOUS
  <2>1. DOMAIN Reported[o[i]] = {"id", "device", "x", "y", "w", "h"}
    BY <1>2, ScreensAssumption DEF IsScreen
  <2> QED BY <2>1
<1> HIDE DEF theirs, Their, right, Own
<1>5. /\ DOMAIN (LocalScreens \o theirs) = 1 .. n + Len(o)
      /\ \A i \in 1 .. n : (LocalScreens \o theirs)[i] = LocalScreens[i]
      /\ \A i \in 1 .. Len(o) : (LocalScreens \o theirs)[n + i] = theirs[i]
  <2>1. LocalScreens \in Seq(Own)
    BY LocalSequence DEF Own
  <2>2. LocalScreens \in Seq(Own \cup Their) /\ theirs \in Seq(Own \cup Their)
    BY <1>3, <2>1
  <2> DEFINE T == Own \cup Their
             lt == LocalScreens \o theirs
  <2>3. LocalScreens \in Seq(T) /\ theirs \in Seq(T)
    BY <2>2
  <2> HIDE DEF T
  <2>4. /\ DOMAIN lt = 1 .. Len(LocalScreens) + Len(theirs)
        /\ \A i \in 1 .. Len(LocalScreens) : lt[i] = LocalScreens[i]
        /\ \A i \in 1 .. Len(theirs) : lt[Len(LocalScreens) + i] = theirs[i]
    BY <2>3, Concatenated
  <2> QED BY <1>3, <2>4
<1> QED BY <1>1, <1>2, <1>4, <1>5, LocalSequence

(* Whatever the placements and the order of the visit, an arrangement      *)
(* shows this machine and the devices visited.                             *)
LEMMA BuildShows ==
    ASSUME NEW pl, NEW S \in SUBSET Conns, NEW o \in Orders(S)
    PROVE  Devices(Build(pl, o)) = {Local} \cup {Reported[c].device : c \in S}
<1> DEFINE l == Build(pl, o)
           n == Len(LocalScreens)
<1>1. /\ DOMAIN l = 1 .. n + Len(o)
      /\ \A i \in DOMAIN LocalScreens : i \in DOMAIN l /\ l[i] = LocalScreens[i]
      /\ \A i \in 1 .. Len(o) : l[n + i].device = Reported[o[i]].device
  BY BuildParts
<1>2. /\ n \in Nat /\ Len(o) \in Nat /\ DOMAIN LocalScreens = 1 .. n /\ 1 \in 1 .. n
      /\ \A i \in 1 .. Len(o) : o[i] \in S
      /\ \A c \in S : \E i \in 1 .. Len(o) : o[i] = c
  BY LocalSequence, OrdersVisitAll
<1>3. \A i \in 1 .. n : l[i].device = Local
  BY <1>1, <1>2, ScreensAssumption
<1> HIDE DEF l, n
<1>4. \A i \in DOMAIN l : i \in 1 .. n \/ \E j \in 1 .. Len(o) : i = n + j
  <2> TAKE i \in DOMAIN l
  <2>1. i \in 1 .. n + Len(o)
    BY <1>1
  <2>2. i \notin 1 .. n => i - n \in 1 .. Len(o) /\ i = n + (i - n)
    BY <1>2, <2>1
  <2> QED BY <2>2
<1>5. \A j \in 1 .. Len(o) : n + j \in DOMAIN l
  BY <1>1, <1>2
<1>6. 1 \in DOMAIN l /\ l[1].device = Local
  BY <1>1, <1>2, <1>3
<1>7. ASSUME NEW d \in Devices(l)
      PROVE  d \in {Local} \cup {Reported[c].device : c \in S}
  BY <1>1, <1>2, <1>3, <1>4 DEF Devices
<1>8. ASSUME NEW c \in S
      PROVE  Reported[c].device \in Devices(l)
  BY <1>1, <1>2, <1>5 DEF Devices
<1>9. Local \in Devices(l)
  BY <1>6 DEF Devices
<1> QED BY <1>7, <1>8, <1>9 DEF l

(* Every arrangement shows the local screens, in their places. *)
LEMMA LocalShown ==
    ASSUME NEW l \in AllLayouts, NEW i \in DOMAIN LocalScreens
    PROVE  i \in DOMAIN l /\ l[i] = LocalScreens[i]
<1>1. PICK pl \in AllPlacements, S \in SUBSET Conns : \E o \in Orders(S) : l = Build(pl, o)
  BY DEF AllLayouts
<1>2. PICK o \in Orders(S) : l = Build(pl, o)
  BY <1>1
<1> QED BY <1>2, BuildParts

(* A rebuild installs one of the arrangements. *)
LEMMA BuildIsLayout ==
    ASSUME NEW pl \in AllPlacements, NEW S \in SUBSET Conns, NEW o \in Orders(S)
    PROVE  Build(pl, o) \in AllLayouts
BY DEF AllLayouts

(* The arrangement of program start: no peer, no placement. *)
LEMMA FirstLayout ==
    /\ NoPlaces \in AllPlacements
    /\ << >> \in Orders({})
    /\ Build(NoPlaces, << >>) \in AllLayouts
    /\ Devices(Build(NoPlaces, << >>)) = {Local}
<1>1. NoPlaces \in [{} -> Places] /\ {} \in SUBSET PeerIds
  BY DEF NoPlaces
<1>2. NoPlaces \in AllPlacements
  BY <1>1 DEF AllPlacements
<1>3. << >> \in Orders({})
  <2>1. Cardinality({}) = 0
    BY FS_EmptySet
  <2>2. 1 .. 0 = {} /\ << >> \in [1 .. 0 -> {}] /\ DOMAIN << >> = {}
    OBVIOUS
  <2> QED BY <2>1, <2>2 DEF Orders
<1>4. Build(NoPlaces, << >>) \in AllLayouts
  BY <1>2, <1>3, BuildIsLayout
<1>5. Devices(Build(NoPlaces, << >>)) = {Local} \cup {Reported[c].device : c \in {}}
  BY <1>3, BuildShows
<1> QED BY <1>2, <1>3, <1>4, <1>5

-----------------------------------------------------------------------------
(* The router of the node is the one RouterProofs is about. *)

LEMMA RouterAssumptions ==
    P!MaxIntAssumption /\ P!LayoutsAssumption /\ P!InputsAssumption /\ P!OriginAssumption
<1>1. P!MaxIntAssumption
  BY MaxIntAssumption
<1>2. P!LayoutsAssumption
  BY LegalAssumption DEF P!IsLayout, IsLayout, P!IsScreen, IsScreen, P!NoOverflow, NoOverflow, P!Int32, Int32, P!MinInt, MinInt
<1>3. P!InputsAssumption
  BY CoordsAssumption DEF P!Int32, Int32, P!MinInt, MinInt
<1>4. P!OriginAssumption
  BY MaxIntAssumption DEF P!Int32, Int32, P!MinInt, MinInt
<1> QED BY <1>1, <1>2, <1>3, <1>4

LEMMA RouterInitHolds == P!Init => P!IInv
BY RouterAssumptions, P!InitInv

LEMMA RouterNextHolds == P!IInv /\ [P!Next]_(P!vars) => P!IInv'
BY RouterAssumptions, P!NextInv

LEMMA GeometrySame ==
    /\ P!NoScreen = NoScreen /\ R!NoScreen = NoScreen
    /\ \A a, b : P!Add(a, b) = Add(a, b) /\ R!Add(a, b) = Add(a, b)
    /\ \A a, b : P!Sub(a, b) = Sub(a, b) /\ R!Sub(a, b) = Sub(a, b)
    /\ \A s, x, y : /\ P!Contains(s, x, y) = Contains(s, x, y)
                    /\ R!Contains(s, x, y) = Contains(s, x, y)
    /\ \A l, x, y : /\ P!ScreenAt(l, x, y) = ScreenAt(l, x, y)
                    /\ R!ScreenAt(l, x, y) = ScreenAt(l, x, y)
    /\ \A l, x, y, nx, ny : /\ P!MovePointer(l, x, y, nx, ny) = MovePointer(l, x, y, nx, ny)
                            /\ R!MovePointer(l, x, y, nx, ny) = MovePointer(l, x, y, nx, ny)
<1>1. P!NoScreen = NoScreen /\ R!NoScreen = NoScreen
  BY DEF NoScreen, P!NoScreen, R!NoScreen
<1>2. \A a, b : P!Add(a, b) = Add(a, b) /\ R!Add(a, b) = Add(a, b)
  BY DEF Add, P!Add, R!Add, Wrap, P!Wrap, R!Wrap, MinInt, P!MinInt, R!MinInt
<1>3. \A a, b : P!Sub(a, b) = Sub(a, b) /\ R!Sub(a, b) = Sub(a, b)
  BY DEF Sub, P!Sub, R!Sub, Wrap, P!Wrap, R!Wrap, MinInt, P!MinInt, R!MinInt
<1>4. \A s, x, y : /\ P!Contains(s, x, y) = Contains(s, x, y)
                   /\ R!Contains(s, x, y) = Contains(s, x, y)
  BY <1>2 DEF Contains, P!Contains, R!Contains
<1>5. \A l, x, y : P!Hits(l, x, y) = Hits(l, x, y) /\ R!Hits(l, x, y) = Hits(l, x, y)
  BY <1>4 DEF Hits, P!Hits, R!Hits
<1>6. \A l, I : P!FirstOf(l, I) = FirstOf(l, I) /\ R!FirstOf(l, I) = FirstOf(l, I)
  BY <1>1 DEF FirstOf, P!FirstOf, R!FirstOf
<1>7. \A l, x, y : /\ P!ScreenAt(l, x, y) = ScreenAt(l, x, y)
                   /\ R!ScreenAt(l, x, y) = ScreenAt(l, x, y)
  BY <1>5, <1>6 DEF ScreenAt, P!ScreenAt, R!ScreenAt
<1>8. \A s, d : P!Adjacent(s, d) = Adjacent(s, d) /\ R!Adjacent(s, d) = Adjacent(s, d)
  BY <1>2, <1>3 DEF Adjacent, P!Adjacent, R!Adjacent, SpanX, P!SpanX, R!SpanX,
     SpanY, P!SpanY, R!SpanY, SpansOverlap, P!SpansOverlap, R!SpansOverlap
<1>9. \A l, s, x, y : /\ P!AcrossEdge(l, s, x, y) = AcrossEdge(l, s, x, y)
                      /\ R!AcrossEdge(l, s, x, y) = AcrossEdge(l, s, x, y)
  <2> TAKE l, s, x, y
  <2> DEFINE near  == {i \in Hits(l, x, y) : l[i].id # s.id /\ Adjacent(s, l[i])}
             nearP == {i \in P!Hits(l, x, y) : l[i].id # s.id /\ P!Adjacent(s, l[i])}
             nearR == {i \in R!Hits(l, x, y) : l[i].id # s.id /\ R!Adjacent(s, l[i])}
  <2>1. nearP = near /\ nearR = near
    BY <1>5, <1>8
  <2>2. AcrossEdge(l, s, x, y) = IF near # {} THEN FirstOf(l, near) ELSE ScreenAt(l, x, y)
    BY DEF AcrossEdge
  <2>3. P!AcrossEdge(l, s, x, y) = IF nearP # {} THEN P!FirstOf(l, nearP) ELSE P!ScreenAt(l, x, y)
    BY DEF P!AcrossEdge
  <2>4. R!AcrossEdge(l, s, x, y) = IF nearR # {} THEN R!FirstOf(l, nearR) ELSE R!ScreenAt(l, x, y)
    BY DEF R!AcrossEdge
  <2> HIDE DEF near, nearP, nearR
  <2> QED BY <1>6, <1>7, <2>1, <2>2, <2>3, <2>4
<1>10. \A s, x, y : P!ClampTo(s, x, y) = ClampTo(s, x, y) /\ R!ClampTo(s, x, y) = ClampTo(s, x, y)
  BY <1>2, <1>3 DEF ClampTo, P!ClampTo, R!ClampTo, ClampSpan, P!ClampSpan, R!ClampSpan
<1>11. \A l, x, y, nx, ny : /\ P!MovePointer(l, x, y, nx, ny) = MovePointer(l, x, y, nx, ny)
                            /\ R!MovePointer(l, x, y, nx, ny) = MovePointer(l, x, y, nx, ny)
  <2> TAKE l, x, y, nx, ny
  <2>1. P!MovePointer(l, x, y, nx, ny) = MovePointer(l, x, y, nx, ny)
    BY <1>1, <1>4, <1>7, <1>9, <1>10 DEF MovePointer, P!MovePointer
  <2>2. R!MovePointer(l, x, y, nx, ny) = MovePointer(l, x, y, nx, ny)
    BY <1>1, <1>4, <1>7, <1>9, <1>10 DEF MovePointer, R!MovePointer
  <2> QED BY <2>1, <2>2
<1> QED BY <1>1, <1>2, <1>3, <1>4, <1>7, <1>11

LEMMA RouterSame ==
    /\ R!Init <=> P!Init
    /\ [R!Next]_(R!vars) <=> [P!Next]_(P!vars)
<1>1. R!Init <=> P!Init
  BY GeometrySame DEF R!Init, P!Init
<1>2. \A l : R!SetLayout(l) <=> P!SetLayout(l)
  BY GeometrySame DEF R!SetLayout, P!SetLayout
<1>3. \A nx, ny : R!Advance(nx, ny) <=> P!Advance(nx, ny)
  BY GeometrySame DEF R!Advance, P!Advance
<1>4. R!OwnScreens = P!OwnScreens
  BY DEF R!OwnScreens, P!OwnScreens, R!Screens, P!Screens
<1>5. \A s, x, y : R!OnLocalMove(s, x, y) <=> P!OnLocalMove(s, x, y)
  BY <1>3, GeometrySame DEF R!OnLocalMove, P!OnLocalMove
<1>6. \A x, y : R!MoveByDelta(x, y) <=> P!MoveByDelta(x, y)
  BY <1>3, GeometrySame DEF R!MoveByDelta, P!MoveByDelta
<1>7. \A x, y : R!MoveTo(x, y) <=> P!MoveTo(x, y)
  BY <1>3, GeometrySame DEF R!MoveTo, P!MoveTo
<1>8. R!Moving <=> P!Moving
  BY <1>4, <1>5, <1>6, <1>7 DEF R!Moving, P!Moving
<1>9. \A x, y : R!SetPosition(x, y) <=> P!SetPosition(x, y)
  BY GeometrySame DEF R!SetPosition, P!SetPosition
<1>10. R!Next <=> P!Next
  BY <1>2, <1>8, <1>9 DEF R!Next, P!Next
<1> QED BY <1>1, <1>10 DEF R!vars, P!vars

-----------------------------------------------------------------------------
(* Type correctness. *)

(* A point of this machine is on one of its screens, the first of which is *)
(* its home.                                                               *)
LEMMA HomeIsLocal ==
    ASSUME NEW x \in LocalPoints
    PROVE  Home(x) \in DOMAIN LocalScreens
<1> DEFINE on == {i \in DOMAIN LocalScreens : Contains(LocalScreens[i], x, 0)}
           less == OpToRel(<, Nat)
<1>1. PICK i \in DOMAIN LocalScreens : x \in LocalScreens[i].x .. LocalScreens[i].x + LocalScreens[i].w - 1
  BY DEF LocalPoints
<1>2. i \in on
  <2> DEFINE s == LocalScreens[i]
  <2>1. IsScreen(s) /\ NoOverflow(s) /\ s.y = 0 /\ s.h = 1
    BY ScreensAssumption DEF IsLayout
  <2>2. s.x \in Int /\ s.w \in Int /\ s.x + s.w \in Int32
    BY <2>1, MaxIntAssumption DEF IsScreen, NoOverflow, Int32, MinInt
  <2>3. Add(s.x, s.w) = s.x + s.w /\ Add(0, 1) = 1
    BY <2>2, MaxIntAssumption DEF Add, Wrap, Int32, MinInt
  <2>4. Contains(s, x, 0)
    BY <1>1, <2>1, <2>2, <2>3 DEF Contains
  <2> QED BY <2>4
<1>3. on \subseteq Nat
  BY LocalSequence
<1>4. PICK k \in on : \A j \in on : ~(<<j, k>> \in less)
  BY <1>2, <1>3, NatLessThanWellFounded, WFMin
<1>5. \A j \in on : ~(j < k)
  BY <1>3, <1>4, Zenon DEF OpToRel, less
<1>6. \A j \in on : k <= j
  BY <1>3, <1>5
<1>7. \E h \in DOMAIN LocalScreens :
          /\ Contains(LocalScreens[h], x, 0)
          /\ \A j \in DOMAIN LocalScreens : Contains(LocalScreens[j], x, 0) => h <= j
  BY <1>6
<1> QED BY <1>7 DEF Home

(* Events of the capture thread. *)
LEMMA ArgRecord ==
    ASSUME NEW h \in DOMAIN LocalScreens, NEW x, NEW nx \in Coords, NEW dx \in Deltas,
           NEW to, NEW then \in {"idle", "active", "check"}
    PROVE  IsArg([home |-> h, x |-> x, nx |-> nx, dx |-> dx, to |-> to, then |-> then])
BY DEF IsArg

LEMMA NoArgTyped ==
    /\ IsArg(NoArg)
    /\ 1 \in DOMAIN LocalScreens /\ 0 \in Coords /\ 0 \in Deltas
<1>1. 1 \in DOMAIN LocalScreens /\ 0 \in Coords /\ 0 \in Deltas
  BY LocalSequence, CoordsAssumption
<1> QED BY <1>1, ArgRecord DEF NoArg

LEMMA ArgRoutes ==
    ASSUME ArgTyped, NEW to, NEW then \in {"idle", "active", "check"}
    PROVE  IsArg([arg EXCEPT !.to = to, !.then = then]) /\ IsArg([arg EXCEPT !.to = to])
<1>1. PICK h \in DOMAIN LocalScreens, x \in {arg.x}, nx \in Coords, dx \in Deltas,
           t \in {arg.to}, th \in {"idle", "active", "check"} :
         arg = [home |-> h, x |-> x, nx |-> nx, dx |-> dx, to |-> t, then |-> th]
  BY DEF ArgTyped, IsArg
<1> DEFINE sent == [arg EXCEPT !.to = to]
           both == [sent EXCEPT !.then = then]
<1>2. sent = [home |-> h, x |-> x, nx |-> nx, dx |-> dx, to |-> to, then |-> th]
  BY <1>1
<1>3. [arg EXCEPT !.to = to, !.then = then] = both
  BY Zenon
<1> HIDE DEF sent
<1>4. both = [home |-> h, x |-> x, nx |-> nx, dx |-> dx, to |-> to, then |-> then]
  BY <1>2
<1> HIDE DEF both
<1>5. IsArg(sent) /\ IsArg(both)
  BY <1>2, <1>4, ArgRecord
<1> QED BY <1>3, <1>5, Zenon DEF sent

(* The thread that moves is the only one whose place changes. *)
LEMMA RebuilderMoves ==
    ASSUME ThreadsTyped, NEW t \in Rebuilders, NEW to \in RebuildPcs,
           pc' = [pc EXCEPT ![t] = to]
    PROVE  /\ ThreadsTyped' /\ pc'[t] = to
           /\ \A q \in Rebuilders : q # t => pc'[q] = pc[q]
<1>1. t \in Threads /\ Capture \in Threads /\ t # Capture /\ Rebuilders \subseteq Threads
  BY ThreadsAssumption DEF Threads, Rebuilders
<1> QED BY <1>1 DEF ThreadsTyped

LEMMA CaptureMoves ==
    ASSUME ThreadsTyped, NEW to \in CapturePcs, pc' = [pc EXCEPT ![Capture] = to]
    PROVE  /\ ThreadsTyped' /\ pc'[Capture] = to
           /\ \A q \in Rebuilders : pc'[q] = pc[q]
<1>1. Capture \in Threads /\ Capture \notin Rebuilders /\ Rebuilders \subseteq Threads
  BY ThreadsAssumption DEF Threads, Rebuilders
<1> QED BY <1>1 DEF ThreadsTyped

(* Program start. *)
LEMMA InitTyped == Init => Typed
<1> SUFFICES ASSUME Init PROVE Typed
  OBVIOUS
<1>1. ThreadsTyped
  <2>1. Capture # Ui /\ Rebuilders \subseteq Threads /\ Capture \in Threads
    BY ThreadsAssumption DEF Rebuilders, Threads
  <2>2. pc \in [Threads -> {"boot", "idle"}] /\ pc[Capture] = "idle"
    BY <2>1 DEF Init
  <2> QED BY <2>1, <2>2 DEF ThreadsTyped, RebuildPcs, CapturePcs
<1>2. CopiesTyped
  <2>1. \A t \in Rebuilders : pc[t] \notin Holding
    BY DEF Init, Holding, Rebuilders, Threads
  <2> QED BY <2>1, FirstLayout DEF Init, CopiesTyped
<1>3. ArgTyped
  BY NoArgTyped DEF Init, ArgTyped
<1>4. SessionTyped
  <2>1. link \in [Conns -> {"none", "up", "half", "dead"}]
    BY DEF Init
  <2>2. relative \in BOOLEAN /\ suppressed \in BOOLEAN /\ meddled \in BOOLEAN /\ collided \in BOOLEAN
    BY Zenon DEF Init
  <2>3. connects \in 0 .. MaxConnects /\ changes \in 0 .. MaxPlacements
    BY BoundsAssumption DEF Init
  <2>4. reported \subseteq peers /\ peers \subseteq Conns
    BY DEF Init
  <2> QED BY <2>1, <2>2, <2>3, <2>4 DEF SessionTyped
<1> QED BY <1>1, <1>2, <1>3, <1>4 DEF Typed

(* What the capture thread never touches. *)
CaptureKeeps ==
    /\ layout' = layout
    /\ UNCHANGED <<auth, placements, session, snap, places, bounds, history>>

CaptureEffect ==
    /\ \E to \in CapturePcs : pc' = [pc EXCEPT ![Capture] = to]
    /\ ArgTyped'
    /\ CaptureKeeps
    /\ relative' \in BOOLEAN /\ suppressed' \in BOOLEAN

(* The cursor moves on the arrangement as it is. *)
LEMMA CursorOnly ==
    /\ \A x, y : R!SetPosition(x, y) => layout' = layout
    /\ \A x, y : R!MoveByDelta(x, y) => layout' = layout
    /\ \A x, y : R!MoveTo(x, y) => layout' = layout
    /\ \A s, x, y : R!OnLocalMove(s, x, y) => layout' = layout
BY DEF R!SetPosition, R!MoveByDelta, R!MoveTo, R!OnLocalMove, R!Advance

(* A step of the capture thread moves that thread only, and leaves the     *)
(* arrangement and the connections alone.                                  *)
LEMMA CaptureEffects ==
    ASSUME Typed, UserMove \/ LocalEvent \/ CaptureStep
    PROVE  CaptureEffect
<1> USE DEF CaptureKeeps, mode, locals
<1>0. ArgTyped /\ relative \in BOOLEAN /\ suppressed \in BOOLEAN
  BY DEF Typed, SessionTyped
<1>1. ASSUME UNCHANGED arg PROVE ArgTyped'
  BY <1>0, <1>1 DEF ArgTyped
<1>2. ASSUME arg' = NoArg PROVE ArgTyped'
  BY <1>2, NoArgTyped DEF ArgTyped
<1>3. ASSUME NEW to, arg' = [arg EXCEPT !.to = to] PROVE ArgTyped'
  BY <1>0, <1>3, ArgRoutes, Zenon DEF ArgTyped
<1>4. ASSUME NEW to, NEW then \in {"active", "check"},
             arg' = [arg EXCEPT !.to = to, !.then = then]
      PROVE  ArgTyped'
  <2>1. then \in {"idle", "active", "check"}
    OBVIOUS
  <2> QED BY <1>0, <1>4, <2>1, ArgRoutes, Zenon DEF ArgTyped
<1>5. ASSUME NEW dx \in Deltas, MoveRelative(dx) PROVE CaptureEffect
  <2>1. arg' = [home |-> 1, x |-> 0, nx |-> 0, dx |-> dx, to |-> "none", then |-> "idle"]
    BY <1>5 DEF MoveRelative, NoArg
  <2>2. ArgTyped'
    BY <2>1, ArgRecord, NoArgTyped DEF ArgTyped
  <2>3. pc' = [pc EXCEPT ![Capture] = "delta"] /\ "delta" \in CapturePcs
    BY <1>5 DEF MoveRelative, Goto, CapturePcs
  <2>4. CaptureKeeps /\ relative' = relative /\ suppressed' = suppressed
    BY <1>5 DEF MoveRelative, router
  <2> QED BY <1>0, <2>2, <2>3, <2>4 DEF CaptureEffect
<1>6. ASSUME NEW x \in LocalPoints, NEW dx \in Deltas, MoveCoupled(x, dx) PROVE CaptureEffect
  <2> DEFINE h == Home(x)
             nx == Project(LocalScreens[Home(x)], x, dx)
  <2>1. h \in DOMAIN LocalScreens /\ nx \in Coords
    BY HomeIsLocal, CoordsAssumption
  <2>2. arg' = [NoArg EXCEPT !.home = h, !.x = x, !.nx = nx]
    BY <1>6, Zenon DEF MoveCoupled
  <2> HIDE DEF h, nx
  <2>3. arg' = [home |-> h, x |-> x, nx |-> nx, dx |-> 0, to |-> "none", then |-> "idle"]
    BY <2>2 DEF NoArg
  <2>4. ArgTyped'
    BY <2>1, <2>3, ArgRecord, NoArgTyped DEF ArgTyped
  <2>5. pc' = [pc EXCEPT ![Capture] = "abs"] /\ "abs" \in CapturePcs
    BY <1>6 DEF MoveCoupled, Goto, CapturePcs
  <2>6. CaptureKeeps /\ relative' = relative /\ suppressed' = suppressed
    BY <1>6 DEF MoveCoupled, router
  <2> QED BY <1>0, <2>4, <2>5, <2>6 DEF CaptureEffect
<1>7. CASE LocalEvent
  <2>1. arg' = [NoArg EXCEPT !.to = cur.device, !.then = "idle"]
    BY <1>7, Zenon DEF LocalEvent
  <2>2. arg' = [home |-> 1, x |-> 0, nx |-> 0, dx |-> 0, to |-> cur.device, then |-> "idle"]
    BY <2>1 DEF NoArg
  <2>3. ArgTyped'
    BY <2>2, ArgRecord, NoArgTyped DEF ArgTyped
  <2>4. pc' = [pc EXCEPT ![Capture] = "send"] /\ "send" \in CapturePcs
    BY <1>7 DEF LocalEvent, CapturePcs
  <2>5. CaptureKeeps /\ relative' = relative /\ suppressed' = suppressed
    BY <1>7 DEF LocalEvent, router
  <2> QED BY <1>0, <2>3, <2>4, <2>5 DEF CaptureEffect
<1>8. CASE RouteAbs
  <2>1. ArgTyped'
    BY <1>3, <1>4, <1>8 DEF RouteAbs
  <2>2. \E to \in CapturePcs : pc' = [pc EXCEPT ![Capture] = to]
    BY <1>8 DEF RouteAbs, CapturePcs
  <2>3. CaptureKeeps /\ relative' = relative /\ suppressed' = suppressed
    BY <1>8, CursorOnly DEF RouteAbs
  <2> QED BY <1>0, <2>1, <2>2, <2>3 DEF CaptureEffect
<1>9. CASE RouteDelta
  <2>1. ArgTyped'
    BY <1>3, <1>4, <1>9 DEF RouteDelta
  <2>2. \E to \in CapturePcs : pc' = [pc EXCEPT ![Capture] = to]
    BY <1>9 DEF RouteDelta, CapturePcs
  <2>3. CaptureKeeps /\ relative' = relative /\ suppressed' = suppressed
    BY <1>9, CursorOnly DEF RouteDelta
  <2> QED BY <1>0, <2>1, <2>2, <2>3 DEF CaptureEffect
<1>10. CASE SendOk
  <2>1. ArgTyped'
    BY <1>2, <1>3, <1>10 DEF SendOk
  <2>2. arg.then \in CapturePcs
    BY <1>0 DEF ArgTyped, IsArg, CapturePcs
  <2>3. pc' = [pc EXCEPT ![Capture] = arg.then]
    BY <1>10 DEF SendOk
  <2>4. CaptureKeeps /\ relative' = relative /\ suppressed' = suppressed
    BY <1>10 DEF SendOk, router
  <2> QED BY <1>0, <2>1, <2>2, <2>3, <2>4 DEF CaptureEffect
<1>11. CASE SendFail \/ CheckActive \/ CheckBack
  <2>1. ArgTyped'
    BY <1>2, <1>11 DEF SendFail, CheckActive, CheckBack
  <2>2. \E to \in CapturePcs : pc' = [pc EXCEPT ![Capture] = to]
    BY <1>11 DEF SendFail, CheckActive, CheckBack, CapturePcs
  <2>3. CaptureKeeps /\ relative' = relative /\ suppressed' = suppressed
    BY <1>11 DEF SendFail, CheckActive, CheckBack, router
  <2> QED BY <1>0, <2>1, <2>2, <2>3 DEF CaptureEffect
<1>12. CASE EngageFlag \/ BackFlag \/ ForceFlag
  <2>1. \E to \in CapturePcs : pc' = [pc EXCEPT ![Capture] = to]
    BY <1>12 DEF EngageFlag, BackFlag, ForceFlag, Flag, CapturePcs
  <2>2. CaptureKeeps /\ arg' = arg /\ suppressed' = suppressed
    BY <1>12 DEF EngageFlag, BackFlag, ForceFlag, router
  <2>3. relative' = TRUE \/ relative' = FALSE
    BY <1>12, Zenon DEF EngageFlag, BackFlag, ForceFlag, Flag
  <2> QED BY <1>0, <1>1, <2>1, <2>2, <2>3 DEF CaptureEffect
<1>13. CASE EngageCall \/ BackCall \/ ForceCall
  <2>1. \E to \in CapturePcs : pc' = [pc EXCEPT ![Capture] = to]
    BY <1>13 DEF EngageCall, BackCall, ForceCall, Drive, Goto, CapturePcs
  <2>2. CaptureKeeps /\ arg' = arg /\ relative' = relative
    BY <1>13 DEF EngageCall, BackCall, ForceCall, router
  <2>3. suppressed' = TRUE \/ suppressed' = FALSE
    BY <1>13, Zenon DEF EngageCall, BackCall, ForceCall, Drive
  <2> QED BY <1>0, <1>1, <2>1, <2>2, <2>3 DEF CaptureEffect
<1>14. CASE ForceCheck \/ ForceSeed
  <2>1. \E to \in CapturePcs : pc' = [pc EXCEPT ![Capture] = to]
    BY <1>14 DEF ForceCheck, ForceSeed, Goto, CapturePcs
  <2>2. CaptureKeeps /\ arg' = arg /\ relative' = relative /\ suppressed' = suppressed
    BY <1>14, CursorOnly DEF ForceCheck, ForceSeed, router
  <2> QED BY <1>0, <1>1, <2>1, <2>2 DEF CaptureEffect
<1> QED BY <1>5, <1>6, <1>7, <1>8, <1>9, <1>10, <1>11, <1>12, <1>13, <1>14
        DEF UserMove, CaptureStep

(* A thread that moves without taking an arrangement keeps the copies.     *)
LEMMA CopiesKept ==
    ASSUME CopiesTyped, UNCHANGED <<placements, places, snap, layout, auth>>,
           \A t \in Rebuilders : pc'[t] \in Holding => pc[t] \in Holding
    PROVE  CopiesTyped'
BY DEF CopiesTyped

LEMMA SessionKept ==
    ASSUME SessionTyped, UNCHANGED <<session, bounds, history>>,
           relative' \in BOOLEAN, suppressed' \in BOOLEAN
    PROVE  SessionTyped'
BY DEF SessionTyped, session, bounds, history

(* Every step of a rebuild, and program start, keeps the types.            *)
LEMMA RebuildTyped ==
    ASSUME Typed, NEW t \in Rebuilders, Rebuild(t)
    PROVE  Typed'
<1> USE DEF mode, session, locals, bounds, history, router
<1>0. ThreadsTyped /\ CopiesTyped /\ ArgTyped /\ SessionTyped
  BY DEF Typed
<1>1. relative \in BOOLEAN /\ suppressed \in BOOLEAN
  BY <1>0 DEF SessionTyped
<1>2. ASSUME UNCHANGED arg PROVE ArgTyped'
  BY <1>0, <1>2 DEF ArgTyped
<1>3. CASE CopyPlaces(t)
  <2>1. ThreadsTyped' /\ pc'[t] = "peers" /\ \A q \in Rebuilders : q # t => pc'[q] = pc[q]
    BY <1>0, <1>3, RebuilderMoves DEF CopyPlaces, Goto, RebuildPcs
  <2>2. CopiesTyped'
    BY <1>0, <1>3, <2>1 DEF CopyPlaces, CopiesTyped, Holding
  <2>3. collided' \in BOOLEAN
    BY <1>3, Zenon DEF CopyPlaces
  <2>4. SessionTyped'
    BY <1>0, <1>3, <2>3 DEF CopyPlaces, SessionTyped
  <2> QED BY <1>2, <1>3, <2>1, <2>2, <2>4 DEF CopyPlaces, Typed
<1>4. CASE ReadPeers(t)
  <2>1. ThreadsTyped' /\ pc'[t] = "auth" /\ \A q \in Rebuilders : q # t => pc'[q] = pc[q]
    BY <1>0, <1>4, RebuilderMoves DEF ReadPeers, Goto, RebuildPcs, Holding
  <2>2. peers \cap reported \in SUBSET Conns
    BY <1>0 DEF SessionTyped
  <2>3. PICK o \in Orders(peers \cap reported) : snap' = [snap EXCEPT ![t] = Build(places[t], o)]
    BY <1>4 DEF ReadPeers
  <2>4. places[t] \in AllPlacements
    BY <1>0 DEF CopiesTyped
  <2>5. Build(places[t], o) \in AllLayouts
    BY <2>2, <2>4, BuildIsLayout
  <2>6. CopiesTyped'
    BY <1>0, <1>4, <2>1, <2>3, <2>5, FirstLayout DEF ReadPeers, CopiesTyped
  <2>7. SessionTyped'
    BY <1>0, <1>1, <1>4, SessionKept DEF ReadPeers
  <2> QED BY <1>2, <1>4, <2>1, <2>6, <2>7 DEF ReadPeers, Typed
<1>5. CASE SetAuth(t)
  <2>1. /\ ThreadsTyped' /\ pc[t] = "auth" /\ pc'[t] = "gone"
        /\ \A q \in Rebuilders : q # t => pc'[q] = pc[q]
    BY <1>0, <1>5, RebuilderMoves DEF SetAuth, Goto, RebuildPcs, Holding
  <2>2. snap[t] \in AllLayouts
    BY <1>0, <2>1 DEF CopiesTyped, Holding
  <2>3. CopiesTyped'
    BY <1>0, <1>5, <2>1, <2>2 DEF SetAuth, CopiesTyped, Holding
  <2>4. SessionTyped'
    BY <1>0, <1>1, <1>5, SessionKept DEF SetAuth
  <2> QED BY <1>2, <1>5, <2>1, <2>3, <2>4 DEF SetAuth, Typed
<1>6. CASE CheckGone(t) \/ SeedLocal(t) \/ ReleaseFlag(t) \/ ReleaseCall(t)
  <2>1. PICK to \in Holding : pc[t] \in Holding /\ pc' = [pc EXCEPT ![t] = to]
    BY <1>6 DEF CheckGone, SeedLocal, ReleaseFlag, ReleaseCall, Flag, Drive, Goto, Holding
  <2>2. ThreadsTyped' /\ pc'[t] = to /\ \A q \in Rebuilders : q # t => pc'[q] = pc[q]
    BY <1>0, <2>1, RebuilderMoves DEF RebuildPcs
  <2>3. /\ layout' = layout /\ UNCHANGED <<auth, placements, session, locals, bounds, history>>
        /\ relative' = relative \/ relative' = FALSE
        /\ suppressed' = suppressed \/ suppressed' = FALSE
    BY <1>6, CursorOnly, Zenon DEF CheckGone, SeedLocal, ReleaseFlag, ReleaseCall, Flag, Drive
  <2>4. CopiesTyped'
    BY <1>0, <2>1, <2>2, <2>3, CopiesKept
  <2>5. SessionTyped'
    BY <1>0, <1>1, <2>3, SessionKept
  <2> QED BY <1>2, <2>2, <2>3, <2>4, <2>5 DEF Typed
<1>7. CASE Install(t)
  <2>1. /\ ThreadsTyped' /\ pc[t] = "install" /\ pc'[t] = "idle"
        /\ \A q \in Rebuilders : q # t => pc'[q] = pc[q]
    BY <1>0, <1>7, RebuilderMoves DEF Install, Goto, RebuildPcs
  <2>2. snap[t] \in AllLayouts
    BY <1>0, <2>1 DEF CopiesTyped, Holding
  <2>3. layout' = snap[t]
    BY <1>7 DEF Install, R!SetLayout
  <2>4. CopiesTyped'
    BY <1>0, <1>7, <2>1, <2>2, <2>3 DEF Install, CopiesTyped, Holding
  <2>5. SessionTyped'
    BY <1>0, <1>1, <1>7, SessionKept DEF Install
  <2> QED BY <1>2, <1>7, <2>1, <2>4, <2>5 DEF Install, Typed
<1> QED BY <1>3, <1>4, <1>5, <1>6, <1>7 DEF Rebuild

(* Placement requests of the user. *)
LEMMA PlacementTyped ==
    ASSUME Typed,
           \/ \E id \in PeerIds, x \in Places : SetPlacement(id, x)
           \/ \E id \in PeerIds : ClearPlacement(id)
    PROVE  /\ Typed' /\ pc' = [pc EXCEPT ![Ui] = "places"]
           /\ UNCHANGED <<router, auth, session, locals, history>>
<1> USE DEF mode, session, locals, bounds, history, router
<1>0. ThreadsTyped /\ CopiesTyped /\ ArgTyped /\ SessionTyped
  BY DEF Typed
<1>1. /\ pc' = [pc EXCEPT ![Ui] = "places"]
      /\ UNCHANGED <<router, auth, mode, session, locals, connects, history>>
      /\ changes' = changes + 1 /\ changes < MaxPlacements
  BY DEF SetPlacement, ClearPlacement, Goto
<1>2. Ui \in Rebuilders
  BY DEF Rebuilders
<1>3. ThreadsTyped' /\ pc'[Ui] = "places" /\ \A q \in Rebuilders : q # Ui => pc'[q] = pc[q]
  BY <1>0, <1>1, <1>2, RebuilderMoves DEF RebuildPcs
<1>4. placements' \in AllPlacements
  <2>1. PICK D \in SUBSET PeerIds : placements \in [D -> Places]
    BY <1>0 DEF CopiesTyped, AllPlacements
  <2>2. ASSUME NEW id \in PeerIds, NEW x \in Places, SetPlacement(id, x)
        PROVE  placements' \in AllPlacements
    <3>1. placements' = [i \in D \cup {id} |-> IF i = id THEN x ELSE placements[i]]
      BY <2>1, <2>2 DEF SetPlacement
    <3>2. placements' \in [D \cup {id} -> Places] /\ D \cup {id} \in SUBSET PeerIds
      BY <2>1, <3>1
    <3> QED BY <3>2 DEF AllPlacements
  <2>3. ASSUME NEW id \in PeerIds, ClearPlacement(id)
        PROVE  placements' \in AllPlacements
    <3>1. placements' = [i \in D \ {id} |-> placements[i]]
      BY <2>1, <2>3 DEF ClearPlacement
    <3>2. placements' \in [D \ {id} -> Places] /\ D \ {id} \in SUBSET PeerIds
      BY <2>1, <3>1
    <3> QED BY <3>2 DEF AllPlacements
  <2> QED BY <2>2, <2>3
<1>5. CopiesTyped'
  BY <1>0, <1>1, <1>3, <1>4 DEF CopiesTyped, Holding
<1>6. SessionTyped'
  BY <1>0, <1>1, BoundsAssumption DEF SessionTyped
<1>7. ArgTyped'
  BY <1>0, <1>1 DEF ArgTyped
<1> QED BY <1>1, <1>3, <1>5, <1>6, <1>7 DEF Typed

(* What happens to a connection. *)
LEMMA ConnectionTyped ==
    ASSUME Typed, NEW c \in Conns, Connection(c)
    PROVE  /\ Typed' /\ layout' = layout
           /\ pc' = pc \/ pc' = [pc EXCEPT ![c] = "places"]
           /\ reported' = reported \/ pc' = [pc EXCEPT ![c] = "places"]
           /\ UNCHANGED <<auth, placements, mode, locals, collided>>
<1> USE DEF mode, session, locals, bounds, history, router
<1>0. ThreadsTyped /\ CopiesTyped /\ ArgTyped /\ SessionTyped
  BY DEF Typed
<1>1. c \in Rebuilders
  BY DEF Rebuilders
<1>2. /\ layout' = layout /\ UNCHANGED <<auth, placements, mode, locals, collided>>
      /\ pc' = pc \/ pc' = [pc EXCEPT ![c] = "places"]
      /\ reported' = reported \/ pc' = [pc EXCEPT ![c] = "places"]
  BY CursorOnly DEF Connection, Accept, Break, Detect, Hello, Report, Disconnect, PeerMove, Goto
<1>3. ThreadsTyped' /\ \A q \in Rebuilders : pc'[q] = pc[q] \/ pc'[q] = "places"
  <2>1. CASE pc' = pc
    BY <1>0, <2>1 DEF ThreadsTyped
  <2>2. CASE pc' = [pc EXCEPT ![c] = "places"]
    <3>1. "places" \in RebuildPcs
      BY DEF RebuildPcs
    <3> QED BY <1>0, <1>1, <2>2, <3>1, RebuilderMoves
  <2> QED BY <1>2, <2>1, <2>2
<1>4. CopiesTyped'
  BY <1>0, <1>2, <1>3, CopiesKept DEF Holding
<1>5. ArgTyped'
  BY <1>0, <1>2 DEF ArgTyped
<1>6. link' \in [Conns -> {"none", "up", "half", "dead"}]
  BY <1>0 DEF SessionTyped, Connection, Accept, Break, Detect, Hello, Report, Disconnect, PeerMove
<1>7. reported' \subseteq peers' /\ peers' \subseteq Conns
  BY <1>0 DEF SessionTyped, Connection, Accept, Break, Detect, Hello, Report, Disconnect, PeerMove
<1>8. connects' \in 0 .. MaxConnects /\ changes' \in 0 .. MaxPlacements
  BY <1>0, BoundsAssumption
     DEF SessionTyped, Connection, Accept, Break, Detect, Hello, Report, Disconnect, PeerMove
<1>9. meddled' = meddled \/ meddled' = TRUE
  BY Zenon DEF Connection, Accept, Break, Detect, Hello, Report, Disconnect, PeerMove
<1>10. SessionTyped'
  BY <1>0, <1>2, <1>6, <1>7, <1>8, <1>9 DEF SessionTyped
<1> QED BY <1>2, <1>3, <1>4, <1>5, <1>10 DEF Typed

(* Program start, and the steps of the capture thread. *)
LEMMA BootTyped ==
    ASSUME Typed, Boot
    PROVE  /\ Typed' /\ layout' = layout /\ pc[Ui] = "boot" /\ pc' = [pc EXCEPT ![Ui] = "idle"]
           /\ UNCHANGED <<auth, placements, mode, session, locals, bounds, history>>
<1> USE DEF mode, session, locals, bounds, history
<1>0. ThreadsTyped /\ CopiesTyped /\ ArgTyped /\ SessionTyped
  BY DEF Typed
<1>1. /\ layout' = layout /\ pc[Ui] = "boot" /\ pc' = [pc EXCEPT ![Ui] = "idle"]
      /\ UNCHANGED <<auth, placements, mode, session, locals, bounds, history>>
  BY CursorOnly DEF Boot, Goto
<1>2. ThreadsTyped' /\ pc'[Ui] = "idle" /\ \A q \in Rebuilders : q # Ui => pc'[q] = pc[q]
  BY <1>0, <1>1, RebuilderMoves DEF RebuildPcs, Rebuilders
<1>3. CopiesTyped'
  BY <1>0, <1>1, <1>2, CopiesKept DEF Holding
<1>4. SessionTyped' /\ ArgTyped'
  BY <1>0, <1>1 DEF SessionTyped, ArgTyped
<1> QED BY <1>1, <1>2, <1>3, <1>4 DEF Typed

LEMMA CaptureTyped ==
    ASSUME Typed, CaptureEffect
    PROVE  Typed'
<1>0. ThreadsTyped /\ CopiesTyped /\ SessionTyped
  BY DEF Typed
<1>1. ThreadsTyped' /\ \A q \in Rebuilders : pc'[q] = pc[q]
  BY <1>0, CaptureMoves DEF CaptureEffect
<1>2. CopiesTyped'
  BY <1>0, <1>1, CopiesKept DEF CaptureEffect, CaptureKeeps
<1>3. SessionTyped'
  BY <1>0, SessionKept DEF CaptureEffect, CaptureKeeps
<1> QED BY <1>1, <1>2, <1>3 DEF Typed, CaptureEffect

(* Every step of the node keeps the types. *)
LEMMA NextTyped == Typed /\ [Next]_vars => Typed'
<1> SUFFICES ASSUME Typed, [Next]_vars PROVE Typed'
  OBVIOUS
<1>1. CASE UNCHANGED vars
  BY <1>1 DEF vars, router, mode, session, locals, bounds, history,
              Typed, ThreadsTyped, CopiesTyped, ArgTyped, SessionTyped
<1>2. CASE Boot
  BY <1>2, BootTyped
<1>3. CASE \E t \in Rebuilders : Rebuild(t)
  BY <1>3, RebuildTyped
<1>4. CASE \/ \E id \in PeerIds, x \in Places : SetPlacement(id, x)
           \/ \E id \in PeerIds : ClearPlacement(id)
  BY <1>4, PlacementTyped
<1>5. CASE \E c \in Conns : Connection(c)
  BY <1>5, ConnectionTyped
<1>6. CASE UserMove \/ LocalEvent \/ CaptureStep
  BY <1>6, CaptureEffects, CaptureTyped
<1> QED BY <1>1, <1>2, <1>3, <1>4, <1>5, <1>6 DEF Next

-----------------------------------------------------------------------------
(* The node uses the router as Router specifies it. *)

LEMMA RouterStarts == Init => R!Init
BY FirstLayout, GeometrySame DEF Init, R!Init

(* Each step of the node is one call of a method of the router, with       *)
(* arguments the router expects, or none.                                  *)
LEMMA RouterSteps == Typed /\ [Next]_vars => [R!Next]_(R!vars)
<1> SUFFICES ASSUME Typed, [Next]_vars PROVE R!Next \/ UNCHANGED router
  BY DEF R!vars, router
<1>0. /\ CopiesTyped /\ ArgTyped
      /\ 0 \in Coords /\ 0 \in Deltas /\ Centre \in Coords /\ LocalPoints \subseteq Coords
  BY CoordsAssumption DEF Typed
<1>1. CASE UNCHANGED vars
  BY <1>1 DEF vars, router
<1>2. CASE Boot
  BY <1>0, <1>2 DEF Boot, R!Next
<1>3. ASSUME NEW t \in Rebuilders, Rebuild(t) PROVE R!Next \/ UNCHANGED router
  <2>1. CASE SeedLocal(t)
    BY <1>0, <2>1 DEF SeedLocal, R!Next
  <2>2. CASE Install(t)
    <3>1. snap[t] \in AllLayouts
      BY <1>0, <2>2 DEF Install, Goto, CopiesTyped, Holding
    <3> QED BY <2>2, <3>1 DEF Install, R!Next
  <2>3. CASE ~SeedLocal(t) /\ ~Install(t)
    BY <1>3, <2>3, Zenon DEF Rebuild, CopyPlaces, ReadPeers, SetAuth, CheckGone, ReleaseFlag, ReleaseCall
  <2> QED BY <2>1, <2>2, <2>3
<1>4. CASE \/ \E id \in PeerIds, x \in Places : SetPlacement(id, x)
           \/ \E id \in PeerIds : ClearPlacement(id)
  BY <1>4, PlacementTyped
<1>5. ASSUME NEW c \in Conns, Connection(c) PROVE R!Next \/ UNCHANGED router
  <2>1. CASE PeerMove(c)
    BY <1>0, <2>1 DEF PeerMove, R!Next, R!Moving
  <2>2. CASE ~PeerMove(c)
    BY <1>5, <2>2, Zenon DEF Connection, Accept, Break, Detect, Hello, Report, Disconnect
  <2> QED BY <2>1, <2>2
<1>6. CASE RouteAbs
  <2>1. arg.home \in DOMAIN LocalScreens /\ arg.nx \in Coords /\ layout \in AllLayouts
    BY <1>0 DEF ArgTyped, IsArg, CopiesTyped
  <2>2. LocalScreens[arg.home] \in R!OwnScreens
    BY <2>1, LocalShown, ScreensAssumption DEF R!OwnScreens, R!Screens
  <2> QED BY <1>0, <1>6, <2>1, <2>2 DEF RouteAbs, R!Next, R!Moving
<1>7. CASE RouteDelta
  <2>1. arg.dx \in Deltas
    BY <1>0 DEF ArgTyped, IsArg
  <2> QED BY <1>0, <1>7, <2>1 DEF RouteDelta, R!Next, R!Moving
<1>8. CASE ForceSeed
  BY <1>0, <1>8 DEF ForceSeed, R!Next
<1>9. CASE UserMove \/ LocalEvent
  BY <1>9, Zenon DEF UserMove, MoveRelative, MoveCoupled, LocalEvent
<1>10. CASE \/ SendOk \/ SendFail \/ CheckActive \/ EngageFlag \/ EngageCall
            \/ CheckBack \/ BackFlag \/ BackCall \/ ForceCheck \/ ForceFlag \/ ForceCall
  BY <1>10, Zenon DEF SendOk, SendFail, CheckActive, EngageFlag, EngageCall,
     CheckBack, BackFlag, BackCall, ForceCheck, ForceFlag, ForceCall
<1> QED BY <1>1, <1>2, <1>3, <1>4, <1>5, <1>6, <1>7, <1>8, <1>9, <1>10 DEF Next, CaptureStep

(* The node never uses the shared cursor in a way the router does not      *)
(* expect: every arrangement it installs, every point and every delta it   *)
(* passes is one of those Router is specified and proved for.              *)
THEOREM ServerUsesRouter == Spec => RouterSpec
<1>1. Init => Typed /\ R!Init
  BY InitTyped, RouterStarts
<1>2. Typed /\ [Next]_vars => Typed' /\ [R!Next]_(R!vars)
  BY NextTyped, RouterSteps
<1> QED BY <1>1, <1>2, PTL DEF Spec, RouterSpec, R!Spec

-----------------------------------------------------------------------------
(* The desktop is one row of pixels, and the cursor stays on it. *)

(* A move along the row ends on the row, clamped or not. *)
LEMMA AdvanceOnRow ==
    ASSUME layout \in AllLayouts, vx \in Int32, vy = 0, NEW nx, R!Advance(nx, 0)
    PROVE  vy' = 0
<1> DEFINE old == ScreenAt(layout, vx, 0)
           dst == AcrossEdge(layout, old, nx, 0)
           cl  == ClampTo(old, nx, 0)
           res == MovePointer(layout, vx, 0, nx, 0)
<1>1. vy' = res.y
  BY GeometrySame DEF R!Advance
<1>2. res = IF old = NoScreen
              THEN [screen |-> ScreenAt(layout, nx, 0), x |-> nx, y |-> 0, crossed |-> FALSE]
            ELSE IF Contains(old, nx, 0)
              THEN [screen |-> old, x |-> nx, y |-> 0, crossed |-> FALSE]
            ELSE IF dst # NoScreen
              THEN [screen |-> dst, x |-> nx, y |-> 0, crossed |-> TRUE]
            ELSE [screen |-> old, x |-> cl[1], y |-> cl[2], crossed |-> FALSE]
  BY DEF MovePointer
<1>3. ASSUME old # NoScreen PROVE cl[2] = 0
  <2>1. vx \in Int /\ 0 \in Int
    BY MaxIntAssumption DEF Int32, MinInt
  <2>2. P!IsLayout(layout)
    BY RouterAssumptions DEF P!LayoutsAssumption
  <2>3. P!Contains(P!ScreenAt(layout, vx, 0), vx, 0)
    BY <1>3, <2>1, <2>2, RouterAssumptions, GeometrySame, P!ScreenAtContains
  <2>4. Contains(old, vx, 0)
    BY <2>3, GeometrySame
  <2>5. 0 >= old.y /\ 0 < Add(old.y, old.h)
    BY <2>4 DEF Contains
  <2>6. P!IsScreen(old)
    BY <1>3, <2>1, <2>2, RouterAssumptions, GeometrySame, P!ScreenAtContains, P!ScreensLegal
  <2>7. old.y \in Int32 /\ old.h \in Int32
    BY <2>6 DEF P!IsScreen, P!Int32, P!MinInt, Int32, MinInt
  <2>8. Add(old.y, old.h) \in Int /\ old.y \in Int
    BY <2>7, MaxIntAssumption DEF Add, Wrap, Int32, MinInt
  <2> HIDE DEF old
  <2>9. ClampSpan(old.y, old.h, 0) = 0
    BY <2>5, <2>8 DEF ClampSpan
  <2> QED BY <2>9 DEF ClampTo
<1> HIDE DEF old, dst, cl
<1>4. CASE old = NoScreen
  BY <1>1, <1>2, <1>4
<1>5. CASE old # NoScreen /\ Contains(old, nx, 0)
  BY <1>1, <1>2, <1>5
<1>6. CASE old # NoScreen /\ ~Contains(old, nx, 0) /\ dst # NoScreen
  BY <1>1, <1>2, <1>6
<1>7. CASE old # NoScreen /\ ~Contains(old, nx, 0) /\ dst = NoScreen
  BY <1>1, <1>2, <1>3, <1>7
<1> QED BY <1>4, <1>5, <1>6, <1>7

(* What holds of the node's threads and of its router, together.           *)
ServerInv == Typed /\ P!IInv /\ vy = 0

LEMMA StaysOnRow == ServerInv /\ [Next]_vars => vy' = 0
<1> SUFFICES ASSUME ServerInv, [Next]_vars PROVE vy' = 0
  OBVIOUS
<1>0. /\ layout \in AllLayouts /\ ArgTyped /\ vx \in Int32 /\ vy = 0 /\ Typed
      /\ Add(0, 0) = 0
  BY MaxIntAssumption
     DEF ServerInv, Typed, CopiesTyped, P!IInv, P!TypeOK, P!Int32, P!MinInt, Int32, MinInt, Add, Wrap
<1>1. CASE UNCHANGED vars
  BY <1>0, <1>1 DEF vars, router
<1>2. ASSUME NEW x, R!SetPosition(x, 0) PROVE vy' = 0
  BY <1>2 DEF R!SetPosition
<1>3. CASE Boot
  BY <1>2, <1>3 DEF Boot
<1>4. ASSUME NEW t \in Rebuilders, Rebuild(t) PROVE vy' = 0
  <2>1. CASE SeedLocal(t)
    BY <1>2, <2>1 DEF SeedLocal
  <2>2. CASE Install(t)
    BY <1>0, <2>2 DEF Install, R!SetLayout
  <2>3. CASE ~SeedLocal(t) /\ ~Install(t)
    <3>1. UNCHANGED router
      BY <1>4, <2>3, Zenon DEF Rebuild, CopyPlaces, ReadPeers, SetAuth, CheckGone, ReleaseFlag, ReleaseCall
    <3> QED BY <1>0, <3>1 DEF router
  <2> QED BY <2>1, <2>2, <2>3
<1>5. CASE \/ \E id \in PeerIds, x \in Places : SetPlacement(id, x)
           \/ \E id \in PeerIds : ClearPlacement(id)
  BY <1>0, <1>5, PlacementTyped DEF router
<1>6. ASSUME NEW c \in Conns, Connection(c) PROVE vy' = 0
  <2>1. CASE PeerMove(c)
    BY <1>0, <2>1, AdvanceOnRow DEF PeerMove, R!MoveTo
  <2>2. CASE ~PeerMove(c)
    <3>1. UNCHANGED router
      BY <1>6, <2>2, Zenon DEF Connection, Accept, Break, Detect, Hello, Report, Disconnect
    <3> QED BY <1>0, <3>1 DEF router
  <2> QED BY <2>1, <2>2
<1>7. CASE RouteAbs
  <2>1. arg.home \in DOMAIN LocalScreens
    BY <1>0 DEF ArgTyped, IsArg
  <2>2. LocalScreens[arg.home].y = 0
    BY <2>1, ScreensAssumption
  <2>3. R!Advance(R!Add(LocalScreens[arg.home].x, arg.nx), 0)
    BY <1>0, <1>7, <2>2, GeometrySame DEF RouteAbs, R!OnLocalMove
  <2> QED BY <1>0, <2>3, AdvanceOnRow
<1>8. CASE RouteDelta
  <2>1. R!Advance(R!Add(vx, arg.dx), 0)
    BY <1>0, <1>8, GeometrySame DEF RouteDelta, R!MoveByDelta
  <2> QED BY <1>0, <2>1, AdvanceOnRow
<1>9. CASE ForceSeed
  BY <1>2, <1>9 DEF ForceSeed
<1>10. CASE UserMove \/ LocalEvent
  <2>1. UNCHANGED router
    BY <1>10, Zenon DEF UserMove, MoveRelative, MoveCoupled, LocalEvent
  <2> QED BY <1>0, <2>1 DEF router
<1>11. CASE \/ SendOk \/ SendFail \/ CheckActive \/ EngageFlag \/ EngageCall
            \/ CheckBack \/ BackFlag \/ BackCall \/ ForceCheck \/ ForceFlag \/ ForceCall
  <2>1. UNCHANGED router
    BY <1>11, Zenon DEF SendOk, SendFail, CheckActive, EngageFlag, EngageCall,
       CheckBack, BackFlag, BackCall, ForceCheck, ForceFlag, ForceCall
  <2> QED BY <1>0, <2>1 DEF router
<1> QED BY <1>1, <1>3, <1>4, <1>5, <1>6, <1>7, <1>8, <1>9, <1>10, <1>11 DEF Next, CaptureStep

(* The node's threads and its router keep their invariant, whatever the    *)
(* connections, the user and the mouse do.                                 *)
THEOREM ServerInvariant == Spec => []ServerInv
<1>1. Init => ServerInv
  <2> SUFFICES ASSUME Init PROVE ServerInv
    OBVIOUS
  <2>1. P!IInv
    BY RouterStarts, RouterSame, RouterInitHolds
  <2> QED BY <2>1, InitTyped DEF ServerInv, Init
<1>2. ServerInv /\ [Next]_vars => ServerInv'
  <2> SUFFICES ASSUME ServerInv, [Next]_vars PROVE ServerInv'
    OBVIOUS
  <2>1. [P!Next]_(P!vars)
    BY RouterSteps, RouterSame DEF ServerInv
  <2>2. P!IInv'
    BY <2>1, RouterNextHolds DEF ServerInv
  <2> QED BY <2>2, NextTyped, StaysOnRow DEF ServerInv
<1> QED BY <1>1, <1>2, PTL DEF Spec

(* Type correctness of the server node. *)
THEOREM ServerTypeOK == Spec => []TypeOK
<1>1. ServerInv => TypeOK
  <2> SUFFICES ASSUME ServerInv PROVE TypeOK
    OBVIOUS
  <2>1. vx \in Int32 /\ vy = 0 /\ cur \in {layout[i] : i \in DOMAIN layout} \cup {NoScreen}
    BY GeometrySame
       DEF ServerInv, P!IInv, P!TypeOK, P!Screens, P!Int32, P!MinInt, Int32, MinInt
  <2> QED BY <2>1 DEF ServerInv, Typed, CopiesTyped, SessionTyped, TypeOK
<1> QED BY <1>1, ServerInvariant, PTL

(* Whoever the node takes to own the keyboard and mouse has a screen under *)
(* the shared cursor, and nobody owns them only where no screen is.        *)
THEOREM ServerCursorMatchesActive == Spec => []R!CursorMatchesActive
<1>1. ServerInv => R!CursorMatchesActive
  BY GeometrySame
     DEF ServerInv, P!IInv, P!CursorOnActive, P!NoBlindCursor,
         R!CursorMatchesActive, R!CursorOnActive, R!NoBlindCursor
<1> QED BY <1>1, ServerInvariant, PTL

-----------------------------------------------------------------------------
(* The arrangement follows the peers. *)

LEMMA RebuildingIs == Rebuilding = {"peers"} \cup Holding
BY DEF Rebuilding, Holding

(* At program start the arrangement shows this machine. *)
LEMMA InitCurrent == Init => OneAtATime /\ Current
<1> SUFFICES ASSUME Init PROVE OneAtATime /\ Current
  OBVIOUS
<1>1. \A t \in Rebuilders : pc[t] \in {"boot", "idle"}
  BY DEF Init, Rebuilders, Threads
<1>2. Shown = {Local} /\ Devices(layout) = {Local} /\ auth = layout
  BY FirstLayout DEF Init, Shown
<1> QED BY <1>1, <1>2 DEF OneAtATime, Current, Rebuilding, Holding

(* A step that installs nothing and changes no peer's screens. *)
LEMMA CurrentKept ==
    ASSUME OneAtATime, Current, UNCHANGED <<layout, auth, snap, reported, collided>>,
           \A t \in Rebuilders : pc'[t] = pc[t] \/ (pc[t] = "boot" /\ pc'[t] = "idle")
    PROVE  OneAtATime' /\ Current'
<1>1. Shown' = Shown
  BY DEF Shown
<1>2. \A t \in Rebuilders :
        /\ pc'[t] \in Rebuilding <=> pc[t] \in Rebuilding
        /\ pc'[t] \in Holding <=> pc[t] \in Holding
        /\ pc'[t] \in {"places", "peers"} <=> pc[t] \in {"places", "peers"}
        /\ pc'[t] = "auth" <=> pc[t] = "auth"
  BY DEF Rebuilding, Holding
<1>3. OneAtATime'
  BY <1>2 DEF OneAtATime
<1>4. Current'
  BY <1>1, <1>2 DEF Current
<1> QED BY <1>3, <1>4

(* A step after which a rebuild is still to come. *)
LEMMA RebuildAhead ==
    ASSUME Typed, OneAtATime, NEW t \in Rebuilders, pc' = [pc EXCEPT ![t] = "places"],
           UNCHANGED collided
    PROVE  OneAtATime' /\ Current'
<1>1. pc'[t] = "places" /\ \A q \in Rebuilders : q # t => pc'[q] = pc[q]
  BY RebuilderMoves DEF Typed, RebuildPcs
<1> QED BY <1>1 DEF OneAtATime, Current, Rebuilding

(* The steps of a rebuild. *)
LEMMA RebuildCurrent ==
    ASSUME Typed, OneAtATime, Current, NEW t \in Rebuilders, Rebuild(t)
    PROVE  OneAtATime' /\ Current'
<1> USE DEF session
<1>0. ThreadsTyped /\ CopiesTyped /\ SessionTyped
  BY DEF Typed
<1>1. CASE CopyPlaces(t)
  <2>1. pc'[t] = "peers" /\ \A q \in Rebuilders : q # t => pc'[q] = pc[q]
    BY <1>0, <1>1, RebuilderMoves DEF CopyPlaces, Goto, RebuildPcs
  <2>2. ~collided' => \A q \in Rebuilders : q # t => pc[q] \notin Rebuilding
    BY <1>1 DEF CopyPlaces
  <2>3. OneAtATime'
    BY <2>1, <2>2 DEF OneAtATime
  <2>4. Current'
    BY <2>1 DEF Current
  <2> QED BY <2>3, <2>4
<1>2. ASSUME ~CopyPlaces(t)
      PROVE  /\ pc[t] \in Rebuilding /\ collided' = collided /\ reported' = reported
             /\ pc'[t] \in {"idle"} \cup Holding
             /\ \A q \in Rebuilders : q # t => pc'[q] = pc[q]
             /\ ~collided => \A q \in Rebuilders : q # t => pc[q] \notin Rebuilding
             /\ OneAtATime'
  <2>1. PICK to \in {"idle"} \cup Holding : pc' = [pc EXCEPT ![t] = to] /\ pc[t] \in Rebuilding
    BY <1>2 DEF Rebuild, ReadPeers, SetAuth, CheckGone, SeedLocal, ReleaseFlag, ReleaseCall,
       Install, Goto, Flag, Drive, Holding, Rebuilding
  <2>2. collided' = collided /\ reported' = reported
    BY <1>2, Zenon DEF Rebuild, ReadPeers, SetAuth, CheckGone, SeedLocal, ReleaseFlag,
       ReleaseCall, Install, history
  <2>3. pc'[t] = to /\ \A q \in Rebuilders : q # t => pc'[q] = pc[q]
    BY <1>0, <2>1, RebuilderMoves DEF RebuildPcs
  <2>4. ~collided => \A q \in Rebuilders : q # t => pc[q] \notin Rebuilding
    BY <2>1 DEF OneAtATime
  <2>5. OneAtATime'
    BY <2>1, <2>2, <2>3, <2>4 DEF OneAtATime
  <2> QED BY <2>1, <2>2, <2>3, <2>4, <2>5
<1>3. ASSUME ~CopyPlaces(t), ~collided', \A q \in Rebuilders : pc'[q] \notin {"places", "peers"}
      PROVE  /\ Shown' = Shown
             /\ \A q \in Rebuilders : q # t => pc[q] \notin Rebuilding /\ pc'[q] \notin Holding
             /\ pc[t] # "peers" => /\ Devices(snap[t]) = Shown
                                   /\ pc[t] # "auth" => auth = snap[t]
  <2>1. Shown' = Shown
    BY <1>2, <1>3 DEF Shown
  <2>2. \A q \in Rebuilders : q # t => pc[q] \notin Rebuilding /\ pc'[q] \notin Holding
    BY <1>2, <1>3, RebuildingIs
  <2>3. ASSUME pc[t] # "peers"
        PROVE  pc[t] \in Holding /\ \A q \in Rebuilders : pc[q] \notin {"places", "peers"}
    BY <1>2, <1>3, <2>2, <2>3, RebuildingIs DEF Holding
  <2>4. pc[t] # "peers" => /\ Devices(snap[t]) = Shown
                           /\ pc[t] # "auth" => auth = snap[t]
    BY <1>2, <1>3, <2>3 DEF Current
  <2> QED BY <2>1, <2>2, <2>4
<1>4. ASSUME ~CopyPlaces(t), ~collided', \A q \in Rebuilders : pc'[q] \notin {"places", "peers"},
             pc'[t] \in Holding,
             Devices(snap'[t]) = Shown', pc'[t] # "auth" => auth' = snap'[t]
      PROVE  Current'
  BY <1>3, <1>4 DEF Current
<1>5. CASE ReadPeers(t)
  <2> SUFFICES ASSUME ~collided', \A q \in Rebuilders : pc'[q] \notin {"places", "peers"}
               PROVE  Current'
    BY <1>2, <1>5 DEF Current, ReadPeers, CopyPlaces, Goto
  <2>0. ~CopyPlaces(t)
    BY <1>5 DEF ReadPeers, CopyPlaces, Goto
  <2>1. pc'[t] = "auth"
    BY <1>0, <1>5, RebuilderMoves DEF ReadPeers, Goto, RebuildPcs, Holding
  <2>2. peers \cap reported = reported /\ reported \in SUBSET Conns
    BY <1>0 DEF SessionTyped
  <2>3. PICK o \in Orders(reported) : snap' = [snap EXCEPT ![t] = Build(places[t], o)]
    BY <1>5, <2>2 DEF ReadPeers
  <2>4. snap'[t] = Build(places[t], o)
    BY <1>0, <2>3 DEF CopiesTyped
  <2>5. Devices(snap'[t]) = Shown
    BY <2>2, <2>4, BuildShows DEF Shown
  <2> QED BY <1>3, <1>4, <2>0, <2>1, <2>5 DEF Holding
<1>6. CASE SetAuth(t)
  <2> SUFFICES ASSUME ~collided', \A q \in Rebuilders : pc'[q] \notin {"places", "peers"}
               PROVE  Current'
    BY <1>2, <1>6 DEF Current, SetAuth, CopyPlaces, Goto
  <2>0. ~CopyPlaces(t)
    BY <1>6 DEF SetAuth, CopyPlaces, Goto
  <2>1. pc[t] = "auth" /\ pc'[t] = "gone" /\ auth' = snap[t] /\ snap' = snap
    BY <1>0, <1>6, RebuilderMoves DEF SetAuth, Goto, RebuildPcs, Holding, locals
  <2> QED BY <1>3, <1>4, <2>0, <2>1 DEF Holding
<1>7. CASE CheckGone(t) \/ SeedLocal(t) \/ ReleaseFlag(t) \/ ReleaseCall(t)
  <2>0. ~CopyPlaces(t)
    BY <1>7 DEF CheckGone, SeedLocal, ReleaseFlag, ReleaseCall, CopyPlaces, Goto, Flag, Drive
  <2> SUFFICES ASSUME ~collided', \A q \in Rebuilders : pc'[q] \notin {"places", "peers"}
               PROVE  Current'
    BY <1>2, <2>0 DEF Current
  <2>1. PICK to \in Holding : /\ pc[t] \in Holding \ {"auth"} /\ to # "auth"
                              /\ pc' = [pc EXCEPT ![t] = to]
    BY <1>7 DEF CheckGone, SeedLocal, ReleaseFlag, ReleaseCall, Flag, Drive, Goto, Holding
  <2>2. pc'[t] = to
    BY <1>0, <2>1, RebuilderMoves DEF RebuildPcs
  <2>3. snap' = snap /\ auth' = auth
    BY <1>7, Zenon DEF CheckGone, SeedLocal, ReleaseFlag, ReleaseCall, locals
  <2> QED BY <1>3, <1>4, <2>0, <2>1, <2>2, <2>3 DEF Holding
<1>8. CASE Install(t)
  <2>0. ~CopyPlaces(t)
    BY <1>8 DEF Install, CopyPlaces, Goto
  <2> SUFFICES ASSUME ~collided', \A q \in Rebuilders : pc'[q] \notin {"places", "peers"}
               PROVE  Current'
    BY <1>2, <2>0 DEF Current
  <2>1. pc[t] = "install" /\ pc'[t] = "idle" /\ auth' = auth /\ layout' = snap[t]
    BY <1>0, <1>8, RebuilderMoves DEF Install, Goto, RebuildPcs, R!SetLayout
  <2>2. \A q \in Rebuilders : pc'[q] \notin Holding
    BY <1>3, <2>0, <2>1 DEF Holding
  <2>3. Devices(layout') = Shown' /\ auth' = layout'
    BY <1>3, <2>0, <2>1
  <2>4. Devices(layout)' = Devices(layout')
    BY DEF Devices
  <2> QED BY <2>2, <2>3, <2>4 DEF Current
<1> QED BY <1>1, <1>2, <1>5, <1>6, <1>7, <1>8 DEF Rebuild

LEMMA NextCurrent ==
    ASSUME Typed, OneAtATime, Current, [Next]_vars
    PROVE  OneAtATime' /\ Current'
<1>1. CASE UNCHANGED vars
  BY <1>1, CurrentKept DEF vars, router, session, locals, history
<1>2. CASE Boot
  <2>1. UNCHANGED <<layout, auth, snap, reported, collided>>
    BY <1>2, BootTyped DEF session, locals, history
  <2>2. \A t \in Rebuilders : pc'[t] = pc[t] \/ (pc[t] = "boot" /\ pc'[t] = "idle")
    BY <1>2, BootTyped, RebuilderMoves DEF Typed, RebuildPcs, Rebuilders
  <2> QED BY <2>1, <2>2, CurrentKept
<1>3. CASE \E t \in Rebuilders : Rebuild(t)
  BY <1>3, RebuildCurrent
<1>4. CASE \/ \E id \in PeerIds, x \in Places : SetPlacement(id, x)
           \/ \E id \in PeerIds : ClearPlacement(id)
  <2>1. pc' = [pc EXCEPT ![Ui] = "places"] /\ UNCHANGED collided
    BY <1>4, PlacementTyped DEF history
  <2> QED BY <2>1, RebuildAhead DEF Rebuilders
<1>5. ASSUME NEW c \in Conns, Connection(c) PROVE OneAtATime' /\ Current'
  <2>1. /\ UNCHANGED <<layout, auth, snap, collided>>
        /\ pc' = pc \/ pc' = [pc EXCEPT ![c] = "places"]
        /\ reported' = reported \/ pc' = [pc EXCEPT ![c] = "places"]
    BY <1>5, ConnectionTyped DEF locals
  <2>2. CASE pc' = [pc EXCEPT ![c] = "places"]
    BY <2>1, <2>2, RebuildAhead DEF Rebuilders
  <2>3. CASE pc' = pc /\ reported' = reported
    BY <2>1, <2>3, CurrentKept
  <2> QED BY <2>1, <2>2, <2>3
<1>6. CASE UserMove \/ LocalEvent \/ CaptureStep
  <2>1. CaptureEffect
    BY <1>6, CaptureEffects
  <2>2. UNCHANGED <<layout, auth, snap, reported, collided>>
    BY <2>1 DEF CaptureEffect, CaptureKeeps, session, history
  <2>3. \A t \in Rebuilders : pc'[t] = pc[t]
    BY <2>1, CaptureMoves DEF CaptureEffect, Typed
  <2> QED BY <2>2, <2>3, CurrentKept
<1> QED BY <1>1, <1>2, <1>3, <1>4, <1>5, <1>6 DEF Next

(* As long as no two rebuilds have overlapped, whatever joins, leaves and  *)
(* placements came in which order: once every rebuild is done, the         *)
(* arrangement shows this machine and exactly the devices connected.       *)
THEOREM ServerLayoutTracksPeers == Spec => []LayoutTracksPeers
<1>1. Init => IInv
  BY InitTyped, InitCurrent DEF IInv
<1>2. IInv /\ [Next]_vars => IInv'
  BY NextTyped, NextCurrent DEF IInv
<1>3. IInv => LayoutTracksPeers
  BY DEF IInv, Current, Shown, LayoutTracksPeers, ArrangementIsCurrent, Holding
<1> QED BY <1>1, <1>2, <1>3, PTL DEF Spec

-----------------------------------------------------------------------------
(* The local input and the peer's. *)

(* The arrangement before and after the peer's screens have arrived.       *)
Base    == Build(NoPlaces, << >>)
Full(c) == Build(NoPlaces, <<c>>)
Forms   == {Base} \cup {Full(c) : c \in reported}

Up == {c \in Conns : link[c] = "up"}

(* Connections that were opened and are not up any more have been counted. *)
LinksCounted ==
    /\ Cardinality(Up) <= connects
    /\ Cardinality(Up) = connects => \A c \in Conns : link[c] \in {"none", "up"}

(* Nobody connects before RunServer has placed the cursor.                 *)
BootFirst ==
    pc[Ui] = "boot" => layout = Base /\ \A c \in Conns : link[c] = "none" /\ pc[c] = "idle"

NothingPlaced ==
    changes = 0 => placements = NoPlaces /\ \A t \in Rebuilders : places[t] = NoPlaces

(* A rebuild installs the arrangement in use again, or the first one with  *)
(* the peer; it never finds the device under the cursor missing.           *)
ShowsOne ==
    /\ layout \in Forms
    /\ \A t \in Rebuilders : pc[t] \in Holding =>
          /\ pc[t] \in {"auth", "gone", "install"}
          /\ snap[t] \in Forms
          /\ layout = Base \/ layout = snap[t]

OnScreen == pc[Ui] # "boot" => cur # NoScreen

(* Where the capture thread is; a send goes on to what it was told.        *)
Phase == IF pc[Capture] = "send" THEN arg.then ELSE pc[Capture]

Coupled  == relative = FALSE /\ suppressed = FALSE
Captured == relative = TRUE /\ suppressed = TRUE

InPhase ==
    \/ Phase = "idle" /\ Captured /\ OnPeer(cur)
    \/ Phase = "idle" /\ Coupled /\ ~OnPeer(cur)
    \/ Phase \in {"abs", "active"} /\ Coupled
    \/ Phase \in {"delta", "check"} /\ Captured
    \/ Phase = "engage" /\ Coupled /\ OnPeer(cur)
    \/ Phase = "engageCall" /\ relative = TRUE /\ suppressed = FALSE /\ OnPeer(cur)
    \/ Phase = "back" /\ Captured /\ ~OnPeer(cur)
    \/ Phase = "backCall" /\ relative = FALSE /\ suppressed = TRUE /\ ~OnPeer(cur)

Exclusive == Undisturbed => ShowsOne /\ OnScreen /\ InPhase

ExclusiveInv ==
    ServerInv /\ OneAtATime /\ LinksCounted /\ BootFirst /\ NothingPlaced /\ Exclusive

(* Visits of nobody, and of one peer. *)
LEMMA FewOrders ==
    /\ \A o \in Orders({}) : o = << >>
    /\ \A c : \A o \in Orders({c}) : o = <<c>>
    /\ \A c : <<c>> \in Orders({c})
<1>1. Cardinality({}) = 0 /\ 1 .. 0 = {}
  BY FS_EmptySet
<1>2. ASSUME NEW o \in Orders({}) PROVE o = << >>
  <2>1. o \in [{} -> {}]
    BY <1>1 DEF Orders
  <2> QED BY <2>1
<1>3. ASSUME NEW c PROVE /\ \A o \in Orders({c}) : o = <<c>>
                         /\ <<c>> \in Orders({c})
  <2>1. Cardinality({c}) = 1
    BY FS_Singleton
  <2>2. ASSUME NEW o \in Orders({c}) PROVE o = <<c>>
    <3>1. o \in [1 .. 1 -> {c}]
      BY <2>1, <2>2 DEF Orders
    <3>2. o \in Seq({c}) /\ Len(o) = 1
      BY <3>1, FunctionIsSeq
    <3>3. o[1] = c
      BY <3>1
    <3> QED BY <3>2, <3>3
  <2>3. <<c>> \in [1 .. 1 -> {c}] /\ DOMAIN <<c>> = 1 .. 1
    OBVIOUS
  <2>4. \A i, j \in 1 .. 1 : i = j
    OBVIOUS
  <2>5. <<c>> \in Orders({c})
    BY <2>1, <2>3, <2>4 DEF Orders
  <2> QED BY <2>2, <2>5
<1> QED BY <1>2, <1>3

(* The right border of this machine is right of all its screens. *)
LEMMA LocalEndIsRight ==
    /\ LocalEnd \in Int
    /\ \A i \in DOMAIN LocalScreens : LocalScreens[i].x + LocalScreens[i].w <= LocalEnd
<1> DEFINE ends == {0} \cup {Add(LocalScreens[i].x, LocalScreens[i].w) : i \in DOMAIN LocalScreens}
           gaps == {MaxInt - e : e \in ends}
           less == OpToRel(<, Nat)
<1>1. \A i \in DOMAIN LocalScreens :
        /\ LocalScreens[i].x + LocalScreens[i].w \in Int32
        /\ Add(LocalScreens[i].x, LocalScreens[i].w) = LocalScreens[i].x + LocalScreens[i].w
  <2> TAKE i \in DOMAIN LocalScreens
  <2>1. IsScreen(LocalScreens[i]) /\ NoOverflow(LocalScreens[i])
    BY ScreensAssumption DEF IsLayout
  <2> QED BY <2>1, MaxIntAssumption DEF NoOverflow, IsScreen, Int32, MinInt, Add, Wrap
<1>2. \A e \in ends : e \in Int /\ e <= MaxInt
  BY <1>1, MaxIntAssumption DEF Int32, MinInt
<1>3. gaps \subseteq Nat /\ MaxInt - 0 \in gaps
  BY <1>2, MaxIntAssumption
<1>4. PICK g \in gaps : \A h \in gaps : ~(<<h, g>> \in less)
  BY <1>3, NatLessThanWellFounded, WFMin
<1>5. \A h \in gaps : ~(h < g)
  BY <1>3, <1>4, Zenon DEF OpToRel, less
<1>6. PICK e \in ends : g = MaxInt - e
  BY <1>4
<1>7. \A f \in ends : f <= e
  <2> TAKE f \in ends
  <2>1. MaxInt - f \in gaps
    OBVIOUS
  <2>2. ~(MaxInt - f < MaxInt - e)
    BY <1>5, <1>6, <2>1
  <2> QED BY <1>2, <2>2, MaxIntAssumption
<1>8. LocalEnd \in ends /\ \A f \in ends : f <= LocalEnd
  <2>1. LocalEnd = CHOOSE m \in ends : \A f \in ends : f <= m
    BY DEF LocalEnd
  <2> HIDE DEF ends
  <2> QED BY <1>7, <2>1
<1> QED BY <1>1, <1>2, <1>8

(* The first arrangement shows this machine only; with one peer, that      *)
(* peer's screen follows at the right border.                              *)
LEMMA FormsShow ==
    /\ DOMAIN Base = DOMAIN LocalScreens
    /\ \A i \in DOMAIN LocalScreens : Base[i] = LocalScreens[i]
    /\ Base \in AllLayouts
    /\ \A c \in Conns :
          /\ Full(c) \in AllLayouts
          /\ DOMAIN Full(c) = 1 .. Len(LocalScreens) + 1
          /\ \A i \in DOMAIN LocalScreens : Full(c)[i] = LocalScreens[i]
          /\ Full(c)[Len(LocalScreens) + 1].x = LocalEnd
<1> DEFINE n == Len(LocalScreens)
<1>0. n \in Nat /\ DOMAIN LocalScreens = 1 .. n
  BY LocalSequence
<1>1. /\ DOMAIN Base = 1 .. n + Len(<< >>)
      /\ \A i \in DOMAIN LocalScreens : Base[i] = LocalScreens[i]
      /\ Base \in AllLayouts
  <2>1. << >> \in Orders({}) /\ {} \in SUBSET Conns
    BY FirstLayout
  <2> QED BY <2>1, BuildParts, FirstLayout DEF Base
<1>2. ASSUME NEW c \in Conns
      PROVE  /\ Full(c) \in AllLayouts
             /\ DOMAIN Full(c) = 1 .. n + 1
             /\ \A i \in DOMAIN LocalScreens : Full(c)[i] = LocalScreens[i]
             /\ Full(c)[n + 1].x = LocalEnd
  <2>1. <<c>> \in Orders({c}) /\ {c} \in SUBSET Conns /\ Len(<<c>>) = 1
    BY FewOrders
  <2>2. /\ DOMAIN Full(c) = 1 .. n + Len(<<c>>)
        /\ \A i \in DOMAIN LocalScreens : Full(c)[i] = LocalScreens[i]
        /\ Full(c) \in AllLayouts
    BY <2>1, FirstLayout, BuildParts, BuildIsLayout DEF Full
  <2> DEFINE o == <<c>>
             auto(i) == Reported[o[i]].id \notin DOMAIN NoPlaces
             right[i \in 0 .. Len(o)] ==
               IF i = 0 THEN LocalEnd
               ELSE IF auto(i) THEN Add(right[i - 1], Reported[o[i]].w) ELSE right[i - 1]
             x(i) == IF auto(i) THEN right[i - 1] ELSE NoPlaces[Reported[o[i]].id]
             theirs == [i \in 1 .. Len(o) |-> [Reported[o[i]] EXCEPT !.x = x(i)]]
  <2>3. Full(c) = LocalScreens \o theirs
    BY DEF Full, Build
  <2>4. right[0] = LocalEnd
    <3> DEFINE first == [i \in 0 .. 1 |->
                           IF i = 0 THEN LocalEnd
                           ELSE IF auto(1) THEN Add(LocalEnd, Reported[o[1]].w) ELSE LocalEnd]
               Is(f) == f = [i \in 0 .. Len(o) |->
                               IF i = 0 THEN LocalEnd
                               ELSE IF auto(i) THEN Add(f[i - 1], Reported[o[i]].w) ELSE f[i - 1]]
    <3>1. Is(first)
      <4> HIDE DEF auto
      <4>1. 0 .. Len(o) = 0 .. 1 /\ \A i \in 0 .. 1 : i = 0 \/ i = 1
        BY <2>1
      <4>2. first[0] = LocalEnd
        OBVIOUS
      <4>3. first = [i \in 0 .. 1 |->
                      IF i = 0 THEN LocalEnd
                      ELSE IF auto(i) THEN Add(first[i - 1], Reported[o[i]].w) ELSE first[i - 1]]
        BY <4>1, <4>2
      <4> QED BY <4>1, <4>3
    <3>2. right = CHOOSE f : Is(f)
      OBVIOUS
    <3>3. Is(right)
      <4> HIDE DEF Is, right, first
      <4> QED BY <3>1, <3>2
    <3> HIDE DEF right, auto
    <3>4. 0 \in 0 .. Len(o)
      BY <2>1
    <3> HIDE DEF o
    <3> QED BY <3>3, <3>4
  <2> HIDE DEF right
  <2>5. x(1) = LocalEnd
    BY <2>4 DEF NoPlaces
  <2> HIDE DEF x
  <2>6. theirs = [i \in 1 .. 1 |-> theirs[i]] /\ theirs[1] = [Reported[c] EXCEPT !.x = x(1)]
    BY <2>1
  <2>7. theirs[1].x = LocalEnd
    BY <2>5, <2>6, ScreensAssumption DEF IsScreen
  <2> HIDE DEF theirs
  <2>8. theirs \in Seq({theirs[1]}) /\ Len(theirs) = 1
    <3>1. theirs \in [1 .. 1 -> {theirs[1]}]
      BY <2>6
    <3> QED BY <3>1, FunctionIsSeq
  <2>9. LocalScreens \in Seq({LocalScreens[i] : i \in DOMAIN LocalScreens})
    BY LocalSequence
  <2>10. Full(c)[n + 1] = theirs[1]
    <3> DEFINE T == {LocalScreens[i] : i \in DOMAIN LocalScreens} \cup {theirs[1]}
    <3>1. LocalScreens \in Seq(T) /\ theirs \in Seq(T)
      BY <2>8, <2>9
    <3> HIDE DEF T
    <3>2. \A i \in 1 .. Len(theirs) : (LocalScreens \o theirs)[Len(LocalScreens) + i] = theirs[i]
      BY <3>1, Concatenated
    <3>3. 1 \in 1 .. Len(theirs)
      BY <2>8
    <3> QED BY <2>3, <3>2, <3>3
  <2> QED BY <2>1, <2>2, <2>7, <2>10
<1> QED BY <1>0, <1>1, <1>2

(* Where this machine has a screen, an arrangement never finds a peer's.   *)
LEMMA OwnIsFirst ==
    ASSUME NEW l \in AllLayouts, NEW i \in DOMAIN LocalScreens, NEW x \in Int, NEW y \in Int,
           Contains(LocalScreens[i], x, y)
    PROVE  ScreenAt(l, x, y) # NoScreen /\ ~OnPeer(ScreenAt(l, x, y))
<1> DEFINE on == Hits(l, x, y)
           less == OpToRel(<, Nat)
<1>0. DOMAIN LocalScreens = 1 .. Len(LocalScreens) /\ Len(LocalScreens) \in Nat
  BY LocalSequence
<1>1. P!IsLayout(l)
  BY RouterAssumptions DEF P!LayoutsAssumption
<1>2. DOMAIN l \subseteq Nat
  BY <1>1, RouterAssumptions, P!LayoutDomain
<1>3. i \in on /\ on \subseteq Nat
  BY <1>2, LocalShown DEF Hits
<1>4. PICK k \in on : \A j \in on : ~(<<j, k>> \in less)
  BY <1>3, NatLessThanWellFounded, WFMin
<1>5. \A j \in on : ~(j < k)
  BY <1>3, <1>4, Zenon DEF OpToRel, less
<1>6. \A j \in on : k <= j
  BY <1>3, <1>5
<1> DEFINE first == CHOOSE h \in on : \A j \in on : h <= j
<1>7. ScreenAt(l, x, y) = l[first]
  BY <1>3 DEF ScreenAt, FirstOf
<1>8. first \in on /\ \A j \in on : first <= j
  <2> HIDE DEF on
  <2> QED BY <1>6
<1> HIDE DEF first
<1>9. first <= i /\ first \in 1 .. Len(LocalScreens)
  <2>1. first <= i /\ first \in Nat /\ first \in DOMAIN l
    BY <1>3, <1>8 DEF Hits
  <2>2. first # 0
    <3>1. DOMAIN l = 1 .. Len(l)
      BY <1>1 DEF P!IsLayout
    <3>2. Len(l) \in Nat
      BY <1>1 DEF P!IsLayout
    <3> QED BY <2>1, <3>1, <3>2
  <2> QED BY <1>0, <2>1, <2>2
<1>10. l[first] = LocalScreens[first] /\ LocalScreens[first].device = Local
  BY <1>0, <1>9, LocalShown, ScreensAssumption
<1>11. Contains(l[first], x, y)
  BY <1>8 DEF Hits
<1>12. ~Contains(NoScreen, x, y)
  BY RouterAssumptions, P!NoScreenEmpty, GeometrySame
<1> QED BY <1>7, <1>10, <1>11, <1>12 DEF OnPeer

(* In the arrangement of this machine and one peer, a screen under the     *)
(* cursor and the screen a fresh lookup finds have the same side.          *)
LEMMA SameSide ==
    ASSUME NEW l, l = Base \/ \E c \in Conns : l = Full(c),
           NEW j \in DOMAIN l, NEW x \in Int, NEW y \in Int, Contains(l[j], x, y)
    PROVE  /\ ScreenAt(l, x, y) # NoScreen
           /\ OnPeer(ScreenAt(l, x, y)) <=> OnPeer(l[j])
<1>0. l \in AllLayouts /\ DOMAIN LocalScreens = 1 .. Len(LocalScreens) /\ Len(LocalScreens) \in Nat
  BY FormsShow, LocalSequence
<1>1. CASE j \in DOMAIN LocalScreens
  <2>1. l[j] = LocalScreens[j] /\ ~OnPeer(l[j])
    BY <1>0, <1>1, LocalShown, ScreensAssumption DEF OnPeer
  <2> QED BY <1>0, <1>1, <2>1, OwnIsFirst
<1>2. CASE j \notin DOMAIN LocalScreens
  <2>1. PICK c \in Conns : l = Full(c)
    BY <1>2, FormsShow
  <2>2. DOMAIN l = 1 .. Len(LocalScreens) + 1 /\ l[Len(LocalScreens) + 1].x = LocalEnd
    BY <2>1, FormsShow
  <2>3. j = Len(LocalScreens) + 1 /\ l[j].x = LocalEnd
    BY <1>0, <1>2, <2>2
  <2>4. LocalEnd <= x
    BY <2>3 DEF Contains
  <2>5. ASSUME NEW i \in DOMAIN LocalScreens PROVE ~Contains(l[i], x, y)
    <3> DEFINE s == LocalScreens[i]
    <3>1. l[i] = s /\ IsScreen(s) /\ NoOverflow(s)
      BY <1>0, LocalShown, ScreensAssumption DEF IsLayout
    <3>2. s.x \in Int /\ s.w \in Int /\ s.x + s.w \in Int32
      BY <3>1, MaxIntAssumption DEF IsScreen, NoOverflow, Int32, MinInt
    <3>3. Add(s.x, s.w) = s.x + s.w
      BY <3>2, MaxIntAssumption DEF Add, Wrap, Int32, MinInt
    <3>4. s.x + s.w <= LocalEnd /\ LocalEnd \in Int
      BY LocalEndIsRight
    <3>5. ~(x < Add(s.x, s.w))
      BY <2>4, <3>2, <3>3, <3>4
    <3> QED BY <3>1, <3>5 DEF Contains
  <2>6. \A i \in Hits(l, x, y) : i = j
    BY <1>0, <2>2, <2>3, <2>5 DEF Hits
  <2>7. j \in Hits(l, x, y) /\ Hits(l, x, y) \in SUBSET DOMAIN l
    BY DEF Hits
  <2>8. DOMAIN l \subseteq Nat
    BY <1>0, <2>2
  <2>9. \E i \in Hits(l, x, y) : P!FirstOf(l, Hits(l, x, y)) = l[i]
    BY <2>7, <2>8, RouterAssumptions, P!FirstOfMatch
  <2>10. P!FirstOf(l, Hits(l, x, y)) = ScreenAt(l, x, y)
    BY GeometrySame DEF ScreenAt, P!FirstOf, FirstOf
  <2>11. ScreenAt(l, x, y) = l[j]
    BY <2>6, <2>9, <2>10
  <2>12. ~Contains(NoScreen, x, y)
    BY RouterAssumptions, P!NoScreenEmpty, GeometrySame
  <2> QED BY <2>11, <2>12
<1> QED BY <1>1, <1>2

(* A point of this machine is under one of its screens. *)
LEMMA OwnPoint ==
    ASSUME NEW x \in LocalPoints
    PROVE  x \in Int /\ \E i \in DOMAIN LocalScreens : Contains(LocalScreens[i], x, 0)
<1>1. PICK i \in DOMAIN LocalScreens : x \in LocalScreens[i].x .. LocalScreens[i].x + LocalScreens[i].w - 1
  BY DEF LocalPoints
<1> DEFINE s == LocalScreens[i]
<1>2. IsScreen(s) /\ NoOverflow(s) /\ s.y = 0 /\ s.h = 1
  BY ScreensAssumption DEF IsLayout
<1>3. s.x \in Int /\ s.w \in Int /\ s.x + s.w \in Int32
  BY <1>2, MaxIntAssumption DEF IsScreen, NoOverflow, Int32, MinInt
<1>4. Add(s.x, s.w) = s.x + s.w /\ Add(0, 1) = 1
  BY <1>3, MaxIntAssumption DEF Add, Wrap, Int32, MinInt
<1>5. Contains(s, x, 0)
  BY <1>1, <1>2, <1>3, <1>4 DEF Contains
<1> QED BY <1>1, <1>3, <1>5

(* The screen under the cursor, as the router's invariant has it. *)
LEMMA UnderCursor ==
    ASSUME ServerInv
    PROVE  /\ vx \in Int32 /\ vx \in Int /\ vy = 0 /\ layout \in AllLayouts
           /\ cur # NoScreen => \E j \in DOMAIN layout : cur = layout[j] /\ Contains(layout[j], vx, vy)
<1>1. vx \in Int32 /\ vy = 0 /\ layout \in AllLayouts
  BY DEF ServerInv, Typed, CopiesTyped, P!IInv, P!TypeOK, P!Int32, P!MinInt, Int32, MinInt
<1>2. vx \in Int
  BY <1>1, MaxIntAssumption DEF Int32, MinInt
<1>3. cur # NoScreen => Contains(cur, vx, vy) /\ cur \in {layout[i] : i \in DOMAIN layout}
  BY GeometrySame DEF ServerInv, P!IInv, P!TypeOK, P!Screens, P!CursorOnActive
<1> QED BY <1>1, <1>2, <1>3

(* Before the peer's screens have come, the cursor is on no peer. *)
LEMMA BaseIsOwn ==
    ASSUME ServerInv, layout = Base
    PROVE  ~OnPeer(cur)
BY UnderCursor, FormsShow, ScreensAssumption DEF OnPeer

(* What the steps other than the capture thread's leave as it was. *)
LEMMA FormsGrow ==
    ASSUME reported \subseteq reported'
    PROVE  Forms \subseteq Forms' /\ Base \in Forms'
BY DEF Forms

LEMMA PhaseKept ==
    ASSUME InPhase, UNCHANGED <<relative, suppressed, arg>>, pc'[Capture] = pc[Capture],
           OnPeer(cur') <=> OnPeer(cur)
    PROVE  InPhase'
<1>1. Phase' = Phase
  BY DEF Phase
<1>2. OnPeer(cur)' <=> OnPeer(cur)
  BY DEF OnPeer
<1> QED BY <1>1, <1>2 DEF InPhase, Coupled, Captured

LEMMA ShowsKept ==
    ASSUME ShowsOne, UNCHANGED <<layout, snap>>, reported \subseteq reported',
           \A t \in Rebuilders : pc'[t] \in Holding => pc'[t] = pc[t]
    PROVE  ShowsOne'
<1>1. Forms \subseteq Forms'
  BY FormsGrow
<1> QED BY <1>1 DEF ShowsOne, Base

(* No other thread moves the capture thread or boots. *)
LEMMA OthersMove ==
    ASSUME ThreadsTyped, NEW t \in Rebuilders, NEW to \in RebuildPcs \ {"boot"},
           pc' = [pc EXCEPT ![t] = to]
    PROVE  /\ pc'[Capture] = pc[Capture] /\ pc'[t] = to
           /\ \A q \in Rebuilders : q # t => pc'[q] = pc[q]
           /\ pc'[Ui] = "boot" => pc[Ui] = "boot" /\ t # Ui
<1>1. t \in Threads /\ Capture \in Threads /\ t # Capture /\ Rebuilders \subseteq Threads /\ Ui \in Rebuilders
  BY ThreadsAssumption DEF Threads, Rebuilders
<1> QED BY <1>1 DEF ThreadsTyped

(* Each connection is counted when it is accepted.                         *)
LEMMA LinksStay ==
    ASSUME LinksCounted, UNCHANGED <<link, connects>>
    PROVE  LinksCounted'
<1>1. Up' = Up
  BY DEF Up
<1> QED BY <1>1 DEF LinksCounted

LEMMA LinksKept ==
    ASSUME Typed, LinksCounted, NEW c \in Conns, Connection(c)
    PROVE  LinksCounted'
<1>0. /\ link \in [Conns -> {"none", "up", "half", "dead"}] /\ connects \in Nat
      /\ IsFiniteSet(Up) /\ Cardinality(Up) \in Nat
  <2>1. Up \subseteq Conns
    BY DEF Up
  <2> QED BY <2>1, ThreadsAssumption, BoundsAssumption, FS_Subset, FS_CardinalityType DEF Typed, SessionTyped
<1>1. CASE Accept(c)
  <2>1. link[c] = "none" /\ link' = [link EXCEPT ![c] = "up"] /\ connects' = connects + 1
    BY <1>1 DEF Accept
  <2>2. Up' = Up \cup {c} /\ c \notin Up
    BY <1>0, <2>1 DEF Up
  <2>3. Cardinality(Up \cup {c}) = Cardinality(Up) + 1
    BY <1>0, <2>2, FS_AddElement
  <2>4. Cardinality(Up)' = Cardinality(Up) + 1
    BY <2>2, <2>3
  <2>5. Cardinality(Up)' <= connects' /\ (Cardinality(Up)' = connects' => Cardinality(Up) = connects)
    BY <1>0, <2>1, <2>4 DEF LinksCounted
  <2>6. (\A d \in Conns : link[d] \in {"none", "up"}) => \A d \in Conns : link'[d] \in {"none", "up"}
    BY <1>0, <2>1
  <2> QED BY <2>5, <2>6 DEF LinksCounted
<1>2. CASE Break(c)
  <2>1. link[c] = "up" /\ connects' = connects
        /\ \E to \in {"half", "dead"} : link' = [link EXCEPT ![c] = to]
    BY <1>2 DEF Break, bounds
  <2>2. Up' = Up \ {c} /\ c \in Up
    BY <1>0, <2>1 DEF Up
  <2>3. Cardinality(Up \ {c}) = Cardinality(Up) - 1
    BY <1>0, <2>2, FS_RemoveElement
  <2>4. Cardinality(Up)' = Cardinality(Up) - 1
    BY <2>2, <2>3
  <2>5. Cardinality(Up)' <= connects' /\ Cardinality(Up)' # connects'
    BY <1>0, <2>1, <2>4 DEF LinksCounted
  <2> QED BY <2>5 DEF LinksCounted
<1>3. CASE ~Accept(c) /\ ~Break(c) /\ link' # link
  <2>1. /\ link[c] \in {"half", "dead"} /\ connects' = connects
        /\ \E to \in {"dead", "none"} : link' = [link EXCEPT ![c] = to]
    BY <1>3 DEF Connection, Detect, Hello, Report, Disconnect, PeerMove, MayFail, bounds, session
  <2>2. Up' = Up /\ Cardinality(Up) # connects
    BY <1>0, <2>1 DEF Up, LinksCounted
  <2>3. Cardinality(Up)' = Cardinality(Up)
    BY <2>2
  <2> QED BY <2>1, <2>2, <2>3 DEF LinksCounted
<1>4. CASE ~Accept(c) /\ ~Break(c) /\ link' = link
  <2>1. connects' = connects
    BY <1>4 DEF Connection, Detect, Hello, Report, Disconnect, PeerMove, bounds
  <2> QED BY <1>4, <2>1, LinksStay
<1> QED BY <1>1, <1>2, <1>3, <1>4

(* What was disturbed stays so; until then, peers only come.               *)
LEMMA StillUndisturbed ==
    ASSUME UNCHANGED <<link, connects, changes, meddled, reported>>, collided => collided',
           Undisturbed'
    PROVE  Undisturbed
<1>1. Up' = Up /\ {c \in Conns : link[c] = "up"} = Up /\ {c \in Conns : link[c] = "up"}' = Up'
  BY DEF Up
<1> QED BY <1>1 DEF Undisturbed

LEMMA ConnectionUndisturbed ==
    ASSUME Typed, LinksCounted, NEW c \in Conns, Connection(c), Undisturbed'
    PROVE  /\ Undisturbed
           /\ Accept(c) \/ Hello(c) \/ Report(c)
           /\ UNCHANGED router /\ reported \subseteq reported'
           /\ Hello(c) \/ Report(c) => pc' = [pc EXCEPT ![c] = "places"]
<1>0. LinksCounted' /\ SessionTyped /\ SessionTyped'
  BY LinksKept, ConnectionTyped DEF Typed
<1>1. connects' = Cardinality(Up)' /\ changes' = 0 /\ ~meddled' /\ ~collided'
      /\ \A d, e \in reported' : d = e
  BY DEF Undisturbed, Up
<1>2. \A d \in Conns : link'[d] \in {"none", "up"}
  BY <1>0, <1>1 DEF LinksCounted
<1>3. ~PeerMove(c) /\ ~Break(c) /\ ~Detect(c)
  BY <1>0, <1>1, <1>2 DEF PeerMove, Break, Detect, SessionTyped
<1>4. ~Disconnect(c)
  <2> SUFFICES ASSUME Disconnect(c) PROVE FALSE
    OBVIOUS
  <2>1. link[c] = "dead" /\ link' = [link EXCEPT ![c] = "none"] /\ connects' = connects
    BY DEF Disconnect, bounds
  <2>2. Up' = Up
    BY <1>0, <2>1 DEF Up, SessionTyped
  <2>3. Cardinality(Up) = connects
    BY <1>1, <2>1, <2>2
  <2> QED BY <2>1, <2>3 DEF LinksCounted
<1>5. Accept(c) \/ Hello(c) \/ Report(c)
  BY <1>3, <1>4 DEF Connection
<1>6. UNCHANGED router /\ reported \subseteq reported' /\ changes' = changes
      /\ meddled' = meddled /\ collided' = collided
  BY <1>5 DEF Accept, Hello, Report, bounds, history
<1>7. Hello(c) \/ Report(c) => pc' = [pc EXCEPT ![c] = "places"] /\ link' = link /\ connects' = connects
  <2>1. CASE Hello(c)
    <3>1. link'[c] # "dead"
      BY <1>2
    <3>2. link' # [link EXCEPT ![c] = "dead"]
      BY <1>0, <3>1 DEF SessionTyped
    <3> QED BY <2>1, <3>2 DEF Hello, Goto, bounds
  <2>2. CASE Report(c)
    BY <2>2 DEF Report, Goto, bounds
  <2> QED BY <2>1, <2>2
<1>8. connects = Cardinality(Up)
  <2>1. CASE Accept(c)
    <3>1. link[c] = "none" /\ link' = [link EXCEPT ![c] = "up"] /\ connects' = connects + 1
      BY <2>1 DEF Accept
    <3>2. Up' = Up \cup {c} /\ c \notin Up /\ Up \subseteq Conns
      BY <1>0, <3>1 DEF Up, SessionTyped
    <3>3. IsFiniteSet(Up) /\ Cardinality(Up) \in Nat
      BY <3>2, ThreadsAssumption, FS_Subset, FS_CardinalityType
    <3>4. Cardinality(Up \cup {c}) = Cardinality(Up) + 1
      BY <3>2, <3>3, FS_AddElement
    <3>5. Cardinality(Up)' = Cardinality(Up) + 1
      BY <3>2, <3>4
    <3>6. connects \in Nat
      BY <1>0, BoundsAssumption DEF SessionTyped
    <3>7. connects + 1 = Cardinality(Up) + 1
      BY <1>1, <3>1, <3>5
    <3> QED BY <3>3, <3>6, <3>7
  <2>2. CASE Hello(c) \/ Report(c)
    <3>1. Up' = Up
      BY <1>7, <2>2 DEF Up
    <3> QED BY <1>1, <1>7, <2>2, <3>1
  <2> QED BY <1>5, <2>1, <2>2
<1>9. Undisturbed
  BY <1>1, <1>6, <1>8 DEF Undisturbed, Up
<1> QED BY <1>5, <1>6, <1>7, <1>9

(* The steps of a rebuild. *)
LEMMA RebuildExclusive ==
    ASSUME ExclusiveInv, NEW t \in Rebuilders, Rebuild(t), OneAtATime', Undisturbed'
    PROVE  Undisturbed /\ ShowsOne' /\ OnScreen' /\ InPhase'
<1> USE DEF mode, session, locals, bounds, history, router
<1>0. /\ ServerInv /\ OneAtATime /\ Typed /\ ThreadsTyped /\ CopiesTyped /\ SessionTyped
      /\ NothingPlaced /\ BootFirst
  BY DEF ExclusiveInv, ServerInv, Typed
<1>1. /\ UNCHANGED <<link, connects, changes, meddled, reported, peers, arg>>
      /\ collided => collided'
  <2>1. UNCHANGED <<link, connects, changes, meddled, reported, peers, arg>>
    BY DEF Rebuild, CopyPlaces, ReadPeers, SetAuth, CheckGone, SeedLocal, ReleaseFlag, ReleaseCall, Install
  <2>2. collided => collided'
    <3>1. CASE CopyPlaces(t)
      BY <3>1, Zenon DEF CopyPlaces
    <3>2. CASE ~CopyPlaces(t)
      BY <3>2, Zenon
         DEF Rebuild, ReadPeers, SetAuth, CheckGone, SeedLocal, ReleaseFlag, ReleaseCall, Install
    <3> QED BY <3>1, <3>2
  <2> QED BY <2>1, <2>2
<1>2. Undisturbed
  BY <1>1, StillUndisturbed
<1>3. /\ ShowsOne /\ OnScreen /\ InPhase
      /\ changes = 0 /\ ~collided /\ ~collided' /\ \A c, d \in reported : c = d
  BY <1>2 DEF ExclusiveInv, Exclusive, Undisturbed
<1>4. reported \subseteq reported' /\ Forms' = Forms
  BY <1>1 DEF Forms
<1>5. ASSUME NEW to \in RebuildPcs \ {"boot"}, pc' = [pc EXCEPT ![t] = to], UNCHANGED <<vx, vy, cur, relative, suppressed>>
      PROVE  OnScreen' /\ InPhase'
  <2>1. /\ pc'[Capture] = pc[Capture]
        /\ pc'[Ui] = "boot" \/ pc[Ui] # "boot" \/ t = Ui
    BY <1>0, <1>5, OthersMove DEF Rebuilders
  <2>2. t = Ui => pc[Ui] # "boot"
    BY DEF Rebuild, CopyPlaces, ReadPeers, SetAuth, CheckGone, SeedLocal, ReleaseFlag, ReleaseCall,
       Install, Goto, Flag, Drive
  <2>3. OnScreen'
    BY <1>3, <1>5, <2>1, <2>2 DEF OnScreen
  <2>4. InPhase'
    BY <1>1, <1>3, <1>5, <2>1, PhaseKept
  <2> QED BY <2>3, <2>4
<1>6. CASE CopyPlaces(t)
  <2>1. pc' = [pc EXCEPT ![t] = "peers"] /\ "peers" \in RebuildPcs \ {"boot"}
    BY <1>6 DEF CopyPlaces, Goto, RebuildPcs
  <2>2. UNCHANGED <<vx, vy, cur, relative, suppressed, layout, snap>>
    BY <1>6 DEF CopyPlaces
  <2>3. \A q \in Rebuilders : pc'[q] \in Holding => pc'[q] = pc[q]
    BY <1>0, <2>1, OthersMove DEF Holding
  <2> QED BY <1>2, <1>3, <1>4, <1>5, <2>1, <2>2, <2>3, ShowsKept
<1>7. CASE ReadPeers(t)
  <2>1. pc' = [pc EXCEPT ![t] = "auth"] /\ "auth" \in RebuildPcs \ {"boot"} /\ pc[t] = "peers"
    BY <1>7 DEF ReadPeers, Goto, RebuildPcs, Holding
  <2>2. UNCHANGED <<vx, vy, cur, relative, suppressed, layout>>
    BY <1>7 DEF ReadPeers
  <2>3. places[t] = NoPlaces /\ peers \cap reported = reported /\ reported \subseteq Conns
    BY <1>0, <1>3 DEF NothingPlaced, SessionTyped
  <2>4. PICK o \in Orders(reported) : snap' = [snap EXCEPT ![t] = Build(NoPlaces, o)]
    BY <1>7, <2>3 DEF ReadPeers
  <2>5. snap'[t] = Build(NoPlaces, o) /\ \A q \in Rebuilders : q # t => snap'[q] = snap[q]
    BY <1>0, <2>4 DEF CopiesTyped
  <2>6. snap'[t] \in Forms /\ (layout = Base \/ layout = snap'[t])
    <3>1. CASE reported = {}
      BY <1>3, <2>5, <3>1, FewOrders DEF Forms, Base, ShowsOne
    <3>2. ASSUME NEW c \in reported PROVE snap'[t] \in Forms /\ (layout = Base \/ layout = snap'[t])
      <4>1. reported = {c}
        BY <1>3
      <4>2. snap'[t] = Full(c)
        BY <2>5, <4>1, FewOrders DEF Full
      <4> QED BY <1>3, <4>1, <4>2 DEF Forms, ShowsOne
    <3> QED BY <3>1, <3>2
  <2>7. \A q \in Rebuilders : q # t => pc'[q] = pc[q]
    BY <1>0, <2>1, OthersMove
  <2>8. ShowsOne'
    <3>1. layout' \in Forms'
      BY <1>3, <1>4, <2>2 DEF ShowsOne
    <3>2. Base' = Base
      BY DEF Base
    <3>3. ASSUME NEW q \in Rebuilders, pc'[q] \in Holding
          PROVE  /\ pc'[q] \in {"auth", "gone", "install"}
                 /\ snap'[q] \in Forms'
                 /\ layout' = Base' \/ layout' = snap'[q]
      <4>1. CASE q = t
        BY <1>0, <1>4, <2>1, <2>2, <2>6, <3>2, <4>1, OthersMove
      <4>2. CASE q # t
        BY <1>3, <1>4, <2>2, <2>5, <2>7, <3>2, <3>3, <4>2 DEF ShowsOne
      <4> QED BY <4>1, <4>2
    <3> QED BY <3>1, <3>3 DEF ShowsOne
  <2> QED BY <1>2, <1>5, <2>1, <2>2, <2>8
<1>8. CASE SetAuth(t) \/ CheckGone(t)
  <2>1. pc[t] \in Holding /\ snap[t] \in Forms /\ (layout = Base \/ layout = snap[t])
    BY <1>3, <1>8 DEF SetAuth, CheckGone, Goto, Holding, ShowsOne
  <2>2. cur # NoScreen => cur.device \in Devices(snap[t])
    <3>1. CASE layout = snap[t]
      BY <1>0, <3>1, UnderCursor DEF Devices
    <3>2. CASE layout = Base
      <4>1. 1 \in DOMAIN LocalScreens /\ snap[t] \in AllLayouts
        BY <1>0, <2>1, LocalSequence DEF CopiesTyped
      <4>2. Local \in Devices(snap[t])
        BY <4>1, LocalShown, ScreensAssumption DEF Devices
      <4> QED BY <1>0, <3>2, <4>2, UnderCursor, BaseIsOwn DEF OnPeer
    <3> QED BY <2>1, <3>1, <3>2
  <2>3. PICK to \in {"gone", "install"} : pc' = [pc EXCEPT ![t] = to]
    BY <1>8, <2>2 DEF SetAuth, CheckGone, Goto
  <2>4. UNCHANGED <<vx, vy, cur, relative, suppressed, layout, snap>>
    BY <1>8 DEF SetAuth, CheckGone
  <2>5. to \in RebuildPcs \ {"boot"}
    BY DEF RebuildPcs, Holding
  <2>6. pc'[t] = to /\ \A q \in Rebuilders : q # t => pc'[q] = pc[q]
    BY <1>0, <2>3, <2>5, OthersMove
  <2>7. ShowsOne'
    BY <1>3, <1>4, <2>1, <2>4, <2>6 DEF ShowsOne, Base
  <2> QED BY <1>2, <1>5, <2>3, <2>4, <2>5, <2>7
<1>9. CASE SeedLocal(t) \/ ReleaseFlag(t) \/ ReleaseCall(t)
  BY <1>3, <1>9 DEF SeedLocal, ReleaseFlag, ReleaseCall, Goto, Flag, Drive, ShowsOne, Holding
<1>10. CASE Install(t)
  <2>1. /\ pc' = [pc EXCEPT ![t] = "idle"] /\ "idle" \in RebuildPcs \ {"boot"} /\ pc[t] = "install"
        /\ layout' = snap[t] /\ cur' = ScreenAt(snap[t], vx, vy) /\ vx' = vx /\ vy' = vy
        /\ UNCHANGED <<relative, suppressed>>
    BY <1>10, GeometrySame DEF Install, Goto, RebuildPcs, R!SetLayout
  <2>2. snap[t] \in Forms /\ (layout = Base \/ layout = snap[t])
    BY <1>3, <2>1 DEF ShowsOne, Holding
  <2>3. \A q \in Rebuilders : q # t => pc[q] \notin Holding
    BY <1>0, <1>3, <2>1, RebuildingIs DEF OneAtATime, Holding
  <2>4. /\ pc'[Capture] = pc[Capture] /\ pc'[t] = "idle"
        /\ \A q \in Rebuilders : q # t => pc'[q] = pc[q]
        /\ pc'[Ui] = "boot" => pc[Ui] = "boot" /\ t # Ui
    BY <1>0, <2>1, OthersMove
  <2>5. \A q \in Rebuilders : pc'[q] \notin Holding
    BY <2>3, <2>4 DEF Holding
  <2>6. ShowsOne'
    BY <1>4, <2>1, <2>2, <2>5 DEF ShowsOne
  <2>7. pc[Ui] # "boot"
    BY <1>0, <2>1 DEF BootFirst, Rebuilders
  <2>8. PICK j \in DOMAIN layout : cur = layout[j] /\ Contains(layout[j], vx, vy)
    BY <1>0, <1>3, <2>7, UnderCursor DEF OnScreen
  <2>9. vx \in Int /\ vy \in Int /\ vy = 0
    BY <1>0, UnderCursor
  <2>10. reported \subseteq Conns
    BY <1>0 DEF SessionTyped
  <2>11. cur' # NoScreen /\ (OnPeer(cur') <=> OnPeer(cur))
    <3>1. CASE layout = snap[t]
      <4>1. layout = Base \/ \E c \in Conns : layout = Full(c)
        BY <1>3, <2>10 DEF ShowsOne, Forms
      <4> QED BY <2>1, <2>8, <2>9, <3>1, <4>1, SameSide
    <3>2. CASE layout = Base
      <4>1. j \in DOMAIN LocalScreens /\ layout[j] = LocalScreens[j]
        BY <2>8, <3>2, FormsShow
      <4>2. snap[t] \in AllLayouts
        BY <1>0, <2>1 DEF CopiesTyped, Holding
      <4>3. ScreenAt(snap[t], vx, vy) # NoScreen /\ ~OnPeer(ScreenAt(snap[t], vx, vy))
        BY <2>8, <2>9, <4>1, <4>2, OwnIsFirst
      <4> QED BY <1>0, <2>1, <3>2, <4>3, BaseIsOwn
    <3> QED BY <2>2, <3>1, <3>2
  <2>12. OnScreen'
    BY <2>11 DEF OnScreen
  <2>13. InPhase'
    BY <1>1, <1>3, <2>1, <2>4, <2>11, PhaseKept
  <2> QED BY <1>2, <2>6, <2>12, <2>13
<1> QED BY <1>6, <1>7, <1>8, <1>9, <1>10 DEF Rebuild

(* A move keeps a cursor that was on a screen on one. *)
LEMMA MoveStaysOn ==
    ASSUME ServerInv, cur # NoScreen, NEW nx \in Int32, R!Advance(nx, 0)
    PROVE  cur' # NoScreen
<1>1. P!Advance(nx, 0)
  BY GeometrySame DEF R!Advance, P!Advance
<1>2. nx \in P!Int32 /\ 0 \in P!Int32
  BY MaxIntAssumption DEF P!Int32, Int32, P!MinInt, MinInt
<1>3. P!NoScreen = NoScreen /\ P!IInv
  BY GeometrySame DEF ServerInv
<1> QED BY <1>1, <1>2, <1>3, RouterAssumptions, P!AdvanceInv

(* The steps of the capture thread. *)
LEMMA CaptureExclusive ==
    ASSUME ExclusiveInv, Undisturbed', UserMove \/ LocalEvent \/ CaptureStep
    PROVE  Undisturbed /\ ShowsOne' /\ OnScreen' /\ InPhase'
<1> USE DEF mode, locals
<1>0. /\ ServerInv /\ Typed /\ ThreadsTyped /\ ArgTyped /\ SessionTyped
      /\ pc[Capture] \in CapturePcs /\ LinksCounted
  BY DEF ExclusiveInv, ServerInv, Typed, ThreadsTyped
<1>1. CaptureEffect
  BY <1>0, CaptureEffects
<1>2. /\ UNCHANGED <<layout, snap, link, connects, changes, meddled, collided, reported, peers>>
      /\ \A q \in Rebuilders : pc'[q] = pc[q]
  BY <1>0, <1>1, CaptureMoves DEF CaptureEffect, CaptureKeeps, session, bounds, history
<1>3. Undisturbed
  BY <1>2, StillUndisturbed
<1>4. ShowsOne /\ OnScreen /\ InPhase
  BY <1>3 DEF ExclusiveInv, Exclusive
<1>5. ShowsOne'
  BY <1>2, <1>4, ShowsKept
<1>6. \A c \in Conns : link[c] \in {"none", "up"}
  BY <1>0, <1>3 DEF LinksCounted, Undisturbed, Up
<1>7. \A to : pc' = [pc EXCEPT ![Capture] = to] => pc'[Capture] = to
  BY <1>0 DEF ThreadsTyped, Threads
<1>8. pc'[Ui] = pc[Ui]
  BY <1>2 DEF Rebuilders
<1>9. ASSUME UNCHANGED router PROVE OnScreen' /\ (OnPeer(cur') <=> OnPeer(cur)) /\ (OnPeer(cur)' <=> OnPeer(cur))
  BY <1>4, <1>8, <1>9 DEF OnScreen, router, OnPeer
<1>10. CASE UserMove
  <2>1. UNCHANGED <<router, relative, suppressed>> /\ pc[Capture] = "idle"
    BY <1>10 DEF UserMove, MoveRelative, MoveCoupled, Goto
  <2>2. \/ relative /\ pc' = [pc EXCEPT ![Capture] = "delta"]
        \/ ~relative /\ pc' = [pc EXCEPT ![Capture] = "abs"]
    BY <1>10 DEF UserMove, MoveRelative, MoveCoupled, Goto
  <2>3. Phase = "idle" /\ Phase' = pc'[Capture]
    BY <1>7, <2>1, <2>2 DEF Phase
  <2>4. InPhase'
    BY <1>4, <1>7, <2>1, <2>2, <2>3 DEF InPhase, Coupled, Captured
  <2> QED BY <1>3, <1>5, <1>9, <2>1, <2>4
<1>11. CASE LocalEvent
  <2>1. UNCHANGED <<router, relative, suppressed>> /\ pc[Capture] = "idle" /\ OnPeer(cur)
    BY <1>11 DEF LocalEvent
  <2>2. pc'[Capture] = "send" /\ arg' = [NoArg EXCEPT !.to = cur.device, !.then = "idle"]
    BY <1>7, <1>11, Zenon DEF LocalEvent
  <2>3. arg'.then = "idle"
    BY <2>2 DEF NoArg
  <2>4. Phase = "idle" /\ Phase' = "idle"
    BY <2>1, <2>2, <2>3 DEF Phase
  <2>5. InPhase'
    BY <1>4, <1>9, <2>1, <2>4 DEF InPhase, Coupled, Captured
  <2> QED BY <1>3, <1>5, <1>9, <2>1, <2>5
<1>12. ASSUME NEW to, NEW then, arg' = [arg EXCEPT !.to = to, !.then = then]
       PROVE  arg'.then = then
  <2>1. "then" \in DOMAIN arg /\ arg = [f \in DOMAIN arg |-> arg[f]]
    BY <1>0 DEF ArgTyped, IsArg
  <2>2. "then" \in DOMAIN [arg EXCEPT !.to = to]
    BY <2>1
  <2> QED BY <1>12, <2>2
<1>13. CASE RouteAbs \/ RouteDelta
  <2>1. /\ UNCHANGED <<relative, suppressed>>
        /\ RouteAbs => pc[Capture] = "abs"
        /\ RouteDelta => pc[Capture] = "delta"
    BY <1>13 DEF RouteAbs, RouteDelta
  <2>2. RouteAbs => Phase' = "active"
    BY <1>7, <1>12 DEF RouteAbs, Phase
  <2>3. RouteDelta => Phase' = "check"
    BY <1>7, <1>12 DEF RouteDelta, Phase
  <2>4. InPhase'
    BY <1>4, <1>13, <2>1, <2>2, <2>3 DEF InPhase, Phase, Coupled, Captured
  <2>5. \E nx \in Int32 : R!Advance(nx, 0)
    <3>1. arg.home \in DOMAIN LocalScreens /\ arg.nx \in Int32 /\ arg.dx \in Int32 /\ vx \in Int32
      BY <1>0, UnderCursor, CoordsAssumption DEF ArgTyped, IsArg
    <3>2. LocalScreens[arg.home].y = 0 /\ LocalScreens[arg.home].x \in Int32
      BY <3>1, ScreensAssumption DEF IsLayout, IsScreen
    <3>3. /\ Add(LocalScreens[arg.home].x, arg.nx) \in Int32 /\ Add(vx, arg.dx) \in Int32
          /\ Add(0, 0) = 0 /\ vy = 0
      BY <1>0, <3>1, <3>2, UnderCursor, MaxIntAssumption DEF Add, Wrap, Int32, MinInt
    <3>4. RouteAbs => R!Advance(Add(LocalScreens[arg.home].x, arg.nx), 0)
      BY <3>2, <3>3, GeometrySame DEF RouteAbs, R!OnLocalMove
    <3>5. RouteDelta => R!Advance(Add(vx, arg.dx), 0)
      BY <3>3, GeometrySame DEF RouteDelta, R!MoveByDelta
    <3> QED BY <1>13, <3>3, <3>4, <3>5
  <2>6. OnScreen'
    BY <1>0, <1>4, <1>8, <2>5, MoveStaysOn DEF OnScreen
  <2> QED BY <1>3, <1>5, <2>4, <2>6
<1>14. CASE SendOk
  <2>1. UNCHANGED <<router, relative, suppressed>> /\ pc[Capture] = "send" /\ pc'[Capture] = arg.then
    BY <1>7, <1>14 DEF SendOk
  <2>2. arg.then # "send"
    BY <1>0 DEF ArgTyped, IsArg
  <2>3. Phase' = Phase
    BY <2>1, <2>2 DEF Phase
  <2>4. InPhase'
    BY <1>4, <1>9, <2>1, <2>3 DEF InPhase, Coupled, Captured
  <2> QED BY <1>3, <1>5, <1>9, <2>1, <2>4
<1>15. CASE SendFail
  BY <1>0, <1>6, <1>15 DEF SendFail, CanFail, Receivers, MayFail, SessionTyped
<1>16. CASE CheckActive \/ CheckBack
  <2>1. UNCHANGED <<router, relative, suppressed>>
    BY <1>16 DEF CheckActive, CheckBack
  <2>2. \/ pc[Capture] = "active" /\ pc'[Capture] = IF OnPeer(cur) THEN "engage" ELSE "idle"
        \/ pc[Capture] = "check" /\ pc'[Capture] = IF OnPeer(cur) THEN "idle" ELSE "back"
    BY <1>7, <1>16 DEF CheckActive, CheckBack
  <2>3. Phase = pc[Capture] /\ Phase' = pc'[Capture]
    BY <2>2 DEF Phase
  <2>4. InPhase'
    BY <1>4, <1>9, <2>1, <2>2, <2>3 DEF InPhase, Coupled, Captured
  <2> QED BY <1>3, <1>5, <1>9, <2>1, <2>4
<1>17. CASE EngageFlag \/ BackFlag
  <2>1. UNCHANGED <<router, suppressed>>
    BY <1>17 DEF EngageFlag, BackFlag
  <2>2. \/ pc[Capture] = "engage" /\ relative' = TRUE /\ pc'[Capture] = IF relative # TRUE THEN "engageCall" ELSE "idle"
        \/ pc[Capture] = "back" /\ relative' = FALSE /\ pc'[Capture] = IF relative # FALSE THEN "backCall" ELSE "idle"
    BY <1>7, <1>17 DEF EngageFlag, BackFlag, Flag
  <2>3. Phase = pc[Capture] /\ Phase' = pc'[Capture]
    BY <2>2 DEF Phase
  <2>4. InPhase'
    BY <1>4, <1>9, <2>1, <2>2, <2>3 DEF InPhase, Coupled, Captured
  <2> QED BY <1>3, <1>5, <1>9, <2>1, <2>4
<1>18. CASE EngageCall \/ BackCall
  <2>1. UNCHANGED <<router, relative>>
    BY <1>18 DEF EngageCall, BackCall
  <2>2. \/ pc[Capture] = "engageCall" /\ suppressed' = TRUE
        \/ pc[Capture] = "backCall" /\ suppressed' = FALSE
    BY <1>18 DEF EngageCall, BackCall, Drive, Goto
  <2>3. Phase = pc[Capture] /\ Phase' = "idle"
    BY <1>7, <1>18, <2>2 DEF EngageCall, BackCall, Drive, Goto, Phase
  <2>4. InPhase'
    BY <1>4, <1>9, <2>1, <2>2, <2>3 DEF InPhase, Coupled, Captured
  <2> QED BY <1>3, <1>5, <1>9, <2>1, <2>4
<1>19. CASE ForceCheck \/ ForceFlag \/ ForceCall \/ ForceSeed
  BY <1>4, <1>19 DEF ForceCheck, ForceFlag, ForceCall, ForceSeed, Flag, Drive, Goto, InPhase, Phase
<1> QED BY <1>10, <1>11, <1>13, <1>14, <1>15, <1>16, <1>17, <1>18, <1>19 DEF CaptureStep

(* What holds before anyone connects, and of the placements. *)
LEMMA InitExclusive == Init => OneAtATime /\ LinksCounted /\ BootFirst /\ NothingPlaced /\ Exclusive
<1> SUFFICES ASSUME Init PROVE OneAtATime /\ LinksCounted /\ BootFirst /\ NothingPlaced /\ Exclusive
  OBVIOUS
<1>0. Capture # Ui /\ Capture \in Threads /\ Ui \in Threads /\ Rebuilders \subseteq Threads /\ Ui \notin Conns
  BY ThreadsAssumption DEF Threads, Rebuilders
<1>1. \A t \in Rebuilders : pc[t] \notin Holding
  BY <1>0 DEF Init, Holding
<1>2. LinksCounted
  <2>1. Up = {} /\ connects = 0 /\ \A c \in Conns : link[c] = "none"
    BY DEF Init, Up
  <2>2. Cardinality(Up) = 0
    BY <2>1, FS_EmptySet
  <2> QED BY <2>1, <2>2 DEF LinksCounted
<1>3. BootFirst
  BY <1>0 DEF Init, BootFirst, Base, Threads
<1>4. NothingPlaced
  BY DEF Init, NothingPlaced
<1>5. ShowsOne /\ OnScreen
  BY <1>0, <1>1 DEF Init, ShowsOne, OnScreen, Forms, Base
<1>6. InPhase
  <2>1. pc[Capture] = "idle" /\ relative = FALSE /\ suppressed = FALSE /\ layout = Base
    BY <1>0 DEF Init, Base
  <2>2. cur = ScreenAt(layout, 0, 0)
    BY DEF Init
  <2>3. P!IInv
    BY RouterStarts, RouterSame, RouterInitHolds
  <2>4. ServerInv
    BY <2>3, InitTyped DEF ServerInv, Init
  <2>5. ~OnPeer(cur)
    BY <2>1, <2>4, BaseIsOwn
  <2> QED BY <2>1, <2>5 DEF InPhase, Phase, Coupled
<1> QED BY <1>2, <1>3, <1>4, <1>5, <1>6, InitCurrent DEF Exclusive

(* Nobody connects before the cursor has been placed, and without a        *)
(* placement request nothing is placed.                                    *)
LEMMA NextBoot ==
    ASSUME Typed, BootFirst, NothingPlaced, [Next]_vars
    PROVE  BootFirst' /\ NothingPlaced'
<1> USE DEF mode, session, locals, bounds, history, router
<1>0. ThreadsTyped /\ CopiesTyped /\ SessionTyped
  BY DEF Typed
<1>1. CASE UNCHANGED vars
  BY <1>1 DEF vars, BootFirst, NothingPlaced, Base
<1>2. CASE Boot
  <2>1. pc'[Ui] = "idle"
    BY <1>0, <1>2, BootTyped, RebuilderMoves DEF Typed, RebuildPcs, Rebuilders
  <2> QED BY <1>2, <2>1 DEF Boot, BootFirst, NothingPlaced
<1>3. ASSUME NEW t \in Rebuilders, Rebuild(t) PROVE BootFirst' /\ NothingPlaced'
  <2>1. PICK to \in RebuildPcs \ {"boot"} : pc' = [pc EXCEPT ![t] = to] /\ pc[t] \notin {"boot", "idle"}
    BY <1>3 DEF Rebuild, CopyPlaces, ReadPeers, SetAuth, CheckGone, SeedLocal, ReleaseFlag,
       ReleaseCall, Install, Goto, Flag, Drive, RebuildPcs, Holding
  <2>2. pc'[Ui] # "boot"
    <3>1. pc'[Ui] = "boot" => pc[Ui] = "boot" /\ t # Ui
      BY <1>0, <2>1, OthersMove
    <3>2. pc[Ui] = "boot" => t = Ui
      BY <2>1 DEF BootFirst, Rebuilders
    <3> QED BY <3>1, <3>2
  <2>3. placements' = placements /\ changes' = changes
    BY <1>3 DEF Rebuild, CopyPlaces, ReadPeers, SetAuth, CheckGone, SeedLocal, ReleaseFlag,
       ReleaseCall, Install
  <2>4. \/ places' = places
        \/ places' = [places EXCEPT ![t] = placements]
        \/ places' = [places EXCEPT ![t] = NoPlaces]
    BY <1>3 DEF Rebuild, CopyPlaces, ReadPeers, SetAuth, CheckGone, SeedLocal, ReleaseFlag,
       ReleaseCall, Install
  <2>5. NothingPlaced'
    BY <1>0, <2>3, <2>4 DEF NothingPlaced, CopiesTyped, NoPlaces
  <2> QED BY <2>2, <2>5 DEF BootFirst
<1>4. CASE \/ \E id \in PeerIds, x \in Places : SetPlacement(id, x)
           \/ \E id \in PeerIds : ClearPlacement(id)
  <2>0. changes \in Nat
    BY <1>0, BoundsAssumption DEF SessionTyped
  <2>1. pc' = [pc EXCEPT ![Ui] = "places"] /\ changes' = changes + 1
    BY <1>4 DEF SetPlacement, ClearPlacement, Goto
  <2>2. pc'[Ui] = "places" /\ changes' # 0
    BY <1>0, <2>0, <2>1 DEF ThreadsTyped, Threads
  <2> QED BY <2>2 DEF BootFirst, NothingPlaced
<1>5. ASSUME NEW c \in Conns, Connection(c) PROVE BootFirst' /\ NothingPlaced'
  <2>1. /\ layout' = layout /\ placements' = placements /\ places' = places /\ changes' = changes
        /\ pc' = pc \/ pc' = [pc EXCEPT ![c] = "places"]
    BY <1>5, ConnectionTyped DEF Connection, Accept, Break, Detect, Hello, Report, Disconnect, PeerMove
  <2>2. c # Ui /\ c \in Rebuilders /\ "places" \in RebuildPcs \ {"boot"}
    BY ThreadsAssumption DEF Rebuilders, RebuildPcs
  <2>3. pc'[Ui] = pc[Ui]
    BY <1>0, <2>1, <2>2, OthersMove DEF Rebuilders
  <2>4. pc[Ui] # "boot"
    <3>1. ASSUME pc[Ui] = "boot", link[c] = "none" PROVE pc' = pc /\ link' = link /\ PeerMove(c)
      BY <1>5, <3>1 DEF Connection, Accept, Break, Detect, Hello, Report, Disconnect, PeerMove, Alive
    <3>2. link[c] = "none" => ~PeerMove(c)
      BY DEF PeerMove, Alive
    <3> QED BY <3>1, <3>2 DEF BootFirst
  <2>5. NothingPlaced'
    BY <2>1 DEF NothingPlaced, NoPlaces
  <2> QED BY <2>3, <2>4, <2>5 DEF BootFirst
<1>6. CASE UserMove \/ LocalEvent \/ CaptureStep
  <2>1. CaptureEffect
    BY <1>6, CaptureEffects
  <2>2. UNCHANGED <<layout, placements, places, link, changes>>
    BY <2>1 DEF CaptureEffect, CaptureKeeps
  <2>3. \A q \in Rebuilders : pc'[q] = pc[q]
    BY <1>0, <2>1, CaptureMoves DEF CaptureEffect
  <2> QED BY <2>2, <2>3 DEF BootFirst, NothingPlaced, NoPlaces, Base, Rebuilders
<1> QED BY <1>1, <1>2, <1>3, <1>4, <1>5, <1>6 DEF Next

LEMMA NextLinks ==
    ASSUME Typed, LinksCounted, [Next]_vars
    PROVE  LinksCounted'
<1> USE DEF mode, session, locals, bounds, history, router
<1>1. CASE ~\E c \in Conns : Connection(c)
  <2>1. UNCHANGED <<link, connects>>
    <3>1. CASE UNCHANGED vars
      BY <3>1 DEF vars
    <3>2. CASE Boot
      BY <3>2 DEF Boot
    <3>3. CASE \E t \in Rebuilders : Rebuild(t)
      BY <3>3 DEF Rebuild, CopyPlaces, ReadPeers, SetAuth, CheckGone, SeedLocal, ReleaseFlag,
         ReleaseCall, Install
    <3>4. CASE \/ \E id \in PeerIds, x \in Places : SetPlacement(id, x)
               \/ \E id \in PeerIds : ClearPlacement(id)
      BY <3>4 DEF SetPlacement, ClearPlacement
    <3>5. CASE UserMove \/ LocalEvent \/ CaptureStep
      BY <3>5, CaptureEffects DEF CaptureEffect, CaptureKeeps
    <3> QED BY <1>1, <3>1, <3>2, <3>3, <3>4, <3>5 DEF Next
  <2> QED BY <2>1, LinksStay
<1>2. CASE \E c \in Conns : Connection(c)
  BY <1>2, LinksKept
<1> QED BY <1>1, <1>2

LEMMA NextExclusive ==
    ASSUME ExclusiveInv, [Next]_vars, OneAtATime'
    PROVE  Exclusive'
<1> SUFFICES ASSUME Undisturbed' PROVE ShowsOne' /\ OnScreen' /\ InPhase'
  BY DEF Exclusive
<1> USE DEF mode, session, locals, bounds, history, router
<1>0. /\ ServerInv /\ Typed /\ ThreadsTyped /\ SessionTyped /\ LinksCounted /\ BootFirst
      /\ Undisturbed => ShowsOne /\ OnScreen /\ InPhase
  BY DEF ExclusiveInv, ServerInv, Typed, Exclusive
<1>1. CASE UNCHANGED vars
  <2>1. Undisturbed
    BY <1>1, StillUndisturbed DEF vars
  <2> QED BY <1>0, <1>1, <2>1
          DEF vars, ShowsOne, Forms, Base, Full, OnScreen, InPhase, Phase, Coupled, Captured, OnPeer
<1>2. CASE Boot
  <2>1. /\ UNCHANGED <<layout, link, connects, changes, meddled, collided, reported, snap, arg, relative, suppressed>>
        /\ pc[Ui] = "boot" /\ pc' = [pc EXCEPT ![Ui] = "idle"]
    BY <1>0, <1>2, BootTyped
  <2>2. ShowsOne /\ OnScreen /\ InPhase /\ layout = Base
    BY <1>0, <2>1, StillUndisturbed DEF BootFirst
  <2>3. PICK x \in LocalPoints : cur' = ScreenAt(layout, x, 0)
    BY <1>2, GeometrySame DEF Boot, R!SetPosition
  <2>4. layout \in AllLayouts
    BY <1>0, UnderCursor
  <2>5. cur' # NoScreen /\ ~OnPeer(cur')
    BY <2>3, <2>4, OwnPoint, OwnIsFirst
  <2>6. ~OnPeer(cur)
    BY <1>0, <2>2, BaseIsOwn
  <2>7. Ui \in Rebuilders /\ "idle" \in RebuildPcs \ {"boot"}
    BY DEF Rebuilders, RebuildPcs
  <2>8. /\ pc'[Capture] = pc[Capture] /\ pc'[Ui] = "idle"
        /\ \A q \in Rebuilders : q # Ui => pc'[q] = pc[q]
    BY <1>0, <2>1, <2>7, OthersMove
  <2>9. ShowsOne'
    BY <2>1, <2>2, <2>8, ShowsKept DEF Holding
  <2>10. InPhase'
    BY <2>1, <2>2, <2>5, <2>6, <2>8, PhaseKept
  <2> QED BY <2>5, <2>9, <2>10 DEF OnScreen
<1>3. CASE \E t \in Rebuilders : Rebuild(t)
  BY <1>3, RebuildExclusive
<1>4. CASE \/ \E id \in PeerIds, x \in Places : SetPlacement(id, x)
           \/ \E id \in PeerIds : ClearPlacement(id)
  <2>1. changes \in Nat
    BY <1>0, BoundsAssumption DEF SessionTyped
  <2>2. changes' = changes + 1
    BY <1>4 DEF SetPlacement, ClearPlacement
  <2> QED BY <2>1, <2>2 DEF Undisturbed
<1>5. ASSUME NEW c \in Conns, Connection(c) PROVE ShowsOne' /\ OnScreen' /\ InPhase'
  <2>1. /\ Undisturbed /\ UNCHANGED router /\ reported \subseteq reported'
        /\ Accept(c) \/ Hello(c) \/ Report(c)
        /\ Hello(c) \/ Report(c) => pc' = [pc EXCEPT ![c] = "places"]
    BY <1>0, <1>5, ConnectionUndisturbed
  <2>2. UNCHANGED <<layout, cur, relative, suppressed, snap, arg>>
    BY <1>0, <1>5, <2>1, ConnectionTyped
  <2>3. c \in Rebuilders /\ "places" \in RebuildPcs \ {"boot"} /\ c # Ui
    BY ThreadsAssumption DEF Rebuilders, RebuildPcs
  <2>4. pc' = pc \/ pc' = [pc EXCEPT ![c] = "places"]
    BY <1>0, <1>5, ConnectionTyped
  <2>5. /\ pc'[Capture] = pc[Capture] /\ pc'[Ui] = pc[Ui]
        /\ \A q \in Rebuilders : pc'[q] = pc[q] \/ pc'[q] = "places"
    BY <1>0, <2>3, <2>4, OthersMove DEF Rebuilders
  <2>6. ShowsOne'
    BY <1>0, <2>1, <2>2, <2>5, ShowsKept DEF Holding
  <2>7. InPhase'
    BY <1>0, <2>1, <2>2, <2>5, PhaseKept
  <2>8. OnScreen'
    BY <1>0, <2>1, <2>2, <2>5 DEF OnScreen
  <2> QED BY <2>6, <2>7, <2>8
<1>6. CASE UserMove \/ LocalEvent \/ CaptureStep
  BY <1>6, CaptureExclusive
<1> QED BY <1>1, <1>2, <1>3, <1>4, <1>5, <1>6 DEF Next

(* As long as every connection that was opened stays up and one peer at    *)
(* most shows screens: between events, the local keyboard and mouse are    *)
(* suppressed exactly while the cursor is on that peer, wherever the mouse *)
(* crosses while the arrangement is being rebuilt.                         *)
THEOREM ServerExclusiveInput == Spec => []ExclusiveInput
<1>1. Init => OneAtATime /\ LinksCounted /\ BootFirst /\ NothingPlaced /\ Exclusive
  BY InitExclusive
<1> DEFINE Rest == OneAtATime /\ Current /\ LinksCounted /\ BootFirst /\ NothingPlaced /\ Exclusive
<1>2. Init => Rest
  BY <1>1, InitCurrent
<1>3. ServerInv /\ Rest /\ [Next]_vars => Rest'
  <2> SUFFICES ASSUME ServerInv, Rest, [Next]_vars PROVE Rest'
    OBVIOUS
  <2>1. Typed /\ ExclusiveInv
    BY DEF ServerInv, ExclusiveInv
  <2>2. OneAtATime' /\ Current'
    BY <2>1, NextCurrent
  <2>3. LinksCounted' /\ BootFirst' /\ NothingPlaced'
    BY <2>1, NextLinks, NextBoot
  <2>4. Exclusive'
    BY <2>1, <2>2, NextExclusive
  <2> QED BY <2>2, <2>3, <2>4
<1>4. ServerInv /\ Rest => ExclusiveInput
  <2> SUFFICES ASSUME ServerInv, Rest, Settled, Undisturbed
               PROVE  (relative = OnPeer(cur)) /\ (suppressed = relative)
    BY DEF ExclusiveInput
  <2>1. pc[Capture] = "idle" /\ InPhase
    BY DEF Settled, Threads, Exclusive
  <2>2. Phase = "idle"
    BY <2>1 DEF Phase
  <2>3. \/ Captured /\ OnPeer(cur)
        \/ Coupled /\ ~OnPeer(cur)
    BY <2>1, <2>2 DEF InPhase
  <2>4. CASE Captured /\ OnPeer(cur)
    BY <2>4, Zenon DEF Captured
  <2>5. CASE Coupled /\ ~OnPeer(cur)
    <3>1. OnPeer(cur) = FALSE
      BY <2>5 DEF OnPeer
    <3> QED BY <2>5, <3>1, Zenon DEF Coupled
  <2> QED BY <2>3, <2>4, <2>5
<1> HIDE DEF Rest
<1> QED BY <1>2, <1>3, <1>4, ServerInvariant, PTL DEF Spec
=============================================================================
