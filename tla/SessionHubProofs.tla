--------------------------- MODULE SessionHubProofs ---------------------------
(***************************************************************************)
(* Proofs about SessionHub, for every number of connections, any buffer    *)
(* and every bound: a clipboard change is applied once and in order, it    *)
(* reaches everyone as long as nothing breaks, and every client ends up    *)
(* with the router's arrangement.                                          *)
(***************************************************************************)
EXTENDS SessionHub, TLAPS

-----------------------------------------------------------------------------
(* Type correctness: messages, and what a thread writes. *)
MsgTypes == {"none", "hello", "ack", "report", "clip", "file", "layout", "ping", "pong"}
Msgs     == [t : MsgTypes, shows : SUBSET Conns, id : Nat, to : Machines]
IsClip(m, n) == m.t = "clip" /\ m.id = n

IsJob(j) ==
    /\ j = [msg |-> j.msg, to |-> j.to, all |-> j.all, ok |-> j.ok, bad |-> j.bad]
    /\ j.msg \in Msgs /\ j.to \subseteq Conns
    /\ j.ok \in {"idle", "build"} /\ j.bad \in {"idle", "end"}
    /\ j.ok = "build" => j.bad = "end"

Places == {"idle", "mark", "write", "build", "install", "end"}
Doing(t, type) == pc[t] = "write" /\ job[t].msg.t = type

WiresTyped ==
    /\ link \in [Conns -> {"none", "up", "half", "dead", "closed"}]
    /\ down \in [Conns -> Seq(Msgs)] /\ up \in [Conns -> Seq(Msgs)]
    /\ \A c \in Conns : Len(down[c]) <= Buffer /\ Len(up[c]) <= Buffer
    /\ \A c \in Conns : ~Open(c) => down[c] = << >> /\ up[c] = << >>

EndsTyped ==
    /\ client \in [Conns -> {"none", "hello", "serving", "refused", "gone"}]
    /\ view \in [Conns -> SUBSET Machines]
    /\ seen \in [Machines -> Seq(Nat)]

HubTyped ==
    /\ peers \subseteq Conns /\ ready \subseteq Conns /\ layout \subseteq Conns
    /\ reported \subseteq peers \cap ready
    /\ \A c \in peers : link[c] \in {"up", "half", "dead"}
    /\ \A c \in peers \ ready : pc[c] = "mark"
    /\ server \in {"open", "closing", "closed"}
    /\ snap \in [Conns -> SUBSET Conns]

ThreadsTyped ==
    /\ pc \in [Threads -> Places]
    /\ \A t \in {Local, Pinger} :
          pc[t] \in {"idle", "write"} /\ job[t].ok = "idle" /\ job[t].bad = "idle"
    /\ job = [t \in Threads |-> job[t]]
    /\ \A t \in Threads : IsJob(job[t])
    /\ \A t \in Threads : IF pc[t] = "write" THEN job[t].to # {} ELSE job[t] = NoJob

ChangeRecs == [from : Machines, for : SUBSET Machines]
BookTyped ==
    /\ changes \in Seq(ChangeRecs)
    /\ overlap \in BOOLEAN /\ broken \in BOOLEAN
    /\ connects \in Nat /\ events \in Nat

Typed == WiresTyped /\ EndsTyped /\ HubTyped /\ ThreadsTyped /\ BookTyped

-----------------------------------------------------------------------------
(* Clipboard changes travel in order. *)
Origin(n) == changes[n].from

(* Of the changes made where n was made, those that can still come to m    *)
(* are later ones.                                                         *)
Later(n, m) ==
    /\ n \in DOMAIN changes /\ Origin(n) # m
    /\ Origin(n) \in Conns =>
         \A k \in DOMAIN up[Origin(n)] : up[Origin(n)][k].t = "clip" => n < up[Origin(n)][k].id
    /\ Doing(Origin(n), "clip") /\ m \in job[Origin(n)].to => n < job[Origin(n)].msg.id

(* What a client sends, what a thread writes, what is on its way to a      *)
(* client and what a machine has applied.                                  *)
UpInOrder ==
    \A c \in Conns : \A i \in DOMAIN up[c] : up[c][i].t = "clip" =>
        /\ up[c][i].id \in DOMAIN changes /\ Origin(up[c][i].id) = c
        /\ \A j \in 1 .. i - 1 : up[c][j].t = "clip" => up[c][j].id < up[c][i].id

JobsInOrder ==
    \A t \in Threads : Doing(t, "clip") =>
        /\ job[t].msg.id \in DOMAIN changes /\ Origin(job[t].msg.id) = t
        /\ t \notin job[t].to
        /\ t \in Conns => \A i \in DOMAIN up[t] : up[t][i].t = "clip" => job[t].msg.id < up[t][i].id

DownOrdered(c) ==
    \A i \in DOMAIN down[c] : down[c][i].t = "clip" =>
        /\ Later(down[c][i].id, c)
        /\ \A j \in 1 .. i - 1 :
              down[c][j].t = "clip" /\ Origin(down[c][j].id) = Origin(down[c][i].id)
                 => down[c][j].id < down[c][i].id

SeenOrdered(m) ==
    \A i \in DOMAIN seen[m] :
        /\ Later(seen[m][i], m)
        /\ \A j \in 1 .. i - 1 :
              Origin(seen[m][j]) = Origin(seen[m][i]) => seen[m][j] < seen[m][i]
        /\ m \in Conns => \A k \in DOMAIN down[m] :
              down[m][k].t = "clip" /\ Origin(down[m][k].id) = Origin(seen[m][i])
                 => seen[m][i] < down[m][k].id

DownInOrder == \A c \in Conns : DownOrdered(c)
SeenInOrder == \A m \in Machines : SeenOrdered(m)

InOrder == UpInOrder /\ JobsInOrder /\ DownInOrder /\ SeenInOrder

-----------------------------------------------------------------------------
(* While nothing is closed or breaks, a change n made at o is on its way   *)
(* to m or has been applied there.                                         *)
Holds(q, n) == \E i \in DOMAIN q : IsClip(q[i], n)
Saw(m, n)   == \E i \in DOMAIN seen[m] : seen[m][i] = n
Brings(o, n, m) == Doing(o, "clip") /\ job[o].msg.id = n /\ m \in job[o].to

OnWay(n, o, m) ==
    \/ Saw(m, n)
    \/ m \in Conns /\ Holds(down[m], n)
    \/ Brings(o, n, m)
    \/ o \in Conns /\ Holds(up[o], n)

Calm == server = "open" /\ ~broken

NothingEnds ==
    Calm => /\ \A c \in Conns : link[c] \in {"none", "up"} /\ (pc[c] = "mark" => c \in peers)
            /\ \A t \in Threads : pc[t] # "end" /\ job[t].to \subseteq peers

AllOnWay ==
    Calm => \A n \in DOMAIN changes :
        /\ Origin(n) \notin changes[n].for
        /\ \A m \in changes[n].for :
              /\ m # Local => m \in peers \cap ready /\ Serving(m)
              /\ OnWay(n, Origin(n), m)

-----------------------------------------------------------------------------
(* Arrangements.  Rebuilds that have not overlapped run one at a time. *)
OneRebuild == ~overlap => \A t, u \in Threads : Rebuilding(t) /\ Rebuilding(u) => t = u

Live == server = "open" /\ ~overlap

LayoutCurrent ==
    Live /\ (\A c \in Conns : pc[c] # "build") =>
        /\ \A c \in Conns : pc[c] = "install" => snap[c] = reported
        /\ (\A c \in Conns : pc[c] # "install") => layout = reported

PushesLayout ==
    Live => \A t \in Threads : Doing(t, "layout") =>
        job[t].to \subseteq peers /\ job[t].msg.shows = layout /\ job[t].ok = "idle"

(* A rebuild is under way or will follow: of a peer that joins or leaves. *)
Owing(c) == \/ link[c] \in {"half", "dead"}
            \/ pc[c] \in {"mark", "build", "install", "end"}
            \/ pc[c] = "write" /\ job[c].ok = "build"

(* Once q is received, a client that shows v shows L. *)
Shows(q, v, L) ==
    \/ /\ \A j \in DOMAIN q : q[j].t # "layout"
       /\ v = L
    \/ \E i \in DOMAIN q :
          /\ q[i].t = "layout" /\ q[i].shows = L
          /\ \A j \in DOMAIN q : j > i => q[j].t # "layout"

Pushes(t, c) == Doing(t, "layout") /\ c \in job[t].to

ViewsFollow ==
    Live /\ (\A c \in Conns : ~Owing(c)) =>
        \A c \in peers : Shows(down[c], view[c], layout) \/ \E t \in Threads : Pushes(t, c)

Arranged == OneRebuild /\ LayoutCurrent /\ PushesLayout /\ ViewsFollow

-----------------------------------------------------------------------------
(* Messages, queues and jobs. *)

LEMMA MsgsTyped ==
    /\ \A t \in MsgTypes : Msg(t) \in Msgs /\ Msg(t).t = t
    /\ \A S \in SUBSET Conns : /\ LayoutMsg(S) \in Msgs
                               /\ LayoutMsg(S).t = "layout" /\ LayoutMsg(S).shows = S
    /\ \A n \in Nat : ClipMsg(n) \in Msgs /\ ClipMsg(n).t = "clip" /\ ClipMsg(n).id = n
    /\ \A d \in Conns : FileMsg(d) \in Msgs /\ FileMsg(d).t = "file" /\ FileMsg(d).to = d
<1>1. \A t \in MsgTypes : Msg(t) \in Msgs /\ Msg(t).t = t
  BY DEF Msg, Msgs, Machines
<1>2. ASSUME NEW S \in SUBSET Conns
      PROVE  LayoutMsg(S) = [t |-> "layout", shows |-> S, id |-> 0, to |-> Local]
  BY DEF LayoutMsg, Msg
<1>3. ASSUME NEW n \in Nat
      PROVE  ClipMsg(n) = [t |-> "clip", shows |-> {}, id |-> n, to |-> Local]
  BY DEF ClipMsg, Msg
<1>4. ASSUME NEW d \in Conns
      PROVE  FileMsg(d) = [t |-> "file", shows |-> {}, id |-> 0, to |-> d]
  BY DEF FileMsg, Msg
<1> QED BY <1>1, <1>2, <1>3, <1>4 DEF Msgs, MsgTypes, Machines

(* Appending to and reading from one of the queues. *)
LEMMA PutFacts ==
    ASSUME NEW q \in [Conns -> Seq(Msgs)], NEW c \in Conns, NEW m \in Msgs
    PROVE  /\ Put(q, c, m) \in [Conns -> Seq(Msgs)]
           /\ \A d \in Conns : d # c => Put(q, c, m)[d] = q[d]
           /\ Put(q, c, m)[c] = Append(q[c], m)
           /\ Len(Put(q, c, m)[c]) = Len(q[c]) + 1
           /\ DOMAIN q[c] = 1 .. Len(q[c]) /\ Len(q[c]) \in Nat
           /\ DOMAIN (Put(q, c, m)[c]) = 1 .. Len(q[c]) + 1
           /\ \A i \in DOMAIN q[c] : Put(q, c, m)[c][i] = q[c][i]
           /\ Put(q, c, m)[c][Len(q[c]) + 1] = m
BY DEF Put

LEMMA PopFacts ==
    ASSUME NEW q \in [Conns -> Seq(Msgs)], NEW c \in Conns, q[c] # << >>
    PROVE  /\ Pop(q, c) \in [Conns -> Seq(Msgs)]
           /\ \A d \in Conns : d # c => Pop(q, c)[d] = q[d]
           /\ Pop(q, c)[c] = Tail(q[c])
           /\ Len(q[c]) \in Nat \ {0} /\ Len(Pop(q, c)[c]) = Len(q[c]) - 1
           /\ DOMAIN q[c] = 1 .. Len(q[c])
           /\ DOMAIN (Pop(q, c)[c]) = 1 .. Len(q[c]) - 1
           /\ \A i \in 1 .. Len(q[c]) - 1 : Pop(q, c)[c][i] = q[c][i + 1]
           /\ Head(q[c]) = q[c][1] /\ Head(q[c]) \in Msgs
BY DEF Pop

(* Jobs. *)
LEMMA JobRecord ==
    ASSUME NEW msg \in Msgs, NEW to \in SUBSET Conns, NEW all,
           NEW ok \in {"idle", "build"}, NEW bad \in {"idle", "end"}, ok = "build" => bad = "end"
    PROVE  LET j == [msg |-> msg, to |-> to, all |-> all, ok |-> ok, bad |-> bad] IN
           /\ IsJob(j) /\ j.msg = msg /\ j.to = to /\ j.ok = ok /\ j.bad = bad
BY DEF IsJob

LEMMA NoJobTyped ==
    IsJob(NoJob) /\ NoJob.msg.t = "none" /\ NoJob.to = {} /\ NoJob.ok = "idle" /\ NoJob.bad = "idle"
<1>1. Msg("none") \in Msgs /\ Msg("none").t = "none"
  BY MsgsTyped DEF MsgTypes
<1>2. PICK f : f = FALSE
  OBVIOUS
<1>3. NoJob = [msg |-> Msg("none"), to |-> {}, all |-> f, ok |-> "idle", bad |-> "idle"]
  BY <1>2, Zenon DEF NoJob
<1> QED BY <1>1, <1>3, JobRecord

(* Only the thread that moves changes its place or its job. *)
LEMMA ThreadMoves ==
    ASSUME ThreadsTyped, NEW t \in Threads, NEW to \in Places, NEW j, IsJob(j),
           pc' = [pc EXCEPT ![t] = to], job' = [job EXCEPT ![t] = j],
           IF to = "write" THEN j.to # {} ELSE j = NoJob,
           t \in {Local, Pinger} => to \in {"idle", "write"} /\ j.ok = "idle" /\ j.bad = "idle"
    PROVE  /\ ThreadsTyped' /\ pc'[t] = to /\ job'[t] = j
           /\ \A u \in Threads : u # t => pc'[u] = pc[u] /\ job'[u] = job[u]
<1>1. t \in DOMAIN pc /\ t \in DOMAIN job /\ DOMAIN job = Threads
  BY DEF ThreadsTyped
<1>2. /\ pc'[t] = to /\ job'[t] = j
      /\ \A u \in Threads : u # t => pc'[u] = pc[u] /\ job'[u] = job[u]
  BY <1>1 DEF ThreadsTyped
<1>3. pc' \in [Threads -> Places] /\ job' = [u \in Threads |-> job'[u]]
  BY <1>1 DEF ThreadsTyped
<1>4. \A u \in Threads : /\ IsJob(job'[u])
                         /\ IF pc'[u] = "write" THEN job'[u].to # {} ELSE job'[u] = NoJob
  BY <1>2 DEF ThreadsTyped
<1>5. \A u \in {Local, Pinger} :
          pc'[u] \in {"idle", "write"} /\ job'[u].ok = "idle" /\ job'[u].bad = "idle"
  BY <1>2 DEF ThreadsTyped, Threads
<1> QED BY <1>2, <1>3, <1>4, <1>5 DEF ThreadsTyped

LEMMA PlaceMoves ==
    ASSUME ThreadsTyped, NEW t \in Threads, NEW to \in Places \ {"write"},
           pc[t] # "write", pc' = [pc EXCEPT ![t] = to], job' = job,
           t \in {Local, Pinger} => to = "idle"
    PROVE  /\ ThreadsTyped' /\ pc'[t] = to
           /\ \A u \in Threads : u # t => pc'[u] = pc[u]
<1>1. job[t] = NoJob /\ job = [u \in Threads |-> job[u]]
  BY DEF ThreadsTyped
<1>2. job' = [job EXCEPT ![t] = NoJob]
  BY <1>1
<1> QED BY <1>2, ThreadMoves, NoJobTyped

(* A thread that begins a job, and one that is done with a connection.     *)
LEMMA StartJobFacts ==
    ASSUME ThreadsTyped, NEW t \in Threads, NEW msg \in Msgs, NEW to \in SUBSET Conns, NEW all,
           NEW ok \in {"idle", "build"}, NEW bad \in {"idle", "end"}, ok = "build" => bad = "end",
           t \in {Local, Pinger} => ok = "idle" /\ bad = "idle",
           pc[t] # "write", StartJob(t, msg, to, all, ok, bad)
    PROVE  /\ ThreadsTyped'
           /\ \A u \in Threads : u # t => pc'[u] = pc[u] /\ job'[u] = job[u]
           /\ to = {} => pc'[t] = ok /\ job' = job
           /\ to # {} => /\ pc'[t] = "write" /\ job'[t].msg = msg /\ job'[t].to = to
                         /\ job'[t].ok = ok /\ job'[t].bad = bad
<1> DEFINE j == [msg |-> msg, to |-> to, all |-> all, ok |-> ok, bad |-> bad]
<1>1. IsJob(j) /\ j.msg = msg /\ j.to = to /\ j.ok = ok /\ j.bad = bad
  BY JobRecord
<1>2. to = {} => pc' = [pc EXCEPT ![t] = ok] /\ job' = job
  BY DEF StartJob
<1>3. to # {} => pc' = [pc EXCEPT ![t] = "write"] /\ job' = [job EXCEPT ![t] = j]
  BY Zenon DEF StartJob
<1> HIDE DEF j
<1>4. CASE to = {}
  <2>1. ok \in Places \ {"write"}
    BY DEF Places
  <2>2. /\ ThreadsTyped' /\ pc'[t] = ok
        /\ \A u \in Threads : u # t => pc'[u] = pc[u]
    BY <1>2, <1>4, <2>1, PlaceMoves
  <2> QED BY <1>2, <1>4, <2>2
<1>5. CASE to # {}
  <2>1. "write" \in Places
    BY DEF Places
  <2>2. /\ ThreadsTyped' /\ pc'[t] = "write" /\ job'[t] = j
        /\ \A u \in Threads : u # t => pc'[u] = pc[u] /\ job'[u] = job[u]
    BY <1>1, <1>3, <1>5, <2>1, ThreadMoves
  <2> QED BY <1>1, <1>5, <2>2
<1> QED BY <1>4, <1>5

LEMMA DoneFacts ==
    ASSUME ThreadsTyped, NEW t \in Threads, NEW c \in Conns, Writes(t, c), Done(t, c)
    PROVE  /\ ThreadsTyped'
           /\ \A u \in Threads : u # t => pc'[u] = pc[u] /\ job'[u] = job[u]
           /\ \/ /\ job[t].to = {c} /\ pc'[t] = job[t].ok /\ job'[t] = NoJob
                 /\ overlap' = (overlap \/ (job[t].ok = "build" /\ \E u \in Threads \ {t} : Rebuilding(u)))
              \/ /\ pc' = pc /\ overlap' = overlap
                 /\ job'[t].to = job[t].to \ {c} /\ job'[t].msg = job[t].msg
                 /\ job'[t].ok = job[t].ok /\ job'[t].bad = job[t].bad
<1>0. pc[t] = "write" /\ c \in job[t].to /\ IsJob(job[t]) /\ IsJob(NoJob) /\ NoJob.ok = "idle" /\ NoJob.bad = "idle"
  BY NoJobTyped DEF Writes, ThreadsTyped
<1>1. CASE job[t].to = {c}
  <2>1. pc' = [pc EXCEPT ![t] = job[t].ok] /\ job' = [job EXCEPT ![t] = NoJob]
        /\ overlap' = (overlap \/ (job[t].ok = "build" /\ \E u \in Threads \ {t} : Rebuilding(u)))
    BY <1>1, Zenon DEF Done, Enter
  <2>2. job[t].ok \in Places \ {"write"} /\ (t \in {Local, Pinger} => job[t].ok = "idle")
    BY <1>0 DEF IsJob, Places, ThreadsTyped
  <2>3. /\ ThreadsTyped' /\ pc'[t] = job[t].ok /\ job'[t] = NoJob
        /\ \A u \in Threads : u # t => pc'[u] = pc[u] /\ job'[u] = job[u]
    BY <1>0, <2>1, <2>2, ThreadMoves
  <2> QED BY <1>1, <2>1, <2>3
<1>2. CASE job[t].to # {c}
  <2>1. PICK j : j = [job[t] EXCEPT !.to = job[t].to \ {c}]
    OBVIOUS
  <2>2. pc' = pc /\ overlap' = overlap /\ job' = [job EXCEPT ![t] = j]
    BY <1>2, <2>1 DEF Done
  <2>3. j = [msg |-> job[t].msg, to |-> job[t].to \ {c}, all |-> job[t].all, ok |-> job[t].ok, bad |-> job[t].bad]
    BY <1>0, <2>1 DEF IsJob
  <2>4. IsJob(j) /\ j.msg = job[t].msg /\ j.to = job[t].to \ {c} /\ j.ok = job[t].ok /\ j.bad = job[t].bad
    BY <1>0, <2>3 DEF IsJob
  <2>5. j.to # {}
    BY <1>0, <1>2, <2>4
  <2>6. t \in {Local, Pinger} => j.ok = "idle" /\ j.bad = "idle"
    BY <2>4 DEF ThreadsTyped
  <2>7. /\ ThreadsTyped' /\ job'[t] = j
        /\ \A u \in Threads : u # t => pc'[u] = pc[u] /\ job'[u] = job[u]
    <3>1. job' = [job EXCEPT ![t] = j] /\ IsJob(j) /\ j.to # {}
      BY <2>2, <2>4, <2>5
    <3>2. DOMAIN job = Threads /\ t \in DOMAIN job
      BY DEF ThreadsTyped
    <3>3. /\ job'[t] = j
          /\ \A u \in Threads : u # t => job'[u] = job[u]
      BY <3>1, <3>2
    <3>4. pc' \in [Threads -> Places] /\ job' = [u \in Threads |-> job'[u]] /\ pc' = pc
      BY <2>2, <3>1, <3>2 DEF ThreadsTyped
    <3>5. \A u \in Threads : /\ IsJob(job'[u])
                             /\ IF pc'[u] = "write" THEN job'[u].to # {} ELSE job'[u] = NoJob
      BY <1>0, <3>1, <3>3, <3>4 DEF ThreadsTyped
    <3>6. \A u \in {Local, Pinger} :
              pc'[u] \in {"idle", "write"} /\ job'[u].ok = "idle" /\ job'[u].bad = "idle"
      BY <2>6, <3>3, <3>4 DEF ThreadsTyped, Threads
    <3> QED BY <3>3, <3>4, <3>5, <3>6 DEF ThreadsTyped
  <2> QED BY <2>2, <2>4, <2>7
<1> QED BY <1>1, <1>2

-----------------------------------------------------------------------------
(* Type correctness, group by group. *)

LEMMA WiresKept ==
    ASSUME WiresTyped, NEW c \in Conns, Open(c), link' = link,
           down' \in [Conns -> Seq(Msgs)], up' \in [Conns -> Seq(Msgs)],
           Len(down'[c]) <= Buffer, Len(up'[c]) <= Buffer,
           \A d \in Conns : d # c => down'[d] = down[d] /\ up'[d] = up[d]
    PROVE  WiresTyped'
BY DEF WiresTyped, Open

LEMMA PutKept ==
    ASSUME NEW q \in [Conns -> Seq(Msgs)], NEW c \in Conns, NEW m \in Msgs, Room(q, c)
    PROVE  /\ Put(q, c, m) \in [Conns -> Seq(Msgs)]
           /\ \A d \in Conns : d # c => Put(q, c, m)[d] = q[d]
           /\ Len(Put(q, c, m)[c]) <= Buffer
BY PutFacts, HubAssumption DEF Room

LEMMA PopKept ==
    ASSUME NEW q \in [Conns -> Seq(Msgs)], NEW c \in Conns, q[c] # << >>, Len(q[c]) <= Buffer
    PROVE  /\ Pop(q, c) \in [Conns -> Seq(Msgs)]
           /\ \A d \in Conns : d # c => Pop(q, c)[d] = q[d]
           /\ Len(Pop(q, c)[c]) <= Buffer
BY PopFacts, HubAssumption

(* One connection is read at the server, or written to by its client. *)
LEMMA TakeTyped ==
    ASSUME WiresTyped, NEW c \in Conns, Open(c), up[c] # << >>, Take(c)
    PROVE  WiresTyped'
<1>1. up \in [Conns -> Seq(Msgs)] /\ down \in [Conns -> Seq(Msgs)] /\ Len(up[c]) <= Buffer /\ Len(down[c]) <= Buffer
  BY DEF WiresTyped
<1>2. link' = link /\ down' = down /\ up' = Pop(up, c)
  BY DEF Take
<1>3. Pop(up, c) \in [Conns -> Seq(Msgs)] /\ Len(Pop(up, c)[c]) <= Buffer
      /\ \A d \in Conns : d # c => Pop(up, c)[d] = up[d]
  BY <1>1, PopKept
<1> QED BY <1>1, <1>2, <1>3, WiresKept

LEMMA SendTyped ==
    ASSUME WiresTyped, NEW c \in Conns, Open(c), NEW m \in Msgs, Room(up, c),
           up' = Put(up, c, m), UNCHANGED <<link, down>>
    PROVE  WiresTyped'
<1>1. up \in [Conns -> Seq(Msgs)] /\ down \in [Conns -> Seq(Msgs)] /\ Len(up[c]) <= Buffer /\ Len(down[c]) <= Buffer
  BY DEF WiresTyped
<1>2. Put(up, c, m) \in [Conns -> Seq(Msgs)] /\ Len(Put(up, c, m)[c]) <= Buffer
      /\ \A d \in Conns : d # c => Put(up, c, m)[d] = up[d]
  BY <1>1, PutKept
<1> QED BY <1>1, <1>2, WiresKept

LEMMA CutFacts ==
    ASSUME WiresTyped, EndsTyped, NEW S \in SUBSET Conns, NEW to \in {"dead", "closed"},
           NEW state \in {"gone", "refused"}, Cut(S, to, state)
    PROVE  /\ WiresTyped' /\ EndsTyped'
           /\ \A c \in S : /\ link'[c] = to /\ down'[c] = << >> /\ up'[c] = << >>
                           /\ view'[c] = NoView /\ seen'[c] = << >> /\ client'[c] = state
           /\ \A c \in Conns \ S : /\ link'[c] = link[c] /\ down'[c] = down[c] /\ up'[c] = up[c]
                                   /\ view'[c] = view[c] /\ seen'[c] = seen[c] /\ client'[c] = client[c]
           /\ seen'[Local] = seen[Local]
<1>1. /\ \A c \in S : /\ link'[c] = to /\ down'[c] = << >> /\ up'[c] = << >>
                      /\ view'[c] = NoView /\ seen'[c] = << >> /\ client'[c] = state
      /\ \A c \in Conns \ S : /\ link'[c] = link[c] /\ down'[c] = down[c] /\ up'[c] = up[c]
                              /\ view'[c] = view[c] /\ seen'[c] = seen[c] /\ client'[c] = client[c]
      /\ seen'[Local] = seen[Local]
  BY HubAssumption DEF Cut, Machines
<1>2. link' \in [Conns -> {"none", "up", "half", "dead", "closed"}]
      /\ client' \in [Conns -> {"none", "hello", "serving", "refused", "gone"}]
  BY DEF Cut, WiresTyped, EndsTyped
<1>3. << >> \in Seq(Msgs) /\ << >> \in Seq(Nat) /\ Len(<< >>) = 0 /\ NoView \in SUBSET Machines
  BY DEF NoView, Machines
<1>4. down' \in [Conns -> Seq(Msgs)] /\ up' \in [Conns -> Seq(Msgs)]
  BY <1>3 DEF Cut, WiresTyped
<1>5. view' \in [Conns -> SUBSET Machines] /\ seen' \in [Machines -> Seq(Nat)]
  BY <1>3 DEF Cut, EndsTyped
<1>6. \A c \in Conns : Len(down'[c]) <= Buffer /\ Len(up'[c]) <= Buffer
  BY <1>1, <1>3, HubAssumption DEF WiresTyped
<1>7. \A c \in Conns : ~Open(c)' => down'[c] = << >> /\ up'[c] = << >>
  BY <1>1 DEF WiresTyped, Open
<1> QED BY <1>1, <1>2, <1>4, <1>5, <1>6, <1>7 DEF WiresTyped, EndsTyped

(* Threads that move while the peers stay. *)
LEMMA HubKept ==
    ASSUME HubTyped, UNCHANGED hub, snap' = snap,
           \A c \in peers : link'[c] \in {"up", "half", "dead"},
           \A c \in Conns : pc[c] = "mark" => pc'[c] = "mark"
    PROVE  HubTyped'
BY DEF HubTyped, hub

LEMMA EndsKept == EndsTyped /\ UNCHANGED ends => EndsTyped'
BY DEF EndsTyped, ends

LEMMA BookKept == BookTyped /\ UNCHANGED book => BookTyped'
BY DEF BookTyped, book, count

LEMMA WiresSame == WiresTyped /\ UNCHANGED wires => WiresTyped'
BY DEF WiresTyped, wires, Open

LEMMA ThreadsSame == ThreadsTyped /\ UNCHANGED <<pc, job>> => ThreadsTyped'
BY DEF ThreadsTyped

(* The first failure ends a job. *)
LEMMA FailFacts ==
    ASSUME ThreadsTyped, NEW t \in Threads, NEW c \in Conns, Writes(t, c), t # Pinger,
           Enter(t, job[t].bad), job' = [job EXCEPT ![t] = NoJob], overlap \in BOOLEAN
    PROVE  /\ ThreadsTyped' /\ pc'[t] = job[t].bad /\ job'[t] = NoJob /\ overlap' = overlap
           /\ \A u \in Threads : u # t => pc'[u] = pc[u] /\ job'[u] = job[u]
<1>1. IsJob(job[t]) /\ (t = Local => job[t].bad = "idle")
  BY DEF ThreadsTyped
<1>2. job[t].bad \in Places /\ job[t].bad # "write" /\ job[t].bad # "build"
  BY <1>1 DEF IsJob, Places
<1>3. pc' = [pc EXCEPT ![t] = job[t].bad]
      /\ overlap' = (overlap \/ (job[t].bad = "build" /\ \E u \in Threads \ {t} : Rebuilding(u)))
  BY Zenon DEF Enter
<1>4. IsJob(NoJob) /\ NoJob.ok = "idle" /\ NoJob.bad = "idle"
  BY NoJobTyped
<1>5. overlap' = overlap
  BY <1>2, <1>3
<1>6. t \in {Local, Pinger} => job[t].bad \in {"idle", "write"}
  BY <1>1
<1> QED BY <1>2, <1>3, <1>4, <1>5, <1>6, ThreadMoves

(* Every thread that works on its job. *)
LEMMA WritingMoves ==
    ASSUME Typed, NEW t \in Threads, NEW c \in Conns,
           Write(t, c) \/ PassOver(t, c) \/ WriteFails(t, c)
    PROVE  /\ ThreadsTyped' /\ overlap' \in BOOLEAN
           /\ \A u \in Conns : pc[u] = "mark" => pc'[u] = "mark"
<1>0. ThreadsTyped /\ Writes(t, c) /\ pc[t] = "write" /\ overlap \in BOOLEAN
  BY DEF Typed, BookTyped, Write, PassOver, WriteFails, Writes
<1>1. CASE Done(t, c)
  BY <1>0, <1>1, DoneFacts DEF Threads
<1>2. CASE ~Done(t, c)
  <2>1. t # Pinger /\ Enter(t, job[t].bad) /\ job' = [job EXCEPT ![t] = NoJob]
    BY <1>2 DEF Write, PassOver, WriteFails
  <2> QED BY <1>0, <2>1, FailFacts DEF Threads
<1> QED BY <1>1, <1>2

LEMMA WritingTyped ==
    ASSUME Typed, NEW t \in Threads, Writing(t)
    PROVE  Typed'
<1>1. PICK c \in Conns : Write(t, c) \/ PassOver(t, c) \/ WriteFails(t, c)
  BY DEF Writing
<1>2. ThreadsTyped' /\ overlap' \in BOOLEAN /\ \A u \in Conns : pc[u] = "mark" => pc'[u] = "mark"
  BY <1>1, WritingMoves DEF Typed, BookTyped
<1>3. UNCHANGED <<link, up, ends, hub, snap, changes, broken, count>>
  BY <1>1 DEF Write, PassOver, WriteFails, wires
<1>4. EndsTyped' /\ HubTyped' /\ BookTyped'
  <2>1. \A d \in peers : link'[d] \in {"up", "half", "dead"}
    BY <1>3 DEF Typed, HubTyped
  <2> QED BY <1>2, <1>3, <2>1, EndsKept, HubKept DEF Typed, BookTyped, count
<1>5. CASE Write(t, c)
  <2>1. /\ down \in [Conns -> Seq(Msgs)] /\ up \in [Conns -> Seq(Msgs)] /\ IsJob(job[t])
        /\ Len(up[c]) <= Buffer
    BY DEF Typed, WiresTyped, ThreadsTyped
  <2>2. PICK m \in Msgs : down' = Put(down, c, m)
    BY <1>5, <2>1 DEF Write, IsJob
  <2>3. Room(down, c) /\ Open(c)
    BY <1>5 DEF Write
  <2>4. /\ Put(down, c, m) \in [Conns -> Seq(Msgs)] /\ Len(Put(down, c, m)[c]) <= Buffer
        /\ \A d \in Conns : d # c => Put(down, c, m)[d] = down[d]
    BY <2>1, <2>3, PutKept
  <2>5. WiresTyped'
    BY <1>3, <2>1, <2>2, <2>3, <2>4, WiresKept DEF Typed
  <2> QED BY <1>2, <1>4, <2>5 DEF Typed
<1>6. CASE PassOver(t, c) \/ WriteFails(t, c)
  BY <1>2, <1>4, <1>6, WiresSame DEF Typed, PassOver, WriteFails
<1> QED BY <1>1, <1>5, <1>6

(* What the read goroutine of an open connection receives. *)
LEMMA TakesHead ==
    ASSUME Typed, NEW c \in Conns, NEW type, Next1(c, type), Take(c)
    PROVE  /\ WiresTyped' /\ Head(up[c]) \in Msgs /\ pc[c] = "idle" /\ c \in Threads
           /\ c \notin {Local, Pinger} /\ link' = link /\ link[c] \in {"up", "half"} /\ up[c] # << >>
<1>1. up \in [Conns -> Seq(Msgs)] /\ up[c] # << >> /\ Open(c) /\ WiresTyped /\ pc[c] = "idle"
  BY DEF Typed, WiresTyped, Next1
<1>2. WiresTyped'
  BY <1>1, TakeTyped
<1>3. Head(up[c]) \in Msgs
  BY <1>1, PopFacts
<1> QED BY <1>1, <1>2, <1>3, HubAssumption DEF Take, Open, Threads

LEMMA RecvTyped ==
    ASSUME Typed, NEW c \in Conns,
           RecvHello(c) \/ RecvReport(c) \/ RecvPong(c) \/ ApplyFails(c)
    PROVE  Typed'
<1>1. PICK type : Next1(c, type) /\ Take(c)
  BY DEF RecvHello, RecvReport, RecvPong, ApplyFails
<1>2. /\ WiresTyped' /\ pc[c] = "idle" /\ c \in Threads
      /\ c \notin {Local, Pinger} /\ link' = link /\ link[c] \in {"up", "half"}
  BY <1>1, TakesHead
<1>3. EndsTyped'
  BY EndsKept DEF Typed, RecvHello, RecvReport, RecvPong, ApplyFails
<1>4. CASE RecvHello(c)
  <2>1. /\ pc' = [pc EXCEPT ![c] = "mark"] /\ job' = job /\ peers' = peers \cup {c}
        /\ UNCHANGED <<ready, reported, layout, server, snap>> /\ UNCHANGED book
    BY <1>4 DEF RecvHello
  <2>2. /\ ThreadsTyped' /\ pc'[c] = "mark" /\ \A u \in Threads : u # c => pc'[u] = pc[u]
    BY <1>2, <2>1, PlaceMoves DEF Typed, Places
  <2>3. HubTyped'
    BY <1>2, <2>1, <2>2 DEF Typed, HubTyped, Threads
  <2> QED BY <1>2, <1>3, <2>1, <2>2, <2>3, BookKept DEF Typed
<1>5. CASE RecvReport(c)
  <2>1. job' = job /\ UNCHANGED <<peers, ready, layout, server, snap, changes, broken, count>>
    BY <1>5 DEF RecvReport
  <2>2. CASE c \in peers
    <3>1. reported' = reported \cup {c} /\ pc' = [pc EXCEPT ![c] = "build"] /\ overlap' \in BOOLEAN
      BY <1>5, <2>2, Zenon DEF RecvReport, Enter
    <3>2. /\ ThreadsTyped' /\ pc'[c] = "build" /\ \A u \in Threads : u # c => pc'[u] = pc[u]
      BY <1>2, <2>1, <3>1, PlaceMoves DEF Typed, Places
    <3>3. c \in ready
      BY <1>2, <2>2 DEF Typed, HubTyped
    <3>4. HubTyped'
      BY <1>2, <2>1, <2>2, <3>1, <3>2, <3>3 DEF Typed, HubTyped, Threads
    <3> QED BY <1>2, <1>3, <2>1, <3>1, <3>2, <3>4 DEF Typed, BookTyped, count
  <2>3. CASE c \notin peers
    <3>1. UNCHANGED <<reported, pc, overlap>>
      BY <1>5, <2>3 DEF RecvReport
    <3> QED BY <1>2, <1>3, <2>1, <3>1, ThreadsSame DEF Typed, BookTyped, HubTyped, count
  <2> QED BY <2>2, <2>3
<1>6. CASE RecvPong(c)
  <2>1. UNCHANGED <<hub, pc, job, snap, book>>
    BY <1>6 DEF RecvPong
  <2>2. HubTyped'
    BY <1>2, <2>1 DEF Typed, HubTyped, hub
  <2> QED BY <1>2, <1>3, <2>1, <2>2, BookKept, ThreadsSame DEF Typed
<1>7. CASE ApplyFails(c)
  <2>1. /\ pc' = [pc EXCEPT ![c] = "end"] /\ UNCHANGED <<hub, job, snap, changes, overlap>>
        /\ broken' = TRUE /\ Event
    BY <1>7 DEF ApplyFails
  <2>2. /\ ThreadsTyped' /\ pc'[c] = "end" /\ \A u \in Threads : u # c => pc'[u] = pc[u]
    BY <1>2, <2>1, PlaceMoves DEF Typed, Places
  <2>3. HubTyped'
    BY <1>2, <2>1, <2>2 DEF Typed, HubTyped, Threads, hub
  <2> QED BY <1>2, <1>3, <2>1, <2>2, <2>3 DEF Typed, BookTyped, Event
<1> QED BY <1>4, <1>5, <1>6, <1>7

LEMMA RelayTyped ==
    ASSUME Typed, NEW c \in Conns, RecvClip(c) \/ RecvFile(c)
    PROVE  Typed'
<1>1. PICK type : Next1(c, type) /\ Take(c)
  BY DEF RecvClip, RecvFile
<1>2. /\ WiresTyped' /\ Head(up[c]) \in Msgs /\ pc[c] = "idle" /\ c \in Threads
      /\ c \notin {Local, Pinger} /\ link' = link
  BY <1>1, TakesHead
<1>3. UNCHANGED <<client, view, hub, snap, book>>
  BY DEF RecvClip, RecvFile, ends
<1>4. EndsTyped'
  <2>1. CASE RecvFile(c)
    BY <2>1, EndsKept DEF Typed, RecvFile
  <2>2. CASE RecvClip(c)
    <3>1. seen' = [seen EXCEPT ![Local] = Append(seen[Local], Head(up[c]).id)]
      BY <2>2 DEF RecvClip
    <3>2. Head(up[c]).id \in Nat /\ seen[Local] \in Seq(Nat)
      BY <1>2 DEF Msgs, Typed, EndsTyped, Machines
    <3>3. Append(seen[Local], Head(up[c]).id) \in Seq(Nat)
      BY <3>2
    <3> QED BY <1>3, <3>1, <3>3 DEF Typed, EndsTyped
  <2> QED BY <2>1, <2>2
<1>5. \/ UNCHANGED <<pc, job>>
      \/ \E to \in SUBSET Conns, m \in Msgs : StartJob(c, m, to, TRUE, "idle", "end")
  <2>1. CASE RecvClip(c)
    <3>1. StartJob(c, Head(up[c]), peers \ {c}, TRUE, "idle", "end")
      BY <2>1 DEF RecvClip
    <3> QED BY <1>2, <3>1 DEF Typed, HubTyped
  <2>2. CASE RecvFile(c)
    <3> DEFINE to == {Head(up[c]).to} \cap peers \cap ready
    <3>1. UNCHANGED <<pc, job>> \/ StartJob(c, Head(up[c]), to, TRUE, "idle", "end")
      BY <2>2 DEF RecvFile
    <3>2. to \in SUBSET Conns
      BY DEF Typed, HubTyped
    <3> HIDE DEF to
    <3> QED BY <1>2, <3>1, <3>2
  <2> QED BY <2>1, <2>2
<1>6. ThreadsTyped' /\ \A u \in Threads : u # c => pc'[u] = pc[u]
  <2>1. CASE UNCHANGED <<pc, job>>
    BY <2>1, ThreadsSame DEF Typed
  <2>2. CASE ~UNCHANGED <<pc, job>>
    <3>1. PICK to \in SUBSET Conns, m \in Msgs : StartJob(c, m, to, TRUE, "idle", "end")
      BY <1>5, <2>2
    <3> QED BY <1>2, <3>1, StartJobFacts DEF Typed
  <2> QED BY <2>1, <2>2
<1>7. HubTyped'
  <2>1. \A u \in Conns : pc[u] = "mark" => pc'[u] = "mark"
    BY <1>2, <1>6 DEF Threads
  <2> QED BY <1>2, <1>3, <2>1, HubKept DEF Typed, HubTyped
<1> QED BY <1>2, <1>3, <1>4, <1>6, <1>7, BookKept DEF Typed

LEMMA MarkTyped ==
    ASSUME Typed, NEW c \in Conns, MarkReady(c)
    PROVE  Typed'
<1>1. /\ pc[c] = "mark" /\ ready' = ready \cup {c} /\ StartJob(c, Msg("ack"), {c}, TRUE, "build", "end")
      /\ UNCHANGED wires /\ UNCHANGED ends /\ UNCHANGED book
      /\ UNCHANGED <<peers, reported, layout, server, snap>>
  BY DEF MarkReady
<1>2. Msg("ack") \in Msgs /\ c \in Threads /\ c \notin {Local, Pinger}
  BY MsgsTyped, HubAssumption DEF MsgTypes, Threads
<1>3. ThreadsTyped' /\ \A u \in Threads : u # c => pc'[u] = pc[u]
  BY <1>1, <1>2, StartJobFacts DEF Typed
<1>4. HubTyped'
  BY <1>1, <1>3 DEF Typed, HubTyped, Threads, wires
<1> QED BY <1>1, <1>3, <1>4, WiresSame, EndsKept, BookKept DEF Typed

LEMMA DisconnectTyped ==
    ASSUME Typed, NEW c \in Conns, Disconnect(c)
    PROVE  Typed'
<1>1. /\ Cut({c}, "closed", "gone") /\ peers' = peers \ {c} /\ reported' = reported \ {c}
      /\ pc[c] # "write" /\ job' = job /\ UNCHANGED <<ready, layout, server, snap, changes, broken, count>>
  BY DEF Disconnect, Ending
<1>2. pc' = [pc EXCEPT ![c] = "build"] /\ overlap' \in BOOLEAN
  BY Zenon DEF Disconnect, Enter
<1>3. /\ WiresTyped' /\ EndsTyped' /\ link'[c] = "closed"
      /\ \A d \in Conns : d # c => link'[d] = link[d]
  BY <1>1, CutFacts DEF Typed
<1>4. c \in Threads /\ c \notin {Local, Pinger}
  BY HubAssumption DEF Threads
<1>5. ThreadsTyped' /\ \A u \in Threads : u # c => pc'[u] = pc[u]
  BY <1>1, <1>2, <1>4, PlaceMoves DEF Typed, Places
<1>6. HubTyped'
  BY <1>1, <1>3, <1>5 DEF Typed, HubTyped, Threads
<1> QED BY <1>1, <1>2, <1>3, <1>5, <1>6 DEF Typed, BookTyped, count

LEMMA RebuildTyped ==
    ASSUME Typed, NEW c \in Conns, ReadPeers(c) \/ Install(c)
    PROVE  Typed'
<1>1. c \in Threads /\ c \notin {Local, Pinger}
  BY HubAssumption DEF Threads
<1>2. /\ UNCHANGED wires /\ UNCHANGED ends /\ UNCHANGED book
      /\ UNCHANGED <<link, peers, ready, reported, server>>
  BY DEF ReadPeers, Install, wires, hub
<1>3. CASE ReadPeers(c)
  <2>1. /\ pc[c] = "build" /\ pc' = [pc EXCEPT ![c] = "install"] /\ job' = job /\ layout' = layout
        /\ snap' = [snap EXCEPT ![c] = peers \cap ready \cap reported]
    BY <1>3 DEF ReadPeers, hub
  <2>2. ThreadsTyped' /\ \A u \in Threads : u # c => pc'[u] = pc[u]
    BY <1>1, <2>1, PlaceMoves DEF Typed, Places
  <2>3. HubTyped'
    BY <1>2, <2>1, <2>2 DEF Typed, HubTyped, Threads
  <2> QED BY <1>2, <2>2, <2>3, WiresSame, EndsKept, BookKept DEF Typed
<1>4. CASE Install(c)
  <2>1. /\ pc[c] = "install" /\ layout' = snap[c] /\ snap' = [snap EXCEPT ![c] = {}]
        /\ StartJob(c, LayoutMsg(snap[c]), peers, FALSE, "idle", "idle")
    BY <1>4 DEF Install
  <2>2. snap[c] \in SUBSET Conns /\ peers \in SUBSET Conns
    BY DEF Typed, HubTyped
  <2>3. LayoutMsg(snap[c]) \in Msgs
    BY <2>2, MsgsTyped
  <2>4. ThreadsTyped' /\ \A u \in Threads : u # c => pc'[u] = pc[u]
    BY <1>1, <2>1, <2>2, <2>3, StartJobFacts DEF Typed
  <2>5. HubTyped'
    BY <1>2, <2>1, <2>2, <2>4 DEF Typed, HubTyped, Threads
  <2> QED BY <1>2, <2>4, <2>5, WiresSame, EndsKept, BookKept DEF Typed
<1> QED BY <1>3, <1>4

LEMMA ServerTyped ==
    ASSUME Typed, LocalChange \/ Ping \/ CloseBegin \/ CloseEnd
    PROVE  Typed'
<1>1. Local \in Threads /\ Pinger \in Threads /\ Local \notin Conns /\ Pinger \notin Conns
      /\ peers \in SUBSET Conns /\ Local \in Machines
  BY HubAssumption DEF Typed, HubTyped, Threads, Machines
<1>2. CASE LocalChange
  <2>1. /\ pc[Local] = "idle" /\ Change(Local)
        /\ StartJob(Local, ClipMsg(Len(changes) + 1), peers, FALSE, "idle", "idle")
        /\ UNCHANGED wires /\ UNCHANGED ends /\ UNCHANGED hub /\ UNCHANGED <<snap, overlap, broken>>
        /\ link' = link
    BY <1>2 DEF LocalChange, wires
  <2>2. ClipMsg(Len(changes) + 1) \in Msgs
    BY MsgsTyped DEF Typed, BookTyped
  <2>3. ThreadsTyped' /\ \A u \in Threads : u # Local => pc'[u] = pc[u]
    BY <1>1, <2>1, <2>2, StartJobFacts DEF Typed
  <2>4. HubTyped'
    <3>1. \A u \in Conns : pc'[u] = pc[u]
      BY <1>1, <2>3 DEF Threads
    <3> QED BY <2>1, <3>1, HubKept DEF Typed, HubTyped
  <2>5. BookTyped'
    <3>1. Audience(Local) \in SUBSET Machines
      BY DEF Audience, Machines, Typed, HubTyped
    <3>2. PICK r \in ChangeRecs : r = [from |-> Local, for |-> Audience(Local)]
      BY <1>1, <3>1 DEF ChangeRecs
    <3>3. changes' = Append(changes, r) /\ connects' = connects /\ events' = events + 1
      BY <2>1, <3>2 DEF Change, Event
    <3> QED BY <2>1, <3>3 DEF Typed, BookTyped
  <2> QED BY <2>1, <2>3, <2>4, <2>5, WiresSame, EndsKept DEF Typed
<1>3. CASE Ping
  <2>1. /\ pc[Pinger] = "idle" /\ Event
        /\ StartJob(Pinger, Msg("ping"), peers, FALSE, "idle", "idle")
        /\ UNCHANGED wires /\ UNCHANGED ends /\ UNCHANGED hub /\ UNCHANGED <<snap, changes, overlap, broken>>
        /\ link' = link
    BY <1>3 DEF Ping, wires
  <2>2. Msg("ping") \in Msgs
    BY MsgsTyped DEF MsgTypes
  <2>3. ThreadsTyped' /\ \A u \in Threads : u # Pinger => pc'[u] = pc[u]
    BY <1>1, <2>1, <2>2, StartJobFacts DEF Typed
  <2>4. HubTyped'
    <3>1. \A u \in Conns : pc'[u] = pc[u]
      BY <1>1, <2>3 DEF Threads
    <3> QED BY <2>1, <3>1, HubKept DEF Typed, HubTyped
  <2>5. BookTyped'
    BY <2>1 DEF Typed, BookTyped, Event
  <2> QED BY <2>1, <2>3, <2>4, <2>5, WiresSame, EndsKept DEF Typed
<1>4. CASE CloseBegin
  <2>1. /\ Event /\ server' = "closing" /\ peers' = {} /\ reported' = {}
        /\ UNCHANGED wires /\ UNCHANGED ends
        /\ UNCHANGED <<ready, layout, pc, job, snap, changes, overlap, broken>>
    BY <1>4 DEF CloseBegin
  <2>2. HubTyped'
    BY <2>1 DEF Typed, HubTyped
  <2>3. BookTyped'
    BY <2>1 DEF Typed, BookTyped, Event
  <2> QED BY <2>1, <2>2, <2>3, WiresSame, EndsKept, ThreadsSame DEF Typed
<1>5. CASE CloseEnd
  <2>1. /\ Cut({c \in Conns : Open(c)}, "dead", "gone") /\ server' = "closed"
        /\ UNCHANGED book /\ UNCHANGED <<peers, ready, reported, layout, pc, job, snap>>
    BY <1>5 DEF CloseEnd
  <2>2. {c \in Conns : Open(c)} \in SUBSET Conns
    OBVIOUS
  <2>3. /\ WiresTyped' /\ EndsTyped'
        /\ \A c \in Conns : link'[c] = IF Open(c) THEN "dead" ELSE link[c]
    BY <2>1, <2>2, CutFacts DEF Typed
  <2>4. HubTyped'
    BY <2>1, <2>3 DEF Typed, HubTyped
  <2> QED BY <2>1, <2>3, <2>4, BookKept, ThreadsSame DEF Typed
<1> QED BY <1>2, <1>3, <1>4, <1>5

(* A client reads one message and may write one. *)
LEMMA ArrivalTyped ==
    ASSUME Typed, NEW c \in Conns, Arrived(c), link' = link, down' = Pop(down, c),
           up' = up \/ (Room(up, c) /\ \E m \in Msgs : up' = Put(up, c, m))
    PROVE  WiresTyped' /\ Head(down[c]) \in Msgs
<1>1. /\ down \in [Conns -> Seq(Msgs)] /\ up \in [Conns -> Seq(Msgs)] /\ down[c] # << >> /\ Open(c)
      /\ Len(down[c]) <= Buffer /\ Len(up[c]) <= Buffer
  BY DEF Typed, WiresTyped, Arrived, Open
<1>2. /\ Pop(down, c) \in [Conns -> Seq(Msgs)] /\ Len(Pop(down, c)[c]) <= Buffer
      /\ \A d \in Conns : d # c => Pop(down, c)[d] = down[d]
  BY <1>1, PopKept
<1>3. Head(down[c]) \in Msgs
  BY <1>1, PopFacts
<1>4. CASE up' = up
  BY <1>1, <1>2, <1>3, <1>4, WiresKept DEF Typed
<1>5. CASE up' # up
  <2>1. PICK m \in Msgs : up' = Put(up, c, m)
    BY <1>5
  <2>2. Room(up, c)
    BY <1>5
  <2>3. /\ Put(up, c, m) \in [Conns -> Seq(Msgs)] /\ Len(Put(up, c, m)[c]) <= Buffer
        /\ \A d \in Conns : d # c => Put(up, c, m)[d] = up[d]
    BY <1>1, <2>2, PutKept
  <2> QED BY <1>1, <1>2, <1>3, <2>1, <2>3, WiresKept DEF Typed
<1> QED BY <1>4, <1>5

LEMMA ReceiveTyped ==
    ASSUME Typed, NEW c \in Conns, Handshake(c) \/ Dispatch(c) \/ Pong(c)
    PROVE  Typed'
<1>1. /\ Arrived(c) /\ link' = link /\ down' = Pop(down, c)
      /\ UNCHANGED hub /\ UNCHANGED <<pc, job>> /\ snap' = snap /\ UNCHANGED book
  BY DEF Handshake, Dispatch, Pong
<1>2. Msg("report") \in Msgs /\ Msg("pong") \in Msgs
  BY MsgsTyped DEF MsgTypes
<1>3. up' = up \/ (Room(up, c) /\ \E m \in Msgs : up' = Put(up, c, m))
  BY <1>2 DEF Handshake, Dispatch, Pong
<1>4. WiresTyped' /\ Head(down[c]) \in Msgs
  BY <1>1, <1>3, ArrivalTyped
<1>5. EndsTyped'
  <2>1. CASE Handshake(c)
    BY <2>1 DEF Typed, EndsTyped, Handshake
  <2>2. CASE Dispatch(c)
    <3> DEFINE m == Head(down[c])
    <3>1. /\ client' = client
          /\ view' = IF m.t = "layout" THEN [view EXCEPT ![c] = m.shows] ELSE view
          /\ seen' = IF m.t = "clip" THEN [seen EXCEPT ![c] = Append(seen[c], m.id)] ELSE seen
      BY <2>2 DEF Dispatch
    <3>2. m.shows \in SUBSET Machines /\ m.id \in Nat
      BY <1>4 DEF Msgs, Machines
    <3> HIDE DEF m
    <3>3. c \in Machines /\ seen[c] \in Seq(Nat)
      BY DEF Machines, Typed, EndsTyped
    <3>4. Append(seen[c], m.id) \in Seq(Nat)
      BY <3>2, <3>3
    <3> QED BY <3>1, <3>2, <3>3, <3>4 DEF Typed, EndsTyped
  <2>3. CASE Pong(c)
    BY <2>3, EndsKept DEF Typed, Pong
  <2> QED BY <2>1, <2>2, <2>3
<1>6. HubTyped'
  BY <1>1, HubKept DEF Typed, HubTyped
<1> QED BY <1>1, <1>4, <1>5, <1>6, ThreadsSame, BookKept DEF Typed

LEMMA BreakTyped ==
    ASSUME Typed, NEW c \in Conns, Refuse(c) \/ Break(c) \/ Detect(c)
    PROVE  Typed'
<1>1. UNCHANGED hub /\ UNCHANGED <<pc, job>> /\ snap' = snap
  BY DEF Refuse, Break, Detect
<1>2. BookTyped'
  <2>1. UNCHANGED <<changes, overlap, connects>> /\ events' \in {events, events + 1}
    BY Zenon DEF Refuse, Break, Detect, Event, book, count
  <2>2. broken' \in BOOLEAN
    BY Zenon DEF Typed, BookTyped, Refuse, Break, Detect, book
  <2> QED BY <2>1, <2>2 DEF Typed, BookTyped
<1>3. /\ WiresTyped' /\ EndsTyped' /\ link'[c] \in {"half", "dead"}
      /\ \A d \in Conns : d # c => link'[d] = link[d]
  <2>1. CASE Cut({c}, "dead", "refused") \/ Cut({c}, "dead", "gone")
    BY <2>1, CutFacts DEF Typed
  <2>2. CASE ~(Cut({c}, "dead", "refused") \/ Cut({c}, "dead", "gone"))
    <3>1. /\ link[c] = "up"
          /\ link' = [link EXCEPT ![c] = "half"] /\ client' = [client EXCEPT ![c] = "gone"]
          /\ view' = [view EXCEPT ![c] = NoView] /\ seen' = [seen EXCEPT ![c] = << >>]
          /\ UNCHANGED <<down, up>>
      BY <2>2 DEF Refuse, Break, Detect
    <3>2. NoView \in SUBSET Machines /\ << >> \in Seq(Nat)
      BY DEF NoView, Machines
    <3>3. WiresTyped'
      BY <3>1 DEF Typed, WiresTyped, Open
    <3>4. EndsTyped'
      BY <3>1, <3>2 DEF Typed, EndsTyped
    <3> QED BY <3>1, <3>3, <3>4 DEF Typed, WiresTyped
  <2> QED BY <2>1, <2>2
<1>4. HubTyped'
  BY <1>1, <1>3 DEF Typed, HubTyped, hub
<1> QED BY <1>1, <1>2, <1>3, <1>4, ThreadsSame DEF Typed

LEMMA ConnectTyped ==
    ASSUME Typed, NEW c \in Conns, Connect(c)
    PROVE  Typed'
<1>1. /\ link[c] \in {"none", "closed"} /\ connects' = connects + 1
      /\ link' = [link EXCEPT ![c] = "up"] /\ up' = [up EXCEPT ![c] = <<Msg("hello")>>] /\ down' = down
      /\ client' = [client EXCEPT ![c] = "hello"] /\ view' = [view EXCEPT ![c] = NoView]
      /\ seen' = [seen EXCEPT ![c] = << >>] /\ ready' = ready \ {c}
      /\ UNCHANGED <<peers, reported, layout, server, pc, job, snap, changes, overlap, broken, events>>
  BY DEF Connect
<1>2. Msg("hello") \in Msgs
  BY MsgsTyped DEF MsgTypes
<1>3. <<Msg("hello")>> \in Seq(Msgs) /\ Len(<<Msg("hello")>>) = 1
  BY <1>2
<1>4. WiresTyped'
  BY <1>1, <1>3, HubAssumption DEF Typed, WiresTyped, Open
<1>5. NoView \in SUBSET Machines /\ << >> \in Seq(Nat)
  BY DEF NoView, Machines
<1>6. EndsTyped'
  BY <1>1, <1>5 DEF Typed, EndsTyped
<1>7. HubTyped'
  BY <1>1 DEF Typed, HubTyped, WiresTyped
<1>8. BookTyped'
  BY <1>1 DEF Typed, BookTyped
<1> QED BY <1>1, <1>4, <1>6, <1>7, <1>8, ThreadsSame DEF Typed

LEMMA ClientTyped ==
    ASSUME Typed, NEW c \in Conns, ClientChange(c) \/ \E d \in Conns : ClientRelay(c, d)
    PROVE  Typed'
<1>1. /\ Serving(c) /\ Room(up, c)
      /\ UNCHANGED <<link, down>> /\ UNCHANGED ends /\ UNCHANGED hub
      /\ UNCHANGED <<pc, job>> /\ snap' = snap /\ UNCHANGED <<overlap, broken>>
  BY DEF ClientChange, ClientRelay
<1>2. \E m \in Msgs : up' = Put(up, c, m)
  BY MsgsTyped DEF ClientChange, ClientRelay, Typed, BookTyped
<1>3. WiresTyped'
  <2>1. PICK m \in Msgs : up' = Put(up, c, m)
    BY <1>2
  <2> QED BY <1>1, <2>1, SendTyped DEF Typed, Serving, Open
<1>4. HubTyped'
  BY <1>1, HubKept DEF Typed, HubTyped
<1>5. BookTyped'
  <2>1. Audience(c) \in SUBSET Machines /\ c \in Machines
    BY DEF Audience, Machines, Typed, HubTyped
  <2>2. PICK r \in ChangeRecs : r = [from |-> c, for |-> Audience(c)]
    BY <2>1 DEF ChangeRecs
  <2>3. changes' = changes \/ changes' = Append(changes, r)
    BY <2>2 DEF ClientChange, ClientRelay, Change
  <2>4. changes' \in Seq(ChangeRecs)
    BY <2>3 DEF Typed, BookTyped
  <2>5. connects' = connects /\ events' = events + 1
    BY DEF ClientChange, ClientRelay, Change, Event
  <2> QED BY <1>1, <2>4, <2>5 DEF Typed, BookTyped
<1> QED BY <1>1, <1>3, <1>4, <1>5, EndsKept, ThreadsSame DEF Typed

LEMMA InitTyped == Init => Typed
<1> SUFFICES ASSUME Init PROVE Typed
  OBVIOUS
<1>1. << >> \in Seq(Msgs) /\ << >> \in Seq(Nat) /\ Len(<< >>) = 0
      /\ << >> \in Seq(ChangeRecs)
  OBVIOUS
<1>2. WiresTyped
  BY <1>1, HubAssumption DEF Init, WiresTyped
<1>3. EndsTyped
  BY <1>1 DEF Init, EndsTyped, NoView, Machines
<1>4. HubTyped
  BY DEF Init, HubTyped
<1>5. ThreadsTyped
  BY NoJobTyped, HubAssumption DEF Init, ThreadsTyped, Threads, Places
<1>6. BookTyped
  BY <1>1 DEF Init, BookTyped
<1> QED BY <1>2, <1>3, <1>4, <1>5, <1>6 DEF Typed

LEMMA TypedStep == Typed /\ [Next]_vars => Typed'
<1> SUFFICES ASSUME Typed, [Next]_vars PROVE Typed'
  OBVIOUS
<1>1. ASSUME NEW t \in Threads, Writing(t) PROVE Typed'
  BY <1>1, WritingTyped
<1>2. ASSUME NEW c \in Conns, Reader(c) \/ ApplyFails(c) PROVE Typed'
  BY <1>2, RecvTyped, RelayTyped, MarkTyped, DisconnectTyped, RebuildTyped DEF Reader
<1>3. ASSUME NEW c \in Conns, Receive(c) PROVE Typed'
  BY <1>3, ReceiveTyped, BreakTyped DEF Receive
<1>4. ASSUME NEW c \in Conns, Connect(c) \/ ClientChange(c) \/ Break(c) \/ Detect(c) PROVE Typed'
  BY <1>4, ConnectTyped, ClientTyped, BreakTyped
<1>5. ASSUME NEW c \in Conns, NEW d \in Conns, ClientRelay(c, d) PROVE Typed'
  BY <1>5, ClientTyped
<1>6. CASE LocalChange \/ Ping \/ CloseBegin \/ CloseEnd
  BY <1>6, ServerTyped
<1>7. CASE UNCHANGED vars
  <2>1. UNCHANGED wires /\ UNCHANGED ends /\ UNCHANGED hub /\ UNCHANGED <<pc, job>> /\ UNCHANGED book
        /\ snap' = snap /\ link' = link
    BY <1>7 DEF vars, wires
  <2>2. HubTyped'
    BY <2>1, HubKept DEF Typed, HubTyped
  <2> QED BY <2>1, <2>2, WiresSame, EndsKept, ThreadsSame, BookKept DEF Typed
<1> QED BY <1>1, <1>2, <1>3, <1>4, <1>5, <1>6, <1>7 DEF Next

(* Messages fit the buffers, only an idle thread is without a job, and a   *)
(* peer's connection is open or its read goroutine is about to notice.     *)
THEOREM HubTypeOK == Spec => []TypeOK
<1>1. Typed => TypeOK
  BY DEF Typed, WiresTyped, EndsTyped, HubTyped, ThreadsTyped, Places, IsJob, TypeOK
<1> QED BY <1>1, InitTyped, TypedStep, PTL DEF Spec

-----------------------------------------------------------------------------
(* Changes arrive once and in order.  Most actions only take messages      *)
(* away: of the changes in a queue a later part is left.                   *)
ClipSuffix(p, q) ==
    \E k \in Nat : \A i \in DOMAIN p : p[i].t = "clip" => i + k \in DOMAIN q /\ p[i] = q[i + k]

JobShrinks(t) ==
    Doing(t, "clip")' =>
        Doing(t, "clip") /\ job'[t].msg = job[t].msg /\ job'[t].to \subseteq job[t].to

LEMMA ChangesTyped ==
    ASSUME Typed, NEW n \in DOMAIN changes
    PROVE  /\ n \in Nat /\ n >= 1 /\ n <= Len(changes) /\ Origin(n) \in Machines
           /\ Origin(n) \in Threads /\ (Origin(n) \in Conns \/ Origin(n) = Local)
           /\ changes[n].for \in SUBSET Machines
<1>1. n \in Nat /\ n >= 1 /\ n <= Len(changes) /\ changes[n] \in ChangeRecs
  BY DEF Typed, BookTyped
<1> QED BY <1>1 DEF Origin, Machines, Threads, ChangeRecs

LEMMA SuffixHas ==
    ASSUME NEW p \in Seq(Msgs), NEW q \in Seq(Msgs), ClipSuffix(p, q)
    PROVE  \A i \in DOMAIN p : p[i].t = "clip" => \E k \in DOMAIN q : q[k] = p[i]
BY DEF ClipSuffix

LEMMA SuffixPairs ==
    ASSUME NEW p \in Seq(Msgs), NEW q \in Seq(Msgs), ClipSuffix(p, q),
           NEW i \in DOMAIN p, p[i].t = "clip", NEW j \in 1 .. i - 1, p[j].t = "clip"
    PROVE  \E k \in DOMAIN q : \E l \in 1 .. k - 1 : q[k] = p[i] /\ q[l] = p[j]
<1>1. PICK k \in Nat : \A x \in DOMAIN p : p[x].t = "clip" => x + k \in DOMAIN q /\ p[x] = q[x + k]
  BY DEF ClipSuffix
<1>2. j \in DOMAIN p /\ i \in Nat /\ j \in Nat
  OBVIOUS
<1>3. i + k \in DOMAIN q /\ q[i + k] = p[i] /\ q[j + k] = p[j]
  BY <1>1, <1>2
<1>4. j + k \in 1 .. (i + k) - 1
  BY <1>2
<1> QED BY <1>3, <1>4

LEMMA LaterKept ==
    ASSUME Typed, changes' = changes,
           \A c \in Conns : \A k \in DOMAIN up'[c] :
               up'[c][k].t = "clip" => \E i \in DOMAIN up[c] : up[c][i] = up'[c][k],
           \A t \in Threads : JobShrinks(t),
           NEW m \in Machines, NEW n, Later(n, m)
    PROVE  Later(n, m)'
<1>1. n \in DOMAIN changes /\ Origin(n) # m
  BY DEF Later
<1>2. Origin(n) \in Threads /\ (Origin(n)' = Origin(n))
  BY <1>1, ChangesTyped DEF Origin
<1>3. Origin(n) \in Conns =>
        \A k \in DOMAIN up'[Origin(n)] : up'[Origin(n)][k].t = "clip" => n < up'[Origin(n)][k].id
  BY DEF Later
<1>4. Doing(Origin(n), "clip")' /\ m \in job'[Origin(n)].to => n < job'[Origin(n)].msg.id
  BY <1>2 DEF Later, JobShrinks
<1> QED BY <1>1, <1>2, <1>3, <1>4 DEF Later, Doing

(* The order of each queue by itself, apart from what Later says. *)
LEMMA UpKept ==
    ASSUME Typed, Typed', UpInOrder, changes' = changes,
           \A c \in Conns : ClipSuffix(up'[c], up[c])
    PROVE  UpInOrder'
<1> SUFFICES ASSUME NEW c \in Conns, NEW i \in DOMAIN up'[c], up'[c][i].t = "clip"
             PROVE  /\ up'[c][i].id \in DOMAIN changes /\ Origin(up'[c][i].id) = c
                    /\ \A j \in 1 .. i - 1 : up'[c][j].t = "clip" => up'[c][j].id < up'[c][i].id
  BY DEF UpInOrder, Origin
<1>1. up[c] \in Seq(Msgs) /\ up'[c] \in Seq(Msgs) /\ ClipSuffix(up'[c], up[c])
  BY DEF Typed, WiresTyped
<1>2. \E k \in DOMAIN up[c] : up[c][k] = up'[c][i]
  BY <1>1, SuffixHas
<1>3. up'[c][i].id \in DOMAIN changes /\ Origin(up'[c][i].id) = c
  BY <1>2 DEF UpInOrder
<1>4. ASSUME NEW j \in 1 .. i - 1, up'[c][j].t = "clip"
      PROVE  up'[c][j].id < up'[c][i].id
  <2>1. \E k \in DOMAIN up[c] : \E l \in 1 .. k - 1 : up[c][k] = up'[c][i] /\ up[c][l] = up'[c][j]
    BY <1>1, <1>4, SuffixPairs
  <2> QED BY <1>4, <2>1 DEF UpInOrder
<1> QED BY <1>3, <1>4

LEMMA DownKept ==
    ASSUME Typed, Typed', changes' = changes,
           NEW c \in Conns, DownOrdered(c), ClipSuffix(down'[c], down[c]),
           \A n : Later(n, c) => Later(n, c)'
    PROVE  DownOrdered(c)'
<1> SUFFICES ASSUME NEW i \in DOMAIN down'[c], down'[c][i].t = "clip", NEW n, n = down'[c][i].id
             PROVE  /\ Later(n, c)'
                    /\ \A j \in 1 .. i - 1 : down'[c][j].t = "clip" /\ Origin(down'[c][j].id) = Origin(n)
                          => down'[c][j].id < n
  BY DEF DownOrdered, Later, Doing, Origin
<1>1. down[c] \in Seq(Msgs) /\ down'[c] \in Seq(Msgs)
  BY DEF Typed, WiresTyped
<1>2. PICK k \in DOMAIN down[c] : down[c][k] = down'[c][i]
  BY <1>1, SuffixHas
<1>3. Later(n, c)
  BY <1>2 DEF DownOrdered
<1>4. ASSUME NEW j \in 1 .. i - 1, down'[c][j].t = "clip", Origin(down'[c][j].id) = Origin(n)
      PROVE  down'[c][j].id < n
  <2>1. \E x \in DOMAIN down[c] : \E l \in 1 .. x - 1 : down[c][x] = down'[c][i] /\ down[c][l] = down'[c][j]
    BY <1>1, <1>4, SuffixPairs
  <2> QED BY <1>4, <2>1 DEF DownOrdered
<1> QED BY <1>3, <1>4

LEMMA SeenKept ==
    ASSUME Typed, Typed', changes' = changes,
           NEW m \in Machines, SeenOrdered(m), seen'[m] \in {seen[m], << >>},
           m \in Conns => ClipSuffix(down'[m], down[m]),
           \A n : Later(n, m) => Later(n, m)'
    PROVE  SeenOrdered(m)'
<1> SUFFICES ASSUME NEW i \in DOMAIN seen'[m], NEW n, n = seen'[m][i]
             PROVE  /\ Later(n, m)'
                    /\ \A j \in 1 .. i - 1 : Origin(seen'[m][j]) = Origin(n) => seen'[m][j] < n
                    /\ m \in Conns => \A k \in DOMAIN down'[m] :
                          down'[m][k].t = "clip" /\ Origin(down'[m][k].id) = Origin(n) => n < down'[m][k].id
  BY DEF SeenOrdered, Later, Doing, Origin
<1>1. seen'[m] = seen[m]
  OBVIOUS
<1>2. /\ Later(n, m)
      /\ \A j \in 1 .. i - 1 : Origin(seen[m][j]) = Origin(n) => seen[m][j] < n
      /\ m \in Conns => \A k \in DOMAIN down[m] :
            down[m][k].t = "clip" /\ Origin(down[m][k].id) = Origin(n) => n < down[m][k].id
  BY <1>1 DEF SeenOrdered
<1>3. ASSUME m \in Conns, NEW k \in DOMAIN down'[m], down'[m][k].t = "clip", Origin(down'[m][k].id) = Origin(n)
      PROVE  n < down'[m][k].id
  <2>1. down[m] \in Seq(Msgs) /\ down'[m] \in Seq(Msgs)
    BY <1>3 DEF Typed, WiresTyped
  <2>2. \E x \in DOMAIN down[m] : down[m][x] = down'[m][k]
    BY <1>3, <2>1, SuffixHas
  <2> QED BY <1>2, <1>3, <2>2
<1> QED BY <1>1, <1>2, <1>3

LEMMA JobsKept ==
    ASSUME Typed, Typed', JobsInOrder, changes' = changes,
           \A t \in Threads : JobShrinks(t),
           \A c \in Conns : ClipSuffix(up'[c], up[c])
    PROVE  JobsInOrder'
<1> SUFFICES ASSUME NEW t \in Threads, Doing(t, "clip")'
             PROVE  /\ job'[t].msg.id \in DOMAIN changes /\ Origin(job'[t].msg.id) = t
                    /\ t \notin job'[t].to
                    /\ t \in Conns => \A i \in DOMAIN up'[t] :
                          up'[t][i].t = "clip" => job'[t].msg.id < up'[t][i].id
  BY DEF JobsInOrder, Doing, Origin
<1>1. Doing(t, "clip") /\ job'[t].msg = job[t].msg /\ job'[t].to \subseteq job[t].to
  BY DEF JobShrinks
<1>2. ASSUME t \in Conns, NEW i \in DOMAIN up'[t], up'[t][i].t = "clip"
      PROVE  job'[t].msg.id < up'[t][i].id
  <2>1. up[t] \in Seq(Msgs) /\ up'[t] \in Seq(Msgs)
    BY <1>2 DEF Typed, WiresTyped
  <2>2. \E x \in DOMAIN up[t] : up[t][x] = up'[t][i]
    BY <1>2, <2>1, SuffixHas
  <2> QED BY <1>1, <1>2, <2>2 DEF JobsInOrder
<1> QED BY <1>1, <1>2 DEF JobsInOrder

LEMMA LaterAll ==
    ASSUME Typed, Typed', changes' = changes,
           \A c \in Conns : ClipSuffix(up'[c], up[c]),
           \A t \in Threads : JobShrinks(t)
    PROVE  \A m \in Machines : \A n : Later(n, m) => Later(n, m)'
<1>1. \A c \in Conns : up[c] \in Seq(Msgs) /\ up'[c] \in Seq(Msgs)
  BY DEF Typed, WiresTyped
<1>2. \A c \in Conns : \A k \in DOMAIN up'[c] :
          up'[c][k].t = "clip" => \E i \in DOMAIN up[c] : up[c][i] = up'[c][k]
  BY <1>1, SuffixHas
<1> QED BY <1>2, LaterKept

(* A step that only takes away. *)
LEMMA OrderKept ==
    ASSUME Typed, Typed', InOrder, changes' = changes,
           \A c \in Conns : ClipSuffix(up'[c], up[c]) /\ ClipSuffix(down'[c], down[c]),
           \A m \in Machines : seen'[m] \in {seen[m], << >>},
           \A t \in Threads : JobShrinks(t)
    PROVE  InOrder'
<1>1. UpInOrder' /\ JobsInOrder'
  BY UpKept, JobsKept DEF InOrder
<1>4. \A m \in Machines : \A n : Later(n, m) => Later(n, m)'
  BY LaterAll
<1>5. ASSUME NEW c \in Conns PROVE DownOrdered(c)'
  <2>1. \A n : Later(n, c) => Later(n, c)'
    BY <1>4 DEF Machines
  <2> QED BY <2>1, DownKept DEF InOrder, DownInOrder
<1>6. ASSUME NEW m \in Machines PROVE SeenOrdered(m)'
  BY <1>4, <1>6, SeenKept DEF InOrder, SeenInOrder
<1> QED BY <1>1, <1>5, <1>6 DEF InOrder, DownInOrder, SeenInOrder

(* What leaves such a part of a queue. *)
LEMMA SuffixFacts ==
    ASSUME NEW q \in Seq(Msgs)
    PROVE  /\ ClipSuffix(q, q) /\ ClipSuffix(<< >>, q)
           /\ \A m \in Msgs : m.t # "clip" => ClipSuffix(Append(q, m), q) /\ ClipSuffix(<<m>>, q)
           /\ q # << >> => ClipSuffix(Tail(q), q)
<1>1. /\ \A i \in DOMAIN q : q[i].t = "clip" => i + 0 \in DOMAIN q /\ q[i] = q[i + 0]
      /\ \A i \in DOMAIN << >> : << >>[i].t = "clip" => i + 0 \in DOMAIN q /\ << >>[i] = q[i + 0]
  OBVIOUS
<1>2. ASSUME NEW m \in Msgs, m.t # "clip"
      PROVE  /\ \A i \in DOMAIN Append(q, m) : Append(q, m)[i].t = "clip" => i + 0 \in DOMAIN q /\ Append(q, m)[i] = q[i + 0]
             /\ \A i \in DOMAIN <<m>> : <<m>>[i].t = "clip" => i + 0 \in DOMAIN q /\ <<m>>[i] = q[i + 0]
  BY <1>2
<1>3. ASSUME q # << >>
      PROVE  \A i \in DOMAIN Tail(q) : Tail(q)[i].t = "clip" => i + 1 \in DOMAIN q /\ Tail(q)[i] = q[i + 1]
  BY <1>3
<1>4. 0 \in Nat /\ 1 \in Nat
  OBVIOUS
<1>5. ClipSuffix(q, q) /\ ClipSuffix(<< >>, q)
  BY <1>1, <1>4 DEF ClipSuffix
<1>6. ASSUME NEW m \in Msgs, m.t # "clip" PROVE ClipSuffix(Append(q, m), q) /\ ClipSuffix(<<m>>, q)
  BY <1>2, <1>4, <1>6 DEF ClipSuffix
<1>7. ASSUME q # << >> PROVE ClipSuffix(Tail(q), q)
  BY <1>3, <1>4, <1>7 DEF ClipSuffix
<1> QED BY <1>5, <1>6, <1>7

LEMMA QueueSuffix ==
    ASSUME Typed, NEW c \in Conns, \A d \in Conns : d # c => up'[d] = up[d] /\ down'[d] = down[d],
           ClipSuffix(up'[c], up[c]), ClipSuffix(down'[c], down[c])
    PROVE  \A d \in Conns : ClipSuffix(up'[d], up[d]) /\ ClipSuffix(down'[d], down[d])
<1> SUFFICES ASSUME NEW d \in Conns, d # c PROVE ClipSuffix(up'[d], up[d]) /\ ClipSuffix(down'[d], down[d])
  OBVIOUS
<1>1. up[d] \in Seq(Msgs) /\ down[d] \in Seq(Msgs)
  BY DEF Typed, WiresTyped
<1>2. ClipSuffix(up[d], up[d]) /\ ClipSuffix(down[d], down[d])
  BY <1>1, SuffixFacts
<1> QED BY <1>2

LEMMA WiresSuffix ==
    ASSUME Typed, UNCHANGED <<up, down>>
    PROVE  \A d \in Conns : ClipSuffix(up'[d], up[d]) /\ ClipSuffix(down'[d], down[d])
<1> SUFFICES ASSUME NEW d \in Conns PROVE ClipSuffix(up'[d], up[d]) /\ ClipSuffix(down'[d], down[d])
  OBVIOUS
<1>1. up[d] \in Seq(Msgs) /\ down[d] \in Seq(Msgs)
  BY DEF Typed, WiresTyped
<1> QED BY <1>1, SuffixFacts

LEMMA TakeSuffix ==
    ASSUME Typed, NEW c \in Conns, NEW type, Next1(c, type), Take(c)
    PROVE  \A d \in Conns : ClipSuffix(up'[d], up[d]) /\ ClipSuffix(down'[d], down[d])
<1>1. up \in [Conns -> Seq(Msgs)] /\ down[c] \in Seq(Msgs) /\ up[c] # << >> /\ up[c] \in Seq(Msgs)
  BY DEF Typed, WiresTyped, Next1
<1>2. down' = down /\ up' = Pop(up, c)
  BY DEF Take
<1>3. Pop(up, c)[c] = Tail(up[c]) /\ \A d \in Conns : d # c => Pop(up, c)[d] = up[d]
  BY <1>1, PopFacts
<1>4. ClipSuffix(Tail(up[c]), up[c]) /\ ClipSuffix(down[c], down[c])
  BY <1>1, SuffixFacts
<1> QED BY <1>2, <1>3, <1>4, QueueSuffix

LEMMA CutSuffix ==
    ASSUME Typed, NEW S \in SUBSET Conns, NEW to \in {"dead", "closed"},
           NEW state \in {"gone", "refused"}, Cut(S, to, state)
    PROVE  /\ \A d \in Conns : ClipSuffix(up'[d], up[d]) /\ ClipSuffix(down'[d], down[d])
           /\ \A m \in Machines : seen'[m] \in {seen[m], << >>}
<1>1. \A d \in Conns : up[d] \in Seq(Msgs) /\ down[d] \in Seq(Msgs)
  BY DEF Typed, WiresTyped
<1>2. \A d \in Conns : /\ ClipSuffix(up[d], up[d]) /\ ClipSuffix(down[d], down[d])
                       /\ ClipSuffix(<< >>, up[d]) /\ ClipSuffix(<< >>, down[d])
  BY <1>1, SuffixFacts
<1>3. \A d \in Conns : up'[d] \in {up[d], << >>} /\ down'[d] \in {down[d], << >>}
  BY DEF Cut
<1>4. \A m \in Machines : seen'[m] \in {seen[m], << >>}
  BY DEF Cut
<1> QED BY <1>2, <1>3, <1>4

(* One thread moves, and begins no clipboard job. *)
LEMMA MoveShrinks ==
    ASSUME NEW t \in Threads, \A u \in Threads : u # t => pc'[u] = pc[u] /\ job'[u] = job[u],
           \/ pc'[t] # "write"
           \/ job'[t].msg.t # "clip"
           \/ pc[t] = "write" /\ job'[t].msg = job[t].msg /\ job'[t].to \subseteq job[t].to
    PROVE  \A u \in Threads : JobShrinks(u)
BY DEF JobShrinks, Doing

LEMMA SameShrinks ==
    ASSUME UNCHANGED <<pc, job>>
    PROVE  \A u \in Threads : JobShrinks(u)
BY DEF JobShrinks, Doing

LEMMA PlaceShrinks ==
    ASSUME Typed, NEW t \in Threads, NEW to, to # "write", pc' = [pc EXCEPT ![t] = to], job' = job
    PROVE  \A u \in Threads : JobShrinks(u)
<1>1. pc'[t] # "write" /\ \A u \in Threads : u # t => pc'[u] = pc[u] /\ job'[u] = job[u]
  BY DEF Typed, ThreadsTyped
<1> QED BY <1>1, MoveShrinks

LEMMA StartMoves ==
    ASSUME ThreadsTyped, NEW t \in Threads, NEW msg, NEW to, NEW all, NEW ok, NEW bad,
           StartJob(t, msg, to, all, ok, bad)
    PROVE  \A u \in Threads : u # t => pc'[u] = pc[u] /\ job'[u] = job[u]
<1>1. PICK j : j = [msg |-> msg, to |-> to, all |-> all, ok |-> ok, bad |-> bad]
  OBVIOUS
<1>2. job' = job \/ job' = [job EXCEPT ![t] = j]
  BY <1>1, Zenon DEF StartJob
<1>3. \E x : pc' = [pc EXCEPT ![t] = x]
  BY DEF StartJob
<1> QED BY <1>2, <1>3 DEF ThreadsTyped

LEMMA StartShrinks ==
    ASSUME Typed, NEW t \in Threads, NEW msg \in Msgs, NEW to \in SUBSET Conns, NEW all,
           NEW ok \in {"idle", "build"}, NEW bad \in {"idle", "end"}, ok = "build" => bad = "end",
           t \in {Local, Pinger} => ok = "idle" /\ bad = "idle",
           pc[t] # "write", StartJob(t, msg, to, all, ok, bad), msg.t # "clip"
    PROVE  \A u \in Threads : JobShrinks(u)
<1>1. /\ \A u \in Threads : u # t => pc'[u] = pc[u] /\ job'[u] = job[u]
      /\ to = {} => pc'[t] = ok
      /\ to # {} => job'[t].msg = msg
  <2>1. ThreadsTyped /\ t \in DOMAIN pc /\ t \in DOMAIN job
    BY DEF Typed, ThreadsTyped
  <2>2. PICK j : j = [msg |-> msg, to |-> to, all |-> all, ok |-> ok, bad |-> bad]
    OBVIOUS
  <2>3. to = {} => pc' = [pc EXCEPT ![t] = ok]
    BY DEF StartJob
  <2>4. to # {} => job' = [job EXCEPT ![t] = j]
    BY <2>2, Zenon DEF StartJob
  <2>5. to = {} => pc'[t] = ok
    BY <2>1, <2>3
  <2>6. to # {} => job'[t].msg = msg
    BY <2>1, <2>2, <2>4
  <2> QED BY <2>1, <2>5, <2>6, StartMoves
<1> QED BY <1>1, MoveShrinks

(* The read goroutine. *)
LEMMA RecvOrder ==
    ASSUME Typed, Typed', InOrder, NEW c \in Conns,
           RecvHello(c) \/ RecvReport(c) \/ RecvPong(c) \/ ApplyFails(c) \/ RecvFile(c)
    PROVE  InOrder'
<1>1. PICK type : Next1(c, type) /\ Take(c) /\ (RecvFile(c) => type = "file")
  BY DEF RecvHello, RecvReport, RecvPong, ApplyFails, RecvFile
<1>2. \A d \in Conns : ClipSuffix(up'[d], up[d]) /\ ClipSuffix(down'[d], down[d])
  BY <1>1, TakeSuffix
<1>3. changes' = changes /\ seen' = seen
  BY DEF RecvHello, RecvReport, RecvPong, ApplyFails, RecvFile, book, ends
<1>4. \A u \in Threads : JobShrinks(u)
  <2>0. c \in Threads /\ c \notin {Local, Pinger} /\ pc[c] = "idle"
    BY <1>1, HubAssumption DEF Threads, Next1
  <2>1. CASE RecvHello(c)
    BY <2>0, <2>1, PlaceShrinks DEF RecvHello
  <2>2. CASE RecvReport(c)
    <3>1. job' = job /\ (pc' = [pc EXCEPT ![c] = "build"] \/ pc' = pc)
      BY <2>2 DEF RecvReport, Enter
    <3> QED BY <2>0, <3>1, PlaceShrinks, SameShrinks
  <2>3. CASE RecvPong(c)
    BY <2>3, SameShrinks DEF RecvPong
  <2>4. CASE ApplyFails(c)
    BY <2>0, <2>4, PlaceShrinks DEF ApplyFails
  <2>5. CASE RecvFile(c)
    <3> DEFINE to == {Head(up[c]).to} \cap peers \cap ready
    <3>1. UNCHANGED <<pc, job>> \/ StartJob(c, Head(up[c]), to, TRUE, "idle", "end")
      BY <2>5 DEF RecvFile
    <3>2. to \in SUBSET Conns
      BY DEF Typed, HubTyped
    <3> HIDE DEF to
    <3>3. PICK m \in Msgs : m = Head(up[c]) /\ m.t # "clip"
      BY <1>1, <2>5, TakesHead DEF Next1
    <3>4. CASE StartJob(c, m, to, TRUE, "idle", "end")
      BY <2>0, <3>2, <3>3, <3>4, StartShrinks
    <3>5. CASE UNCHANGED <<pc, job>>
      BY <3>5, SameShrinks
    <3> QED BY <3>1, <3>3, <3>4, <3>5
  <2> QED BY <2>1, <2>2, <2>3, <2>4, <2>5
<1> QED BY <1>2, <1>3, <1>4, OrderKept

LEMMA RebuildOrder ==
    ASSUME Typed, Typed', InOrder, NEW c \in Conns, MarkReady(c) \/ ReadPeers(c) \/ Install(c)
    PROVE  InOrder'
<1>1. UNCHANGED <<up, down>> /\ changes' = changes /\ seen' = seen
  BY DEF MarkReady, ReadPeers, Install, wires, ends, book
<1>2. \A d \in Conns : ClipSuffix(up'[d], up[d]) /\ ClipSuffix(down'[d], down[d])
  BY <1>1, WiresSuffix
<1>3. c \in Threads /\ c \notin {Local, Pinger}
  BY HubAssumption DEF Threads
<1>4. \A u \in Threads : JobShrinks(u)
  <2>1. CASE MarkReady(c)
    <3>1. PICK m \in Msgs : m = Msg("ack") /\ m.t # "clip"
      BY MsgsTyped DEF MsgTypes
    <3>2. StartJob(c, m, {c}, TRUE, "build", "end") /\ pc[c] = "mark"
      BY <2>1, <3>1 DEF MarkReady
    <3> QED BY <1>3, <3>1, <3>2, StartShrinks
  <2>2. CASE ReadPeers(c)
    BY <1>3, <2>2, PlaceShrinks DEF ReadPeers
  <2>3. CASE Install(c)
    <3>1. snap[c] \in SUBSET Conns /\ peers \in SUBSET Conns
      BY DEF Typed, HubTyped
    <3>2. PICK m \in Msgs : m = LayoutMsg(snap[c]) /\ m.t # "clip"
      BY <3>1, MsgsTyped
    <3>3. StartJob(c, m, peers, FALSE, "idle", "idle") /\ pc[c] = "install"
      BY <2>3, <3>2 DEF Install
    <3> QED BY <1>3, <3>1, <3>2, <3>3, StartShrinks
  <2> QED BY <2>1, <2>2, <2>3
<1> QED BY <1>1, <1>2, <1>4, OrderKept

LEMMA CutOrder ==
    ASSUME Typed, Typed', InOrder,
           CloseEnd \/ \E c \in Conns : Disconnect(c) \/ Refuse(c) \/ Break(c) \/ Detect(c)
    PROVE  InOrder'
<1>1. changes' = changes
  BY DEF CloseEnd, Disconnect, Refuse, Break, Detect, book
<1>2. \A u \in Threads : JobShrinks(u)
  <2>1. CASE UNCHANGED <<pc, job>>
    BY <2>1, SameShrinks
  <2>2. CASE ~UNCHANGED <<pc, job>>
    <3>1. PICK c \in Conns : Disconnect(c)
      BY <2>2 DEF CloseEnd, Refuse, Break, Detect
    <3>2. pc' = [pc EXCEPT ![c] = "build"] /\ job' = job /\ c \in Threads
      BY <3>1 DEF Disconnect, Enter, Threads
    <3> QED BY <3>2, PlaceShrinks
  <2> QED BY <2>1, <2>2
<1>3. /\ \A d \in Conns : ClipSuffix(up'[d], up[d]) /\ ClipSuffix(down'[d], down[d])
      /\ \A m \in Machines : seen'[m] \in {seen[m], << >>}
  <2>1. CASE \E S \in SUBSET Conns, to \in {"dead", "closed"}, state \in {"gone", "refused"} : Cut(S, to, state)
    BY <2>1, CutSuffix
  <2>2. CASE ~\E S \in SUBSET Conns, to \in {"dead", "closed"}, state \in {"gone", "refused"} : Cut(S, to, state)
    <3>1. ~CloseEnd
      <4>1. {c \in Conns : Open(c)} \in SUBSET Conns
        OBVIOUS
      <4> QED BY <2>2, <4>1 DEF CloseEnd
    <3>2. PICK c \in Conns : Disconnect(c) \/ Refuse(c) \/ Break(c) \/ Detect(c)
      BY <3>1
    <3>3. {c} \in SUBSET Conns
      OBVIOUS
    <3>4. UNCHANGED <<up, down>> /\ seen' = [seen EXCEPT ![c] = << >>]
      BY <2>2, <3>2, <3>3 DEF Disconnect, Refuse, Break, Detect
    <3>5. \A m \in Machines : seen'[m] \in {seen[m], << >>}
      BY <3>4 DEF Typed, EndsTyped
    <3> QED BY <3>4, <3>5, WiresSuffix
  <2> QED BY <2>1, <2>2
<1> QED BY <1>1, <1>2, <1>3, OrderKept

LEMMA PingOrder ==
    ASSUME Typed, Typed', InOrder, Ping \/ CloseBegin
    PROVE  InOrder'
<1>1. UNCHANGED <<up, down>> /\ changes' = changes /\ seen' = seen
  BY DEF Ping, CloseBegin, wires, ends
<1>2. \A d \in Conns : ClipSuffix(up'[d], up[d]) /\ ClipSuffix(down'[d], down[d])
  BY <1>1, WiresSuffix
<1>3. \A u \in Threads : JobShrinks(u)
  <2>1. CASE Ping
    <3>1. PICK m \in Msgs : m = Msg("ping") /\ m.t # "clip"
      BY MsgsTyped DEF MsgTypes
    <3>2. StartJob(Pinger, m, peers, FALSE, "idle", "idle") /\ pc[Pinger] = "idle"
      BY <2>1, <3>1 DEF Ping
    <3>3. Pinger \in Threads /\ peers \in SUBSET Conns
      BY DEF Threads, Typed, HubTyped
    <3> QED BY <3>1, <3>2, <3>3, StartShrinks
  <2>2. CASE CloseBegin
    BY <2>2, SameShrinks DEF CloseBegin
  <2> QED BY <2>1, <2>2
<1> QED BY <1>1, <1>2, <1>3, OrderKept

LEMMA ClientOrder ==
    ASSUME Typed, Typed', InOrder, NEW c \in Conns,
           Connect(c) \/ Handshake(c) \/ Pong(c) \/ (Dispatch(c) /\ Head(down[c]).t # "clip")
             \/ \E d \in Conns : ClientRelay(c, d)
    PROVE  InOrder'
<1>0. up \in [Conns -> Seq(Msgs)] /\ down \in [Conns -> Seq(Msgs)] /\ up[c] \in Seq(Msgs) /\ down[c] \in Seq(Msgs)
  BY DEF Typed, WiresTyped
<1>1. changes' = changes /\ UNCHANGED <<pc, job>>
  BY DEF Connect, Handshake, Pong, Dispatch, ClientRelay, book
<1>2. \A m \in Machines : seen'[m] \in {seen[m], << >>}
  <2>1. CASE Connect(c)
    BY <2>1 DEF Connect, Typed, EndsTyped
  <2>2. CASE Dispatch(c) /\ Head(down[c]).t # "clip"
    BY <2>2 DEF Dispatch
  <2>3. CASE Handshake(c) \/ Pong(c) \/ \E d \in Conns : ClientRelay(c, d)
    BY <2>3 DEF Handshake, Pong, ClientRelay, ends
  <2> QED BY <2>1, <2>2, <2>3
<1>3. \A d \in Conns : d # c => up'[d] = up[d] /\ down'[d] = down[d]
  BY <1>0 DEF Connect, Handshake, Pong, Dispatch, ClientRelay, Put, Pop
<1>4. ClipSuffix(down'[c], down[c])
  <2>1. CASE down' = down
    BY <1>0, <2>1, SuffixFacts
  <2>2. CASE down' # down
    <3>1. down' = Pop(down, c) /\ down[c] # << >>
      BY <2>2 DEF Connect, Handshake, Pong, Dispatch, ClientRelay, Arrived
    <3>2. down'[c] = Tail(down[c])
      BY <1>0, <3>1, PopFacts
    <3> QED BY <1>0, <3>1, <3>2, SuffixFacts
  <2> QED BY <2>1, <2>2
<1>5. ClipSuffix(up'[c], up[c])
  <2>1. \A x \in {"hello", "report", "pong"} : Msg(x) \in Msgs /\ Msg(x).t # "clip"
    BY MsgsTyped DEF MsgTypes
  <2>2. \A d \in Conns : FileMsg(d) \in Msgs /\ FileMsg(d).t # "clip"
    BY MsgsTyped
  <2>3. up' = up \/ \E m \in Msgs : m.t # "clip" /\ (up' = Put(up, c, m) \/ up' = [up EXCEPT ![c] = <<m>>])
    BY <2>1, <2>2 DEF Connect, Handshake, Pong, Dispatch, ClientRelay
  <2>4. CASE up' = up
    BY <1>0, <2>4, SuffixFacts
  <2>5. CASE up' # up
    <3>1. PICK m \in Msgs : m.t # "clip" /\ (up' = Put(up, c, m) \/ up' = [up EXCEPT ![c] = <<m>>])
      BY <2>3, <2>5
    <3>2. up'[c] = Append(up[c], m) \/ up'[c] = <<m>>
      BY <1>0, <3>1 DEF Put
    <3> QED BY <1>0, <3>1, <3>2, SuffixFacts
  <2> QED BY <2>4, <2>5
<1>6. \A d \in Conns : ClipSuffix(up'[d], up[d]) /\ ClipSuffix(down'[d], down[d])
  BY <1>3, <1>4, <1>5, QueueSuffix
<1> QED BY <1>1, <1>2, <1>6, SameShrinks, OrderKept

(* A thread at work on its job. *)
LEMMA WritingShrinks ==
    ASSUME Typed, NEW t \in Threads, NEW c \in Conns,
           Write(t, c) \/ PassOver(t, c) \/ WriteFails(t, c)
    PROVE  \A u \in Threads : JobShrinks(u)
<1>0. ThreadsTyped /\ Writes(t, c) /\ overlap \in BOOLEAN /\ pc[t] = "write" /\ IsJob(job[t])
  BY DEF Typed, ThreadsTyped, BookTyped, Write, PassOver, WriteFails, Writes
<1>1. /\ \A u \in Threads : u # t => pc'[u] = pc[u] /\ job'[u] = job[u]
      /\ \/ pc'[t] # "write"
         \/ job'[t].msg = job[t].msg /\ job'[t].to \subseteq job[t].to
  <2>1. CASE Done(t, c)
    <3>1. job[t].ok # "write"
      BY <1>0 DEF IsJob
    <3> QED BY <1>0, <2>1, <3>1, DoneFacts
  <2>2. CASE ~Done(t, c)
    <3>1. t # Pinger /\ Enter(t, job[t].bad) /\ job' = [job EXCEPT ![t] = NoJob]
      BY <2>2 DEF Write, PassOver, WriteFails
    <3>2. job[t].bad # "write"
      BY <1>0 DEF IsJob
    <3> QED BY <1>0, <3>1, <3>2, FailFacts
  <2> QED BY <2>1, <2>2
<1> QED BY <1>0, <1>1, MoveShrinks

LEMMA WritingOrder ==
    ASSUME Typed, Typed', InOrder, NEW t \in Threads, NEW c \in Conns,
           PassOver(t, c) \/ WriteFails(t, c) \/ (Write(t, c) /\ job[t].msg.t # "clip")
    PROVE  InOrder'
<1>1. changes' = changes /\ up' = up /\ seen' = seen
  BY DEF Write, PassOver, WriteFails, wires, ends
<1>2. \A d \in Conns : ClipSuffix(up'[d], up[d]) /\ ClipSuffix(down'[d], down[d])
  <2>1. CASE UNCHANGED <<up, down>>
    BY <2>1, WiresSuffix
  <2>2. CASE ~UNCHANGED <<up, down>>
    <3>0. /\ down \in [Conns -> Seq(Msgs)] /\ IsJob(job[t])
          /\ \A d \in Conns : down[d] \in Seq(Msgs) /\ up[d] \in Seq(Msgs)
      BY DEF Typed, WiresTyped, ThreadsTyped
    <3>1. PICK m \in Msgs : down' = Put(down, c, m) /\ m.t # "clip"
      BY <1>1, <2>2, <3>0 DEF Write, PassOver, WriteFails, wires, IsJob
    <3>2. down'[c] = Append(down[c], m) /\ \A d \in Conns : d # c => down'[d] = down[d]
      BY <3>0, <3>1 DEF Put
    <3>3. ClipSuffix(down'[c], down[c])
      BY <3>0, <3>1, <3>2, SuffixFacts
    <3>4. ClipSuffix(up'[c], up[c])
      BY <1>1, <3>0, SuffixFacts
    <3> QED BY <1>1, <3>2, <3>3, <3>4, QueueSuffix
  <2> QED BY <2>1, <2>2
<1>3. \A u \in Threads : JobShrinks(u)
  BY WritingShrinks
<1> QED BY <1>1, <1>2, <1>3, OrderKept

(* A message added to what is on its way to c, which is a change or not. *)
LEMMA DownAppended ==
    ASSUME Typed, Typed', changes' = changes, NEW c \in Conns, NEW m \in Msgs, m.t = "clip",
           DownOrdered(c), down'[c] = Append(down[c], m),
           \A n : Later(n, c) => Later(n, c)', \A n : n = m.id => Later(n, c)',
           \A j \in DOMAIN down[c] :
               down[c][j].t = "clip" /\ Origin(down[c][j].id) = Origin(m.id) => down[c][j].id < m.id
    PROVE  DownOrdered(c)'
<1> SUFFICES ASSUME NEW i \in DOMAIN down'[c], down'[c][i].t = "clip", NEW n, n = down'[c][i].id
             PROVE  /\ Later(n, c)'
                    /\ \A j \in 1 .. i - 1 : down'[c][j].t = "clip" /\ Origin(down'[c][j].id) = Origin(n)
                          => down'[c][j].id < n
  BY DEF DownOrdered, Later, Doing, Origin
<1>1. down[c] \in Seq(Msgs)
  BY DEF Typed, WiresTyped
<1>2. /\ DOMAIN down'[c] = 1 .. Len(down[c]) + 1 /\ DOMAIN down[c] = 1 .. Len(down[c]) /\ Len(down[c]) \in Nat
      /\ \A j \in 1 .. Len(down[c]) : down'[c][j] = down[c][j]
      /\ down'[c][Len(down[c]) + 1] = m
  BY <1>1
<1>3. CASE i = Len(down[c]) + 1
  BY <1>2, <1>3
<1>4. CASE i # Len(down[c]) + 1
  <2>1. i \in DOMAIN down[c] /\ down[c][i].t = "clip" /\ n = down[c][i].id
    BY <1>2, <1>4
  <2>2. /\ Later(n, c)
        /\ \A j \in 1 .. i - 1 : down[c][j].t = "clip" /\ Origin(down[c][j].id) = Origin(n) => down[c][j].id < n
    BY <2>1 DEF DownOrdered
  <2> QED BY <1>2, <2>1, <2>2
<1> QED BY <1>3, <1>4

LEMMA WriteClipOrder ==
    ASSUME Typed, Typed', InOrder, NEW t \in Threads, NEW c \in Conns,
           Write(t, c), job[t].msg.t = "clip"
    PROVE  InOrder'
<1>0. /\ down \in [Conns -> Seq(Msgs)] /\ IsJob(job[t]) /\ pc[t] = "write" /\ c \in job[t].to /\ ThreadsTyped
      /\ \A d \in Conns : down[d] \in Seq(Msgs) /\ up[d] \in Seq(Msgs)
  BY DEF Typed, WiresTyped, ThreadsTyped, Write, Writes
<1>1. changes' = changes /\ up' = up /\ seen' = seen
  BY DEF Write, ends
<1>2. PICK m \in Msgs : down' = Put(down, c, m) /\ m = job[t].msg /\ m.t = "clip"
  BY <1>0 DEF Write, IsJob
<1>3. down'[c] = Append(down[c], m) /\ \A d \in Conns : d # c => down'[d] = down[d]
  BY <1>0, <1>2 DEF Put
<1>4. \A u \in Threads : JobShrinks(u)
  BY WritingShrinks
<1>5. pc'[t] = "write" => c \notin job'[t].to
  <2>1. Done(t, c) /\ Writes(t, c) /\ job[t].ok # "write"
    BY <1>0 DEF Write, IsJob
  <2> QED BY <1>0, <2>1, DoneFacts
<1>6. \A d \in Conns : ClipSuffix(up'[d], up[d]) /\ (d # c => ClipSuffix(down'[d], down[d]))
  BY <1>0, <1>1, <1>3, SuffixFacts
<1>7. /\ m.id \in DOMAIN changes /\ Origin(m.id) = t /\ t # c
      /\ t \in Conns => \A i \in DOMAIN up[t] : up[t][i].t = "clip" => m.id < up[t][i].id
  BY <1>0, <1>2 DEF InOrder, JobsInOrder, Doing
<1>8. \A x \in Machines : \A n : Later(n, x) => Later(n, x)'
  BY <1>1, <1>4, <1>6, LaterAll
<1>9. \A n : n = m.id => Later(n, c)'
  BY <1>1, <1>5, <1>7 DEF Later, Origin, Doing
<1>10. UpInOrder' /\ JobsInOrder'
  BY <1>1, <1>4, <1>6, UpKept, JobsKept DEF InOrder
<1>11. \A n : Later(n, c) /\ Origin(n) = t => n < m.id
  BY <1>0, <1>2 DEF Later, Doing
<1>12. \A n : Later(n, c) => Later(n, c)'
  BY <1>8 DEF Machines
<1>13. ASSUME NEW d \in Conns PROVE DownOrdered(d)'
  <2>1. CASE d = c
    <3>1. DownOrdered(c)
      BY DEF InOrder, DownInOrder
    <3>2. \A j \in DOMAIN down[c] :
              down[c][j].t = "clip" /\ Origin(down[c][j].id) = Origin(m.id) => down[c][j].id < m.id
      BY <1>7, <1>11, <3>1 DEF DownOrdered
    <3> QED BY <1>1, <1>2, <1>3, <1>9, <1>12, <2>1, <3>1, <3>2, DownAppended
  <2>2. CASE d # c
    BY <1>1, <1>6, <1>8, <2>2, DownKept DEF InOrder, DownInOrder, Machines
  <2> QED BY <2>1, <2>2
<1>14. ASSUME NEW x \in Machines PROVE SeenOrdered(x)'
  <2>1. CASE x = c
    <3> SUFFICES ASSUME NEW i \in DOMAIN seen'[c], NEW n, n = seen'[c][i]
                 PROVE  /\ Later(n, c)'
                        /\ \A j \in 1 .. i - 1 : Origin(seen'[c][j]) = Origin(n) => seen'[c][j] < n
                        /\ \A k \in DOMAIN down'[c] :
                              down'[c][k].t = "clip" /\ Origin(down'[c][k].id) = Origin(n) => n < down'[c][k].id
      BY <1>1, <2>1 DEF SeenOrdered, Later, Doing, Origin
    <3>1. /\ Later(n, c)
          /\ \A j \in 1 .. i - 1 : Origin(seen[c][j]) = Origin(n) => seen[c][j] < n
          /\ \A k \in DOMAIN down[c] :
                down[c][k].t = "clip" /\ Origin(down[c][k].id) = Origin(n) => n < down[c][k].id
      BY <1>1, <2>1 DEF InOrder, SeenInOrder, SeenOrdered
    <3>2. /\ DOMAIN down'[c] = 1 .. Len(down[c]) + 1 /\ DOMAIN down[c] = 1 .. Len(down[c]) /\ Len(down[c]) \in Nat
          /\ \A j \in 1 .. Len(down[c]) : down'[c][j] = down[c][j]
          /\ down'[c][Len(down[c]) + 1] = m
      BY <1>0, <1>3
    <3>3. ASSUME NEW k \in DOMAIN down'[c], down'[c][k].t = "clip", Origin(down'[c][k].id) = Origin(n)
          PROVE  n < down'[c][k].id
      BY <1>7, <1>11, <3>1, <3>2, <3>3
    <3> QED BY <1>1, <1>12, <3>1, <3>3
  <2>2. CASE x # c
    BY <1>1, <1>6, <1>8, <2>2, SeenKept DEF InOrder, SeenInOrder
  <2> QED BY <2>1, <2>2
<1> QED BY <1>10, <1>13, <1>14 DEF InOrder, DownInOrder, SeenInOrder

(* A change applied on machine m. *)
LEMMA SeenAppended ==
    ASSUME Typed, Typed', changes' = changes, NEW m \in Machines, NEW new \in Nat,
           SeenOrdered(m), seen'[m] = Append(seen[m], new),
           m \in Conns => ClipSuffix(down'[m], down[m]),
           \A n : Later(n, m) => Later(n, m)', Later(new, m)',
           \A j \in DOMAIN seen[m] : Origin(seen[m][j]) = Origin(new) => seen[m][j] < new,
           m \in Conns => \A k \in DOMAIN down'[m] :
               down'[m][k].t = "clip" /\ Origin(down'[m][k].id) = Origin(new) => new < down'[m][k].id
    PROVE  SeenOrdered(m)'
<1> SUFFICES ASSUME NEW i \in DOMAIN seen'[m], NEW n, n = seen'[m][i]
             PROVE  /\ Later(n, m)'
                    /\ \A j \in 1 .. i - 1 : Origin(seen'[m][j]) = Origin(n) => seen'[m][j] < n
                    /\ m \in Conns => \A k \in DOMAIN down'[m] :
                          down'[m][k].t = "clip" /\ Origin(down'[m][k].id) = Origin(n) => n < down'[m][k].id
  BY DEF SeenOrdered, Later, Doing, Origin
<1>1. seen[m] \in Seq(Nat)
  BY DEF Typed, EndsTyped
<1>2. /\ DOMAIN seen'[m] = 1 .. Len(seen[m]) + 1 /\ DOMAIN seen[m] = 1 .. Len(seen[m]) /\ Len(seen[m]) \in Nat
      /\ \A j \in 1 .. Len(seen[m]) : seen'[m][j] = seen[m][j]
      /\ seen'[m][Len(seen[m]) + 1] = new
  BY <1>1
<1>3. CASE i = Len(seen[m]) + 1
  BY <1>2, <1>3
<1>4. CASE i # Len(seen[m]) + 1
  <2>1. i \in DOMAIN seen[m] /\ n = seen[m][i]
    BY <1>2, <1>4
  <2>2. /\ Later(n, m)
        /\ \A j \in 1 .. i - 1 : Origin(seen[m][j]) = Origin(n) => seen[m][j] < n
        /\ m \in Conns => \A k \in DOMAIN down[m] :
              down[m][k].t = "clip" /\ Origin(down[m][k].id) = Origin(n) => n < down[m][k].id
    BY <2>1 DEF SeenOrdered
  <2>3. ASSUME m \in Conns, NEW k \in DOMAIN down'[m], down'[m][k].t = "clip", Origin(down'[m][k].id) = Origin(n)
        PROVE  n < down'[m][k].id
    <3>1. down[m] \in Seq(Msgs) /\ down'[m] \in Seq(Msgs)
      BY <2>3 DEF Typed, WiresTyped
    <3>2. \E x \in DOMAIN down[m] : down[m][x] = down'[m][k]
      BY <2>3, <3>1, SuffixHas
    <3> QED BY <2>2, <2>3, <3>2
  <2> QED BY <1>2, <2>1, <2>2, <2>3
<1> QED BY <1>3, <1>4

LEMMA RecvClipOrder ==
    ASSUME Typed, Typed', InOrder, NEW c \in Conns, RecvClip(c)
    PROVE  InOrder'
<1>0. /\ up \in [Conns -> Seq(Msgs)] /\ up[c] # << >> /\ pc[c] = "idle" /\ ThreadsTyped
      /\ c \in Threads /\ c \notin {Local, Pinger} /\ peers \ {c} \in SUBSET Conns
      /\ \A d \in Conns : down[d] \in Seq(Msgs) /\ up[d] \in Seq(Msgs)
  BY HubAssumption DEF Typed, WiresTyped, HubTyped, RecvClip, Next1, Threads
<1>1. changes' = changes /\ down' = down /\ up' = Pop(up, c) /\ Next1(c, "clip") /\ Take(c)
  BY DEF RecvClip, book, Take
<1>2. PICK m \in Msgs : m = Head(up[c]) /\ m = up[c][1] /\ m.t = "clip" /\ m.id \in Nat
  <2>1. Head(up[c]) \in Msgs /\ Head(up[c]) = up[c][1]
    BY <1>0, PopFacts
  <2> QED BY <1>1, <2>1 DEF Next1, Msgs
<1>3. /\ StartJob(c, m, peers \ {c}, TRUE, "idle", "end")
      /\ seen' = [seen EXCEPT ![Local] = Append(seen[Local], m.id)]
  BY <1>2 DEF RecvClip
<1>4. PICK to : to = peers \ {c}
  OBVIOUS
<1>5. /\ \A u \in Threads : u # c => pc'[u] = pc[u] /\ job'[u] = job[u]
      /\ to = {} => pc'[c] = "idle"
      /\ to # {} => pc'[c] = "write" /\ job'[c].msg = m /\ job'[c].to = to
  BY <1>0, <1>3, <1>4, StartJobFacts
<1>6. \A d \in Conns : ClipSuffix(up'[d], up[d]) /\ ClipSuffix(down'[d], down[d])
  BY <1>1, TakeSuffix
<1>7. 1 \in DOMAIN up[c] /\ m.id \in DOMAIN changes /\ Origin(m.id) = c
  BY <1>0, <1>2, PopFacts DEF InOrder, UpInOrder
<1>8. /\ up'[c] = Tail(up[c]) /\ DOMAIN up'[c] = 1 .. Len(up[c]) - 1 /\ DOMAIN up[c] = 1 .. Len(up[c])
      /\ Len(up[c]) \in Nat /\ \A i \in 1 .. Len(up[c]) - 1 : up'[c][i] = up[c][i + 1]
      /\ \A d \in Conns : d # c => up'[d] = up[d]
  BY <1>0, <1>1, PopFacts
<1>9. \A i \in DOMAIN up'[c] : up'[c][i].t = "clip" => m.id < up'[c][i].id
  <2> SUFFICES ASSUME NEW i \in DOMAIN up'[c], up'[c][i].t = "clip" PROVE m.id < up'[c][i].id
    OBVIOUS
  <2>1. i + 1 \in DOMAIN up[c] /\ up[c][i + 1] = up'[c][i] /\ 1 \in 1 .. (i + 1) - 1
    BY <1>8
  <2> QED BY <1>2, <2>1 DEF InOrder, UpInOrder
<1>10. ASSUME NEW n, NEW x \in Machines, Later(n, x)
       PROVE  Later(n, x)'
  <2>1. PICK o \in Threads : o = Origin(n) /\ Origin(n)' = o /\ o # x /\ n \in DOMAIN changes
    BY <1>1, <1>10, ChangesTyped DEF Later, Origin
  <2>2. ASSUME o \in Conns, NEW k \in DOMAIN up'[o], up'[o][k].t = "clip"
        PROVE  n < up'[o][k].id
    <3>1. \E i \in DOMAIN up[o] : up[o][i] = up'[o][k]
      <4>1. up[o] \in Seq(Msgs) /\ up'[o] \in Seq(Msgs) /\ ClipSuffix(up'[o], up[o])
        BY <1>6, <2>2 DEF Typed, WiresTyped
      <4> QED BY <2>2, <4>1, SuffixHas
    <3> QED BY <1>10, <2>1, <2>2, <3>1 DEF Later
  <2>3. ASSUME Doing(o, "clip")', x \in job'[o].to
        PROVE  n < job'[o].msg.id
    <3>1. CASE o = c
      <4>1. n < m.id
        BY <1>2, <1>7, <1>10, <2>1, <3>1 DEF Later
      <4> QED BY <1>5, <2>3, <3>1, <4>1 DEF Doing
    <3>2. CASE o # c
      <4>1. Doing(o, "clip") /\ x \in job[o].to /\ job'[o] = job[o]
        BY <1>5, <2>1, <2>3, <3>2 DEF Doing
      <4> QED BY <1>10, <2>1, <4>1 DEF Later
    <3> QED BY <3>1, <3>2
  <2> QED BY <1>1, <2>1, <2>2, <2>3 DEF Later, Doing
<1>11. UpInOrder'
  BY <1>1, <1>6, UpKept DEF InOrder
<1>12. JobsInOrder'
  <2> SUFFICES ASSUME NEW t \in Threads, Doing(t, "clip")'
               PROVE  /\ job'[t].msg.id \in DOMAIN changes /\ Origin(job'[t].msg.id) = t
                      /\ t \notin job'[t].to
                      /\ t \in Conns => \A i \in DOMAIN up'[t] :
                            up'[t][i].t = "clip" => job'[t].msg.id < up'[t][i].id
    BY <1>1 DEF JobsInOrder, Doing, Origin
  <2>1. CASE t = c
    BY <1>4, <1>5, <1>7, <1>9, <2>1 DEF Doing
  <2>2. CASE t # c
    BY <1>5, <1>8, <2>2 DEF InOrder, JobsInOrder, Doing
  <2> QED BY <2>1, <2>2
<1>13. ASSUME NEW d \in Conns PROVE DownOrdered(d)'
  BY <1>1, <1>6, <1>10, DownKept DEF InOrder, DownInOrder, Machines
<1>14. ASSUME NEW x \in Machines PROVE SeenOrdered(x)'
  <2>1. CASE x = Local
    <3>1. SeenOrdered(Local) /\ Local \notin Conns /\ Local \in Machines /\ seen'[Local] = Append(seen[Local], m.id)
      BY <1>3, HubAssumption DEF InOrder, SeenInOrder, Machines, Typed, EndsTyped
    <3>2. Later(m.id, Local)'
      <4>1. Doing(c, "clip")' => Local \notin job'[c].to
        BY <1>0, <1>4, <1>5, <3>1 DEF Doing
      <4>2. Origin(m.id)' = c /\ m.id \in DOMAIN changes' /\ c # Local
        BY <1>0, <1>1, <1>7 DEF Origin
      <4>3. PICK n : n = m.id
        OBVIOUS
      <4>4. Later(n, Local)'
        BY <1>9, <4>1, <4>2, <4>3 DEF Later, Doing
      <4> QED BY <4>3, <4>4
    <3>3. \A j \in DOMAIN seen[Local] : Origin(seen[Local][j]) = Origin(m.id) => seen[Local][j] < m.id
      BY <1>2, <1>7, <3>1 DEF SeenOrdered, Later
    <3>4. \A n : Later(n, Local) => Later(n, Local)'
      BY <1>10, <3>1
    <3> QED BY <1>1, <1>2, <2>1, <3>1, <3>2, <3>3, <3>4, SeenAppended
  <2>2. CASE x # Local
    <3>1. seen'[x] = seen[x] /\ (x \in Conns => ClipSuffix(down'[x], down[x]))
      BY <1>3, <1>6, <2>2
    <3> QED BY <1>1, <1>10, <3>1, SeenKept DEF InOrder, SeenInOrder
  <2> QED BY <2>1, <2>2
<1> QED BY <1>11, <1>12, <1>13, <1>14 DEF InOrder, DownInOrder, SeenInOrder

LEMMA DispatchClipOrder ==
    ASSUME Typed, Typed', InOrder, NEW c \in Conns, Dispatch(c), Head(down[c]).t = "clip"
    PROVE  InOrder'
<1>0. /\ down \in [Conns -> Seq(Msgs)] /\ down[c] # << >> /\ c \in Machines
      /\ \A d \in Conns : down[d] \in Seq(Msgs) /\ up[d] \in Seq(Msgs)
  BY DEF Typed, WiresTyped, Dispatch, Arrived, Machines
<1>1. changes' = changes /\ up' = up /\ down' = Pop(down, c) /\ UNCHANGED <<pc, job>>
  BY DEF Dispatch, book
<1>2. PICK m \in Msgs : m = Head(down[c]) /\ m = down[c][1] /\ m.t = "clip" /\ m.id \in Nat
  <2>1. Head(down[c]) \in Msgs /\ Head(down[c]) = down[c][1]
    BY <1>0, PopFacts
  <2> QED BY <2>1 DEF Msgs
<1>3. seen' = [seen EXCEPT ![c] = Append(seen[c], m.id)]
  BY <1>2 DEF Dispatch
<1>4. /\ down'[c] = Tail(down[c]) /\ DOMAIN down'[c] = 1 .. Len(down[c]) - 1 /\ DOMAIN down[c] = 1 .. Len(down[c])
      /\ Len(down[c]) \in Nat \ {0} /\ \A i \in 1 .. Len(down[c]) - 1 : down'[c][i] = down[c][i + 1]
      /\ \A d \in Conns : d # c => down'[d] = down[d]
  BY <1>0, <1>1, PopFacts
<1>5. \A d \in Conns : ClipSuffix(up'[d], up[d]) /\ ClipSuffix(down'[d], down[d])
  <2>1. ClipSuffix(up'[c], up[c]) /\ ClipSuffix(down'[c], down[c])
    BY <1>0, <1>1, <1>4, SuffixFacts
  <2> QED BY <1>1, <1>4, <2>1, QueueSuffix
<1>6. \A u \in Threads : JobShrinks(u)
  BY <1>1, SameShrinks
<1>7. \A x \in Machines : \A n : Later(n, x) => Later(n, x)'
  BY <1>1, <1>5, <1>6, LaterAll
<1>8. UpInOrder' /\ JobsInOrder'
  BY <1>1, <1>5, <1>6, UpKept, JobsKept DEF InOrder
<1>9. ASSUME NEW d \in Conns PROVE DownOrdered(d)'
  BY <1>1, <1>5, <1>7, DownKept DEF InOrder, DownInOrder, Machines
<1>10. 1 \in DOMAIN down[c] /\ Later(m.id, c)
  BY <1>2, <1>4 DEF InOrder, DownInOrder, DownOrdered
<1>11. ASSUME NEW x \in Machines PROVE SeenOrdered(x)'
  <2>1. CASE x = c
    <3>1. SeenOrdered(c) /\ seen'[c] = Append(seen[c], m.id)
      BY <1>0, <1>3 DEF InOrder, SeenInOrder, Typed, EndsTyped
    <3>2. PICK n \in Nat : n = m.id
      BY <1>2
    <3>3. Later(n, c)'
      BY <1>0, <1>7, <1>10, <3>2
    <3>4. Later(m.id, c)'
      BY <3>2, <3>3
    <3>5. \A j \in DOMAIN seen[c] : Origin(seen[c][j]) = Origin(m.id) => seen[c][j] < m.id
      BY <1>2, <1>10, <3>1 DEF SeenOrdered
    <3>6. ASSUME NEW k \in DOMAIN down'[c], down'[c][k].t = "clip", Origin(down'[c][k].id) = Origin(m.id)
          PROVE  m.id < down'[c][k].id
      <4>1. k + 1 \in DOMAIN down[c] /\ down[c][k + 1] = down'[c][k] /\ 1 \in 1 .. (k + 1) - 1
        BY <1>4
      <4> QED BY <1>2, <3>6, <4>1 DEF InOrder, DownInOrder, DownOrdered
    <3>7. \A y : Later(y, c) => Later(y, c)'
      BY <1>0, <1>7
    <3> QED BY <1>0, <1>1, <1>2, <1>5, <2>1, <3>1, <3>4, <3>5, <3>6, <3>7, SeenAppended
  <2>2. CASE x # c
    <3>1. seen'[x] = seen[x] /\ (x \in Conns => ClipSuffix(down'[x], down[x]))
      BY <1>3, <1>5, <2>2
    <3> QED BY <1>1, <1>7, <3>1, SeenKept DEF InOrder, SeenInOrder
  <2> QED BY <2>1, <2>2
<1> QED BY <1>8, <1>9, <1>11 DEF InOrder, DownInOrder, SeenInOrder

(* A new change has the largest number so far.                             *)
LEMMA GrownOrigin ==
    ASSUME Typed, NEW r \in ChangeRecs, changes' = Append(changes, r)
    PROVE  /\ Len(changes) \in Nat /\ DOMAIN changes = 1 .. Len(changes)
           /\ DOMAIN changes' = 1 .. Len(changes) + 1
           /\ \A n \in DOMAIN changes : changes'[n] = changes[n]
           /\ changes'[Len(changes) + 1] = r
BY DEF Typed, BookTyped

LEMMA LaterGrows ==
    ASSUME Typed, NEW r \in ChangeRecs, changes' = Append(changes, r),
           \A c \in Conns : \A k \in DOMAIN up'[c] : up'[c][k].t = "clip" =>
               (k \in DOMAIN up[c] /\ up'[c][k] = up[c][k]) \/ up'[c][k].id = Len(changes) + 1,
           \A t \in Threads : Doing(t, "clip")' =>
               (Doing(t, "clip") /\ job'[t] = job[t]) \/ job'[t].msg.id = Len(changes) + 1,
           NEW m, NEW n, Later(n, m)
    PROVE  Later(n, m)' /\ Origin(n)' = Origin(n)
<1>1. /\ n \in DOMAIN changes /\ n \in DOMAIN changes' /\ n < Len(changes) + 1 /\ changes'[n] = changes[n]
  BY GrownOrigin DEF Later
<1>2. PICK o \in Threads : o = Origin(n) /\ Origin(n)' = o /\ o # m
  BY <1>1, ChangesTyped DEF Later, Origin
<1>3. ASSUME o \in Conns, NEW k \in DOMAIN up'[o], up'[o][k].t = "clip"
      PROVE  n < up'[o][k].id
  BY <1>1, <1>2, <1>3 DEF Later
<1>4. ASSUME Doing(o, "clip")', m \in job'[o].to
      PROVE  n < job'[o].msg.id
  <2>1. CASE Doing(o, "clip") /\ job'[o] = job[o]
    BY <1>2, <1>4, <2>1 DEF Later
  <2>2. CASE job'[o].msg.id = Len(changes) + 1
    BY <1>1, <2>2
  <2> QED BY <1>4, <2>1, <2>2
<1> QED BY <1>1, <1>2, <1>3, <1>4 DEF Later, Doing

LEMMA GrowOrder ==
    ASSUME Typed, InOrder, NEW r \in ChangeRecs, changes' = Append(changes, r),
           UNCHANGED <<down, seen>>,
           \A c \in Conns : \A k \in DOMAIN up'[c] : up'[c][k].t = "clip" =>
               (k \in DOMAIN up[c] /\ up'[c][k] = up[c][k]) \/ up'[c][k].id = Len(changes) + 1,
           \A t \in Threads : Doing(t, "clip")' =>
               (Doing(t, "clip") /\ job'[t] = job[t]) \/ job'[t].msg.id = Len(changes) + 1
    PROVE  DownInOrder' /\ SeenInOrder'
<1>1. \A n, m : Later(n, m) => Later(n, m)' /\ Origin(n)' = Origin(n)
  BY LaterGrows
<1>2. ASSUME NEW c \in Conns PROVE DownOrdered(c)'
  <2> SUFFICES ASSUME NEW i \in DOMAIN down'[c], down'[c][i].t = "clip", NEW n, n = down'[c][i].id
               PROVE  /\ Later(n, c)'
                      /\ \A j \in 1 .. i - 1 :
                            down'[c][j].t = "clip" /\ changes'[down'[c][j].id].from = changes'[n].from
                               => down'[c][j].id < n
    BY DEF DownOrdered, Later, Doing, Origin
  <2>1. /\ Later(n, c)
        /\ \A j \in 1 .. i - 1 : down[c][j].t = "clip" /\ Origin(down[c][j].id) = Origin(n) => down[c][j].id < n
    BY DEF InOrder, DownInOrder, DownOrdered
  <2>2. ASSUME NEW j \in 1 .. i - 1, NEW x, x = down[c][j].id, down[c][j].t = "clip",
               changes'[x].from = changes'[n].from
        PROVE  x < n
    <3>1. j \in DOMAIN down[c]
      BY DEF Typed, WiresTyped
    <3>2. Later(x, c)
      BY <2>2, <3>1 DEF InOrder, DownInOrder, DownOrdered
    <3>3. Origin(x) = Origin(n)
      BY <1>1, <2>1, <2>2, <3>2 DEF Origin
    <3> QED BY <2>1, <2>2, <3>3
  <2> QED BY <1>1, <2>1, <2>2
<1>3. ASSUME NEW m \in Machines PROVE SeenOrdered(m)'
  <2> SUFFICES ASSUME NEW i \in DOMAIN seen'[m], NEW n, n = seen'[m][i]
               PROVE  /\ Later(n, m)'
                      /\ \A j \in 1 .. i - 1 : changes'[seen'[m][j]].from = changes'[n].from => seen'[m][j] < n
                      /\ m \in Conns => \A k \in DOMAIN down'[m] :
                            down'[m][k].t = "clip" /\ changes'[down'[m][k].id].from = changes'[n].from
                               => n < down'[m][k].id
    BY DEF SeenOrdered, Later, Doing, Origin
  <2>1. /\ Later(n, m)
        /\ \A j \in 1 .. i - 1 : Origin(seen[m][j]) = Origin(n) => seen[m][j] < n
        /\ m \in Conns => \A k \in DOMAIN down[m] :
              down[m][k].t = "clip" /\ Origin(down[m][k].id) = Origin(n) => n < down[m][k].id
    BY DEF InOrder, SeenInOrder, SeenOrdered
  <2>2. ASSUME NEW j \in 1 .. i - 1, NEW x, x = seen[m][j], changes'[x].from = changes'[n].from
        PROVE  x < n
    <3>1. j \in DOMAIN seen[m]
      BY DEF Typed, EndsTyped
    <3>2. Later(x, m)
      BY <2>2, <3>1 DEF InOrder, SeenInOrder, SeenOrdered
    <3>3. Origin(x) = Origin(n)
      BY <1>1, <2>1, <2>2, <3>2 DEF Origin
    <3> QED BY <2>1, <2>2, <3>3
  <2>3. ASSUME m \in Conns, NEW k \in DOMAIN down[m], NEW x, x = down[m][k].id, down[m][k].t = "clip",
               changes'[x].from = changes'[n].from
        PROVE  n < x
    <3>1. Later(x, m)
      BY <2>3 DEF InOrder, DownInOrder, DownOrdered
    <3>2. Origin(x) = Origin(n)
      BY <1>1, <2>1, <2>3, <3>1 DEF Origin
    <3> QED BY <2>1, <2>3, <3>2
  <2> QED BY <1>1, <2>1, <2>2, <2>3
<1> QED BY <1>2, <1>3 DEF DownInOrder, SeenInOrder

LEMMA ChangeFacts ==
    ASSUME Typed, NEW m \in Machines, Change(m)
    PROVE  \E r \in ChangeRecs : r.from = m /\ r.for = Audience(m) /\ changes' = Append(changes, r)
<1>1. Audience(m) \in SUBSET Machines
  BY DEF Audience, Machines, Typed, HubTyped
<1>2. PICK r \in ChangeRecs : r = [from |-> m, for |-> Audience(m)]
  BY <1>1 DEF ChangeRecs
<1> QED BY <1>2 DEF Change

LEMMA ClientChangeOrder ==
    ASSUME Typed, Typed', InOrder, NEW c \in Conns, ClientChange(c)
    PROVE  InOrder'
<1>0. /\ up \in [Conns -> Seq(Msgs)] /\ c \in Machines /\ Len(changes) + 1 \in Nat
  BY DEF Typed, WiresTyped, BookTyped, Machines
<1>1. PICK r \in ChangeRecs : r.from = c /\ changes' = Append(changes, r)
  BY <1>0, ChangeFacts DEF ClientChange
<1>2. PICK m \in Msgs : m = ClipMsg(Len(changes) + 1) /\ m.id = Len(changes) + 1 /\ m.t = "clip"
  BY <1>0, MsgsTyped
<1>3. up' = Put(up, c, m) /\ UNCHANGED <<down, seen>> /\ UNCHANGED <<pc, job>>
  BY <1>2 DEF ClientChange, ends
<1>4. /\ Put(up, c, m)[c] = Append(up[c], m) /\ DOMAIN up[c] = 1 .. Len(up[c]) /\ Len(up[c]) \in Nat
      /\ DOMAIN (Put(up, c, m)[c]) = 1 .. Len(up[c]) + 1
      /\ \A i \in DOMAIN up[c] : Put(up, c, m)[c][i] = up[c][i]
      /\ Put(up, c, m)[c][Len(up[c]) + 1] = m
      /\ \A d \in Conns : d # c => Put(up, c, m)[d] = up[d]
  BY <1>0, PutFacts
<1>5. \A d \in Conns : \A k \in DOMAIN up'[d] : up'[d][k].t = "clip" =>
          (k \in DOMAIN up[d] /\ up'[d][k] = up[d][k]) \/ (d = c /\ k = Len(up[c]) + 1 /\ up'[d][k] = m)
  BY <1>3, <1>4
<1>6. \A t \in Threads : Doing(t, "clip")' => Doing(t, "clip") /\ job'[t] = job[t]
  BY <1>3 DEF Doing
<1>7. DownInOrder' /\ SeenInOrder'
  BY <1>1, <1>2, <1>3, <1>5, <1>6, GrowOrder
<1>8. /\ Len(changes) \in Nat /\ DOMAIN changes = 1 .. Len(changes)
      /\ DOMAIN changes' = 1 .. Len(changes) + 1
      /\ \A n \in DOMAIN changes : changes'[n] = changes[n]
      /\ changes'[Len(changes) + 1] = r
  BY <1>1, GrownOrigin
<1>9. ASSUME NEW d \in Conns, NEW i \in DOMAIN up'[d], up'[d][i].t = "clip"
      PROVE  /\ up'[d][i].id \in DOMAIN changes' /\ changes'[up'[d][i].id].from = d
             /\ \A j \in 1 .. i - 1 : up'[d][j].t = "clip" => up'[d][j].id < up'[d][i].id
  <2>1. CASE i \in DOMAIN up[d] /\ up'[d][i] = up[d][i]
    <3>1. up[d][i].id \in DOMAIN changes /\ changes[up[d][i].id].from = d
      BY <1>9, <2>1 DEF InOrder, UpInOrder, Origin
    <3>2. ASSUME NEW j \in 1 .. i - 1, up'[d][j].t = "clip" PROVE up'[d][j].id < up'[d][i].id
      <4>1. j \in DOMAIN up[d] /\ up'[d][j] = up[d][j]
        BY <1>0, <1>3, <1>4, <2>1
      <4> QED BY <1>9, <2>1, <3>2, <4>1 DEF InOrder, UpInOrder
    <3> QED BY <1>8, <2>1, <3>1, <3>2
  <2>2. CASE d = c /\ i = Len(up[c]) + 1 /\ up'[d][i] = m
    <3>1. ASSUME NEW j \in 1 .. i - 1, up'[d][j].t = "clip" PROVE up'[d][j].id < up'[d][i].id
      <4>1. j \in DOMAIN up[c] /\ up'[c][j] = up[c][j]
        BY <1>3, <1>4, <2>2
      <4>2. up[c][j].id \in DOMAIN changes
        BY <2>2, <3>1, <4>1 DEF InOrder, UpInOrder
      <4> QED BY <1>2, <1>8, <2>2, <4>1, <4>2
    <3> QED BY <1>1, <1>2, <1>8, <2>2, <3>1
  <2> QED BY <1>5, <1>9, <2>1, <2>2
<1>10. UpInOrder'
  BY <1>9 DEF UpInOrder, Origin
<1>11. ASSUME NEW t \in Threads, Doing(t, "clip")'
       PROVE  /\ job'[t].msg.id \in DOMAIN changes' /\ changes'[job'[t].msg.id].from = t
              /\ t \notin job'[t].to
              /\ t \in Conns => \A i \in DOMAIN up'[t] :
                    up'[t][i].t = "clip" => job'[t].msg.id < up'[t][i].id
  <2>1. /\ job[t].msg.id \in DOMAIN changes /\ changes[job[t].msg.id].from = t /\ t \notin job[t].to
        /\ t \in Conns => \A i \in DOMAIN up[t] : up[t][i].t = "clip" => job[t].msg.id < up[t][i].id
    BY <1>6, <1>11 DEF InOrder, JobsInOrder, Origin
  <2>2. ASSUME t \in Conns, NEW i \in DOMAIN up'[t], up'[t][i].t = "clip" PROVE job'[t].msg.id < up'[t][i].id
    BY <1>2, <1>3, <1>5, <1>8, <2>1, <2>2
  <2> QED BY <1>3, <1>8, <2>1, <2>2
<1>12. JobsInOrder'
  BY <1>11 DEF JobsInOrder, Doing, Origin
<1> QED BY <1>7, <1>10, <1>12 DEF InOrder

LEMMA LocalChangeOrder ==
    ASSUME Typed, Typed', InOrder, LocalChange
    PROVE  InOrder'
<1>0. /\ Local \in Machines /\ Len(changes) + 1 \in Nat /\ Local \in Threads /\ pc[Local] = "idle"
      /\ peers \in SUBSET Conns /\ peers # {} /\ ThreadsTyped /\ Local \notin Conns
  BY HubAssumption DEF Typed, HubTyped, BookTyped, Machines, Threads, LocalChange
<1>1. PICK r \in ChangeRecs : r.from = Local /\ changes' = Append(changes, r)
  BY <1>0, ChangeFacts DEF LocalChange
<1>2. PICK m \in Msgs : m = ClipMsg(Len(changes) + 1) /\ m.id = Len(changes) + 1 /\ m.t = "clip"
  BY <1>0, MsgsTyped
<1>3. UNCHANGED <<up, down, seen>> /\ StartJob(Local, m, peers, FALSE, "idle", "idle")
  BY <1>2 DEF LocalChange, wires, ends
<1>4. PICK to \in SUBSET Conns : to = peers
  BY <1>0
<1>5. /\ \A u \in Threads : u # Local => pc'[u] = pc[u] /\ job'[u] = job[u]
      /\ pc'[Local] = "write" /\ job'[Local].msg = m /\ job'[Local].to = to
  BY <1>0, <1>3, <1>4, StartJobFacts
<1>6. \A t \in Threads : Doing(t, "clip")' =>
          (Doing(t, "clip") /\ job'[t] = job[t]) \/ (t = Local /\ job'[t].msg = m /\ job'[t].to = to)
  BY <1>5 DEF Doing
<1>7. DownInOrder' /\ SeenInOrder'
  BY <1>1, <1>2, <1>3, <1>6, GrowOrder
<1>8. /\ Len(changes) \in Nat /\ DOMAIN changes = 1 .. Len(changes)
      /\ DOMAIN changes' = 1 .. Len(changes) + 1
      /\ \A n \in DOMAIN changes : changes'[n] = changes[n]
      /\ changes'[Len(changes) + 1] = r
  BY <1>1, GrownOrigin
<1>9. UpInOrder'
  <2>1. ASSUME NEW d \in Conns, NEW i \in DOMAIN up[d], up[d][i].t = "clip"
        PROVE  /\ up[d][i].id \in DOMAIN changes' /\ changes'[up[d][i].id].from = d
               /\ \A j \in 1 .. i - 1 : up[d][j].t = "clip" => up[d][j].id < up[d][i].id
    <3>1. /\ up[d][i].id \in DOMAIN changes /\ changes[up[d][i].id].from = d
          /\ \A j \in 1 .. i - 1 : up[d][j].t = "clip" => up[d][j].id < up[d][i].id
      BY <2>1 DEF InOrder, UpInOrder, Origin
    <3> QED BY <1>8, <3>1
  <2> QED BY <1>3, <2>1 DEF UpInOrder, Origin
<1>10. ASSUME NEW t \in Threads, Doing(t, "clip")'
       PROVE  /\ job'[t].msg.id \in DOMAIN changes' /\ changes'[job'[t].msg.id].from = t
              /\ t \notin job'[t].to
              /\ t \in Conns => \A i \in DOMAIN up[t] :
                    up[t][i].t = "clip" => job'[t].msg.id < up[t][i].id
  <2>1. CASE Doing(t, "clip") /\ job'[t] = job[t]
    <3>1. /\ job[t].msg.id \in DOMAIN changes /\ changes[job[t].msg.id].from = t /\ t \notin job[t].to
          /\ t \in Conns => \A i \in DOMAIN up[t] : up[t][i].t = "clip" => job[t].msg.id < up[t][i].id
      BY <2>1 DEF InOrder, JobsInOrder, Origin
    <3> QED BY <1>8, <2>1, <3>1
  <2>2. CASE t = Local /\ job'[t].msg = m /\ job'[t].to = to
    BY <1>0, <1>1, <1>2, <1>8, <2>2
  <2> QED BY <1>6, <1>10, <2>1, <2>2
<1>11. JobsInOrder'
  BY <1>3, <1>10 DEF JobsInOrder, Doing, Origin
<1> QED BY <1>7, <1>9, <1>11 DEF InOrder

LEMMA InitOrder == Init => InOrder
<1> SUFFICES ASSUME Init PROVE InOrder
  OBVIOUS
<1>1. \A c \in Conns : up[c] = << >> /\ down[c] = << >>
  BY DEF Init
<1>2. \A m \in Machines : seen[m] = << >>
  BY DEF Init
<1>3. \A t \in Threads : ~Doing(t, "clip")
  BY DEF Init, Doing
<1> QED BY <1>1, <1>2, <1>3
  DEF InOrder, UpInOrder, JobsInOrder, DownInOrder, SeenInOrder, DownOrdered, SeenOrdered

LEMMA OrderStep == Typed /\ InOrder /\ [Next]_vars => InOrder'
<1> SUFFICES ASSUME Typed, InOrder, [Next]_vars PROVE InOrder'
  OBVIOUS
<1>0. Typed'
  BY TypedStep
<1>1. ASSUME NEW t \in Threads, Writing(t) PROVE InOrder'
  <2>1. PICK c \in Conns : Write(t, c) \/ PassOver(t, c) \/ WriteFails(t, c)
    BY <1>1 DEF Writing
  <2> QED BY <1>0, <2>1, WritingOrder, WriteClipOrder
<1>2. ASSUME NEW c \in Conns, Reader(c) \/ ApplyFails(c) PROVE InOrder'
  BY <1>0, <1>2, RecvOrder, RecvClipOrder, RebuildOrder, CutOrder DEF Reader
<1>3. ASSUME NEW c \in Conns, Receive(c) PROVE InOrder'
  BY <1>0, <1>3, ClientOrder, DispatchClipOrder, CutOrder DEF Receive
<1>4. ASSUME NEW c \in Conns, Connect(c) \/ ClientChange(c) \/ Break(c) \/ Detect(c) PROVE InOrder'
  BY <1>0, <1>4, ClientOrder, ClientChangeOrder, CutOrder
<1>5. ASSUME NEW c \in Conns, NEW d \in Conns, ClientRelay(c, d) PROVE InOrder'
  BY <1>0, <1>5, ClientOrder
<1>6. CASE LocalChange \/ Ping \/ CloseBegin \/ CloseEnd
  BY <1>0, <1>6, LocalChangeOrder, PingOrder, CutOrder
<1>7. CASE UNCHANGED vars
  <2>1. UNCHANGED <<up, down>> /\ changes' = changes /\ seen' = seen /\ UNCHANGED <<pc, job>>
    BY <1>7 DEF vars, wires, ends, book
  <2> QED BY <1>0, <2>1, WiresSuffix, SameShrinks, OrderKept
<1> QED BY <1>1, <1>2, <1>3, <1>4, <1>5, <1>6, <1>7 DEF Next

(* A clipboard change is applied once on a machine, never where it was     *)
(* made, and changes of one machine in the order they were made.           *)
THEOREM HubClipOnce == Spec => []ClipOnce
<1>1. InOrder => ClipOnce
  BY DEF InOrder, SeenInOrder, SeenOrdered, Later, Origin, ClipOnce
<1> QED BY <1>1, InitTyped, InitOrder, TypedStep, OrderStep, PTL DEF Spec

-----------------------------------------------------------------------------
(* Every change reaches everyone.  While the server is open and nothing    *)
(* has broken, no connection ends.                                         *)

LEMMA CalmBefore ==
    ASSUME Typed, Next, Calm'
    PROVE  Calm
<1>1. server \in {"open", "closing", "closed"} /\ broken \in BOOLEAN /\ server' = "open" /\ ~broken'
  BY DEF Typed, HubTyped, BookTyped, Calm
<1>2. server = "open"
  <2>1. CASE server' = server
    BY <1>1, <2>1
  <2>2. CASE server' # server
    BY <1>1, <2>2
    DEF Next, Writing, Write, PassOver, WriteFails, Reader, RecvHello, MarkReady, RecvReport, RecvClip, RecvFile,
        RecvPong, Disconnect, ReadPeers, Install, ApplyFails, Receive, Handshake, Refuse, Dispatch, Pong, Connect,
        ClientChange, Break, Detect, ClientRelay, LocalChange, Ping, CloseBegin, CloseEnd, hub
  <2> QED BY <2>1, <2>2
<1>3. broken' = broken \/ broken'
  BY Zenon
  DEF Next, Writing, Write, PassOver, WriteFails, Reader, RecvHello, MarkReady, RecvReport, RecvClip, RecvFile,
      RecvPong, Disconnect, ReadPeers, Install, ApplyFails, Receive, Handshake, Refuse, Dispatch, Pong, Connect,
      ClientChange, Break, Detect, ClientRelay, LocalChange, Ping, CloseBegin, CloseEnd, book
<1> QED BY <1>1, <1>2, <1>3 DEF Calm

LEMMA NothingFails ==
    ASSUME Typed, NothingEnds, Calm, NEW t \in Threads, NEW c \in Conns
    PROVE  ~WriteFails(t, c) /\ ~Ending(c) /\ ~Detect(c) /\ (c \in peers => link[c] = "up")
<1>1. link[c] \in {"none", "up"} /\ job[t].to \subseteq peers
      /\ (c \in peers => link[c] \in {"up", "half", "dead"}) /\ c \in Threads /\ pc[c] # "end"
  BY DEF NothingEnds, Typed, HubTyped, Threads
<1> QED BY <1>1 DEF WriteFails, Writes, Open, Ending, Detect

(* The thread that moves does not end, and writes to peers. *)
LEMMA EndlessKept ==
    ASSUME NothingEnds, Calm, peers \subseteq peers', NEW t \in Threads,
           \A u \in Threads : u # t => pc'[u] = pc[u] /\ job'[u] = job[u],
           pc'[t] # "end", job'[t].to \subseteq peers',
           \A c \in Conns : link'[c] \in {"none", "up"} /\ (pc'[c] = "mark" => c \in peers')
    PROVE  NothingEnds'
<1>1. \A u \in Threads : pc'[u] # "end" /\ job'[u].to \subseteq peers'
  BY DEF NothingEnds
<1> QED BY <1>1 DEF NothingEnds

LEMMA EndlessStart ==
    ASSUME Typed, NothingEnds, Calm, peers' = peers, link' = link,
           NEW t \in Threads, NEW msg \in Msgs, NEW to \in SUBSET peers, NEW all,
           NEW ok \in {"idle", "build"}, NEW bad \in {"idle", "end"}, ok = "build" => bad = "end",
           t \in {Local, Pinger} => ok = "idle" /\ bad = "idle",
           pc[t] # "write", StartJob(t, msg, to, all, ok, bad)
    PROVE  NothingEnds'
<1>0. ThreadsTyped /\ to \in SUBSET Conns
  BY DEF Typed, HubTyped
<1>1. /\ \A u \in Threads : u # t => pc'[u] = pc[u] /\ job'[u] = job[u]
      /\ to = {} => pc'[t] = ok /\ job' = job
      /\ to # {} => pc'[t] = "write" /\ job'[t].to = to
  <2>1. /\ ThreadsTyped'
        /\ \A u \in Threads : u # t => pc'[u] = pc[u] /\ job'[u] = job[u]
        /\ to = {} => pc'[t] = ok /\ job' = job
        /\ to # {} => /\ pc'[t] = "write" /\ job'[t].msg = msg /\ job'[t].to = to
                      /\ job'[t].ok = ok /\ job'[t].bad = bad
    BY <1>0, StartJobFacts
  <2> QED BY <2>1
<1>2. pc'[t] \notin {"end", "mark"} /\ job'[t].to \subseteq peers'
  BY <1>1 DEF NothingEnds
<1>3. \A c \in Conns : link'[c] \in {"none", "up"} /\ (pc'[c] = "mark" => c \in peers')
  BY <1>1, <1>2 DEF NothingEnds, Threads
<1> QED BY <1>1, <1>2, <1>3, EndlessKept

LEMMA EndlessPlace ==
    ASSUME Typed, NothingEnds, Calm, peers \subseteq peers', link' = link, job' = job,
           NEW c \in Conns, NEW to, to # "end", pc' = [pc EXCEPT ![c] = to], to = "mark" => c \in peers'
    PROVE  NothingEnds'
<1>1. c \in Threads /\ pc'[c] = to /\ \A u \in Threads : u # c => pc'[u] = pc[u] /\ job'[u] = job[u]
  BY DEF Typed, ThreadsTyped, Threads
<1>2. \A d \in Conns : link'[d] \in {"none", "up"} /\ (pc'[d] = "mark" => d \in peers')
  BY <1>1 DEF NothingEnds, Threads
<1>3. job'[c].to \subseteq peers'
  BY <1>1 DEF NothingEnds
<1> QED BY <1>1, <1>2, <1>3, EndlessKept

LEMMA EndlessSame ==
    ASSUME NothingEnds, Calm, peers' = peers, UNCHANGED <<pc, job>>,
           \A c \in Conns : link'[c] \in {"none", "up"}
    PROVE  NothingEnds'
BY DEF NothingEnds

LEMMA EndlessWriting ==
    ASSUME Typed, NothingEnds, Calm, NEW t \in Threads, Writing(t)
    PROVE  NothingEnds'
<1>1. PICK c \in Conns : Write(t, c) \/ PassOver(t, c)
  BY NothingFails DEF Writing
<1>2. /\ Done(t, c) /\ Writes(t, c) /\ peers' = peers /\ link' = link /\ ThreadsTyped /\ IsJob(job[t])
  BY <1>1 DEF Write, PassOver, hub, wires, Typed, ThreadsTyped
<1>3. job[t].ok \in {"idle", "build"} /\ job[t].to \subseteq peers /\ NoJob.to = {} /\ pc[t] = "write"
  BY <1>2, NoJobTyped DEF IsJob, NothingEnds, Writes
<1>4. /\ \A u \in Threads : u # t => pc'[u] = pc[u] /\ job'[u] = job[u]
      /\ pc'[t] \in {"idle", "build", "write"} /\ job'[t].to \subseteq peers'
  BY <1>2, <1>3, DoneFacts
<1>5. \A d \in Conns : link'[d] \in {"none", "up"} /\ (pc'[d] = "mark" => d \in peers')
  BY <1>2, <1>4 DEF NothingEnds, Threads
<1> QED BY <1>2, <1>4, <1>5, EndlessKept

LEMMA EndlessReader ==
    ASSUME Typed, NothingEnds, Calm, Calm', NEW c \in Conns, Reader(c) \/ ApplyFails(c)
    PROVE  NothingEnds'
<1>0. c \in Threads /\ c \notin {Local, Pinger} /\ ~Disconnect(c) /\ ~ApplyFails(c)
  BY HubAssumption, NothingFails DEF Threads, Disconnect, ApplyFails, Calm
<1>1. CASE RecvHello(c)
  BY <1>1, EndlessPlace DEF RecvHello, Take
<1>2. CASE MarkReady(c)
  <2>1. PICK m \in Msgs : m = Msg("ack")
    BY MsgsTyped DEF MsgTypes
  <2>2. /\ StartJob(c, m, {c}, TRUE, "build", "end") /\ pc[c] = "mark" /\ peers' = peers /\ link' = link
        /\ {c} \in SUBSET peers
    BY <1>2, <2>1 DEF MarkReady, wires, NothingEnds
  <2> QED BY <1>0, <2>2, EndlessStart
<1>3. CASE RecvReport(c)
  <2>1. job' = job /\ link' = link /\ peers' = peers /\ (pc' = [pc EXCEPT ![c] = "build"] \/ pc' = pc)
    BY <1>3 DEF RecvReport, Take, Enter
  <2>2. CASE pc' = pc
    BY <2>1, <2>2, EndlessSame DEF NothingEnds
  <2> QED BY <2>1, <2>2, EndlessPlace
<1>4. CASE RecvClip(c) \/ RecvFile(c)
  <2>1. PICK type : Next1(c, type) /\ Take(c)
    BY <1>4 DEF RecvClip, RecvFile
  <2>2. PICK m \in Msgs : m = Head(up[c])
    BY <2>1, TakesHead
  <2>3. peers' = peers /\ link' = link /\ pc[c] = "idle"
    BY <1>4, <2>1 DEF RecvClip, RecvFile, hub, Take, Next1
  <2>4. UNCHANGED <<pc, job>> \/ \E to \in SUBSET peers : StartJob(c, m, to, TRUE, "idle", "end")
    <3>1. CASE RecvClip(c)
      <4>1. StartJob(c, m, peers \ {c}, TRUE, "idle", "end") /\ peers \ {c} \in SUBSET peers
        BY <2>2, <3>1 DEF RecvClip
      <4> QED BY <4>1
    <3>2. CASE RecvFile(c)
      <4> DEFINE to == {Head(up[c]).to} \cap peers \cap ready
      <4>1. UNCHANGED <<pc, job>> \/ StartJob(c, Head(up[c]), to, TRUE, "idle", "end")
        BY <3>2 DEF RecvFile
      <4>2. to \in SUBSET peers
        OBVIOUS
      <4> HIDE DEF to
      <4> QED BY <2>2, <4>1, <4>2
    <3> QED BY <1>4, <3>1, <3>2
  <2>5. CASE UNCHANGED <<pc, job>>
    BY <2>3, <2>5, EndlessSame DEF NothingEnds
  <2>6. CASE ~UNCHANGED <<pc, job>>
    <3>1. PICK to \in SUBSET peers : StartJob(c, m, to, TRUE, "idle", "end")
      BY <2>4, <2>6
    <3> QED BY <1>0, <2>3, <3>1, EndlessStart
  <2> QED BY <2>5, <2>6
<1>5. CASE RecvPong(c)
  BY <1>5, EndlessSame DEF RecvPong, Take, hub, NothingEnds
<1>6. CASE ReadPeers(c)
  <2>1. pc' = [pc EXCEPT ![c] = "install"] /\ job' = job /\ link' = link /\ peers' = peers
    BY <1>6 DEF ReadPeers, wires, hub
  <2> QED BY <2>1, EndlessPlace
<1>7. CASE Install(c)
  <2>1. snap[c] \in SUBSET Conns /\ peers \in SUBSET peers
    BY DEF Typed, HubTyped
  <2>2. PICK m \in Msgs : m = LayoutMsg(snap[c])
    BY <2>1, MsgsTyped
  <2>3. StartJob(c, m, peers, FALSE, "idle", "idle") /\ pc[c] = "install" /\ peers' = peers /\ link' = link
    BY <1>7, <2>2 DEF Install, wires
  <2> QED BY <1>0, <2>1, <2>3, EndlessStart
<1> QED BY <1>0, <1>1, <1>2, <1>3, <1>4, <1>5, <1>6, <1>7 DEF Reader

LEMMA EndlessOthers ==
    ASSUME Typed, NothingEnds, Calm, Calm',
           \/ LocalChange \/ Ping \/ CloseBegin \/ CloseEnd \/ UNCHANGED vars
           \/ \E c \in Conns : Receive(c) \/ Connect(c) \/ ClientChange(c) \/ Break(c) \/ Detect(c)
           \/ \E c, d \in Conns : ClientRelay(c, d)
    PROVE  NothingEnds'
<1>0. ~CloseBegin /\ ~CloseEnd /\ \A c \in Conns : ~Refuse(c) /\ ~Break(c) /\ ~Detect(c)
  <2>1. Local \in Threads
    BY DEF Threads
  <2>2. server' = "open" /\ ~broken' /\ server = "open"
    BY DEF Calm
  <2> QED BY <2>1, <2>2, NothingFails DEF CloseBegin, CloseEnd, Refuse, Break
<1>1. Local \in Threads /\ Pinger \in Threads /\ peers \in SUBSET peers
  BY DEF Threads
<1>2. CASE LocalChange
  <2>1. PICK m \in Msgs : m = ClipMsg(Len(changes) + 1)
    BY MsgsTyped DEF Typed, BookTyped
  <2>2. /\ StartJob(Local, m, peers, FALSE, "idle", "idle") /\ pc[Local] = "idle"
        /\ peers' = peers /\ link' = link
    BY <1>2, <2>1 DEF LocalChange, wires, hub
  <2> QED BY <1>1, <2>2, EndlessStart
<1>3. CASE Ping
  <2>1. PICK m \in Msgs : m = Msg("ping")
    BY MsgsTyped DEF MsgTypes
  <2>2. /\ StartJob(Pinger, m, peers, FALSE, "idle", "idle") /\ pc[Pinger] = "idle"
        /\ peers' = peers /\ link' = link
    BY <1>3, <2>1 DEF Ping, wires, hub
  <2> QED BY <1>1, <2>2, EndlessStart
<1>4. CASE UNCHANGED vars
  BY <1>4, EndlessSame DEF vars, wires, hub, NothingEnds
<1>5. ASSUME NEW c \in Conns, NEW d \in Conns, Receive(c) \/ ClientChange(c) \/ ClientRelay(c, d)
      PROVE  NothingEnds'
  <2>1. peers' = peers /\ UNCHANGED <<pc, job>> /\ link' = link
    BY <1>0, <1>5 DEF Receive, Handshake, Dispatch, Pong, ClientChange, ClientRelay, hub
  <2> QED BY <2>1, EndlessSame DEF NothingEnds
<1>6. ASSUME NEW c \in Conns, Connect(c) PROVE NothingEnds'
  <2>1. peers' = peers /\ UNCHANGED <<pc, job>> /\ link' = [link EXCEPT ![c] = "up"]
    BY <1>6 DEF Connect
  <2>2. \A d \in Conns : link'[d] \in {"none", "up"}
    BY <2>1 DEF NothingEnds, Typed, WiresTyped
  <2> QED BY <2>1, <2>2, EndlessSame
<1> QED BY <1>0, <1>2, <1>3, <1>4, <1>5, <1>6

LEMMA NothingEndsStep == Typed /\ NothingEnds /\ [Next]_vars => NothingEnds'
<1> SUFFICES ASSUME Typed, NothingEnds, [Next]_vars, Calm' PROVE NothingEnds'
  BY DEF NothingEnds, Calm
<1>1. Calm
  BY CalmBefore DEF vars, hub, book, Calm
<1>2. CASE Next
  BY <1>1, <1>2, EndlessWriting, EndlessReader, EndlessOthers DEF Next
<1> QED BY <1>1, <1>2, EndlessOthers

LEMMA HoldsFacts ==
    ASSUME NEW q \in Seq(Msgs), NEW n
    PROVE  /\ \A m \in Msgs : Holds(q, n) \/ IsClip(m, n) => Holds(Append(q, m), n)
           /\ q # << >> /\ Holds(q, n) => Holds(Tail(q), n) \/ IsClip(Head(q), n)
<1>1. ASSUME NEW m \in Msgs, Holds(q, n) PROVE Holds(Append(q, m), n)
  <2>1. PICK i \in DOMAIN q : IsClip(q[i], n)
    BY <1>1 DEF Holds
  <2>2. i \in DOMAIN Append(q, m) /\ Append(q, m)[i] = q[i]
    OBVIOUS
  <2> QED BY <2>1, <2>2 DEF Holds
<1>2. ASSUME NEW m \in Msgs, IsClip(m, n) PROVE Holds(Append(q, m), n)
  <2>1. Len(q) + 1 \in DOMAIN Append(q, m) /\ Append(q, m)[Len(q) + 1] = m
    OBVIOUS
  <2> QED BY <1>2, <2>1 DEF Holds
<1>3. ASSUME q # << >>, Holds(q, n), ~IsClip(Head(q), n) PROVE Holds(Tail(q), n)
  <2>1. PICK i \in DOMAIN q : IsClip(q[i], n)
    BY <1>3 DEF Holds
  <2>2. i # 1
    BY <1>3, <2>1
  <2>3. i - 1 \in DOMAIN Tail(q) /\ Tail(q)[i - 1] = q[i]
    BY <1>3, <2>2
  <2> QED BY <2>1, <2>3 DEF Holds
<1> QED BY <1>1, <1>2, <1>3

LEMMA SawKept ==
    ASSUME Typed, NEW m \in Machines, NEW new \in Nat, seen' = [seen EXCEPT ![m] = Append(seen[m], new)]
    PROVE  /\ \A x \in Machines : \A n : Saw(x, n) => Saw(x, n)'
           /\ Saw(m, new)'
<1>1. seen[m] \in Seq(Nat) /\ seen'[m] = Append(seen[m], new)
      /\ \A x \in Machines : x # m => seen'[x] = seen[x]
  BY DEF Typed, EndsTyped
<1>2. /\ \A i \in DOMAIN seen[m] : i \in DOMAIN seen'[m] /\ seen'[m][i] = seen[m][i]
      /\ Len(seen[m]) + 1 \in DOMAIN seen'[m] /\ seen'[m][Len(seen[m]) + 1] = new
  BY <1>1
<1> QED BY <1>1, <1>2 DEF Saw

(* What is on its way stays on its way.                                    *)
LEMMA CarriedKept ==
    ASSUME Typed, AllOnWay, Calm, changes' = changes,
           \A m \in peers \cap ready : Serving(m) => m \in peers' \cap ready' /\ Serving(m)',
           \A n \in DOMAIN changes : \A m \in Machines : \A o \in Machines :
               o = Origin(n) /\ (m # Local => m \in peers \cap ready) /\ m # o /\ OnWay(n, o, m)
                  => OnWay(n, o, m)'
    PROVE  AllOnWay'
<1> SUFFICES ASSUME NEW n \in DOMAIN changes
             PROVE  /\ Origin(n) \notin changes[n].for
                    /\ \A m \in changes[n].for :
                          /\ m # Local => m \in peers' \cap ready' /\ Serving(m)'
                          /\ \A o : o = Origin(n) => OnWay(n, o, m)'
  BY DEF AllOnWay, Origin, OnWay, Saw, Brings, Doing, Holds, Serving
<1>1. /\ Origin(n) \notin changes[n].for
      /\ \A m \in changes[n].for :
            /\ m # Local => m \in peers \cap ready /\ Serving(m)
            /\ OnWay(n, Origin(n), m)
  BY DEF AllOnWay
<1>2. changes[n].for \subseteq Machines /\ Origin(n) \in Machines
  BY ChangesTyped
<1> QED BY <1>1, <1>2

LEMMA WayKept ==
    ASSUME NEW n, NEW o, NEW m, OnWay(n, o, m),
           Saw(m, n) => Saw(m, n)',
           m \in Conns /\ Holds(down[m], n) => Holds(down'[m], n) \/ Saw(m, n)',
           Brings(o, n, m) => Brings(o, n, m)' \/ (m \in Conns /\ Holds(down'[m], n)),
           o \in Conns /\ Holds(up[o], n) => Holds(up'[o], n) \/ Saw(m, n)' \/ Brings(o, n, m)'
    PROVE  OnWay(n, o, m)'
BY DEF OnWay, Holds

(* A thread that was not writing takes nothing off the way. *)
LEMMA BringsKept ==
    ASSUME NEW t \in Threads, pc[t] # "write", \A u \in Threads : u # t => pc'[u] = pc[u] /\ job'[u] = job[u]
    PROVE  \A o \in Threads : \A n, m : Brings(o, n, m) => Brings(o, n, m)'
BY DEF Brings, Doing

LEMMA BringsSame ==
    ASSUME UNCHANGED <<pc, job>>
    PROVE  \A o, n, m : Brings(o, n, m) => Brings(o, n, m)'
BY DEF Brings, Doing

LEMMA TakeHolds ==
    ASSUME Typed, NEW c \in Conns, NEW type, Next1(c, type), Take(c)
    PROVE  \A o \in Conns : \A n : Holds(up[o], n) => Holds(up'[o], n) \/ (o = c /\ IsClip(Head(up[c]), n))
<1>1. up \in [Conns -> Seq(Msgs)] /\ up[c] # << >> /\ up[c] \in Seq(Msgs)
  BY DEF Typed, WiresTyped, Next1
<1>2. up' = Pop(up, c)
  BY DEF Take
<1>3. Pop(up, c)[c] = Tail(up[c]) /\ \A d \in Conns : d # c => Pop(up, c)[d] = up[d]
  BY <1>1, PopFacts
<1>4. \A n : Holds(up[c], n) => Holds(Tail(up[c]), n) \/ IsClip(Head(up[c]), n)
  BY <1>1, HoldsFacts
<1> QED BY <1>2, <1>3, <1>4

LEMMA CarriedWriting ==
    ASSUME Typed, InOrder, NothingEnds, AllOnWay, Calm, NEW t \in Threads, Writing(t)
    PROVE  AllOnWay'
<1>1. PICK c \in Conns : Write(t, c) \/ PassOver(t, c)
  BY NothingFails DEF Writing
<1>2. /\ Done(t, c) /\ Writes(t, c) /\ ThreadsTyped /\ IsJob(job[t])
      /\ changes' = changes /\ seen' = seen /\ up' = up /\ link' = link /\ client' = client
      /\ UNCHANGED <<peers, ready>>
  BY <1>1 DEF Write, PassOver, hub, wires, ends, Typed, ThreadsTyped
<1>3. job[t].ok # "write" /\ c \in job[t].to
  BY <1>2 DEF IsJob, Writes
<1>4. /\ \A u \in Threads : u # t => pc'[u] = pc[u] /\ job'[u] = job[u]
      /\ \/ job[t].to = {c}
         \/ pc' = pc /\ job'[t].to = job[t].to \ {c} /\ job'[t].msg = job[t].msg
  BY <1>2, DoneFacts
<1>5. \A d \in Conns : down[d] \in Seq(Msgs)
  BY DEF Typed, WiresTyped
<1>6. \A d \in Conns : \A n : Holds(down[d], n) => Holds(down'[d], n)
  <2>1. CASE Write(t, c)
    <3>1. PICK m \in Msgs : m = job[t].msg
      BY <1>2 DEF IsJob
    <3>2. down' = Put(down, c, m)
      BY <2>1, <3>1 DEF Write
    <3>3. down'[c] = Append(down[c], m) /\ \A d \in Conns : d # c => down'[d] = down[d]
      BY <3>2 DEF Put, Typed, WiresTyped
    <3> QED BY <1>5, <3>3, HoldsFacts
  <2>2. CASE PassOver(t, c)
    BY <2>2 DEF PassOver, wires
  <2> QED BY <1>1, <2>1, <2>2
<1>7. ASSUME NEW n, NEW o \in Threads, NEW m \in Machines, Brings(o, n, m), m # Local => m \in ready
      PROVE  Brings(o, n, m)' \/ (m \in Conns /\ Holds(down'[m], n))
  <2>1. CASE o = t /\ m = c
    <3>1. Write(t, c)
      <4>1. c # Local
        BY HubAssumption
      <4> QED BY <1>1, <1>7, <2>1, <4>1 DEF PassOver, Wanted
    <3>2. PICK x \in Msgs : x = job[t].msg
      BY <1>2 DEF IsJob
    <3>3. down'[c] = Append(down[c], x) /\ IsClip(x, n)
      BY <1>7, <2>1, <3>1, <3>2 DEF Write, Put, Typed, WiresTyped, IsClip, Brings, Doing
    <3>4. Holds(down'[c], n)
      BY <1>5, <3>3, HoldsFacts
    <3> QED BY <2>1, <3>4
  <2>2. CASE o # t
    BY <1>4, <1>7, <2>2 DEF Brings, Doing
  <2>3. CASE o = t /\ m # c
    BY <1>4, <1>7, <2>3 DEF Brings, Doing
  <2> QED BY <2>1, <2>2, <2>3
<1>8. ASSUME NEW n, NEW m \in Machines, NEW o \in Machines, m # Local => m \in ready, OnWay(n, o, m)
      PROVE  OnWay(n, o, m)'
  <2>1. Saw(m, n) => Saw(m, n)'
    BY <1>2 DEF Saw
  <2>2. Brings(o, n, m) => Brings(o, n, m)' \/ (m \in Conns /\ Holds(down'[m], n))
    BY <1>7, <1>8 DEF Machines, Threads
  <2> QED BY <1>2, <1>6, <1>8, <2>1, <2>2, WayKept
<1>9. \A m \in peers \cap ready : Serving(m) => m \in peers' \cap ready' /\ Serving(m)'
  BY <1>2 DEF Serving
<1> QED BY <1>2, <1>8, <1>9, CarriedKept

(* A step of a read goroutine that touches no clipboard change. *)
LEMMA CarriedQuiet ==
    ASSUME Typed, AllOnWay, Calm, changes' = changes, NEW t \in Threads, pc[t] # "write",
           \A u \in Threads : u # t => pc'[u] = pc[u] /\ job'[u] = job[u],
           \A m \in peers \cap ready : Serving(m) => m \in peers' \cap ready' /\ Serving(m)',
           seen' = seen, down' = down,
           \A o \in Conns : \A n : Holds(up[o], n) => Holds(up'[o], n)
    PROVE  AllOnWay'
<1>1. ASSUME NEW n, NEW m \in Machines, NEW o \in Machines, OnWay(n, o, m)
      PROVE  OnWay(n, o, m)'
  <2>1. Saw(m, n) => Saw(m, n)'
    BY DEF Saw
  <2>2. Brings(o, n, m) => Brings(o, n, m)'
    BY BringsKept DEF Machines, Threads
  <2> QED BY <1>1, <2>1, <2>2, WayKept
<1> QED BY <1>1, CarriedKept

LEMMA CarriedReader ==
    ASSUME Typed, AllOnWay, Calm, NEW c \in Conns,
           \/ RecvHello(c) \/ MarkReady(c) \/ RecvReport(c) \/ RecvFile(c) \/ RecvPong(c)
           \/ ReadPeers(c) \/ Install(c)
    PROVE  AllOnWay'
<1>0. c \in Threads /\ c \notin {Local, Pinger} /\ ThreadsTyped
  BY HubAssumption DEF Threads, Typed
<1>1. /\ changes' = changes /\ seen' = seen /\ down' = down /\ UNCHANGED <<link, client>>
      /\ peers \subseteq peers' /\ ready \subseteq ready' /\ pc[c] # "write"
  BY DEF RecvHello, MarkReady, RecvReport, RecvFile, RecvPong, ReadPeers, Install, Take, Next1,
         wires, ends, hub, book
<1>2. \A m \in peers \cap ready : Serving(m) => m \in peers' \cap ready' /\ Serving(m)'
  BY <1>1 DEF Serving
<1>3. \A o \in Conns : \A n : Holds(up[o], n) => Holds(up'[o], n)
  <2>1. CASE MarkReady(c) \/ ReadPeers(c) \/ Install(c)
    BY <2>1 DEF MarkReady, ReadPeers, Install, wires
  <2>2. CASE ~(MarkReady(c) \/ ReadPeers(c) \/ Install(c))
    <3>1. PICK type \in {"hello", "report", "file", "pong"} : Next1(c, type) /\ Take(c)
      BY <2>2 DEF RecvHello, RecvReport, RecvFile, RecvPong
    <3>2. \A n : ~IsClip(Head(up[c]), n)
      BY <3>1 DEF IsClip, Next1
    <3> QED BY <3>1, <3>2, TakeHolds
  <2> QED BY <2>1, <2>2
<1>4. \A u \in Threads : u # c => pc'[u] = pc[u] /\ job'[u] = job[u]
  <2>1. CASE UNCHANGED <<pc, job>>
    BY <2>1
  <2>2. CASE job' = job /\ \E to \in Places : pc' = [pc EXCEPT ![c] = to]
    BY <2>2 DEF Typed, ThreadsTyped
  <2>4. CASE RecvHello(c) \/ RecvReport(c) \/ RecvPong(c) \/ ReadPeers(c)
    BY <2>1, <2>2, <2>4 DEF RecvHello, RecvReport, RecvPong, ReadPeers, Enter, Places
  <2>5. CASE MarkReady(c)
    <3>1. StartJob(c, Msg("ack"), {c}, TRUE, "build", "end")
      BY <2>5 DEF MarkReady
    <3> QED BY <1>0, <3>1, StartMoves
  <2>6. CASE RecvFile(c)
    <3> DEFINE to == {Head(up[c]).to} \cap peers \cap ready
    <3>1. UNCHANGED <<pc, job>> \/ StartJob(c, Head(up[c]), to, TRUE, "idle", "end")
      BY <2>6 DEF RecvFile
    <3> HIDE DEF to
    <3> QED BY <1>0, <2>1, <3>1, StartMoves
  <2>7. CASE Install(c)
    <3>1. StartJob(c, LayoutMsg(snap[c]), peers, FALSE, "idle", "idle")
      BY <2>7 DEF Install
    <3> QED BY <1>0, <3>1, StartMoves
  <2> QED BY <2>4, <2>5, <2>6, <2>7
<1> QED BY <1>0, <1>1, <1>2, <1>3, <1>4, CarriedQuiet

LEMMA CarriedClip ==
    ASSUME Typed, InOrder, AllOnWay, Calm, NEW c \in Conns, RecvClip(c)
    PROVE  AllOnWay'
<1>0. /\ c \in Threads /\ c \notin {Local, Pinger} /\ ThreadsTyped /\ Local \in Machines /\ Local \notin Conns
      /\ peers \ {c} \in SUBSET Conns /\ pc[c] = "idle"
  BY HubAssumption DEF Threads, Machines, Typed, HubTyped, RecvClip, Next1
<1>1. /\ changes' = changes /\ down' = down /\ UNCHANGED <<link, client>> /\ UNCHANGED <<peers, ready>>
      /\ Next1(c, "clip") /\ Take(c) /\ up[c] # << >>
  BY DEF RecvClip, book, Take, hub, Next1
<1>2. PICK x \in Msgs : x = Head(up[c]) /\ x.t = "clip" /\ x.id \in Nat
  BY <1>1, TakesHead DEF Next1, Msgs
<1>3. /\ StartJob(c, x, peers \ {c}, TRUE, "idle", "end")
      /\ seen' = [seen EXCEPT ![Local] = Append(seen[Local], x.id)]
  BY <1>2 DEF RecvClip
<1>4. PICK to \in SUBSET Conns : to = peers \ {c}
  BY <1>0
<1>5. /\ ThreadsTyped'
      /\ \A u \in Threads : u # c => pc'[u] = pc[u] /\ job'[u] = job[u]
      /\ to = {} => pc'[c] = "idle" /\ job' = job
      /\ to # {} => /\ pc'[c] = "write" /\ job'[c].msg = x /\ job'[c].to = to
                    /\ job'[c].ok = "idle" /\ job'[c].bad = "end"
  BY <1>0, <1>3, <1>4, StartJobFacts
<1>6. (\A y \in Machines : \A n : Saw(y, n) => Saw(y, n)') /\ \A n : n = x.id => Saw(Local, n)'
  <2>1. PICK new \in Nat : new = x.id
    BY <1>2
  <2>2. seen' = [seen EXCEPT ![Local] = Append(seen[Local], new)]
    BY <1>3, <2>1
  <2> QED BY <1>0, <2>1, <2>2, SawKept
<1>7. ASSUME NEW n, NEW m \in Machines, NEW o \in Machines, m # Local => m \in peers, m # o, OnWay(n, o, m)
      PROVE  OnWay(n, o, m)'
  <2>1. Saw(m, n) => Saw(m, n)'
    BY <1>6
  <2>2. Brings(o, n, m) => Brings(o, n, m)'
    BY <1>0, <1>5, BringsKept DEF Machines, Threads
  <2>3. o \in Conns /\ Holds(up[o], n) => Holds(up'[o], n) \/ Saw(m, n)' \/ Brings(o, n, m)'
    <3>1. ASSUME o = c, n = x.id PROVE Saw(m, n)' \/ Brings(o, n, m)'
      BY <1>2, <1>4, <1>5, <1>6, <1>7, <3>1 DEF Brings, Doing
    <3> QED BY <1>1, <1>2, <3>1, TakeHolds DEF IsClip
  <2> QED BY <1>1, <1>7, <2>1, <2>2, <2>3, WayKept
<1>8. \A m \in peers \cap ready : Serving(m) => m \in peers' \cap ready' /\ Serving(m)'
  BY <1>1 DEF Serving
<1> QED BY <1>1, <1>7, <1>8, CarriedKept

LEMMA CarriedReceive ==
    ASSUME Typed, AllOnWay, Calm, NEW c \in Conns, Handshake(c) \/ Dispatch(c) \/ Pong(c)
    PROVE  AllOnWay'
<1>0. /\ down \in [Conns -> Seq(Msgs)] /\ up \in [Conns -> Seq(Msgs)] /\ down[c] # << >> /\ c \in Machines
      /\ down[c] \in Seq(Msgs) /\ up[c] \in Seq(Msgs)
  BY DEF Typed, WiresTyped, Handshake, Dispatch, Pong, Arrived, Machines
<1>1. /\ changes' = changes /\ down' = Pop(down, c) /\ link' = link /\ UNCHANGED <<peers, ready>>
      /\ UNCHANGED <<pc, job>>
  BY DEF Handshake, Dispatch, Pong, book, hub
<1>2. PICK x \in Msgs : x = Head(down[c]) /\ x.id \in Nat
  BY <1>0, PopFacts DEF Msgs
<1>3. /\ \A y \in Machines : \A n : Saw(y, n) => Saw(y, n)'
      /\ \A n : IsClip(x, n) => Saw(c, n)'
  <2>1. CASE Dispatch(c) /\ x.t = "clip"
    <3>1. PICK new \in Nat : new = x.id
      BY <1>2
    <3>2. seen' = [seen EXCEPT ![c] = Append(seen[c], new)]
      BY <1>2, <2>1, <3>1 DEF Dispatch
    <3> QED BY <1>0, <3>1, <3>2, SawKept DEF IsClip
  <2>2. CASE ~(Dispatch(c) /\ x.t = "clip")
    <3>1. seen' = seen /\ x.t # "clip"
      BY <1>2, <2>2 DEF Handshake, Dispatch, Pong, ends
    <3> QED BY <3>1 DEF Saw, IsClip
  <2> QED BY <2>1, <2>2
<1>4. \A d \in Conns : \A n : Holds(down[d], n) => Holds(down'[d], n) \/ Saw(d, n)'
  <2>1. down'[c] = Tail(down[c]) /\ \A d \in Conns : d # c => down'[d] = down[d]
    BY <1>0, <1>1 DEF Pop
  <2>2. \A n : Holds(down[c], n) => Holds(Tail(down[c]), n) \/ IsClip(Head(down[c]), n)
    BY <1>0, HoldsFacts
  <2> QED BY <1>2, <1>3, <2>1, <2>2
<1>5. \A o \in Conns : \A n : Holds(up[o], n) => Holds(up'[o], n)
  <2>1. up' = up \/ \E m \in Msgs : up' = Put(up, c, m)
    <3>1. Msg("report") \in Msgs /\ Msg("pong") \in Msgs
      BY MsgsTyped DEF MsgTypes
    <3> QED BY <3>1 DEF Handshake, Dispatch, Pong
  <2>2. ASSUME NEW m \in Msgs, up' = Put(up, c, m) PROVE \A o \in Conns : \A n : Holds(up[o], n) => Holds(up'[o], n)
    <3>1. up'[c] = Append(up[c], m) /\ \A d \in Conns : d # c => up'[d] = up[d]
      BY <1>0, <2>2 DEF Put
    <3> QED BY <1>0, <3>1, HoldsFacts
  <2> QED BY <2>1, <2>2
<1>6. ASSUME NEW n, NEW m \in Machines, NEW o \in Machines, OnWay(n, o, m)
      PROVE  OnWay(n, o, m)'
  <2>1. Saw(m, n) => Saw(m, n)'
    BY <1>3
  <2>2. Brings(o, n, m) => Brings(o, n, m)'
    BY <1>1, BringsSame
  <2> QED BY <1>4, <1>5, <1>6, <2>1, <2>2, WayKept
<1>7. \A m \in peers \cap ready : Serving(m) => m \in peers' \cap ready' /\ Serving(m)'
  <2>1. ASSUME NEW m \in Conns PROVE client[m] = "serving" => client'[m] = "serving"
    BY DEF Handshake, Dispatch, Pong, ends, Typed, EndsTyped
  <2> QED BY <1>1, <2>1 DEF Serving, Typed, HubTyped
<1> QED BY <1>1, <1>6, <1>7, CarriedKept

(* A slot that is used again is nobody's who a change is for. *)
LEMMA CarriedConnect ==
    ASSUME Typed, AllOnWay, Calm, NEW c \in Conns, Connect(c)
    PROVE  AllOnWay'
<1>1. /\ link[c] \in {"none", "closed"} /\ changes' = changes /\ UNCHANGED <<pc, job, peers>> /\ down' = down
      /\ ready' = ready \ {c}
      /\ link' = [link EXCEPT ![c] = "up"] /\ client' = [client EXCEPT ![c] = "hello"]
      /\ up' = [up EXCEPT ![c] = <<Msg("hello")>>] /\ seen' = [seen EXCEPT ![c] = << >>]
  BY DEF Connect
<1>2. c \notin peers /\ up[c] = << >> /\ c # Local
  BY <1>1, HubAssumption DEF Typed, HubTyped, WiresTyped, Open
<1>3. ASSUME NEW n, NEW m \in Machines, NEW o \in Machines, m # Local => m \in peers, OnWay(n, o, m)
      PROVE  OnWay(n, o, m)'
  <2>1. Saw(m, n) => Saw(m, n)'
    <3>1. seen'[m] = seen[m]
      BY <1>1, <1>2, <1>3 DEF Typed, EndsTyped
    <3> QED BY <3>1 DEF Saw
  <2>2. Brings(o, n, m) => Brings(o, n, m)'
    BY <1>1, BringsSame
  <2>3. o \in Conns /\ Holds(up[o], n) => Holds(up'[o], n)
    <3>1. ~Holds(up[c], n)
      BY <1>2 DEF Holds
    <3> QED BY <1>1, <3>1
  <2> QED BY <1>1, <1>3, <2>1, <2>2, <2>3, WayKept
<1>4. \A m \in peers \cap ready : Serving(m) => m \in peers' \cap ready' /\ Serving(m)'
  BY <1>1, <1>2 DEF Serving, Typed, WiresTyped, EndsTyped, HubTyped
<1> QED BY <1>1, <1>3, <1>4, CarriedKept

(* A new change is on its way to everyone it is for. *)
LEMMA CarriedNew ==
    ASSUME Typed, AllOnWay, Calm, NEW r \in ChangeRecs, changes' = Append(changes, r),
           r.from \notin r.for, UNCHANGED <<link, client, peers, ready, seen, down>>,
           \A m \in r.for : m # Local => m \in peers \cap ready /\ Serving(m),
           \A new : new = Len(changes) + 1 => \A m \in r.for : OnWay(new, r.from, m)',
           \A n, o, m : Brings(o, n, m) => Brings(o, n, m)' \/ o \notin Threads,
           \A o \in Conns : \A n : Holds(up[o], n) => Holds(up'[o], n)
    PROVE  AllOnWay'
<1>1. /\ Len(changes) \in Nat /\ DOMAIN changes = 1 .. Len(changes)
      /\ DOMAIN changes' = 1 .. Len(changes) + 1
      /\ \A n \in DOMAIN changes : changes'[n] = changes[n]
      /\ changes'[Len(changes) + 1] = r
  BY GrownOrigin
<1> SUFFICES ASSUME NEW n \in DOMAIN changes', NEW o, o = changes'[n].from
             PROVE  /\ o \notin changes'[n].for
                    /\ \A m \in changes'[n].for :
                          /\ m # Local => m \in peers \cap ready /\ Serving(m)
                          /\ OnWay(n, o, m)'
  BY DEF AllOnWay, Origin, OnWay, Saw, Brings, Doing, Holds, Serving
<1>2. CASE n = Len(changes) + 1
  <2>1. changes'[n] = r /\ o = r.from
    BY <1>1, <1>2
  <2>2. \A m \in r.for : OnWay(n, o, m)'
    BY <1>2, <2>1
  <2> QED BY <2>1, <2>2
<1>3. CASE n # Len(changes) + 1
  <2>1. n \in DOMAIN changes /\ o = Origin(n) /\ changes'[n].for = changes[n].for
    BY <1>1, <1>3 DEF Origin
  <2>2. o \in Threads /\ (o \in Conns \/ o = Local)
    BY <2>1, ChangesTyped
  <2>3. /\ o \notin changes[n].for
        /\ \A m \in changes[n].for :
              (m # Local => m \in peers \cap ready /\ Serving(m)) /\ OnWay(n, o, m)
    BY <2>1 DEF AllOnWay
  <2>4. ASSUME NEW m, OnWay(n, o, m) PROVE OnWay(n, o, m)'
    <3>1. Saw(m, n) => Saw(m, n)'
      BY DEF Saw
    <3> QED BY <2>2, <2>4, <3>1, WayKept
  <2> QED BY <2>1, <2>3, <2>4
<1> QED BY <1>2, <1>3

LEMMA CarriedClientChange ==
    ASSUME Typed, AllOnWay, Calm, NEW c \in Conns, ClientChange(c)
    PROVE  AllOnWay'
<1>0. up \in [Conns -> Seq(Msgs)] /\ up[c] \in Seq(Msgs) /\ c \in Machines /\ Len(changes) + 1 \in Nat
  BY DEF Typed, WiresTyped, Machines, BookTyped
<1>1. PICK r \in ChangeRecs : r.from = c /\ r.for = Audience(c) /\ changes' = Append(changes, r)
  BY <1>0, ChangeFacts DEF ClientChange
<1>2. PICK x \in Msgs : x = ClipMsg(Len(changes) + 1) /\ IsClip(x, Len(changes) + 1)
  BY <1>0, MsgsTyped DEF IsClip
<1>3. up' = Put(up, c, x) /\ UNCHANGED <<link, client, peers, ready, seen, down>> /\ UNCHANGED <<pc, job>>
  BY <1>2 DEF ClientChange, ends, hub
<1>4. up'[c] = Append(up[c], x) /\ \A d \in Conns : d # c => up'[d] = up[d]
  BY <1>0, <1>3 DEF Put
<1>5. Holds(up'[c], Len(changes) + 1) /\ \A o \in Conns : \A n : Holds(up[o], n) => Holds(up'[o], n)
  BY <1>0, <1>2, <1>4, HoldsFacts
<1>6. c \notin Audience(c) /\ \A m \in Audience(c) : m # Local => m \in peers \cap ready /\ Serving(m)
  BY DEF Audience
<1>7. \A n : n = Len(changes) + 1 => \A m : OnWay(n, c, m)'
  BY <1>5 DEF OnWay, Holds
<1>8. \A new : new = Len(changes) + 1 => \A m \in r.for : OnWay(new, r.from, m)'
  BY <1>1, <1>7
<1> QED BY <1>1, <1>3, <1>5, <1>6, <1>8, BringsSame, CarriedNew

LEMMA CarriedLocalChange ==
    ASSUME Typed, AllOnWay, Calm, LocalChange
    PROVE  AllOnWay'
<1>0. /\ Local \in Machines /\ Len(changes) + 1 \in Nat /\ Local \in Threads /\ pc[Local] = "idle"
      /\ peers \in SUBSET Conns /\ peers # {} /\ ThreadsTyped
  BY DEF Typed, HubTyped, BookTyped, Machines, Threads, LocalChange
<1>1. PICK r \in ChangeRecs : r.from = Local /\ r.for = Audience(Local) /\ changes' = Append(changes, r)
  BY <1>0, ChangeFacts DEF LocalChange
<1>2. PICK x \in Msgs : x = ClipMsg(Len(changes) + 1) /\ IsClip(x, Len(changes) + 1)
  BY <1>0, MsgsTyped DEF IsClip
<1>3. /\ StartJob(Local, x, peers, FALSE, "idle", "idle") /\ up' = up
      /\ UNCHANGED <<link, client, peers, ready, seen, down>>
  BY <1>2 DEF LocalChange, ends, hub, wires
<1>4. PICK to \in SUBSET Conns : to = peers
  BY <1>0
<1>5. /\ ThreadsTyped'
      /\ \A u \in Threads : u # Local => pc'[u] = pc[u] /\ job'[u] = job[u]
      /\ to = {} => pc'[Local] = "idle" /\ job' = job
      /\ to # {} => /\ pc'[Local] = "write" /\ job'[Local].msg = x /\ job'[Local].to = to
                    /\ job'[Local].ok = "idle" /\ job'[Local].bad = "idle"
  BY <1>0, <1>3, <1>4, StartJobFacts
<1>6. /\ Local \notin Audience(Local)
      /\ \A m \in Audience(Local) : m \in peers \cap ready /\ Serving(m)
  BY <1>0, HubAssumption DEF Audience
<1>7. ASSUME NEW new, new = Len(changes) + 1, NEW m \in peers
      PROVE  OnWay(new, Local, m)'
  BY <1>0, <1>2, <1>4, <1>5, <1>7 DEF OnWay, Brings, Doing, IsClip
<1>8. \A new : new = Len(changes) + 1 => \A m \in r.for : OnWay(new, r.from, m)'
  BY <1>1, <1>6, <1>7
<1>9. \A n, o, m : Brings(o, n, m) => Brings(o, n, m)' \/ o \notin Threads
  BY <1>0, <1>5, BringsKept
<1> QED BY <1>1, <1>3, <1>6, <1>8, <1>9, CarriedNew

LEMMA CarriedRest ==
    ASSUME Typed, AllOnWay, Calm, Ping \/ UNCHANGED vars \/ \E c, d \in Conns : ClientRelay(c, d)
    PROVE  AllOnWay'
<1>1. changes' = changes /\ seen' = seen /\ down' = down /\ UNCHANGED <<link, client, peers, ready>>
  BY DEF Ping, ClientRelay, vars, wires, ends, hub, book
<1>2. \A m \in peers \cap ready : Serving(m) => m \in peers' \cap ready' /\ Serving(m)'
  BY <1>1 DEF Serving
<1>3. CASE Ping
  <2>1. Pinger \in Threads /\ pc[Pinger] = "idle" /\ ThreadsTyped /\ up' = up
        /\ StartJob(Pinger, Msg("ping"), peers, FALSE, "idle", "idle")
    BY <1>3 DEF Ping, Threads, Typed, wires
  <2>2. \A u \in Threads : u # Pinger => pc'[u] = pc[u] /\ job'[u] = job[u]
    BY <2>1, StartMoves
  <2> QED BY <1>1, <1>2, <2>1, <2>2, CarriedQuiet
<1>4. CASE UNCHANGED vars \/ \E c, d \in Conns : ClientRelay(c, d)
  <2>1. UNCHANGED <<pc, job>>
    BY <1>4 DEF ClientRelay, vars
  <2>2. \A o \in Conns : \A n : Holds(up[o], n) => Holds(up'[o], n)
    <3>1. CASE UNCHANGED vars
      BY <3>1 DEF vars, wires
    <3>2. CASE \E c, d \in Conns : ClientRelay(c, d)
      <4>1. PICK c \in Conns, d \in Conns : ClientRelay(c, d)
        BY <3>2
      <4>2. PICK m \in Msgs : m = FileMsg(d)
        BY MsgsTyped
      <4>3. up' = Put(up, c, m) /\ \A e \in Conns : up[e] \in Seq(Msgs)
        BY <4>1, <4>2 DEF ClientRelay, Typed, WiresTyped
      <4>4. up'[c] = Append(up[c], m) /\ \A e \in Conns : e # c => up'[e] = up[e]
        BY <4>3 DEF Put, Typed, WiresTyped
      <4> QED BY <4>3, <4>4, HoldsFacts
    <3> QED BY <1>4, <3>1, <3>2
  <2>3. ASSUME NEW n, NEW m \in Machines, NEW o \in Machines, OnWay(n, o, m)
        PROVE  OnWay(n, o, m)'
    <3>1. Saw(m, n) => Saw(m, n)'
      BY <1>1 DEF Saw
    <3> QED BY <1>1, <2>1, <2>2, <2>3, <3>1, BringsSame, WayKept
  <2> QED BY <1>1, <1>2, <2>3, CarriedKept
<1> QED BY <1>3, <1>4

LEMMA AllOnWayStep == Typed /\ InOrder /\ NothingEnds /\ AllOnWay /\ [Next]_vars => AllOnWay'
<1> SUFFICES ASSUME Typed, InOrder, NothingEnds, AllOnWay, [Next]_vars, Calm' PROVE AllOnWay'
  BY DEF AllOnWay, Calm
<1>1. Calm
  BY CalmBefore DEF vars, hub, book, Calm
<1>2. ~CloseBegin /\ ~CloseEnd
      /\ \A c \in Conns : ~Disconnect(c) /\ ~ApplyFails(c) /\ ~Refuse(c) /\ ~Break(c) /\ ~Detect(c)
  <2>1. server' = "open" /\ ~broken' /\ Local \in Threads
    BY DEF Calm, Threads
  <2> QED BY <1>1, <2>1, NothingFails DEF CloseBegin, CloseEnd, Disconnect, ApplyFails, Refuse, Break
<1>3. ASSUME NEW t \in Threads, Writing(t) PROVE AllOnWay'
  BY <1>1, <1>3, CarriedWriting
<1>4. ASSUME NEW c \in Conns, Reader(c) \/ ApplyFails(c) PROVE AllOnWay'
  BY <1>1, <1>2, <1>4, CarriedReader, CarriedClip DEF Reader
<1>5. ASSUME NEW c \in Conns, Receive(c) PROVE AllOnWay'
  BY <1>1, <1>2, <1>5, CarriedReceive DEF Receive
<1>6. ASSUME NEW c \in Conns, Connect(c) \/ ClientChange(c) \/ Break(c) \/ Detect(c) PROVE AllOnWay'
  BY <1>1, <1>2, <1>6, CarriedConnect, CarriedClientChange
<1>7. CASE LocalChange
  BY <1>1, <1>7, CarriedLocalChange
<1>8. CASE Ping \/ UNCHANGED vars \/ \E c, d \in Conns : ClientRelay(c, d)
  BY <1>1, <1>8, CarriedRest
<1> QED BY <1>2, <1>3, <1>4, <1>5, <1>6, <1>7, <1>8 DEF Next

(* Nothing is left out: as long as no connection ends, a change reaches    *)
(* every machine that was in the session when it was made.                 *)
THEOREM HubChangeReachesAll == Spec => []ChangeReachesAll
<1>1. Init => NothingEnds /\ AllOnWay
  <2>1. NoJob.to = {}
    BY NoJobTyped
  <2>2. Init => NothingEnds
    BY <2>1 DEF Init, NothingEnds, Threads
  <2>3. Init => DOMAIN changes = {}
    BY DEF Init
  <2> QED BY <2>2, <2>3 DEF AllOnWay
<1>2. Typed /\ AllOnWay => ChangeReachesAll
  <2> SUFFICES ASSUME Typed, AllOnWay, Quiet, ~broken, NEW n \in DOMAIN changes, NEW m \in changes[n].for
               PROVE  Saw(m, n)
    BY DEF ChangeReachesAll, Saw
  <2>1. Origin(n) \in Threads /\ OnWay(n, Origin(n), m)
    BY ChangesTyped DEF AllOnWay, Calm, Quiet
  <2> QED BY <2>1 DEF Quiet, OnWay, Brings, Doing, Holds
<1> QED BY <1>1, <1>2, InitTyped, InitOrder, TypedStep, OrderStep, NothingEndsStep, AllOnWayStep, PTL DEF Spec

-----------------------------------------------------------------------------
(* Every client ends up with the router's arrangement. *)

LEMMA ShowsFacts ==
    ASSUME NEW q \in Seq(Msgs), NEW v, NEW L
    PROVE  /\ \A m \in Msgs : m.t # "layout" /\ Shows(q, v, L) => Shows(Append(q, m), v, L)
           /\ \A m \in Msgs : m.t = "layout" /\ m.shows = L => Shows(Append(q, m), v, L)
           /\ q # << >> /\ Shows(q, v, L) =>
                 Shows(Tail(q), IF Head(q).t = "layout" THEN Head(q).shows ELSE v, L)
<1>1. ASSUME NEW m \in Msgs, m.t # "layout", Shows(q, v, L) PROVE Shows(Append(q, m), v, L)
  <2>1. \A j \in DOMAIN Append(q, m) : (j \in DOMAIN q /\ Append(q, m)[j] = q[j]) \/ Append(q, m)[j] = m
    OBVIOUS
  <2>2. \A j \in DOMAIN q : j \in DOMAIN Append(q, m) /\ Append(q, m)[j] = q[j]
    OBVIOUS
  <2>3. CASE \A j \in DOMAIN q : q[j].t # "layout"
    BY <1>1, <2>1, <2>3 DEF Shows
  <2>4. CASE ~\A j \in DOMAIN q : q[j].t # "layout"
    <3>1. PICK i \in DOMAIN q : /\ q[i].t = "layout" /\ q[i].shows = L
                                /\ \A j \in DOMAIN q : j > i => q[j].t # "layout"
      BY <1>1, <2>4 DEF Shows
    <3>2. \A j \in DOMAIN Append(q, m) : j > i => Append(q, m)[j].t # "layout"
      BY <1>1, <2>1, <3>1
    <3>3. i \in DOMAIN Append(q, m) /\ Append(q, m)[i] = q[i]
      BY <2>2
    <3> QED BY <3>1, <3>2, <3>3 DEF Shows
  <2> QED BY <2>3, <2>4
<1>2. ASSUME NEW m \in Msgs, m.t = "layout", m.shows = L PROVE Shows(Append(q, m), v, L)
  <2>1. /\ Len(q) + 1 \in DOMAIN Append(q, m) /\ Append(q, m)[Len(q) + 1] = m
        /\ \A j \in DOMAIN Append(q, m) : ~(j > Len(q) + 1)
    OBVIOUS
  <2>2. PICK i \in DOMAIN Append(q, m) : /\ Append(q, m)[i] = m
                                         /\ \A j \in DOMAIN Append(q, m) : ~(j > i)
    BY <2>1
  <2> QED BY <1>2, <2>2 DEF Shows
<1>3. ASSUME q # << >>, Shows(q, v, L), NEW w, w = IF Head(q).t = "layout" THEN Head(q).shows ELSE v
      PROVE  Shows(Tail(q), w, L)
  <2>1. /\ \A j \in DOMAIN Tail(q) : j + 1 \in DOMAIN q /\ Tail(q)[j] = q[j + 1] /\ j \in Nat /\ j > 0
        /\ 1 \in DOMAIN q /\ Head(q) = q[1] /\ DOMAIN q \subseteq Nat
        /\ \A j \in DOMAIN q : j # 1 => j - 1 \in DOMAIN Tail(q) /\ Tail(q)[j - 1] = q[j]
    BY <1>3
  <2>2. CASE \A j \in DOMAIN q : q[j].t # "layout"
    <3>1. v = L
      BY <1>3, <2>2 DEF Shows
    <3>2. w = L /\ \A j \in DOMAIN Tail(q) : Tail(q)[j].t # "layout"
      BY <1>3, <2>1, <2>2, <3>1
    <3> QED BY <3>2 DEF Shows
  <2>3. CASE ~\A j \in DOMAIN q : q[j].t # "layout"
    <3>1. PICK i \in DOMAIN q : /\ q[i].t = "layout" /\ q[i].shows = L
                                /\ \A j \in DOMAIN q : j > i => q[j].t # "layout"
      BY <1>3, <2>3 DEF Shows
    <3>2. \A j \in DOMAIN Tail(q) : j + 1 > i => Tail(q)[j].t # "layout"
      BY <2>1, <3>1
    <3>3. CASE i = 1
      <4>1. w = L /\ \A j \in DOMAIN Tail(q) : Tail(q)[j].t # "layout"
        BY <1>3, <2>1, <3>1, <3>2, <3>3
      <4> QED BY <4>1 DEF Shows
    <3>4. CASE i # 1
      <4>1. i - 1 \in DOMAIN Tail(q) /\ Tail(q)[i - 1] = q[i] /\ i \in Nat
        BY <2>1, <3>4
      <4>2. PICK k \in DOMAIN Tail(q) : k = i - 1
        BY <4>1
      <4>3. Tail(q)[k] = q[i] /\ \A j \in DOMAIN Tail(q) : j > k => Tail(q)[j].t # "layout"
        BY <2>1, <3>2, <4>1, <4>2
      <4> QED BY <3>1, <4>3 DEF Shows
    <3> QED BY <3>3, <3>4
  <2> QED BY <2>2, <2>3
<1> QED BY <1>1, <1>2, <1>3

LEMMA LiveBefore ==
    ASSUME Typed, Next
    PROVE  /\ server' = "open" => server = "open"
           /\ ~overlap' => ~overlap
<1>1. ASSUME server' # server PROVE server' # "open"
  BY <1>1
  DEF Next, Writing, Write, PassOver, WriteFails, Reader, RecvHello, MarkReady, RecvReport, RecvClip, RecvFile,
      RecvPong, Disconnect, ReadPeers, Install, ApplyFails, Receive, Handshake, Refuse, Dispatch, Pong, Connect,
      ClientChange, Break, Detect, ClientRelay, LocalChange, Ping, CloseBegin, CloseEnd, hub
<1>2. ASSUME NEW t \in Threads, Writing(t) PROVE ~overlap' => ~overlap
  BY <1>2, Zenon DEF Writing, Write, PassOver, WriteFails, Done, Enter
<1>3. ASSUME NEW c \in Conns, Reader(c) PROVE ~overlap' => ~overlap
  BY <1>3, Zenon DEF Reader, RecvHello, MarkReady, RecvReport, RecvClip, RecvFile, RecvPong, Disconnect,
                     ReadPeers, Install, Enter, book
<1>4. ASSUME \A t \in Threads : ~Writing(t), \A c \in Conns : ~Reader(c) PROVE ~overlap' => ~overlap
  BY <1>4, Zenon DEF Next, ApplyFails, Receive, Handshake, Refuse, Dispatch, Pong, Connect, ClientChange, Break,
                     Detect, ClientRelay, LocalChange, Ping, CloseBegin, CloseEnd, book
<1> QED BY <1>1, <1>2, <1>3, <1>4

(* One thread moves and no arrangement is built or installed by it.        *)
LEMMA ArrangedMoves ==
    ASSUME Typed, OneRebuild, LayoutCurrent, PushesLayout, NEW t \in Threads,
           \A u \in Threads : u # t => pc'[u] = pc[u] /\ job'[u] = job[u],
           UNCHANGED <<layout, snap>>, server' = "open" => server = "open", ~overlap' => ~overlap,
           ~overlap' /\ Rebuilding(t)' => Rebuilding(t) \/ \A u \in Threads \ {t} : ~Rebuilding(u),
           \/ reported' = reported /\ pc[t] \notin {"build", "install"} /\ pc'[t] \notin {"build", "install"}
           \/ t \in Conns /\ pc'[t] = "build",
           Doing(t, "layout")' => /\ Doing(t, "layout") /\ job'[t].to \subseteq job[t].to
                                  /\ job'[t].msg = job[t].msg /\ job'[t].ok = job[t].ok,
           \/ peers \subseteq peers'
           \/ ~Doing(t, "layout")' /\ (~overlap' => \A u \in Threads \ {t} : ~Rebuilding(u))
    PROVE  OneRebuild' /\ LayoutCurrent' /\ PushesLayout'
<1>1. \A u \in Threads : u # t => /\ Rebuilding(u)' = Rebuilding(u)
                                  /\ Doing(u, "layout")' = Doing(u, "layout")
  BY DEF Rebuilding, Doing
<1>2. OneRebuild'
  <2> SUFFICES ASSUME ~overlap', NEW u \in Threads, NEW w \in Threads, Rebuilding(u)', Rebuilding(w)', u # w
               PROVE  FALSE
    BY DEF OneRebuild
  <2>1. \A x \in Threads : x # t /\ Rebuilding(x)' => Rebuilding(x)
    BY <1>1
  <2>2. CASE u # t /\ w # t
    BY <2>1, <2>2 DEF OneRebuild
  <2>3. CASE u = t
    BY <2>1, <2>3 DEF OneRebuild
  <2>4. CASE w = t
    BY <2>1, <2>4 DEF OneRebuild
  <2> QED BY <2>2, <2>3, <2>4
<1>3. LayoutCurrent'
  <2> SUFFICES ASSUME server' = "open", ~overlap', \A c \in Conns : pc'[c] # "build"
               PROVE  /\ \A c \in Conns : pc'[c] = "install" => snap'[c] = reported'
                      /\ (\A c \in Conns : pc'[c] # "install") => layout' = reported'
    BY DEF LayoutCurrent, Live
  <2>1. /\ \A c \in Conns : pc[c] # "build" /\ (pc[c] = "install" <=> pc'[c] = "install")
        /\ reported' = reported /\ layout' = layout /\ snap' = snap
    BY DEF Threads
  <2> QED BY <2>1 DEF LayoutCurrent, Live
<1>4. PushesLayout'
  <2> SUFFICES ASSUME server' = "open", ~overlap', NEW u \in Threads, Doing(u, "layout")'
               PROVE  job'[u].to \subseteq peers' /\ job'[u].msg.shows = layout' /\ job'[u].ok = "idle"
    BY DEF PushesLayout, Live
  <2>1. /\ Doing(u, "layout") /\ job'[u].to \subseteq job[u].to
        /\ job'[u].msg = job[u].msg /\ job'[u].ok = job[u].ok
    BY <1>1
  <2>2. job[u].to \subseteq peers /\ job[u].msg.shows = layout /\ job[u].ok = "idle"
    BY <2>1 DEF PushesLayout, Live
  <2>3. peers \subseteq peers'
    BY <1>1, <2>1 DEF Rebuilding, Doing
  <2> QED BY <2>1, <2>2, <2>3
<1> QED BY <1>2, <1>3, <1>4

LEMMA ViewsOwed == ASSUME NEW c \in Conns, Owing(c)' PROVE ViewsFollow'
BY DEF ViewsFollow

LEMMA ViewsKept ==
    ASSUME ViewsFollow, server' = "open" => server = "open", ~overlap' => ~overlap,
           layout' = layout, peers' = peers, \A c \in Conns : Owing(c) => Owing(c)',
           \A c \in peers : Shows(down[c], view[c], layout) => Shows(down'[c], view'[c], layout),
           \A c \in peers, u \in Threads : Pushes(u, c) =>
              \/ Pushes(u, c)' \/ Shows(down'[c], view'[c], layout)
              \/ \E d \in Conns : Owing(d)'
    PROVE  ViewsFollow'
<1> SUFFICES ASSUME server' = "open", ~overlap', \A c \in Conns : ~Owing(c)', NEW c \in peers
             PROVE  Shows(down'[c], view'[c], layout) \/ \E t \in Threads : Pushes(t, c)'
  BY DEF ViewsFollow, Live
<1>1. Shows(down[c], view[c], layout) \/ \E t \in Threads : Pushes(t, c)
  BY DEF ViewsFollow, Live
<1> QED BY <1>1

(* No thread of the server moves. *)
LEMMA ArrangedSame ==
    ASSUME Typed, Arranged, UNCHANGED <<pc, job, peers, reported, layout, snap>>,
           server' = "open" => server = "open", ~overlap' => ~overlap
    PROVE  OneRebuild' /\ LayoutCurrent' /\ PushesLayout'
<1>1. Local \in Threads /\ pc[Local] \in {"idle", "write"}
  BY DEF Threads, Typed, ThreadsTyped
<1>2. Rebuilding(Local)' = Rebuilding(Local) /\ Doing(Local, "layout")' = Doing(Local, "layout")
  BY DEF Rebuilding, Doing
<1> QED BY <1>1, <1>2, ArrangedMoves DEF Arranged

LEMMA ArrangedQuiet ==
    ASSUME Typed, Arranged, UNCHANGED <<pc, job, peers, reported, layout, snap>>,
           server' = "open" => server = "open", ~overlap' => ~overlap,
           \A c \in Conns : link[c] \in {"half", "dead"} => link'[c] \in {"half", "dead"},
           \A c \in peers : Shows(down[c], view[c], layout) => Shows(down'[c], view'[c], layout)
    PROVE  Arranged'
<1>1. \A c \in Conns : Owing(c) => Owing(c)'
  BY DEF Owing
<1>2. \A c \in peers, u \in Threads : Pushes(u, c) => Pushes(u, c)'
  BY DEF Pushes, Doing
<1> QED BY <1>1, <1>2, ArrangedSame, ViewsKept DEF Arranged

LEMMA ArrangedReceive ==
    ASSUME Typed, Arranged, NEW c \in Conns, Receive(c)
    PROVE  Arranged'
<1>1. UNCHANGED hub /\ UNCHANGED <<pc, job, snap, overlap>>
  BY DEF Receive, Handshake, Refuse, Dispatch, Pong, book
<1>2. UNCHANGED <<peers, reported, layout, server>>
  BY <1>1 DEF hub
<1>3. CASE Refuse(c)
  <2>1. link'[c] = "dead"
    BY <1>3 DEF Refuse, Cut
  <2>2. Owing(c)'
    BY <2>1 DEF Owing
  <2> QED BY <1>1, <1>2, <2>2, ArrangedSame, ViewsOwed DEF Arranged
<1>4. CASE Handshake(c) \/ Dispatch(c) \/ Pong(c)
  <2>1. /\ link' = link /\ down' = Pop(down, c) /\ down \in [Conns -> Seq(Msgs)] /\ down[c] # << >>
        /\ view \in [Conns -> SUBSET Machines]
    BY <1>4 DEF Handshake, Dispatch, Pong, Arrived, Typed, WiresTyped, ends, EndsTyped
  <2>2. down'[c] = Tail(down[c]) /\ \A d \in Conns : d # c => down'[d] = down[d]
    BY <2>1, PopFacts
  <2>3. /\ view'[c] = IF Head(down[c]).t = "layout" THEN Head(down[c]).shows ELSE view[c]
        /\ \A d \in Conns : d # c => view'[d] = view[d]
    <3>1. CASE Dispatch(c)
      BY <2>1, <3>1 DEF Dispatch
    <3>2. CASE Handshake(c) \/ Pong(c)
      BY <3>2 DEF Handshake, Pong, ends
    <3> QED BY <1>4, <3>1, <3>2
  <2>4. \A d \in Conns : Shows(down[d], view[d], layout) => Shows(down'[d], view'[d], layout)
    BY <2>1, <2>2, <2>3, ShowsFacts
  <2> QED BY <1>1, <1>2, <2>1, <2>4, ArrangedQuiet DEF Typed, HubTyped
<1> QED BY <1>3, <1>4 DEF Receive

LEMMA ArrangedClients ==
    ASSUME Typed, Arranged, NEW c \in Conns, NEW d \in Conns,
           Connect(c) \/ ClientChange(c) \/ ClientRelay(c, d) \/ Break(c) \/ Detect(c)
    PROVE  Arranged'
<1>1. UNCHANGED <<peers, reported, layout, server, pc, job, snap, overlap>>
  BY DEF Connect, ClientChange, ClientRelay, Break, Detect, hub, book
<1>2. CASE Break(c) \/ Detect(c)
  <2>1. link'[c] \in {"half", "dead"}
    BY <1>2 DEF Break, Detect, Cut, Typed, WiresTyped
  <2>2. Owing(c)'
    BY <2>1 DEF Owing
  <2> QED BY <1>1, <2>2, ArrangedSame, ViewsOwed DEF Arranged
<1>3. CASE ClientChange(c) \/ ClientRelay(c, d)
  <2>1. link' = link /\ down' = down /\ view' = view
    BY <1>3 DEF ClientChange, ClientRelay, ends
  <2> QED BY <1>1, <2>1, ArrangedQuiet
<1>4. CASE Connect(c)
  <2>1. /\ c \notin peers /\ link[c] \in {"none", "closed"} /\ down' = down
        /\ \A e \in Conns : e # c => link'[e] = link[e] /\ view'[e] = view[e]
    BY <1>4 DEF Connect, Typed, HubTyped, WiresTyped, EndsTyped
  <2> QED BY <1>1, <2>1, ArrangedQuiet DEF Typed, HubTyped
<1> QED BY <1>2, <1>3, <1>4

(* Of a layout that is being pushed, the peers it has not reached keep     *)
(* their push, or a rebuild is owed.                                       *)
LEMMA ArrangedWriting ==
    ASSUME Typed, Arranged, NEW t \in Threads, Writing(t)
    PROVE  Arranged'
<1>1. PICK c \in Conns : Write(t, c) \/ PassOver(t, c) \/ WriteFails(t, c)
  BY DEF Writing
<1>2. /\ UNCHANGED hub /\ link' = link /\ view' = view /\ snap' = snap /\ Writes(t, c)
      /\ pc[t] = "write" /\ c \in job[t].to /\ ThreadsTyped /\ IsJob(job[t])
  BY <1>1 DEF Write, PassOver, WriteFails, wires, ends, Writes, Typed, ThreadsTyped
<1>3. UNCHANGED <<peers, ready, reported, layout, server>> /\ (t \in {Local, Pinger} => job[t].ok = "idle")
      /\ job[t].ok \in {"idle", "build"} /\ job[t].bad \in {"idle", "end"}
  BY <1>2 DEF hub, ThreadsTyped, IsJob
<1>4. Doing(t, "layout") => job[t].to \subseteq peers \/ ~Live
  BY DEF Arranged, PushesLayout
<1>5. c \in peers => link[c] \in {"up", "half", "dead"} /\ (c \notin ready => pc[c] = "mark")
  BY <1>2 DEF Typed, HubTyped
<1>6. ~overlap' => ~overlap
  BY LiveBefore DEF Next
<1>7. c \in peers /\ ~Write(t, c) => Owing(c)'
  <2> SUFFICES ASSUME c \in peers, ~Write(t, c) PROVE Owing(c)'
    OBVIOUS
  <2>1. CASE PassOver(t, c)
    <3>1. pc[c] = "mark"
      BY <1>5, <2>1 DEF PassOver, Wanted
    <3>2. pc'[c] = "mark"
      BY <1>1, <3>1, WritingMoves
    <3> QED BY <3>2 DEF Owing
  <2>2. CASE WriteFails(t, c)
    BY <1>2, <1>5, <2>2 DEF WriteFails, Open, Owing
  <2> QED BY <1>1, <2>1, <2>2
<1>8. CASE Done(t, c)
  <2>1. \A u \in Threads : u # t => pc'[u] = pc[u] /\ job'[u] = job[u]
    BY <1>2, <1>8, DoneFacts
  <2>2. \/ /\ job[t].to = {c} /\ pc'[t] = job[t].ok /\ job'[t] = NoJob
           /\ overlap' = (overlap \/ (job[t].ok = "build" /\ \E u \in Threads \ {t} : Rebuilding(u)))
        \/ /\ pc' = pc /\ overlap' = overlap
           /\ job'[t].to = job[t].to \ {c} /\ job'[t].msg = job[t].msg
           /\ job'[t].ok = job[t].ok /\ job'[t].bad = job[t].bad
    BY <1>2, <1>8, DoneFacts
  <2>3. /\ \/ reported' = reported /\ pc[t] \notin {"build", "install"} /\ pc'[t] \notin {"build", "install"}
           \/ t \in Conns /\ pc'[t] = "build"
        /\ ~overlap' /\ Rebuilding(t)' => Rebuilding(t) \/ \A u \in Threads \ {t} : ~Rebuilding(u)
        /\ Doing(t, "layout")' => /\ Doing(t, "layout") /\ job'[t].to \subseteq job[t].to
                                  /\ job'[t].msg = job[t].msg /\ job'[t].ok = job[t].ok
    BY <1>2, <1>3, <2>2 DEF Threads, Rebuilding, Doing
  <2>4. OneRebuild' /\ LayoutCurrent' /\ PushesLayout'
    BY <1>2, <1>3, <1>6, <2>1, <2>3, ArrangedMoves DEF Arranged
  <2>5. \A d \in Conns : Owing(d) => Owing(d)'
    BY <1>2, <2>1, <2>2 DEF Owing, Threads
  <2>6. CASE ~Live'
    BY <2>4, <2>6 DEF Arranged, ViewsFollow
  <2>7. CASE Live'
    <3>1. Live
      BY <1>3, <1>6, <2>7 DEF Live
    <3>2. ASSUME NEW d \in peers, Write(t, c), Shows(down[d], view[d], layout) \/ (d = c /\ Doing(t, "layout"))
          PROVE  Shows(down'[d], view'[d], layout)
      <4>1. PICK m \in Msgs : m = job[t].msg
        BY <1>2 DEF IsJob
      <4>2. down' = Put(down, c, m) /\ down \in [Conns -> Seq(Msgs)] /\ d \in Conns
        BY <3>2, <4>1 DEF Write, Typed, WiresTyped, HubTyped
      <4>3. down'[c] = Append(down[c], m) /\ \A e \in Conns : e # c => down'[e] = down[e]
        BY <4>2 DEF Put
      <4>4. m.t = "layout" => m.shows = layout
        BY <1>2, <3>1, <4>1 DEF Arranged, PushesLayout, Doing
      <4>5. CASE d # c
        BY <1>2, <3>2, <4>2, <4>3, <4>5
      <4>6. CASE d = c /\ m.t = "layout"
        BY <1>2, <4>2, <4>3, <4>4, <4>6, ShowsFacts
      <4>7. CASE d = c /\ m.t # "layout"
        BY <1>2, <3>2, <4>1, <4>2, <4>3, <4>7, ShowsFacts DEF Doing
      <4> QED BY <4>5, <4>6, <4>7
    <3>3. \A d \in peers : Shows(down[d], view[d], layout) => Shows(down'[d], view'[d], layout)
      <4>1. ~Write(t, c) => down' = down
        BY <1>1 DEF PassOver, WriteFails, wires
      <4> QED BY <1>2, <3>2, <4>1
    <3>4. ASSUME NEW d \in peers, NEW u \in Threads, Pushes(u, d)
          PROVE  \/ Pushes(u, d)' \/ Shows(down'[d], view'[d], layout)
                 \/ \E e \in Conns : Owing(e)'
      <4>1. CASE u # t
        BY <2>1, <3>4, <4>1 DEF Pushes, Doing
      <4>2. CASE u = t /\ d # c
        BY <1>2, <2>2, <3>4, <4>2 DEF Pushes, Doing
      <4>3. CASE u = t /\ d = c
        BY <1>7, <3>2, <3>4, <4>3 DEF Pushes
      <4> QED BY <4>1, <4>2, <4>3
    <3>5. ViewsFollow'
      BY <1>3, <1>6, <2>5, <3>3, <3>4, ViewsKept DEF Arranged
    <3> QED BY <2>4, <3>5 DEF Arranged
  <2> QED BY <2>6, <2>7
<1>9. CASE ~Done(t, c)
  <2>1. t # Pinger /\ Enter(t, job[t].bad) /\ job' = [job EXCEPT ![t] = NoJob] /\ ~Write(t, c) /\ down' = down
        /\ overlap \in BOOLEAN
    BY <1>1, <1>9 DEF Write, PassOver, WriteFails, wires, Typed, BookTyped
  <2>2. /\ pc'[t] = job[t].bad /\ job'[t] = NoJob /\ overlap' = overlap
        /\ \A u \in Threads : u # t => pc'[u] = pc[u] /\ job'[u] = job[u]
    BY <1>2, <2>1, FailFacts
  <2>3. OneRebuild' /\ LayoutCurrent' /\ PushesLayout'
    <3>1. ~Rebuilding(t)' /\ ~Doing(t, "layout")'
      BY <1>3, <2>2 DEF Rebuilding, Doing
    <3>2. pc[t] \notin {"build", "install"} /\ pc'[t] \notin {"build", "install"}
      BY <1>2, <1>3, <2>2
    <3> QED BY <1>2, <1>3, <1>6, <2>2, <3>1, <3>2, ArrangedMoves DEF Arranged
  <2>4. CASE ~Live'
    BY <2>3, <2>4 DEF Arranged, ViewsFollow
  <2>5. CASE Live' /\ Doing(t, "layout")
    <3>1. c \in peers
      BY <1>2, <1>3, <1>4, <1>6, <2>5 DEF Live
    <3> QED BY <1>7, <2>1, <2>3, <3>1, ViewsOwed DEF Arranged
  <2>6. CASE job[t].bad = "end"
    <3>1. t \in Conns
      BY <2>1, <2>6 DEF Typed, ThreadsTyped, Threads
    <3> QED BY <2>2, <2>3, <2>6, <3>1, ViewsOwed DEF Arranged, Owing
  <2>7. CASE Live' /\ ~Doing(t, "layout") /\ job[t].bad = "idle"
    <3>1. \A d \in Conns : Owing(d) => Owing(d)'
      <4>1. job[t].ok = "idle"
        BY <1>2, <2>7 DEF IsJob
      <4> QED BY <1>2, <2>2, <4>1 DEF Owing, Threads
    <3>2. \A d \in peers, u \in Threads : Pushes(u, d) => Pushes(u, d)'
      BY <2>2, <2>7 DEF Pushes, Doing
    <3> QED BY <1>2, <1>3, <1>6, <2>1, <2>3, <3>1, <3>2, ViewsKept DEF Arranged
  <2> QED BY <1>3, <2>4, <2>5, <2>6, <2>7
<1> QED BY <1>8, <1>9

(* A thread that begins to write something else than an arrangement.       *)
LEMMA ArrangedStart ==
    ASSUME Typed, Arranged, NEW t \in Threads, NEW msg \in Msgs, msg.t # "layout", NEW to, NEW all, NEW bad,
           pc[t] = "idle", StartJob(t, msg, to, all, "idle", bad),
           UNCHANGED <<peers, reported, layout, server, overlap, snap, link, down, view>>
    PROVE  Arranged'
<1>1. t \in DOMAIN pc /\ t \in DOMAIN job /\ ThreadsTyped /\ job[t] = NoJob
  BY DEF Typed, ThreadsTyped
<1>2. \A u \in Threads : u # t => pc'[u] = pc[u] /\ job'[u] = job[u]
  BY <1>1, StartMoves
<1>3. pc'[t] = "idle" \/ (pc'[t] = "write" /\ job'[t].msg = msg)
  <2>1. PICK j : j = [msg |-> msg, to |-> to, all |-> all, ok |-> "idle", bad |-> bad]
    OBVIOUS
  <2>2. pc' = [pc EXCEPT ![t] = "idle"] \/ (pc' = [pc EXCEPT ![t] = "write"] /\ job' = [job EXCEPT ![t] = j])
    BY <2>1, Zenon DEF StartJob
  <2>3. j.msg = msg
    BY <2>1
  <2> QED BY <1>1, <2>2, <2>3
<1>4. ~Rebuilding(t)' /\ ~Doing(t, "layout")'
  BY <1>3 DEF Rebuilding, Doing
<1>5. OneRebuild' /\ LayoutCurrent' /\ PushesLayout'
  <2>1. reported' = reported /\ pc[t] \notin {"build", "install"} /\ pc'[t] \notin {"build", "install"}
    BY <1>3
  <2> QED BY <1>2, <1>4, <2>1, ArrangedMoves DEF Arranged
<1>6. \A c \in Conns : Owing(c) => Owing(c)'
  BY <1>2 DEF Owing, Threads
<1>7. \A c \in peers, u \in Threads : Pushes(u, c) => Pushes(u, c)'
  BY <1>2 DEF Pushes, Doing
<1> QED BY <1>5, <1>6, <1>7, ViewsKept DEF Arranged

(* A read goroutine comes to a place where a rebuild is owed.              *)
LEMMA ArrangedPlace ==
    ASSUME Typed, Arranged, NEW c \in Conns, NEW to \in {"mark", "end", "build"},
           pc' = [pc EXCEPT ![c] = to], job' = job, pc[c] \notin {"write", "build", "install"},
           UNCHANGED <<layout, server, snap>>, to # "build" => reported' = reported,
           ~overlap' => ~overlap,
           to = "build" /\ ~overlap' => \A u \in Threads \ {c} : ~Rebuilding(u),
           peers \subseteq peers' \/ to = "build"
    PROVE  Arranged'
<1>1. c \in Threads /\ pc'[c] = to /\ \A u \in Threads : u # c => pc'[u] = pc[u] /\ job'[u] = job[u]
  BY DEF Typed, ThreadsTyped, Threads
<1>2. OneRebuild' /\ LayoutCurrent' /\ PushesLayout'
  <2>1. ~Doing(c, "layout")' /\ (Rebuilding(c)' => to = "build")
    BY <1>1 DEF Doing, Rebuilding
  <2>2. \/ reported' = reported /\ pc[c] \notin {"build", "install"} /\ pc'[c] \notin {"build", "install"}
        \/ c \in Conns /\ pc'[c] = "build"
    BY <1>1
  <2> QED BY <1>1, <2>1, <2>2, ArrangedMoves DEF Arranged
<1>3. Owing(c)'
  BY <1>1 DEF Owing
<1> QED BY <1>2, <1>3, ViewsOwed DEF Arranged

(* The rebuild itself: what is installed is what the peers last reported,  *)
(* and it is pushed to every peer.                                         *)
LEMMA ArrangedReadPeers ==
    ASSUME Typed, Arranged, NEW c \in Conns, ReadPeers(c)
    PROVE  Arranged'
<1>1. /\ pc[c] = "build" /\ pc' = [pc EXCEPT ![c] = "install"] /\ job' = job /\ c \in Threads
      /\ snap' = [snap EXCEPT ![c] = peers \cap ready \cap reported]
      /\ UNCHANGED <<peers, reported, layout, server, overlap>>
  BY DEF ReadPeers, hub, book, Threads
<1>2. pc'[c] = "install" /\ \A u \in Threads : u # c => pc'[u] = pc[u]
  BY <1>1 DEF Typed, ThreadsTyped
<1>3. snap'[c] = reported
  BY <1>1 DEF Typed, HubTyped
<1>4. \A u \in Threads : Rebuilding(u)' = Rebuilding(u) /\ Doing(u, "layout")' = Doing(u, "layout")
  BY <1>1, <1>2 DEF Rebuilding, Doing
<1>5. OneRebuild'
  BY <1>1, <1>4 DEF Arranged, OneRebuild
<1>6. LayoutCurrent'
  <2> SUFFICES ASSUME ~overlap', NEW d \in Conns, pc'[d] = "install" PROVE snap'[d] = reported'
    BY <1>2 DEF LayoutCurrent, Live
  <2>1. Rebuilding(c) /\ Rebuilding(d) /\ d \in Threads
    BY <1>1, <1>2 DEF Rebuilding, Threads
  <2>2. d = c
    BY <1>1, <2>1 DEF Arranged, OneRebuild
  <2> QED BY <1>1, <1>3, <2>2
<1>7. PushesLayout'
  BY <1>1, <1>4 DEF Arranged, PushesLayout, Live
<1>8. Owing(c)'
  BY <1>2 DEF Owing
<1> QED BY <1>5, <1>6, <1>7, <1>8, ViewsOwed DEF Arranged

LEMMA ArrangedInstall ==
    ASSUME Typed, Arranged, NEW c \in Conns, Install(c)
    PROVE  Arranged'
<1>1. /\ pc[c] = "install" /\ layout' = snap[c] /\ snap' = [snap EXCEPT ![c] = {}] /\ c \in Threads
      /\ StartJob(c, LayoutMsg(snap[c]), peers, FALSE, "idle", "idle")
      /\ UNCHANGED <<peers, reported, server, overlap, link>>
  BY DEF Install, wires, book, Threads
<1>2. snap[c] \in SUBSET Conns /\ peers \in SUBSET Conns /\ c \in DOMAIN pc /\ c \in DOMAIN job /\ ThreadsTyped
  BY <1>1 DEF Typed, HubTyped, ThreadsTyped
<1>3. PICK m \in Msgs : m = LayoutMsg(snap[c]) /\ m.t = "layout" /\ m.shows = snap[c]
  BY <1>2, MsgsTyped
<1>4. \A u \in Threads : u # c => pc'[u] = pc[u] /\ job'[u] = job[u]
  BY <1>1, <1>2, StartMoves
<1>5. /\ peers = {} => pc'[c] = "idle"
      /\ peers # {} => pc'[c] = "write" /\ job'[c].msg = m /\ job'[c].to = peers /\ job'[c].ok = "idle"
  <2>1. \E f : StartJob(c, m, peers, f, "idle", "idle")
    BY <1>1, <1>3
  <2>2. PICK f : StartJob(c, m, peers, f, "idle", "idle")
    BY <2>1
  <2>3. PICK j : j = [msg |-> m, to |-> peers, all |-> f, ok |-> "idle", bad |-> "idle"]
    OBVIOUS
  <2>4. /\ peers = {} => pc' = [pc EXCEPT ![c] = "idle"]
        /\ peers # {} => pc' = [pc EXCEPT ![c] = "write"] /\ job' = [job EXCEPT ![c] = j]
    BY <2>2, <2>3, Zenon DEF StartJob
  <2>5. j.msg = m /\ j.to = peers /\ j.ok = "idle"
    BY <2>3
  <2> QED BY <1>2, <2>4, <2>5
<1>6. Rebuilding(c) /\ \A u \in Threads : u # c => /\ Rebuilding(u)' = Rebuilding(u)
                                                  /\ Doing(u, "layout")' = Doing(u, "layout")
  BY <1>1, <1>4 DEF Rebuilding, Doing
<1>7. OneRebuild'
  BY <1>1, <1>6 DEF Arranged, OneRebuild
<1>8. CASE ~Live'
  BY <1>7, <1>8 DEF Arranged, LayoutCurrent, PushesLayout, ViewsFollow
<1>9. CASE Live'
  <2>1. Live /\ \A u \in Threads : u # c => ~Rebuilding(u)
    BY <1>1, <1>6, <1>9 DEF Live, Arranged, OneRebuild
  <2>2. \A d \in Conns : d # c => pc[d] \notin {"build", "install"} /\ pc'[d] \notin {"build", "install"}
    BY <1>4, <2>1 DEF Rebuilding, Threads
  <2>3. layout' = reported' /\ pc'[c] \notin {"build", "install"}
    BY <1>1, <1>5, <2>1, <2>2 DEF Arranged, LayoutCurrent
  <2>4. LayoutCurrent'
    BY <2>2, <2>3 DEF LayoutCurrent
  <2>5. PushesLayout'
    <3> SUFFICES ASSUME NEW u \in Threads, Doing(u, "layout")'
                 PROVE  job'[u].to \subseteq peers' /\ job'[u].msg.shows = layout' /\ job'[u].ok = "idle"
      BY DEF PushesLayout
    <3>1. u = c
      BY <1>6, <2>1 DEF Doing, Rebuilding
    <3> QED BY <1>1, <1>3, <1>5, <3>1 DEF Doing
  <2>6. ViewsFollow'
    <3>1. \A d \in peers : Pushes(c, d)'
      BY <1>3, <1>5 DEF Pushes, Doing
    <3> QED BY <1>1, <3>1 DEF ViewsFollow
  <2> QED BY <1>7, <2>4, <2>5, <2>6 DEF Arranged
<1> QED BY <1>8, <1>9

LEMMA ArrangedReader ==
    ASSUME Typed, Arranged, NEW c \in Conns, Reader(c) \/ ApplyFails(c)
    PROVE  Arranged'
<1>0. /\ ~overlap' => ~overlap
      /\ server' = server
  BY LiveBefore
  DEF Next, Reader, RecvHello, MarkReady, RecvReport, RecvClip, RecvFile, RecvPong, Disconnect, ReadPeers, Install,
      ApplyFails, hub
<1>1. CASE RecvHello(c)
  <2>1. /\ pc[c] = "idle" /\ pc' = [pc EXCEPT ![c] = "mark"] /\ job' = job /\ peers \subseteq peers'
        /\ UNCHANGED <<reported, layout, server, snap>>
    BY <1>1 DEF RecvHello, Next1
  <2> QED BY <1>0, <2>1, ArrangedPlace
<1>2. CASE MarkReady(c)
  <2>1. PICK m \in Msgs : m = Msg("ack") /\ m.t = "ack"
    BY MsgsTyped DEF MsgTypes
  <2>2. /\ pc[c] = "mark" /\ StartJob(c, m, {c}, TRUE, "build", "end") /\ c \in Threads /\ ThreadsTyped
        /\ c \notin {Local, Pinger} /\ {c} \in SUBSET Conns
        /\ UNCHANGED <<peers, reported, layout, server, overlap, snap>>
    BY <1>2, <2>1, HubAssumption DEF MarkReady, book, Typed, Threads
  <2>3. /\ ThreadsTyped'
        /\ \A u \in Threads : u # c => pc'[u] = pc[u] /\ job'[u] = job[u]
        /\ {c} = {} => pc'[c] = "build" /\ job' = job
        /\ {c} # {} => /\ pc'[c] = "write" /\ job'[c].msg = m /\ job'[c].to = {c}
                       /\ job'[c].ok = "build" /\ job'[c].bad = "end"
    BY <2>2, StartJobFacts
  <2>4. pc'[c] = "write" /\ job'[c].msg = m /\ job'[c].ok = "build"
    BY <2>3
  <2>5. ~Rebuilding(c)' /\ ~Doing(c, "layout")'
    BY <2>1, <2>4 DEF Rebuilding, Doing
  <2>6. reported' = reported /\ pc[c] \notin {"build", "install"} /\ pc'[c] \notin {"build", "install"}
    BY <2>2, <2>4
  <2>7. OneRebuild' /\ LayoutCurrent' /\ PushesLayout'
    BY <2>2, <2>3, <2>5, <2>6, ArrangedMoves DEF Arranged
  <2>8. Owing(c)'
    BY <2>4 DEF Owing
  <2> QED BY <2>7, <2>8, ViewsOwed DEF Arranged
<1>3. CASE RecvReport(c)
  <2>1. /\ pc[c] = "idle" /\ job' = job /\ link' = link /\ down' = down /\ view' = view
        /\ UNCHANGED <<peers, layout, server, snap>>
    BY <1>3 DEF RecvReport, Next1, Take, ends
  <2>2. CASE c \in peers
    <3>1. /\ pc' = [pc EXCEPT ![c] = "build"]
          /\ ~overlap' => \A u \in Threads \ {c} : ~Rebuilding(u)
      BY <1>3, <2>2, Zenon DEF RecvReport, Enter
    <3> QED BY <1>0, <2>1, <3>1, ArrangedPlace
  <2>3. CASE c \notin peers
    <3>1. UNCHANGED <<reported, pc, overlap>>
      BY <1>3, <2>3 DEF RecvReport
    <3> QED BY <2>1, <3>1, ArrangedQuiet
  <2> QED BY <2>2, <2>3
<1>4. CASE RecvClip(c) \/ RecvFile(c)
  <2>1. PICK type \in {"clip", "file"} : Next1(c, type) /\ Take(c)
    BY <1>4 DEF RecvClip, RecvFile
  <2>2. PICK m \in Msgs : m = Head(up[c]) /\ m.t # "layout"
    BY <2>1, TakesHead DEF Next1
  <2>3. /\ pc[c] = "idle" /\ c \in Threads /\ link' = link /\ down' = down /\ view' = view
        /\ UNCHANGED <<peers, reported, layout, server, overlap, snap>>
    BY <1>4, <2>1 DEF RecvClip, RecvFile, hub, Take, Next1, ends, book, Threads
  <2>4. UNCHANGED <<pc, job>> \/ \E to, f : StartJob(c, m, to, f, "idle", "end")
    <3>1. CASE RecvClip(c)
      BY <2>2, <3>1 DEF RecvClip
    <3>2. CASE RecvFile(c)
      <4> DEFINE to == {Head(up[c]).to} \cap peers \cap ready
      <4>1. UNCHANGED <<pc, job>> \/ StartJob(c, Head(up[c]), to, TRUE, "idle", "end")
        BY <3>2 DEF RecvFile
      <4> HIDE DEF to
      <4> QED BY <2>2, <4>1
    <3> QED BY <1>4, <3>1, <3>2
  <2>5. CASE UNCHANGED <<pc, job>>
    BY <2>3, <2>5, ArrangedQuiet
  <2>6. CASE \E to, f : StartJob(c, m, to, f, "idle", "end")
    <3>1. PICK to, f : StartJob(c, m, to, f, "idle", "end")
      BY <2>6
    <3> QED BY <2>2, <2>3, <3>1, ArrangedStart
  <2> QED BY <2>4, <2>5, <2>6
<1>5. CASE RecvPong(c)
  <2>1. /\ UNCHANGED <<pc, job, peers, reported, layout, snap>> /\ link' = link /\ down' = down /\ view' = view
    BY <1>5 DEF RecvPong, Take, hub, ends
  <2> QED BY <1>0, <2>1, ArrangedQuiet
<1>6. CASE ApplyFails(c)
  <2>1. /\ pc[c] = "idle" /\ pc' = [pc EXCEPT ![c] = "end"] /\ job' = job
        /\ UNCHANGED <<peers, reported, layout, server, snap>>
    BY <1>6 DEF ApplyFails, Next1, hub
  <2> QED BY <1>0, <2>1, ArrangedPlace
<1>7. CASE Disconnect(c)
  <2>1. /\ pc[c] \in {"end", "idle"} /\ pc' = [pc EXCEPT ![c] = "build"] /\ job' = job
        /\ UNCHANGED <<layout, server, snap>>
    BY <1>7 DEF Disconnect, Ending, Enter
  <2>2. ~overlap' => \A u \in Threads \ {c} : ~Rebuilding(u)
    BY <1>7, Zenon DEF Disconnect, Enter
  <2> QED BY <1>0, <2>1, <2>2, ArrangedPlace
<1> QED BY <1>1, <1>2, <1>3, <1>4, <1>5, <1>6, <1>7, ArrangedReadPeers, ArrangedInstall DEF Reader

LEMMA ArrangedServer ==
    ASSUME Typed, Arranged, LocalChange \/ Ping \/ CloseBegin \/ CloseEnd
    PROVE  Arranged'
<1>1. CASE LocalChange
  <2>1. PICK m \in Msgs : m = ClipMsg(Len(changes) + 1) /\ m.t = "clip"
    BY MsgsTyped DEF Typed, BookTyped
  <2>2. /\ pc[Local] = "idle" /\ StartJob(Local, m, peers, FALSE, "idle", "idle") /\ Local \in Threads
        /\ UNCHANGED <<peers, reported, layout, server, overlap, snap, link, down, view>>
    BY <1>1, <2>1 DEF LocalChange, wires, ends, hub, Threads
  <2>3. PICK f : StartJob(Local, m, peers, f, "idle", "idle")
    BY <2>2
  <2> QED BY <2>1, <2>2, <2>3, ArrangedStart
<1>2. CASE Ping
  <2>1. PICK m \in Msgs : m = Msg("ping") /\ m.t = "ping"
    BY MsgsTyped DEF MsgTypes
  <2>2. /\ pc[Pinger] = "idle" /\ StartJob(Pinger, m, peers, FALSE, "idle", "idle") /\ Pinger \in Threads
        /\ UNCHANGED <<peers, reported, layout, server, overlap, snap, link, down, view>>
    BY <1>2, <2>1 DEF Ping, wires, ends, hub, Threads
  <2>3. PICK f : StartJob(Pinger, m, peers, f, "idle", "idle")
    BY <2>2
  <2> QED BY <2>1, <2>2, <2>3, ArrangedStart
<1>3. CASE CloseBegin \/ CloseEnd
  <2>1. server' # "open" /\ UNCHANGED <<pc, job, overlap>>
    BY <1>3 DEF CloseBegin, CloseEnd, book
  <2>2. OneRebuild'
    BY <2>1 DEF Arranged, OneRebuild, Rebuilding
  <2>3. ~Live'
    BY <2>1 DEF Live
  <2> QED BY <2>2, <2>3 DEF Arranged, LayoutCurrent, PushesLayout, ViewsFollow
<1> QED BY <1>1, <1>2, <1>3

LEMMA ArrangedStep == Typed /\ Arranged /\ [Next]_vars => Arranged'
<1> SUFFICES ASSUME Typed, Arranged, [Next]_vars PROVE Arranged'
  OBVIOUS
<1>1. CASE UNCHANGED vars
  <2>1. /\ UNCHANGED <<pc, job, peers, reported, layout, snap, server, overlap>>
        /\ link' = link /\ down' = down /\ view' = view
    BY <1>1 DEF vars, wires, ends, hub, book
  <2> QED BY <2>1, ArrangedQuiet
<1> QED BY <1>1, ArrangedWriting, ArrangedReader, ArrangedReceive, ArrangedClients, ArrangedServer DEF Next

(* Every client ends up with the router's arrangement, and that is the     *)
(* arrangement of the peers that reported, unless two rebuilds overlapped: *)
(* of the handlers of a peer that joins, reports or leaves, and of pushes  *)
(* that fail, whatever the order.                                          *)
THEOREM HubViewsConverge == Spec => []ViewsConverge
<1>1. Init => Arranged
  <2> SUFFICES ASSUME Init PROVE Arranged
    OBVIOUS
  <2>1. peers = {} /\ reported = {} /\ layout = {} /\ \A t \in Threads : pc[t] = "idle"
    BY DEF Init
  <2>2. \A t \in Threads : ~Rebuilding(t) /\ ~Doing(t, "layout")
    BY <2>1 DEF Rebuilding, Doing
  <2> QED BY <2>1, <2>2 DEF Arranged, OneRebuild, LayoutCurrent, PushesLayout, ViewsFollow, Threads
<1>2. Typed /\ Arranged => ViewsConverge
  <2> SUFFICES ASSUME Typed, Arranged, Quiet, ~overlap PROVE layout = reported /\ \A c \in peers : view[c] = layout
    BY DEF ViewsConverge
  <2>1. Live /\ peers \subseteq Conns /\ \A c \in Conns : pc[c] = "idle" /\ ~Owing(c)
    BY DEF Live, Quiet, Owing, Threads, Typed, HubTyped
  <2>2. layout = reported
    BY <2>1 DEF Arranged, LayoutCurrent
  <2>3. ASSUME NEW c \in peers PROVE view[c] = layout
    <3>1. \A t \in Threads : ~Pushes(t, c)
      BY DEF Quiet, Pushes, Doing
    <3>2. Shows(down[c], view[c], layout)
      BY <2>1, <3>1 DEF Arranged, ViewsFollow
    <3>3. down[c] = << >>
      BY <2>1 DEF Quiet
    <3> QED BY <3>2, <3>3 DEF Shows
  <2> QED BY <2>2, <2>3
<1> QED BY <1>1, <1>2, InitTyped, TypedStep, ArrangedStep, PTL DEF Spec
=============================================================================
