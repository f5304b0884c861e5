---------------------------- MODULE SecureInput ----------------------------
(***************************************************************************)
(* Injection on Windows (platform/winsec): the proxy injector of the       *)
(* interactive program, which injects by itself on the normal desktop and  *)
(* passes events through a named pipe on the secure one, and the agent on  *)
(* the other end of the pipe.  AgentService has the service that starts    *)
(* agents; here an agent dies and another one appears.                     *)
(*                                                                         *)
(* Every write to the pipe is a goroutine of its own, which the caller     *)
(* stops waiting for after 500 ms.  Closing the program's handle makes a   *)
(* write that is still blocked fail.                                       *)
(***************************************************************************)
EXTENDS Naturals, Sequences

CONSTANTS
    Callers,     \* goroutines that inject, each one event at a time
    MaxEvents,   \* bound: events of each caller
    PipeCap,     \* events the pipe's buffer holds
    QueueCap,    \* capacity of injectCh
    MaxLinks,    \* bound: connections to the agent
    MaxTrouble   \* bound: waits given up, agents that die, and the machine's being locked
                 \* and unlocked, together

BoundsAssumption ==
    /\ {MaxEvents, PipeCap, QueueCap} \subseteq Nat \ {0}
    /\ {MaxLinks, MaxTrouble} \subseteq Nat

VARIABLES
    locked,         \* the secure desktop receives the input
    secure, fresh,  \* proxyInjector: cached answer, and whether it may still be used
    answer,         \* what each caller's own query of the desktop returned
    conn, backoff,  \* proxyInjector: cached connection, and no dialing for now
    pc, at,         \* progress of each caller, and the number of its event
    using, done,    \* connection its write was given, and the write's result
    writes,         \* write goroutines that have not written yet
    link,           \* number of the last connection
    buf,            \* frames in the pipe
    agent, queue,   \* progress of the agent's accept loop, and injectCh
    direct, remote, \* history: events the program and the agent have injected
    twice,          \* history: events the agent or the program has injected again
    doubt,          \* history: events the caller gave up waiting for
    lost,           \* history: frames dropped by a full queue, a drain or a death
    older,          \* history: callers with an answer from before the last change of the desktop
    unsure,         \* history: since that change, no answer was cached without an older one
                    \* still to come
    trouble

proxy   == <<secure, fresh, conn, backoff, using, done, writes>>
history == <<direct, remote, twice, doubt, lost>>
asking  == <<answer, older, unsure>>
vars    == <<locked, proxy, pc, at, link, buf, agent, queue, history, asking, trouble>>

Events == Callers \X (1..MaxEvents)
Frames == [ev : Events, link : 1..MaxLinks]

TypeOK ==
    /\ {locked, fresh, secure, backoff, unsure} \subseteq BOOLEAN
    /\ conn \in 0..link /\ link \in 0..MaxLinks
    /\ pc \in [Callers -> {"idle", "route", "cached", "stamp", "query", "store", "forward", "wait",
                         "drop", "inject"}]
    /\ answer \in [Callers -> {"none", "default", "secure", "error"}]
    /\ older \subseteq Callers
    /\ at \in [Callers -> 0..MaxEvents]
    /\ using \in [Callers -> 0..MaxLinks]
    /\ done \in [Callers -> {"none", "ok", "err"}]
    /\ writes \subseteq Frames
    /\ buf \in Seq(Frames) /\ Len(buf) <= PipeCap
    /\ queue \in Seq(Frames) /\ Len(queue) <= QueueCap
    /\ agent \in {"off", "listen", "serve", "drain"}
    /\ UNION {direct, remote, twice, doubt, lost} \subseteq Events
    /\ trouble \in 0..MaxTrouble

Init ==
    /\ locked \in BOOLEAN
    /\ secure = FALSE /\ fresh = FALSE /\ conn = 0 /\ backoff = FALSE
    /\ pc = [c \in Callers |-> "idle"] /\ at = [c \in Callers |-> 0]
    /\ using = [c \in Callers |-> 0] /\ done = [c \in Callers |-> "none"]
    /\ writes = {} /\ link = 0 /\ buf = <<>>
    /\ agent \in {"off", "listen"} /\ queue = <<>>
    /\ direct = {} /\ remote = {} /\ twice = {} /\ doubt = {} /\ lost = {}
    /\ answer = [c \in Callers |-> "none"] /\ older = {} /\ unsure = locked
    /\ trouble = 0

-----------------------------------------------------------------------------

Event(c) == <<c, at[c]>>
Goto(c, l) == pc' = [pc EXCEPT ![c] = l]
FramesOf(s) == {s[i].ev : i \in DOMAIN s}

Trouble == trouble < MaxTrouble /\ trouble' = trouble + 1

(* Both ends of connection k are open. *)
Alive(k) == k = conn /\ k = link /\ agent = "serve"

-----------------------------------------------------------------------------
(* The proxy injector, in the goroutine of the caller. *)

(* MovePointer, Button, Scroll or Key is called. *)
Call(c) ==
    /\ pc[c] = "idle" /\ at[c] < MaxEvents
    /\ at' = [at EXCEPT ![c] = @ + 1]
    /\ Goto(c, "route")
    /\ UNCHANGED <<locked, proxy, link, buf, agent, queue, history, asking, trouble>>

Decide(c, yes) == Goto(c, IF yes THEN "forward" ELSE "inject")

(* routed takes an answer of less than 300 ms ago, or asks for a new one.  *)
RouteChecks(c) ==
    /\ pc[c] = "route"
    /\ Goto(c, IF fresh THEN "cached" ELSE "stamp")
    /\ UNCHANGED <<locked, proxy, at, link, buf, agent, queue, history, asking, trouble>>

RouteCached(c) ==
    /\ pc[c] = "cached"
    /\ Decide(c, secure)
    /\ UNCHANGED <<locked, proxy, at, link, buf, agent, queue, history, asking, trouble>>

(* The cache counts as fresh before the answer is known; several callers   *)
(* may have found it old.                                                  *)
RouteStamps(c) ==
    /\ pc[c] = "stamp"
    /\ fresh' = TRUE
    /\ Goto(c, "query")
    /\ UNCHANGED <<locked, secure, conn, backoff, using, done, writes, at, link, buf, agent,
                   queue, history, asking, trouble>>

(* The secure desktop has another name or cannot be read; reading the      *)
(* normal one can fail as well.                                            *)
RouteAsks(c) ==
    /\ pc[c] = "query"
    /\ \E a \in {"error", IF locked THEN "secure" ELSE "default"} :
           answer' = [answer EXCEPT ![c] = a]
    /\ Goto(c, "store")
    /\ UNCHANGED <<locked, secure, fresh, conn, backoff, using, done, writes, at, link, buf, agent,
                   queue, history, older, unsure, trouble>>

(* Mutant: an unreadable desktop is routed as secure and not remembered.   *)
RouteStores_ForgetsError(c) ==
    /\ pc[c] = "store"
    /\ secure' = IF answer[c] = "error" THEN secure ELSE answer[c] = "secure"
    /\ Decide(c, answer[c] # "default")
    /\ answer' = [answer EXCEPT ![c] = "none"]
    /\ older' = older \ {c} /\ unsure' = (unsure /\ older # {})
    /\ UNCHANGED <<locked, fresh, conn, backoff, using, done, writes, at, link, buf, agent, queue,
                   history, trouble>>

(* The answer is cached, maybe over one that was read later.  A desktop    *)
(* that cannot be read counts as secure.                                   *)
RouteStores(c) ==
    /\ pc[c] = "store"
    /\ secure' = (answer[c] # "default")
    /\ Decide(c, answer[c] # "default")
    /\ answer' = [answer EXCEPT ![c] = "none"]
    /\ older' = older \ {c} /\ unsure' = (unsure /\ older # {})
    /\ UNCHANGED <<locked, fresh, conn, backoff, using, done, writes, at, link, buf, agent, queue,
                   history, trouble>>

(* The cached answer grows old, the backoff is over. *)
Expire ==
    /\ \/ fresh /\ fresh' = FALSE /\ UNCHANGED backoff
       \/ backoff /\ backoff' = FALSE /\ UNCHANGED fresh
    /\ UNCHANGED <<locked, secure, conn, using, done, writes, pc, at, link, buf, agent, queue,
                   history, asking, trouble>>

(* forward starts a write on connection k and waits for it. *)
StartWrite(c, k) ==
    /\ writes' = writes \cup {[ev |-> Event(c), link |-> k]}
    /\ using' = [using EXCEPT ![c] = k]
    /\ done' = [done EXCEPT ![c] = "none"]
    /\ Goto(c, "wait")

(* pipe returns the cached connection, whether it is still good or not.    *)
ForwardCached(c) ==
    /\ pc[c] = "forward" /\ conn # 0
    /\ StartWrite(c, conn)
    /\ UNCHANGED <<locked, secure, fresh, conn, backoff, at, link, buf, agent, queue, history,
                   asking, trouble>>

(* pipe dials an agent that listens; the agent's Accept returns.           *)
ForwardDials(c) ==
    /\ pc[c] = "forward" /\ conn = 0 /\ ~backoff
    /\ agent = "listen" /\ link < MaxLinks
    /\ link' = link + 1 /\ conn' = link + 1
    /\ agent' = "serve"
    /\ StartWrite(c, link + 1)
    /\ UNCHANGED <<locked, secure, fresh, backoff, at, buf, queue, history, asking, trouble>>

(* Nobody listens for 500 ms, or dialing has to wait: the program injects. *)
ForwardFails(c) ==
    /\ pc[c] = "forward" /\ conn = 0
    /\ backoff \/ agent # "listen" \/ link = MaxLinks
    /\ backoff' = TRUE
    /\ Goto(c, "inject")
    /\ UNCHANGED <<locked, secure, fresh, conn, using, done, writes, at, link, buf, agent, queue,
                   history, asking, trouble>>

Result_Ignored(k) == "ok"

(* What WriteMsg returns. *)
Result(k) == IF Alive(k) THEN "ok" ELSE "err"

(* A write goroutine that has writeMu and does not block; its result       *)
(* reaches its caller if that one still waits.                             *)
Write(w) ==
    /\ w \in writes
    /\ writes' = writes \ {w}
    /\ Alive(w.link) => Len(buf) < PipeCap
    /\ buf' = IF Alive(w.link) THEN Append(buf, w) ELSE buf
    /\ LET c == w.ev[1] IN
       done' = IF Event(c) = w.ev /\ pc[c] = "wait" THEN [done EXCEPT ![c] = Result(w.link)] ELSE done
    /\ UNCHANGED <<locked, secure, fresh, conn, backoff, using, pc, at, link, agent, queue, history,
                   asking, trouble>>

Written(c) ==
    /\ pc[c] = "wait" /\ done[c] # "none"
    /\ Goto(c, IF done[c] = "ok" THEN "idle" ELSE "drop")
    /\ UNCHANGED <<locked, proxy, at, link, buf, agent, queue, history, asking, trouble>>

(* The caller stops waiting, even if the write is done by now. *)
Timeout(c) ==
    /\ pc[c] = "wait"
    /\ Trouble
    /\ doubt' = doubt \cup {Event(c)}
    /\ Goto(c, "drop")
    /\ UNCHANGED <<locked, proxy, at, link, buf, agent, queue, direct, remote, twice, lost, asking>>

(* dropConn closes the connection that is cached now, which may be a newer *)
(* one than the connection that failed.                                    *)
Drop(c) ==
    /\ pc[c] = "drop"
    /\ conn' = 0
    /\ Goto(c, "inject")
    /\ UNCHANGED <<locked, secure, fresh, backoff, using, done, writes, at, link, buf, agent, queue,
                   history, asking, trouble>>

Twice(ev) == twice' = IF ev \in direct \cup remote THEN twice \cup {ev} ELSE twice

(* The inner injector. *)
Inject(c) ==
    /\ pc[c] = "inject"
    /\ direct' = direct \cup {Event(c)}
    /\ Twice(Event(c))
    /\ Goto(c, "idle")
    /\ UNCHANGED <<locked, proxy, at, link, buf, agent, queue, remote, doubt, lost, asking, trouble>>

-----------------------------------------------------------------------------
(* The agent. *)

(* Mutant: the queue grows without bound. *)
AgentReads_Unbounded ==
    /\ agent = "serve" /\ buf # <<>>
    /\ buf' = Tail(buf)
    /\ queue' = Append(queue, Head(buf))
    /\ UNCHANGED <<locked, proxy, pc, at, link, agent, direct, remote, twice, doubt, lost, asking,
                   trouble>>

(* serveAgentConn reads a frame and queues it, or drops it. *)
AgentReads ==
    /\ agent = "serve" /\ buf # <<>>
    /\ buf' = Tail(buf)
    /\ IF Len(queue) < QueueCap
         THEN queue' = Append(queue, Head(buf)) /\ UNCHANGED lost
         ELSE lost' = lost \cup {Head(buf).ev} /\ UNCHANGED queue
    /\ UNCHANGED <<locked, proxy, pc, at, link, agent, direct, remote, twice, doubt, asking, trouble>>

(* The frames are read and the program has closed its end. *)
AgentHangsUp ==
    /\ agent = "serve" /\ buf = <<>> /\ conn # link
    /\ agent' = "drain"
    /\ UNCHANGED <<locked, proxy, pc, at, link, buf, queue, history, asking, trouble>>

Drained_Keeps(q) == q

(* What drainInject leaves in injectCh. *)
Drained(q) == <<>>

(* drainInject, and the next listener. *)
AgentListens ==
    /\ agent = "drain"
    /\ queue' = Drained(queue)
    /\ lost' = lost \cup (FramesOf(queue) \ FramesOf(Drained(queue)))
    /\ agent' = "listen"
    /\ UNCHANGED <<locked, proxy, pc, at, link, buf, direct, remote, twice, doubt, asking, trouble>>

(* injectWorker *)
AgentInjects ==
    /\ agent # "off" /\ queue # <<>>
    /\ queue' = Tail(queue)
    /\ remote' = remote \cup {Head(queue).ev}
    /\ Twice(Head(queue).ev)
    /\ UNCHANGED <<locked, proxy, pc, at, link, buf, agent, direct, doubt, lost, asking, trouble>>

(* The agent's process ends, and the service starts another one. *)
AgentDies ==
    /\ agent # "off"
    /\ Trouble
    /\ agent' = "off"
    /\ queue' = <<>> /\ buf' = <<>>
    /\ lost' = lost \cup FramesOf(queue) \cup FramesOf(buf)
    /\ UNCHANGED <<locked, proxy, pc, at, link, direct, remote, twice, doubt, asking>>

AgentStarts ==
    /\ agent = "off"
    /\ agent' = "listen"
    /\ UNCHANGED <<locked, proxy, pc, at, link, buf, queue, history, asking, trouble>>

(* The user locks or unlocks the machine. *)
Flip ==
    /\ Trouble
    /\ locked' = ~locked
    /\ older' = {c \in Callers : pc[c] = "store"} /\ unsure' = TRUE
    /\ UNCHANGED <<answer, proxy, pc, at, link, buf, agent, queue, history>>

Caller(c) ==
    \/ Call(c) \/ RouteChecks(c) \/ RouteCached(c)
    \/ RouteStamps(c) \/ RouteAsks(c) \/ RouteStores(c)
    \/ ForwardCached(c) \/ ForwardDials(c) \/ ForwardFails(c)
    \/ Written(c) \/ Timeout(c) \/ Drop(c) \/ Inject(c)

Agent == AgentReads \/ AgentHangsUp \/ AgentListens \/ AgentInjects \/ AgentDies \/ AgentStarts

Next ==
    \/ \E c \in Callers : Caller(c)
    \/ \E w \in writes : Write(w)
    \/ Agent \/ Expire \/ Flip

Spec == Init /\ [][Next]_vars

-----------------------------------------------------------------------------

(* Nothing is on its way. *)
AtRest ==
    /\ \A c \in Callers : pc[c] = "idle"
    /\ writes = {} /\ buf = <<>> /\ queue = <<>>

(* An event is injected twice only when its caller gave up waiting for the *)
(* write, and not at all only when the agent dropped it: falling back to   *)
(* the program's own injector never duplicates or loses one.               *)
ExactlyOnce ==
    /\ twice \subseteq doubt
    /\ AtRest => {e \in Events : e[2] <= at[e[1]]} \subseteq direct \cup remote \cup lost

(* Events of connection k reach the desktop in the agent only while no     *)
(* frame of a newer connection has come: an event somebody gave up on does *)
(* not follow a later one of the same caller that was passed on.           *)
NoLateInjection ==
    [][\A ev \in remote' \ remote :
        ~ \E w \in writes \cup {buf[i] : i \in DOMAIN buf} \cup {queue[i] : i \in DOMAIN queue} :
              w.ev[1] = ev[1] /\ w.ev[2] > ev[2] /\ w.link > Head(queue).link]_vars

(* On the secure desktop, a caller that asks for itself bypasses the agent *)
(* only with an answer from before the machine was locked; and once an     *)
(* answer has been cached with no older one still to come, no caller does  *)
(* that uses the cache, until the machine is locked again.  Checks, stamps,*)
(* queries and stores of callers interleave; a query may fail.             *)
RightDesktop ==
    [][\A c \in Callers : locked /\ pc'[c] = "inject" =>
          /\ pc[c] = "store" => c \in older
          /\ pc[c] = "cached" => unsure]_vars
=============================================================================
