---------------------------- MODULE AgentService ----------------------------
(***************************************************************************)
(* The Windows service (platform/winsec/service_windows.go) that keeps an  *)
(* agent in the session of the console, and the life of the agents: a      *)
(* process is started with TerminateProcess of its predecessor still under *)
(* way, and an agent that finds the pipe taken exits.  What goes through   *)
(* the pipe is SecureInput's.                                              *)
(***************************************************************************)
EXTENDS Naturals

CONSTANTS
    Sessions,   \* interactive sessions, numbered
    MaxAgents,  \* bound: agent processes at a time
    MaxMishaps  \* bound: crashes, failing spawns, switched consoles, stopped services

ServiceAssumption ==
    /\ Sessions \subseteq Nat \ {0}
    /\ MaxAgents \in Nat \ {0} /\ MaxMishaps \in Nat

VARIABLES
    running,   \* the service runs
    hProc,     \* the supervisor's process, 0 for none
    lastSID,   \* session of the last tick, 0 at first
    console,   \* session at the console, 0 for nobody (WTS says 0xFFFFFFFF)
    agents,    \* the agent processes
    mishaps

vars == <<running, hProc, lastSID, console, agents, mishaps>>

Ids  == 1..MaxAgents
Gone == [st |-> "gone", sid |-> 0, dying |-> FALSE]

TypeOK ==
    /\ running \in BOOLEAN
    /\ hProc \in Ids \cup {0}
    /\ {lastSID, console} \subseteq Sessions \cup {0}
    /\ agents \in [Ids -> [st : {"gone", "start", "listen", "serve", "gap"},
                           sid : Sessions \cup {0}, dying : BOOLEAN]]
    /\ mishaps \in 0..MaxMishaps

Init ==
    /\ running = FALSE /\ hProc = 0 /\ lastSID = 0
    /\ console \in Sessions \cup {0}
    /\ agents = [a \in Ids |-> Gone]
    /\ mishaps = 0

-----------------------------------------------------------------------------

Alive(a)   == agents[a].st # "gone"
Working(a) == Alive(a) /\ ~agents[a].dying
Owns(a)    == agents[a].st \in {"listen", "serve"}   \* the one instance of the pipe

Mishap == mishaps < MaxMishaps /\ mishaps' = mishaps + 1

(* TerminateProcess returns before the process has ended. *)
Killed(a, procs) ==
    IF a # 0 /\ procs[a].st # "gone" THEN [procs EXCEPT ![a].dying = TRUE] ELSE procs

-----------------------------------------------------------------------------
(* The supervisor. *)

Kept_NoExitCode(h, procs) == h

(* The handle left when the session has been compared and the exit code    *)
(* looked at.                                                              *)
Kept(h, procs) == IF h # 0 /\ procs[h].st = "gone" THEN 0 ELSE h

(* One tick with somebody at the console: kill in a new session, forget an *)
(* agent that has exited, spawn if there is none.                          *)
Tick ==
    /\ running /\ console # 0
    /\ lastSID' = console
    /\ LET switched == console # lastSID
           procs    == IF switched THEN Killed(hProc, agents) ELSE agents
           held     == Kept(IF switched THEN 0 ELSE hProc, agents)
       IN IF held # 0
            THEN hProc' = held /\ agents' = procs /\ UNCHANGED mishaps
            ELSE \/ \E a \in Ids :
                       /\ procs[a].st = "gone"
                       /\ hProc' = a
                       /\ agents' = [procs EXCEPT ![a] =
                                        [st |-> "start", sid |-> console, dying |-> FALSE]]
                       /\ UNCHANGED mishaps
                 \/ Mishap /\ hProc' = 0 /\ agents' = procs
    /\ UNCHANGED <<running, console>>

(* The service is started, by the panel or with the machine; Execute makes *)
(* a supervisor without a memory.                                          *)
StartService ==
    /\ ~running
    /\ running' = TRUE /\ hProc' = 0 /\ lastSID' = 0
    /\ UNCHANGED <<console, agents, mishaps>>

(* Stop or Shutdown: the supervisor kills its agent and ends. *)
StopService ==
    /\ running /\ Mishap
    /\ running' = FALSE /\ hProc' = 0
    /\ agents' = Killed(hProc, agents)
    /\ UNCHANGED <<lastSID, console>>

-----------------------------------------------------------------------------
(* An agent. *)

(* NewPipeListener, at the start and after every connection.  The first    *)
(* instance of the pipe has one owner: another agent returns and exits.    *)
Listen(a) ==
    /\ Working(a) /\ agents[a].st \in {"start", "gap"}
    /\ agents' = [agents EXCEPT ![a] =
         IF \E b \in Ids \ {a} : Owns(b) THEN Gone ELSE [@ EXCEPT !.st = "listen"]]
    /\ UNCHANGED <<running, hProc, lastSID, console, mishaps>>

(* The program connects to whoever owns the pipe, and goes again. *)
Connect(a) ==
    /\ Working(a) /\ agents[a].st = "listen"
    /\ agents' = [agents EXCEPT ![a].st = "serve"]
    /\ UNCHANGED <<running, hProc, lastSID, console, mishaps>>

Disconnect(a) ==
    /\ Working(a) /\ agents[a].st = "serve"
    /\ agents' = [agents EXCEPT ![a].st = "gap"]
    /\ UNCHANGED <<running, hProc, lastSID, console, mishaps>>

(* A terminated process ends at last, and its pipe with it. *)
End(a) ==
    /\ agents[a].dying
    /\ agents' = [agents EXCEPT ![a] = Gone]
    /\ UNCHANGED <<running, hProc, lastSID, console, mishaps>>

Crash(a) ==
    /\ Working(a) /\ Mishap
    /\ agents' = [agents EXCEPT ![a] = Gone]
    /\ UNCHANGED <<running, hProc, lastSID, console>>

(* Another session comes to the console, or nobody; the one that leaves    *)
(* goes on without the console or is logged off, its processes with it.    *)
SwitchConsole(s, logoff) ==
    /\ s # console /\ Mishap
    /\ console' = s
    /\ agents' = [a \in Ids |-> IF logoff /\ agents[a].sid = console THEN Gone ELSE agents[a]]
    /\ UNCHANGED <<running, hProc, lastSID>>

Process(a) == Listen(a) \/ Connect(a) \/ Disconnect(a) \/ End(a)

Next ==
    \/ Tick \/ StartService \/ StopService
    \/ \E a \in Ids : Process(a) \/ Crash(a)
    \/ \E s \in Sessions \cup {0}, logoff \in BOOLEAN : SwitchConsole(s, logoff)

(* The supervisor's ticker ticks, a process runs and a terminated one      *)
(* ends.  Nothing makes the program connect, or anybody start the service. *)
Fairness ==
    /\ WF_vars(Tick)
    /\ \A a \in Ids : WF_vars(Listen(a)) /\ WF_vars(End(a))

Spec == Init /\ [][Next]_vars /\ Fairness

-----------------------------------------------------------------------------

(* While the service runs and one session keeps the console, that session  *)
(* gets an agent with the pipe again and again whatever crashed, and the   *)
(* agents of other sessions leave: the supervisor does not wait for ever   *)
(* for a process that has exited.                                          *)
AgentReturns ==
    \A s \in Sessions :
        <>[](running /\ console = s) =>
            /\ []<>(\E a \in Ids : Working(a) /\ Owns(a) /\ agents[a].sid = s)
            /\ <>[](\A a \in Ids : Alive(a) => agents[a].sid = s)
=============================================================================
