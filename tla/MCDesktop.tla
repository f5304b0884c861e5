------------------------------- MODULE MCDesktop -------------------------------
(***************************************************************************)
(* Small instances of the parts of the program that face the desktop and   *)
(* the disk.  They share no state and run one at a time here: the          *)
(* clipboards, the injection on Windows, its service, the settings.        *)
(***************************************************************************)
EXTENDS SettingsStore

CONSTANTS Contents, FileList, EmptyText, None, LinkCap, MaxCopies,
          Callers, MaxEvents, PipeCap, QueueCap, MaxLinks,
          Sessions, MaxAgents, MaxMishaps, MaxTrouble

VARIABLES
    part,
    system, board, holder, changed, lastWritten, cpc, arg, watch, seen, inbox, offers, up,
    raced, calm, copies, ctrouble,
    locked, secure, fresh, conn, backoff, spc, at, using, done, writes, link, buf, agent,
    queue, direct, remote, twice, doubt, lost, answer, older, unsure, strouble,
    running, hProc, lastSID, console, agents, mishaps

Clip    == INSTANCE ClipboardEcho WITH pc <- cpc, trouble <- ctrouble
Secure  == INSTANCE SecureInput WITH pc <- spc, trouble <- strouble
Service == INSTANCE AgentService

ASSUME ClipAssumption    == Clip!ContentsAssumption
ASSUME SecureAssumption  == Secure!BoundsAssumption
ASSUME AgentsAssumption  == Service!ServiceAssumption

(* A part that does not run has one initial state. *)
DesktopInit ==
    /\ part \in {"settings", "clipboard", "secure", "service"}
    /\ Init /\ Clip!Init /\ Secure!Init /\ Service!Init
    /\ part = "clipboard" \/ \A m \in Clip!Machines : system[m] = "windows"
    /\ part = "secure" \/ (~locked /\ agent = "off")
    /\ part = "service" \/ console = 0

clipVars == <<system, board, holder, changed, lastWritten, cpc, arg, watch, seen, inbox, offers,
              up, raced, calm, copies, ctrouble>>
secureVars == <<locked, secure, fresh, conn, backoff, spc, at, using, done, writes, link, buf,
                agent, queue, direct, remote, twice, doubt, lost, answer, older, unsure, strouble>>
serviceVars == <<running, hProc, lastSID, console, agents, mishaps>>
all == <<part, vars, clipVars, secureVars, serviceVars>>

OnSettings == part = "settings" /\ UNCHANGED <<part, clipVars, secureVars, serviceVars>>
OnClip     == part = "clipboard" /\ UNCHANGED <<part, vars, secureVars, serviceVars>>
OnSecure   == part = "secure" /\ UNCHANGED <<part, vars, clipVars, serviceVars>>
OnService  == part = "service" /\ UNCHANGED <<part, vars, clipVars, secureVars>>

DesktopNext ==
    \/ OnSettings /\ Next
    \/ OnClip /\ Clip!Next
    \/ OnSecure /\ Secure!Next
    \/ OnService /\ Service!Next

(* The fairness of the service, the only part with a liveness property.    *)
Fairness ==
    /\ WF_all(OnService /\ Service!Tick)
    /\ \A a \in 1..MaxAgents :
          WF_all(OnService /\ Service!Listen(a)) /\ WF_all(OnService /\ Service!End(a))

DesktopSpec == DesktopInit /\ [][DesktopNext]_all /\ Fairness

(* Type invariants of the parts. *)
DesktopTypeOK == TypeOK /\ Clip!TypeOK /\ Secure!TypeOK /\ Service!TypeOK

(* A clipboard content the session brought goes back only after a race. *)
EchoNeedsRace == Clip!EchoNeedsRace

(* Copies made one after the other end on both machines. *)
ClipboardsAgree == Clip!ClipboardsAgree

(* No event is injected twice or lost without a timeout or a drop. *)
ExactlyOnce == Secure!ExactlyOnce

(* The agent injects nothing of an older connection after a newer one. *)
NoLateInjection == Secure!NoLateInjection

(* Nobody bypasses the agent on the secure desktop once an answer from     *)
(* after the lock is cached with no older one still to come.               *)
RightDesktop == Secure!RightDesktop

(* The session at the console gets its agent back. *)
AgentReturns == Service!AgentReturns
=============================================================================
