---------------------------- MODULE DesktopProofs ----------------------------
(***************************************************************************)
(* Theorems about the settings file, the service, the injection on Windows *)
(* and the clipboards, for every value of the constants: types; what was   *)
(* told to be saved survives; no event is injected twice or lost without a *)
(* reason, late or on the wrong desktop; clipboards copied to one after    *)
(* the other agree, and nothing echoes without a race.                     *)
(***************************************************************************)
EXTENDS MCDesktop, Sequences, TLAPS

-----------------------------------------------------------------------------
(* The settings file. *)

Done == \A r \in Requests : ~Busy(r)

(* As long as no two requests overlap: one is at it at a time, the         *)
(* temporary file is not the settings file, it holds what its request is   *)
(* about to rename, and what is on disk is what was told.                  *)
Alone     == \A q, r \in Requests : Busy(q) /\ Busy(r) => q = r
OwnTmp    == tmp # 0 => tmp # file
Writing   == \A r \in Requests : pc[r] = "write" => tmp # 0 /\ fd[r] = tmp
Written   == \A r \in Requests : pc[r] = "rename" => tmp # 0 /\ inode[tmp] = body[r]
Marshaled == \A r \in Requests : pc[r] \in {"open", "write", "rename"} => body[r] = mem

Quiet ==
    /\ Alone /\ OwnTmp /\ Writing /\ Written /\ Marshaled
    /\ OnDisk = saved
    /\ ~partial /\ Done => mem = saved

StoreInv == TypeOK /\ (~overlap => Quiet)

(* What is on disk is always some settings. *)
LEMMA OnDiskTyped == TypeOK => OnDisk \in Settings
<1> SUFFICES ASSUME TypeOK PROVE OnDisk \in Settings
  OBVIOUS
<1>1. CASE file = 0 \/ inode[file] = Torn
  BY <1>1 DEF OnDisk, Fresh, Settings
<1>2. CASE file # 0 /\ inode[file] # Torn
  <2>1. file \in Inodes
    BY <1>2 DEF TypeOK
  <2>2. inode[file] \in Settings \cup {Torn}
    BY <2>1 DEF TypeOK
  <2> QED BY <1>2, <2>2 DEF OnDisk
<1> QED BY <1>1, <1>2

(* The first start of the program establishes the invariant.               *)
LEMMA InitInv == Init => StoreInv
<1> SUFFICES ASSUME Init PROVE StoreInv
  OBVIOUS
<1>1. TypeOK
  <2>1. Fresh \in Settings
    BY DEF Fresh, Settings
  <2>2. \A r \in Requests : Fields \in SUBSET Fields
    OBVIOUS
  <2>3. 0 \in 0..MaxCrashes
    BY SettingsAssumption
  <2> QED BY <2>1, <2>2, <2>3 DEF Init, TypeOK
<1>2. Quiet
  BY DEF Init, Quiet, Alone, OwnTmp, Writing, Written, Marshaled, Done, Busy, OnDisk
<1> QED BY <1>1, <1>2 DEF StoreInv

(* Every step keeps the types. *)
LEMMA NextType == TypeOK /\ [Next]_vars => TypeOK'
<1> SUFFICES ASSUME TypeOK, [Next]_vars PROVE TypeOK'
  OBVIOUS
<1> USE DEF TypeOK
<1>1. ASSUME NEW r \in Requests, Begin(r) PROVE TypeOK'
  BY <1>1 DEF Begin, Goto
<1>2. ASSUME NEW r \in Requests, NEW f \in Fields, SetField(r, f) PROVE TypeOK'
  <2>1. mem' \in Settings
    BY <1>2 DEF SetField, Settings
  <2> QED BY <1>2, <2>1 DEF SetField, Goto
<1>3. ASSUME NEW r \in Requests, AutoStartFails(r) PROVE TypeOK'
  BY <1>3 DEF AutoStartFails, Goto
<1>4. ASSUME NEW r \in Requests, Marshal(r) PROVE TypeOK'
  BY <1>4 DEF Marshal, Goto
<1>5. ASSUME NEW r \in Requests, OpenTmp(r) PROVE TypeOK'
  <2>1. PICK i \in Opened(tmp) :
           tmp' = i /\ fd' = [fd EXCEPT ![r] = i] /\ inode' = [inode EXCEPT ![i] = Torn]
    BY <1>5 DEF OpenTmp
  <2>2. i \in Inodes
    BY <2>1 DEF Opened
  <2> QED BY <1>5, <2>1, <2>2 DEF OpenTmp, Goto
<1>6. ASSUME NEW r \in Requests, WriteTmp(r) PROVE TypeOK'
  BY <1>6 DEF WriteTmp, Goto
<1>7. ASSUME NEW r \in Requests, Rename(r) PROVE TypeOK'
  <2>1. pc' \in [Requests -> {"new", "set", "marshal", "open", "write", "rename", "end"}]
    BY <1>7 DEF Rename, Goto
  <2>2. CASE tmp = 0
    BY <1>7, <2>1, <2>2 DEF Rename
  <2>3. CASE tmp # 0
    <3>1. file' = tmp /\ tmp' = 0 /\ saved' = body[r] /\ partial' = partial
      BY <1>7, <2>3 DEF Rename
    <3>2. UNCHANGED <<mem, todo, body, fd, inode, overlap, crashes>>
      BY <1>7 DEF Rename
    <3> QED BY <2>1, <3>1, <3>2
  <2> QED BY <2>2, <2>3
<1>8. CASE Crash
  <2>1. mem' \in Settings
    BY <1>8, OnDiskTyped DEF Crash
  <2>2. crashes' \in 0..MaxCrashes
    BY <1>8, SettingsAssumption DEF Crash
  <2> QED BY <1>8, <2>1, <2>2 DEF Crash
<1>9. CASE UNCHANGED vars
  BY <1>9 DEF vars
<1> QED BY <1>1, <1>2, <1>3, <1>4, <1>5, <1>6, <1>7, <1>8, <1>9 DEF Next

(* A request that is at it alone keeps the rest of the invariant.          *)
LEMMA NextQuiet == StoreInv /\ [Next]_vars /\ ~overlap' => Quiet'
<1> SUFFICES ASSUME StoreInv, [Next]_vars, ~overlap' PROVE Quiet'
  OBVIOUS
<1>0. TypeOK
  BY DEF StoreInv
<1> USE DEF Alone, OwnTmp, Writing, Written, Marshaled, Done, Busy, Goto
<1>1. ASSUME NEW r \in Requests, Begin(r) PROVE Quiet'
  <2>1. Quiet /\ \A q \in Requests : ~Busy(q)
    BY <1>1 DEF Begin, StoreInv
  <2>2. OnDisk' = OnDisk
    BY <1>1 DEF Begin, OnDisk
  <2> QED BY <1>0, <1>1, <2>1, <2>2 DEF Begin, Quiet, TypeOK
<1>2. ASSUME NEW r \in Requests, NEW f \in Fields, SetField(r, f) PROVE Quiet'
  <2>1. Quiet
    BY <1>2 DEF SetField, StoreInv
  <2>2. OnDisk' = OnDisk
    BY <1>2 DEF SetField, OnDisk
  <2>3. pc'[r] \in {"set", "marshal"} /\ \A q \in Requests \ {r} : ~Busy(q) /\ pc'[q] = pc[q]
    BY <1>0, <1>2, <2>1 DEF SetField, Quiet, TypeOK
  <2> QED BY <1>0, <1>2, <2>1, <2>2, <2>3 DEF SetField, Quiet
<1>3. ASSUME NEW r \in Requests, AutoStartFails(r) PROVE Quiet'
  <2>1. Quiet
    BY <1>3 DEF AutoStartFails, StoreInv
  <2>2. OnDisk' = OnDisk
    BY <1>3 DEF AutoStartFails, OnDisk
  <2> QED BY <1>0, <1>3, <2>1, <2>2 DEF AutoStartFails, Quiet, TypeOK
<1>4. ASSUME NEW r \in Requests, Marshal(r) PROVE Quiet'
  <2>1. Quiet
    BY <1>4 DEF Marshal, StoreInv
  <2>2. OnDisk' = OnDisk
    BY <1>4 DEF Marshal, OnDisk
  <2>3. pc'[r] = "open" /\ body'[r] = mem /\ \A q \in Requests \ {r} : ~Busy(q) /\ pc'[q] = pc[q]
    BY <1>0, <1>4, <2>1 DEF Marshal, Quiet, TypeOK
  <2> QED BY <1>0, <1>4, <2>1, <2>2, <2>3 DEF Marshal, Quiet
<1>5. ASSUME NEW r \in Requests, OpenTmp(r) PROVE Quiet'
  <2>1. Quiet
    BY <1>5 DEF OpenTmp, StoreInv
  <2>2. PICK i \in Opened(tmp) :
           tmp' = i /\ fd' = [fd EXCEPT ![r] = i] /\ inode' = [inode EXCEPT ![i] = Torn]
    BY <1>5 DEF OpenTmp
  <2>3. i \in Inodes /\ i # 0 /\ i # file
    BY <1>0, <2>1, <2>2, SettingsAssumption DEF Opened, Quiet, TypeOK
  <2>4. OnDisk' = OnDisk
    BY <1>0, <1>5, <2>2, <2>3 DEF OpenTmp, OnDisk, TypeOK
  <2>5. /\ pc'[r] = "write" /\ fd'[r] = i
        /\ \A q \in Requests \ {r} : ~Busy(q) /\ pc'[q] = pc[q]
    BY <1>0, <1>5, <2>1, <2>2 DEF OpenTmp, Quiet, TypeOK
  <2> QED BY <1>0, <1>5, <2>1, <2>2, <2>3, <2>4, <2>5 DEF OpenTmp, Quiet
<1>6. ASSUME NEW r \in Requests, WriteTmp(r) PROVE Quiet'
  <2>1. Quiet
    BY <1>6 DEF WriteTmp, StoreInv
  <2>2. fd[r] = tmp /\ tmp # 0 /\ tmp # file /\ tmp \in Inodes
    BY <1>0, <1>6, <2>1 DEF WriteTmp, Quiet, TypeOK
  <2>3. OnDisk' = OnDisk
    BY <1>0, <1>6, <2>2 DEF WriteTmp, OnDisk, TypeOK
  <2>4. \A q \in Requests \ {r} : ~Busy(q) /\ pc'[q] = pc[q]
    BY <1>0, <1>6, <2>1 DEF WriteTmp, Quiet, TypeOK
  <2>5. \/ pc'[r] = "rename" /\ inode'[tmp] = body[r]
        \/ pc'[r] = "end" /\ partial'
    BY <1>0, <1>6, <2>2 DEF WriteTmp, TypeOK
  <2> QED BY <1>0, <1>6, <2>1, <2>2, <2>3, <2>4, <2>5 DEF WriteTmp, Quiet
<1>7. ASSUME NEW r \in Requests, Rename(r) PROVE Quiet'
  <2>1. Quiet
    BY <1>7 DEF Rename, StoreInv
  <2>2. tmp # 0 /\ inode[tmp] = body[r] /\ body[r] = mem
    BY <1>7, <2>1 DEF Rename, Quiet
  <2>3. body[r] \in Settings /\ body[r] # Torn
    BY <1>0, SettingsAssumption DEF TypeOK, Settings
  <2>4. file' = tmp /\ tmp' = 0 /\ saved' = body[r] /\ inode' = inode /\ mem' = mem
    BY <1>7, <2>2 DEF Rename
  <2>5. OnDisk' = saved'
    BY <2>2, <2>3, <2>4 DEF OnDisk
  <2>6. pc'[r] = "end" /\ \A q \in Requests \ {r} : ~Busy(q) /\ pc'[q] = pc[q]
    BY <1>0, <1>7, <2>1 DEF Rename, Quiet, TypeOK
  <2> QED BY <2>2, <2>4, <2>5, <2>6 DEF Quiet
<1>8. CASE Crash
  <2>1. Quiet
    BY <1>8 DEF Crash, StoreInv
  <2>2. OnDisk' = OnDisk /\ mem' = OnDisk
    BY <1>8 DEF Crash, OnDisk
  <2>3. \A r \in Requests : ~Busy(r)'
    BY <1>8 DEF Crash
  <2> QED BY <1>8, <2>1, <2>2, <2>3 DEF Crash, Quiet
<1>9. CASE UNCHANGED vars
  BY <1>9 DEF vars, StoreInv, Quiet, OnDisk
<1> QED BY <1>1, <1>2, <1>3, <1>4, <1>5, <1>6, <1>7, <1>8, <1>9 DEF Next

(* The inductive invariant, whatever the requests do and wherever the      *)
(* program crashes.                                                        *)
THEOREM SettingsInv == Spec => []StoreInv
<1>1. StoreInv /\ [Next]_vars => StoreInv'
  BY NextType, NextQuiet DEF StoreInv
<1> QED BY <1>1, InitInv, PTL DEF Spec

(* No two requests at once: what was told to be saved is what the next     *)
(* start loads, after a crash at any point of any save.                    *)
THEOREM SettingsAreSafe == Spec => []SettingsSurvive
<1>1. StoreInv => SettingsSurvive
  BY DEF StoreInv, Quiet, Done, SettingsSurvive
<1> QED BY <1>1, SettingsInv, PTL

-----------------------------------------------------------------------------
(* The service and its agents. *)

Process == [st : {"gone", "start", "listen", "serve", "gap"}, sid : Sessions \cup {0}, dying : BOOLEAN]

ServiceTyped ==
    /\ running \in BOOLEAN
    /\ hProc \in Service!Ids \cup {0}
    /\ lastSID \in Sessions \cup {0} /\ console \in Sessions \cup {0}
    /\ agents \in [Service!Ids -> Process]
    /\ mishaps \in 0 .. MaxMishaps

LEMMA KilledTyped ==
    ASSUME NEW a \in Service!Ids \cup {0}, NEW procs \in [Service!Ids -> Process]
    PROVE  Service!Killed(a, procs) \in [Service!Ids -> Process]
<1>1. 0 \notin Service!Ids
  BY DEF Service!Ids
<1> QED BY <1>1 DEF Service!Killed, Process

LEMMA GoneTyped == Service!Gone \in Process
BY DEF Service!Gone, Process

LEMMA ServiceStep == ServiceTyped /\ [Service!Next]_(Service!vars) => ServiceTyped'
<1> SUFFICES ASSUME ServiceTyped, [Service!Next]_(Service!vars) PROVE ServiceTyped'
  OBVIOUS
<1> USE DEF ServiceTyped
<1>0. Service!Mishap => mishaps' \in 0 .. MaxMishaps
  BY AgentsAssumption DEF Service!Mishap, Service!ServiceAssumption
<1>1. CASE Service!Tick
  <2> DEFINE procs == IF console # lastSID THEN Service!Killed(hProc, agents) ELSE agents
             held  == Service!Kept(IF console # lastSID THEN 0 ELSE hProc, agents)
  <2>1. procs \in [Service!Ids -> Process]
    BY KilledTyped
  <2>2. held \in Service!Ids \cup {0}
    BY DEF Service!Kept
  <2>3. running' = running /\ console' = console /\ lastSID' = console
    BY <1>1 DEF Service!Tick
  <2>4. \/ hProc' = held /\ agents' = procs /\ mishaps' = mishaps
        \/ \E a \in Service!Ids :
              /\ hProc' = a /\ mishaps' = mishaps
              /\ agents' = [procs EXCEPT ![a] = [st |-> "start", sid |-> console, dying |-> FALSE]]
        \/ Service!Mishap /\ hProc' = 0 /\ agents' = procs
    BY <1>1 DEF Service!Tick
  <2>5. [st |-> "start", sid |-> console, dying |-> FALSE] \in Process
    BY DEF Process
  <2> HIDE DEF procs, held
  <2>6. CASE hProc' = held /\ agents' = procs /\ mishaps' = mishaps
    BY <2>1, <2>2, <2>3, <2>6
  <2>7. ASSUME NEW a \in Service!Ids, hProc' = a, mishaps' = mishaps,
               agents' = [procs EXCEPT ![a] = [st |-> "start", sid |-> console, dying |-> FALSE]]
        PROVE  ServiceTyped'
    BY <2>1, <2>3, <2>5, <2>7
  <2>8. CASE Service!Mishap /\ hProc' = 0 /\ agents' = procs
    BY <1>0, <2>1, <2>3, <2>8
  <2> QED BY <2>4, <2>6, <2>7, <2>8
<1>2. CASE Service!StartService
  BY <1>2 DEF Service!StartService
<1>3. CASE Service!StopService
  BY <1>0, <1>3, KilledTyped DEF Service!StopService
<1>4. ASSUME NEW a \in Service!Ids, Service!Listen(a) PROVE ServiceTyped'
  <2>1. [agents[a] EXCEPT !.st = "listen"] \in Process
    BY DEF Process
  <2> QED BY <1>4, <2>1, GoneTyped DEF Service!Listen
<1>5. ASSUME NEW a \in Service!Ids, Service!Connect(a) \/ Service!Disconnect(a) PROVE ServiceTyped'
  <2>1. agents' \in [Service!Ids -> Process]
    BY <1>5 DEF Service!Connect, Service!Disconnect, Process
  <2> QED BY <1>5, <2>1 DEF Service!Connect, Service!Disconnect
<1>6. ASSUME NEW a \in Service!Ids, Service!End(a) \/ Service!Crash(a) PROVE ServiceTyped'
  BY <1>0, <1>6, GoneTyped DEF Service!End, Service!Crash
<1>7. ASSUME NEW s \in Sessions \cup {0}, NEW logoff \in BOOLEAN, Service!SwitchConsole(s, logoff)
      PROVE  ServiceTyped'
  BY <1>0, <1>7, GoneTyped DEF Service!SwitchConsole
<1>8. CASE UNCHANGED Service!vars
  BY <1>8 DEF Service!vars
<1> QED BY <1>1, <1>2, <1>3, <1>4, <1>5, <1>6, <1>7, <1>8 DEF Service!Next, Service!Process

LEMMA ServiceInit == Service!Init => ServiceTyped
<1>1. 0 \in 0 .. MaxMishaps
  BY AgentsAssumption DEF Service!ServiceAssumption
<1> QED BY <1>1, GoneTyped DEF Service!Init, ServiceTyped

LEMMA ServiceTypedIsTypeOK == ServiceTyped => Service!TypeOK
BY DEF ServiceTyped, Service!TypeOK, Process

-----------------------------------------------------------------------------
(* Injection on Windows.  Types: what goes through the pipe is an event    *)
(* and the number of the connection it was written to.                     *)

Frame == [ev : Secure!Events, link : 1 .. MaxLinks]

SecureWhere ==
    /\ locked \in BOOLEAN /\ secure \in BOOLEAN /\ fresh \in BOOLEAN /\ backoff \in BOOLEAN /\ unsure \in BOOLEAN
    /\ link \in 0 .. MaxLinks /\ conn \in 0 .. MaxLinks /\ conn <= link
    /\ spc \in [Callers -> {"idle", "route", "cached", "stamp", "query", "store", "forward", "wait", "drop", "inject"}]
    /\ at \in [Callers -> 0 .. MaxEvents]
    /\ \A c \in Callers : spc[c] # "idle" => at[c] > 0
    /\ using \in [Callers -> 0 .. MaxLinks]
    /\ done \in [Callers -> {"none", "ok", "err"}]
    /\ answer \in [Callers -> {"none", "default", "secure", "error"}] /\ older \subseteq Callers
    /\ strouble \in 0 .. MaxTrouble

(* What is in the pipe and in the agent came through the last connection,  *)
(* and an agent without one has nothing.                                   *)
SecureFrames ==
    /\ agent \in {"off", "listen", "serve", "drain"}
    /\ writes \subseteq Frame /\ \A w \in writes : w.link <= link
    /\ buf \in Seq(Frame) /\ Len(buf) <= PipeCap
    /\ queue \in Seq(Frame) /\ Len(queue) <= QueueCap
    /\ \A i \in 1 .. Len(buf) : buf[i].link = link
    /\ \A i \in 1 .. Len(queue) : queue[i].link = link
    /\ agent # "serve" => buf = <<>>
    /\ agent \in {"off", "listen"} => queue = <<>>

SecureBooks ==
    /\ direct \subseteq Secure!Events /\ remote \subseteq Secure!Events /\ twice \subseteq Secure!Events
    /\ doubt \subseteq Secure!Events /\ lost \subseteq Secure!Events

SecureTyped == SecureWhere /\ SecureFrames /\ SecureBooks

LEMMA EventTyped ==
    ASSUME SecureTyped, NEW c \in Callers, spc[c] # "idle"
    PROVE  Secure!Event(c) \in Secure!Events /\ Secure!Event(c)[1] = c /\ Secure!Event(c)[2] = at[c]
BY DEF SecureTyped, SecureWhere, Secure!Event, Secure!Events

LEMMA TroubleCounts == SecureTyped /\ Secure!Trouble => strouble' \in 0 .. MaxTrouble
BY SecureAssumption DEF SecureTyped, SecureWhere, Secure!Trouble, Secure!BoundsAssumption

(* What a step of a caller does to the frames: nothing, or it starts a     *)
(* write.                                                                  *)
LEMMA CallerTyped ==
    ASSUME SecureTyped, NEW c \in Callers, Secure!Caller(c)
    PROVE  SecureTyped'
<1> USE DEF Secure!proxy, Secure!history, Secure!asking, Secure!Goto
<1>0. SecureAssumption /\ MaxEvents \in Nat /\ MaxLinks \in Nat /\ {MaxTrouble} \subseteq Nat
  BY SecureAssumption DEF Secure!BoundsAssumption
<1>1. CASE Secure!Call(c)
  <2>1. at[c] \in 0 .. MaxEvents /\ at[c] < MaxEvents
    BY <1>1 DEF Secure!Call, SecureTyped, SecureWhere
  <2>2. at[c] + 1 \in 0 .. MaxEvents /\ at[c] + 1 > 0
    BY <1>0, <2>1
  <2> QED BY <1>1, <2>2 DEF Secure!Call, SecureTyped, SecureWhere, SecureFrames, SecureBooks
<1>2. CASE \/ Secure!RouteChecks(c) \/ Secure!RouteCached(c) \/ Secure!RouteStamps(c) \/ Secure!RouteAsks(c)
           \/ Secure!RouteStores(c) \/ Secure!ForwardFails(c) \/ Secure!Written(c)
  <2>1. /\ spc[c] # "idle" /\ locked' = locked /\ conn' = conn /\ using' = using /\ done' = done /\ at' = at
        /\ link' = link /\ strouble' = strouble /\ UNCHANGED <<writes, buf, agent, queue>>
        /\ UNCHANGED <<direct, remote, twice, doubt, lost>>
    BY <1>2 DEF Secure!RouteChecks, Secure!RouteCached, Secure!RouteStamps, Secure!RouteAsks, Secure!RouteStores,
       Secure!ForwardFails, Secure!Written
  <2>2. /\ secure' \in BOOLEAN /\ fresh' \in BOOLEAN /\ backoff' \in BOOLEAN /\ unsure' \in BOOLEAN
    <3>1. CASE Secure!RouteStores(c)
      <4>1. secure' = (answer[c] # "default") /\ unsure' = (unsure /\ older # {}) /\ UNCHANGED <<fresh, backoff>>
        BY <3>1 DEF Secure!RouteStores
      <4>2. secure' \in BOOLEAN
        BY <4>1
      <4>3. unsure' \in BOOLEAN
        <5>1. CASE older = {}
          BY Zenon, <4>1, <5>1
        <5>2. CASE older # {}
          <6>1. CASE unsure
            BY Zenon, <4>1, <5>2, <6>1
          <6>2. CASE ~unsure
            BY Zenon, <4>1, <6>2
          <6> QED BY <6>1, <6>2
        <5> QED BY <5>1, <5>2
      <4> QED BY Zenon, <4>1, <4>2, <4>3 DEF SecureTyped, SecureWhere
    <3>2. CASE ~Secure!RouteStores(c)
      BY Zenon, <1>2, <3>2 DEF Secure!RouteChecks, Secure!RouteCached, Secure!RouteStamps, Secure!RouteAsks,
         Secure!ForwardFails, Secure!Written, Secure!asking, SecureTyped, SecureWhere
    <3> QED BY <3>1, <3>2
  <2>3. /\ spc' \in [Callers -> {"idle", "route", "cached", "stamp", "query", "store", "forward", "wait", "drop",
                             "inject"}]
        /\ \A d \in Callers : d # c => spc'[d] = spc[d]
    BY <1>2 DEF Secure!RouteChecks, Secure!RouteCached, Secure!RouteStamps, Secure!RouteAsks, Secure!RouteStores,
       Secure!ForwardFails, Secure!Written, Secure!Decide, SecureTyped, SecureWhere
  <2>4. answer' \in [Callers -> {"none", "default", "secure", "error"}] /\ older' \subseteq Callers
    BY <1>2 DEF Secure!RouteChecks, Secure!RouteCached, Secure!RouteStamps, Secure!RouteAsks, Secure!RouteStores,
       Secure!ForwardFails, Secure!Written, Secure!asking, SecureTyped, SecureWhere
  <2> QED BY <2>1, <2>2, <2>3, <2>4 DEF SecureTyped, SecureWhere, SecureFrames, SecureBooks
<1>3. CASE Secure!ForwardCached(c)
  <2>1. [ev |-> Secure!Event(c), link |-> conn] \in Frame /\ conn <= link
    BY <1>0, <1>3, EventTyped DEF Secure!ForwardCached, Frame, SecureTyped, SecureWhere
  <2>2. SecureWhere'
    BY <1>3, <2>1 DEF Secure!ForwardCached, Secure!StartWrite, SecureTyped, SecureWhere
  <2>3. SecureFrames'
    BY <1>3, <2>1 DEF Secure!ForwardCached, Secure!StartWrite, SecureTyped, SecureFrames
  <2>4. SecureBooks'
    BY <1>3 DEF Secure!ForwardCached, SecureTyped, SecureBooks
  <2> QED BY <2>2, <2>3, <2>4 DEF SecureTyped
<1>4. CASE Secure!ForwardDials(c)
  <2>1. link + 1 \in 1 .. MaxLinks /\ \A n \in 0 .. link : n <= link + 1
    BY <1>0, <1>4 DEF Secure!ForwardDials, SecureTyped, SecureWhere
  <2>2. [ev |-> Secure!Event(c), link |-> link + 1] \in Frame
    BY <1>4, <2>1, EventTyped DEF Secure!ForwardDials, Frame
  <2>3. buf = <<>> /\ queue = <<>> /\ buf' = buf /\ queue' = queue /\ link' = link + 1 /\ agent' = "serve"
        /\ writes' = writes \cup {[ev |-> Secure!Event(c), link |-> link + 1]}
    BY <1>4 DEF Secure!ForwardDials, Secure!StartWrite, SecureTyped, SecureFrames
  <2>4. SecureFrames'
    <3>1. \A w \in writes : w.link <= link + 1
      <4> SUFFICES ASSUME NEW w \in writes PROVE w.link <= link + 1
        OBVIOUS
      <4>1. w.link <= link /\ w.link \in 1 .. MaxLinks
        BY DEF SecureTyped, SecureFrames, Frame
      <4> QED BY <2>1, <4>1 DEF SecureTyped, SecureWhere
    <3> QED BY <2>1, <2>2, <2>3, <3>1 DEF SecureTyped, SecureFrames
  <2> QED BY <1>4, <2>1, <2>4 DEF Secure!ForwardDials, Secure!StartWrite, SecureTyped, SecureWhere, SecureBooks
<1>5. CASE Secure!Timeout(c)
  BY <1>5, TroubleCounts, EventTyped DEF Secure!Timeout, SecureTyped, SecureWhere, SecureFrames, SecureBooks
<1>6. CASE Secure!Drop(c)
  <2>1. 0 \in 0 .. MaxLinks /\ 0 <= link /\ spc[c] # "idle"
    BY <1>0, <1>6 DEF Secure!Drop, SecureTyped, SecureWhere
  <2> QED BY <1>6, <2>1 DEF Secure!Drop, SecureTyped, SecureWhere, SecureFrames, SecureBooks
<1>7. CASE Secure!Inject(c)
  <2>1. Secure!Event(c) \in Secure!Events
    BY <1>7, EventTyped DEF Secure!Inject
  <2>2. direct' \subseteq Secure!Events /\ twice' \subseteq Secure!Events
    BY <1>7, <2>1 DEF Secure!Inject, Secure!Twice, SecureTyped, SecureBooks
  <2> QED BY <1>7, <2>2 DEF Secure!Inject, SecureTyped, SecureWhere, SecureFrames, SecureBooks
<1> QED BY <1>1, <1>2, <1>3, <1>4, <1>5, <1>6, <1>7 DEF Secure!Caller

(* A sequence of frames, as it grows and shrinks. *)
LEMMA FramesGrow ==
    ASSUME NEW s \in Seq(Frame), NEW w \in Frame
    PROVE  /\ Append(s, w) \in Seq(Frame) /\ Len(Append(s, w)) = Len(s) + 1 /\ Len(s) \in Nat
           /\ \A i \in 1 .. Len(s) : Append(s, w)[i] = s[i]
           /\ Append(s, w)[Len(s) + 1] = w
OBVIOUS

LEMMA FramesShrink ==
    ASSUME NEW s \in Seq(Frame), s # <<>>
    PROVE  /\ Tail(s) \in Seq(Frame) /\ Len(Tail(s)) = Len(s) - 1 /\ Len(s) \in Nat \ {0}
           /\ \A i \in 1 .. Len(s) - 1 : i + 1 \in 1 .. Len(s) /\ Tail(s)[i] = s[i + 1]
           /\ Head(s) = s[1] /\ Head(s) \in Frame
OBVIOUS

LEMMA WriteTyped ==
    ASSUME SecureTyped, NEW w \in writes, Secure!Write(w)
    PROVE  SecureTyped'
<1> USE DEF Secure!proxy, Secure!history, Secure!asking
<1>1. /\ writes' = writes \ {w} /\ w \in Frame
      /\ UNCHANGED <<locked, secure, fresh, conn, backoff, using, spc, at, link, agent, queue, direct, remote,
                     twice, doubt, lost, answer, older, unsure, strouble>>
  BY DEF Secure!Write, SecureTyped, SecureFrames
<1>2. done' \in [Callers -> {"none", "ok", "err"}]
  BY DEF Secure!Write, Secure!Result, SecureTyped, SecureWhere
<1>3. /\ buf' \in Seq(Frame) /\ Len(buf') <= PipeCap /\ (agent # "serve" => buf' = <<>>)
      /\ \A i \in 1 .. Len(buf') : buf'[i].link = link
  <2>1. CASE Secure!Alive(w.link)
    <3>1. buf' = Append(buf, w) /\ Len(buf) < PipeCap /\ w.link = link /\ agent = "serve" /\ buf \in Seq(Frame)
      BY <2>1 DEF Secure!Write, Secure!Alive, SecureTyped, SecureFrames
    <3>2. \A i \in 1 .. Len(buf') : i \in 1 .. Len(buf) \/ i = Len(buf) + 1
      BY <1>1, <3>1, FramesGrow
    <3>3. PipeCap \in Nat
      BY SecureAssumption DEF Secure!BoundsAssumption
    <3> QED BY <1>1, <3>1, <3>2, <3>3, FramesGrow DEF SecureTyped, SecureFrames
  <2>2. CASE ~Secure!Alive(w.link)
    BY <2>2 DEF Secure!Write, SecureTyped, SecureFrames
  <2> QED BY <2>1, <2>2
<1> QED BY <1>1, <1>2, <1>3 DEF SecureTyped, SecureWhere, SecureFrames, SecureBooks

LEMMA AgentTyped ==
    ASSUME SecureTyped, Secure!Agent
    PROVE  SecureTyped'
<1> USE DEF Secure!proxy, Secure!history, Secure!asking
<1>0. UNCHANGED <<locked, secure, fresh, conn, backoff, using, done, writes, spc, at, link, direct, doubt, answer, older,
                 unsure>>
  BY DEF Secure!Agent, Secure!AgentReads, Secure!AgentHangsUp, Secure!AgentListens, Secure!AgentInjects,
         Secure!AgentDies, Secure!AgentStarts
<1>a. ASSUME NEW s \in Seq(Frame) PROVE Secure!FramesOf(s) \subseteq Secure!Events
  <2>0. \A i \in DOMAIN s : s[i] \in Frame
    OBVIOUS
  <2>1. \A i \in DOMAIN s : s[i].ev \in Secure!Events
    BY <2>0 DEF Frame
  <2> QED BY <2>1 DEF Secure!FramesOf
<1>b. ASSUME strouble' \in 0 .. MaxTrouble PROVE SecureWhere'
  BY <1>0, <1>b DEF SecureTyped, SecureWhere
<1>c. strouble' = strouble => strouble' \in 0 .. MaxTrouble
  BY DEF SecureTyped, SecureWhere
<1>1. CASE Secure!AgentReads
  <2>1. buf \in Seq(Frame) /\ buf # <<>> /\ buf' = Tail(buf) /\ agent = "serve" /\ agent' = agent
        /\ UNCHANGED <<remote, twice, strouble>> /\ queue \in Seq(Frame)
    BY <1>1 DEF Secure!AgentReads, SecureTyped, SecureFrames
  <2>2. Head(buf) \in Frame /\ Head(buf) = buf[1] /\ buf[1].link = link /\ Head(buf).ev \in Secure!Events
    <3>1. Head(buf) \in Frame /\ Head(buf) = buf[1] /\ Len(buf) \in Nat \ {0}
      BY <2>1, FramesShrink
    <3>2. 1 \in 1 .. Len(buf)
      BY <3>1
    <3> QED BY <3>1, <3>2 DEF SecureTyped, SecureFrames, Frame
  <2>3. \/ queue' = queue /\ lost' = lost \cup {Head(buf).ev}
        \/ queue' = Append(queue, Head(buf)) /\ Len(queue) < QueueCap /\ lost' = lost
    BY <1>1 DEF Secure!AgentReads
  <2>4. /\ queue' \in Seq(Frame) /\ Len(queue') <= QueueCap
        /\ \A i \in 1 .. Len(queue') : queue'[i].link = link
    <3>1. CASE queue' = queue
      BY <3>1 DEF SecureTyped, SecureFrames
    <3>2. CASE queue' = Append(queue, Head(buf)) /\ Len(queue) < QueueCap
      <4>1. \A i \in 1 .. Len(queue') : i \in 1 .. Len(queue) \/ i = Len(queue) + 1
        BY <2>1, <2>2, <3>2, FramesGrow
      <4>2. QueueCap \in Nat
        BY SecureAssumption DEF Secure!BoundsAssumption
      <4> QED BY <2>1, <2>2, <3>2, <4>1, <4>2, FramesGrow DEF SecureTyped, SecureFrames
    <3> QED BY <2>3, <3>1, <3>2
  <2>5. /\ buf' \in Seq(Frame) /\ Len(buf') <= PipeCap /\ \A i \in 1 .. Len(buf') : buf'[i].link = link
    <3>1. Len(buf') = Len(buf) - 1 /\ Len(buf) \in Nat /\ PipeCap \in Nat /\ Len(buf) <= PipeCap
      BY <2>1, FramesShrink, SecureAssumption DEF SecureTyped, SecureFrames, Secure!BoundsAssumption
    <3>2. \A i \in 1 .. Len(buf') : buf'[i] = buf[i + 1] /\ i + 1 \in 1 .. Len(buf)
      BY <2>1, <3>1, FramesShrink
    <3> QED BY <2>1, <3>1, <3>2, FramesShrink DEF SecureTyped, SecureFrames
  <2>6. SecureFrames'
    BY <1>0, <2>1, <2>4, <2>5 DEF SecureTyped, SecureFrames
  <2>7. SecureBooks'
    BY <1>0, <2>1, <2>2, <2>3 DEF SecureTyped, SecureBooks
  <2> QED BY <1>b, <1>c, <2>1, <2>6, <2>7 DEF SecureTyped
<1>2. CASE Secure!AgentHangsUp \/ Secure!AgentStarts
  <2>1. SecureFrames'
    BY <1>0, <1>2 DEF Secure!AgentHangsUp, Secure!AgentStarts, SecureTyped, SecureFrames
  <2>2. SecureBooks' /\ strouble' = strouble
    BY <1>2 DEF Secure!AgentHangsUp, Secure!AgentStarts, SecureTyped, SecureBooks
  <2> QED BY <1>b, <1>c, <2>1, <2>2 DEF SecureTyped
<1>3. CASE Secure!AgentListens
  <2>1. SecureFrames'
    BY <1>0, <1>3, SecureAssumption DEF Secure!AgentListens, Secure!Drained, SecureTyped, SecureFrames, Secure!BoundsAssumption
  <2>2. SecureBooks' /\ strouble' = strouble
    BY <1>3, <1>a DEF Secure!AgentListens, SecureTyped, SecureBooks, SecureFrames
  <2> QED BY <1>b, <1>c, <2>1, <2>2 DEF SecureTyped
<1>4. CASE Secure!AgentInjects
  <2>1. queue \in Seq(Frame) /\ queue # <<>> /\ queue' = Tail(queue) /\ agent # "off" /\ UNCHANGED <<agent, buf, lost, strouble>>
    BY <1>4 DEF Secure!AgentInjects, SecureTyped, SecureFrames
  <2>2. Head(queue).ev \in Secure!Events
    BY <2>1, FramesShrink DEF Frame
  <2>3. /\ queue' \in Seq(Frame) /\ Len(queue') <= QueueCap /\ \A i \in 1 .. Len(queue') : queue'[i].link = link
    <3>1. Len(queue') = Len(queue) - 1 /\ Len(queue) \in Nat /\ QueueCap \in Nat /\ Len(queue) <= QueueCap
      BY <2>1, FramesShrink, SecureAssumption DEF SecureTyped, SecureFrames, Secure!BoundsAssumption
    <3>2. \A i \in 1 .. Len(queue') : queue'[i] = queue[i + 1] /\ i + 1 \in 1 .. Len(queue)
      BY <2>1, <3>1, FramesShrink
    <3> QED BY <2>1, <3>1, <3>2, FramesShrink DEF SecureTyped, SecureFrames
  <2>4. SecureFrames'
    BY <1>0, <2>1, <2>3 DEF SecureTyped, SecureFrames
  <2>5. SecureBooks'
    BY <1>0, <1>4, <2>1, <2>2 DEF Secure!AgentInjects, Secure!Twice, SecureTyped, SecureBooks
  <2> QED BY <1>b, <1>c, <2>1, <2>4, <2>5 DEF SecureTyped
<1>5. CASE Secure!AgentDies
  <2>1. SecureFrames'
    BY <1>0, <1>5, SecureAssumption DEF Secure!AgentDies, SecureTyped, SecureFrames, Secure!BoundsAssumption
  <2>2. SecureBooks'
    BY <1>5, <1>a DEF Secure!AgentDies, SecureTyped, SecureBooks, SecureFrames
  <2> QED BY <1>5, <1>b, <2>1, <2>2, TroubleCounts DEF SecureTyped, Secure!AgentDies
<1> QED BY <1>1, <1>2, <1>3, <1>4, <1>5 DEF Secure!Agent

LEMMA SecureStep == SecureTyped /\ [Secure!Next]_(Secure!vars) => SecureTyped'
<1> SUFFICES ASSUME SecureTyped, [Secure!Next]_(Secure!vars) PROVE SecureTyped'
  OBVIOUS
<1>1. CASE Secure!Expire
  <2>1. fresh' \in BOOLEAN /\ backoff' \in BOOLEAN
    BY Zenon, <1>1 DEF Secure!Expire, SecureTyped, SecureWhere
  <2> QED BY <1>1, <2>1 DEF Secure!Expire, Secure!history, Secure!asking, SecureTyped, SecureWhere, SecureFrames, SecureBooks
<1>2. CASE Secure!Flip
  <2>1. locked' \in BOOLEAN /\ unsure' \in BOOLEAN /\ older' \subseteq Callers
    BY Zenon, <1>2 DEF Secure!Flip, SecureTyped, SecureWhere
  <2>2. strouble' \in 0 .. MaxTrouble
    BY <1>2, TroubleCounts DEF Secure!Flip
  <2> QED BY <1>2, <2>1, <2>2 DEF Secure!Flip, Secure!proxy, Secure!history, SecureTyped, SecureWhere, SecureFrames, SecureBooks
<1>3. CASE UNCHANGED Secure!vars
  BY <1>3 DEF Secure!vars, Secure!proxy, Secure!history, Secure!asking, SecureTyped, SecureWhere, SecureFrames, SecureBooks
<1> QED BY <1>1, <1>2, <1>3, CallerTyped, WriteTyped, AgentTyped DEF Secure!Next

LEMMA SecureInit == Secure!Init => SecureTyped
<1> SUFFICES ASSUME Secure!Init PROVE SecureTyped
  OBVIOUS
<1> USE SecureAssumption DEF Secure!BoundsAssumption, Secure!Init
<1>1. SecureWhere
  <2>1. locked \in BOOLEAN /\ secure \in BOOLEAN /\ fresh \in BOOLEAN /\ backoff \in BOOLEAN /\ unsure \in BOOLEAN
    BY Zenon
  <2> QED BY <2>1 DEF SecureWhere
<1>2. SecureFrames
  BY DEF SecureFrames
<1>3. SecureBooks
  BY DEF SecureBooks
<1> QED BY <1>1, <1>2, <1>3 DEF SecureTyped

LEMMA SecureTypedIsTypeOK == SecureTyped => Secure!TypeOK
<1> SUFFICES ASSUME SecureTyped PROVE Secure!TypeOK
  OBVIOUS
<1>1. Frame = Secure!Frames
  BY DEF Frame, Secure!Frames
<1>2. {locked, fresh, secure, backoff, unsure} \subseteq BOOLEAN
  BY Zenon DEF SecureTyped, SecureWhere
<1>3. conn \in 0 .. link /\ link \in 0 .. MaxLinks
  BY SecureAssumption DEF SecureTyped, SecureWhere, Secure!BoundsAssumption
<1>4. UNION {direct, remote, twice, doubt, lost} \subseteq Secure!Events
  BY DEF SecureTyped, SecureBooks
<1> QED BY <1>1, <1>2, <1>3, <1>4 DEF SecureTyped, SecureWhere, SecureFrames, Secure!TypeOK

(* Where the copies of an event are.  Of an event nobody gave up on there  *)
(* is at most one, and none while its caller still has to send or inject   *)
(* it; every event is somewhere.                                           *)
Holds(s, e)  == \E i \in 1 .. Len(s) : s[i].ev = e
Single(s, e) == \A i, j \in 1 .. Len(s) : s[i].ev = e /\ s[j].ev = e => i = j

InWrites(e) == \E w \in writes : w.ev = e
OneWrite(e) == \A v, w \in writes : v.ev = e /\ w.ev = e => v = w
Injected(e) == e \in direct \/ e \in remote
Known(e)    == e[2] <= at[e[1]]
Newest(e)   == e[2] = at[e[1]]

Unsent(e)  == \/ ~Known(e)
              \/ Newest(e) /\ spc[e[1]] \in {"route", "cached", "stamp", "query", "store", "forward", "drop", "inject"}
              \/ Newest(e) /\ spc[e[1]] = "wait" /\ done[e[1]] = "err"
Awaited(e) == Newest(e) /\ spc[e[1]] = "wait" /\ done[e[1]] = "none"
Left(e)    == Newest(e) /\ spc[e[1]] \in {"drop", "inject"}
Handled(e) == Newest(e) /\ spc[e[1]] # "idle" /\ ~(spc[e[1]] = "wait" /\ done[e[1]] = "ok")

Sole(e) ==
    /\ OneWrite(e) /\ Single(buf, e) /\ Single(queue, e)
    /\ InWrites(e) => ~Holds(buf, e) /\ ~Holds(queue, e) /\ ~Injected(e) /\ Awaited(e)
    /\ Holds(buf, e) => ~Holds(queue, e) /\ ~Injected(e)
    /\ Holds(queue, e) => ~Injected(e)
    /\ Unsent(e) => ~InWrites(e) /\ ~Holds(buf, e) /\ ~Holds(queue, e) /\ ~Injected(e)

Traced(e) ==
    /\ e \notin doubt => Sole(e)
    /\ e \in doubt => /\ Known(e) /\ (e \in direct \/ Left(e))
                      /\ Newest(e) => spc[e[1]] \in {"drop", "inject", "idle"}
    /\ Known(e) => Injected(e) \/ e \in lost \/ InWrites(e) \/ Holds(buf, e) \/ Holds(queue, e) \/ Handled(e)

OnceInv == twice \subseteq doubt /\ \A e \in Secure!Events : Traced(e)

LEMMA HoldsAppend ==
    ASSUME NEW s \in Seq(Frame), NEW w \in Frame, NEW e
    PROVE  /\ Holds(Append(s, w), e) <=> Holds(s, e) \/ w.ev = e
           /\ Single(s, e) /\ (w.ev # e \/ ~Holds(s, e)) => Single(Append(s, w), e)
<1> DEFINE t == Append(s, w)
           n == Len(s)
<1>1. n \in Nat /\ Len(t) = n + 1 /\ t[n + 1] = w /\ \A i \in 1 .. n : t[i] = s[i]
  BY FramesGrow
<1> HIDE DEF t, n
<1>2. \A i : i \in 1 .. n + 1 <=> i \in 1 .. n \/ i = n + 1
  BY <1>1
<1>3. Holds(t, e) <=> Holds(s, e) \/ w.ev = e
  BY <1>1, <1>2 DEF Holds, n
<1>4. ASSUME Single(s, e), w.ev # e \/ ~Holds(s, e) PROVE Single(t, e)
  BY <1>1, <1>2, <1>4 DEF Holds, Single, n
<1> QED BY <1>3, <1>4 DEF t

LEMMA HoldsTail ==
    ASSUME NEW s \in Seq(Frame), s # <<>>, NEW e
    PROVE  /\ Holds(s, e) <=> Head(s).ev = e \/ Holds(Tail(s), e)
           /\ Single(s, e) => Single(Tail(s), e) /\ (Head(s).ev = e => ~Holds(Tail(s), e))
<1> DEFINE t == Tail(s)
           n == Len(s)
<1>1. /\ n \in Nat \ {0} /\ Len(t) = n - 1 /\ Head(s) = s[1]
      /\ \A i \in 1 .. n - 1 : i + 1 \in 1 .. n /\ t[i] = s[i + 1]
  BY FramesShrink
<1> HIDE DEF t, n
<1>2. \A j \in 1 .. n : j = 1 \/ (j - 1 \in 1 .. n - 1 /\ (j - 1) + 1 = j)
  BY <1>1
<1>3. 1 \in 1 .. n /\ \A i \in 1 .. n - 1 : i + 1 # 1
  BY <1>1
<1>4. Holds(s, e) <=> Head(s).ev = e \/ Holds(t, e)
  <2>1. Holds(s, e) => Head(s).ev = e \/ Holds(t, e)
    <3> SUFFICES ASSUME NEW j \in 1 .. n, s[j].ev = e PROVE Head(s).ev = e \/ \E i \in 1 .. n - 1 : t[i].ev = e
      BY <1>1 DEF Holds, n
    <3>1. CASE j = 1
      BY <1>1, <3>1
    <3>2. CASE j - 1 \in 1 .. n - 1 /\ (j - 1) + 1 = j
      <4>1. t[j - 1] = s[j]
        BY <1>1, <3>2
      <4> QED BY <3>2, <4>1
    <3> QED BY <1>2, <3>1, <3>2
  <2>2. Head(s).ev = e \/ Holds(t, e) => Holds(s, e)
    BY <1>1, <1>3 DEF Holds, n
  <2> QED BY <2>1, <2>2
<1>5. ASSUME Single(s, e) PROVE Single(t, e) /\ (Head(s).ev = e => ~Holds(t, e))
  <2>1. \A i, j \in 1 .. n : s[i].ev = e /\ s[j].ev = e => i = j
    BY <1>5 DEF Single, n
  <2>2. ASSUME NEW i \in 1 .. n - 1, NEW j \in 1 .. n - 1, t[i].ev = e, t[j].ev = e PROVE i = j
    <3>1. i + 1 = j + 1
      BY <1>1, <2>1, <2>2
    <3> QED BY <1>1, <3>1
  <2>3. ASSUME s[1].ev = e, NEW i \in 1 .. n - 1, t[i].ev = e PROVE FALSE
    BY <1>1, <1>3, <2>1, <2>3
  <2> QED BY <1>1, <2>2, <2>3 DEF Single, Holds
<1> QED BY <1>4, <1>5 DEF t

LEMMA HoldsNothing == \A e : ~Holds(<<>>, e) /\ Single(<<>>, e)
BY DEF Holds, Single

LEMMA EventParts ==
    ASSUME SecureTyped, NEW e \in Secure!Events
    PROVE  /\ e[1] \in Callers /\ e[2] \in Nat /\ at[e[1]] \in Nat
           /\ \A c \in Callers : e = Secure!Event(c) <=> e[1] = c /\ Newest(e)
<1>1. PICK c \in Callers, n \in 1 .. MaxEvents : e = <<c, n>>
  BY DEF Secure!Events
<1>2. n \in Nat /\ \A d \in Callers : at[d] \in Nat
  BY SecureAssumption DEF SecureTyped, SecureWhere, Secure!BoundsAssumption
<1>3. e[1] = c /\ e[2] = n
  BY <1>1
<1>4. \A d \in Callers : e = Secure!Event(d) <=> e[1] = d /\ Newest(e)
  BY <1>1, <1>3 DEF Secure!Event, Newest
<1> QED BY <1>2, <1>3, <1>4

LEMMA TracedKept ==
    ASSUME NEW e, Traced(e), e \in doubt' <=> e \in doubt, Injected(e)' <=> Injected(e), e \in direct' <=> e \in direct,
           e \in lost => e \in lost', InWrites(e)' <=> InWrites(e), OneWrite(e) => OneWrite(e)',
           Holds(buf, e)' <=> Holds(buf, e), Single(buf, e) => Single(buf, e)',
           Holds(queue, e)' <=> Holds(queue, e), Single(queue, e) => Single(queue, e)',
           Known(e)' <=> Known(e), Newest(e)' <=> Newest(e),
           spc'[e[1]] = spc[e[1]] \/ ~Newest(e), done'[e[1]] = done[e[1]] \/ ~Newest(e)
    PROVE  Traced(e)'
<1>1. (Unsent(e)' <=> Unsent(e)) /\ (Awaited(e)' <=> Awaited(e)) /\ (Left(e)' <=> Left(e)) /\ (Handled(e)' <=> Handled(e))
  BY DEF Unsent, Awaited, Left, Handled
<1>2. Newest(e) => (spc'[e[1]] \in {"drop", "inject", "idle"} <=> spc[e[1]] \in {"drop", "inject", "idle"})
  OBVIOUS
<1>3. e \notin doubt' => Sole(e)'
  BY <1>1 DEF Traced, Sole
<1>4. e \in doubt' => /\ Known(e)' /\ (e \in direct' \/ Left(e)')
                      /\ Newest(e)' => spc'[e[1]] \in {"drop", "inject", "idle"}
  BY <1>1, <1>2 DEF Traced
<1>5. Known(e)' => Injected(e)' \/ e \in lost' \/ InWrites(e)' \/ Holds(buf, e)' \/ Holds(queue, e)' \/ Handled(e)'
  BY <1>1 DEF Traced
<1> QED BY <1>3, <1>4, <1>5 DEF Traced

(* The books of an event that a step does not touch. *)
LEMMA SameBooks ==
    ASSUME NEW e, UNCHANGED <<buf, queue, writes, direct, remote, lost, doubt>>
    PROVE  /\ InWrites(e)' <=> InWrites(e)
           /\ OneWrite(e)' <=> OneWrite(e)
           /\ Holds(buf, e)' <=> Holds(buf, e)
           /\ Single(buf, e)' <=> Single(buf, e)
           /\ Holds(queue, e)' <=> Holds(queue, e)
           /\ Single(queue, e)' <=> Single(queue, e)
           /\ Injected(e)' <=> Injected(e)
BY DEF InWrites, OneWrite, Holds, Single, Injected

LEMMA CallOnce ==
    ASSUME SecureTyped, OnceInv, NEW c \in Callers, Secure!Call(c)
    PROVE  OnceInv'
<1>1. /\ UNCHANGED <<buf, queue, writes, direct, remote, lost, doubt, twice, done>>
      /\ spc[c] = "idle" /\ at' = [at EXCEPT ![c] = @ + 1] /\ spc' = [spc EXCEPT ![c] = "route"]
  BY DEF Secure!Call, Secure!proxy, Secure!history, Secure!Goto
<1>2. ASSUME NEW e \in Secure!Events PROVE Traced(e)'
  <2>0. e[1] \in Callers /\ e[2] \in Nat /\ at[e[1]] \in Nat /\ Traced(e)
    BY <1>2, EventParts DEF OnceInv
  <2>1. CASE e[1] # c
    <3>1. at'[e[1]] = at[e[1]] /\ spc'[e[1]] = spc[e[1]]
      BY <1>1, <2>0, <2>1 DEF SecureTyped, SecureWhere
    <3>2. (Known(e)' <=> Known(e)) /\ (Newest(e)' <=> Newest(e))
      BY <3>1 DEF Known, Newest
    <3> QED BY <1>1, <2>0, <3>1, <3>2, SameBooks, TracedKept
  <2>2. CASE e[1] = c
    <3>1. at'[e[1]] = at[e[1]] + 1 /\ spc'[e[1]] = "route" /\ spc[e[1]] = "idle"
      BY <1>1, <2>0, <2>2 DEF SecureTyped, SecureWhere
    <3>2. CASE e[2] = at[e[1]] + 1
      <4>1. ~Known(e) /\ ~Newest(e) /\ Newest(e)' /\ Known(e)'
        BY <2>0, <3>1, <3>2 DEF Known, Newest
      <4>2. Unsent(e) /\ e \notin doubt
        BY <2>0, <4>1 DEF Unsent, Traced
      <4>3. Sole(e)
        BY <2>0, <4>2 DEF Traced
      <4>4. Handled(e)' /\ e \notin doubt'
        BY <1>1, <3>1, <4>1, <4>2 DEF Handled
      <4>5. ~InWrites(e) /\ ~Holds(buf, e) /\ ~Holds(queue, e) /\ ~Injected(e)
        BY <4>2, <4>3 DEF Sole
      <4>6. Sole(e)'
        BY <1>1, <4>3, <4>5, SameBooks DEF Sole
      <4> QED BY <4>4, <4>6 DEF Traced
    <3>3. CASE e[2] # at[e[1]] + 1 /\ ~Newest(e)
      <4>1. (Known(e)' <=> Known(e)) /\ (Newest(e)' <=> Newest(e))
        BY <2>0, <3>1, <3>3 DEF Known, Newest
      <4> QED BY <1>1, <2>0, <3>3, <4>1, SameBooks, TracedKept
    <3>4. CASE Newest(e)
      <4>1. Known(e) /\ Known(e)' /\ ~Newest(e)'
        BY <2>0, <3>1, <3>4 DEF Known, Newest
      <4>2. ~Unsent(e)' /\ ~Left(e) /\ ~Handled(e) /\ ~Awaited(e)
        BY <3>1, <4>1 DEF Unsent, Left, Handled, Awaited
      <4>3. e \notin doubt => Sole(e)'
        BY <1>1, <2>0, <4>2, SameBooks DEF Sole, Traced
      <4>4. e \in doubt => e \in direct
        BY <2>0, <4>2 DEF Traced
      <4>5. Injected(e) \/ e \in lost \/ InWrites(e) \/ Holds(buf, e) \/ Holds(queue, e)
        BY <2>0, <4>1, <4>2 DEF Traced
      <4> QED BY <1>1, <4>1, <4>3, <4>4, <4>5, SameBooks DEF Traced
    <3> QED BY <3>2, <3>3, <3>4
  <2> QED BY <2>1, <2>2
<1> QED BY <1>1, <1>2 DEF OnceInv

(* A step of caller c that only concerns its present event. *)
LEMMA OthersKept ==
    ASSUME SecureTyped, OnceInv, NEW c \in Callers, NEW e \in Secure!Events, e # Secure!Event(c),
           at' = at, \A d \in Callers : d # c => spc'[d] = spc[d] /\ done'[d] = done[d],
           UNCHANGED <<buf, queue, remote, lost>>,
           e \in doubt' <=> e \in doubt, e \in direct' <=> e \in direct,
           \A w : w.ev = e => (w \in writes' <=> w \in writes)
    PROVE  Traced(e)'
<1>1. Traced(e) /\ e[1] \in Callers /\ (Known(e)' <=> Known(e)) /\ (Newest(e)' <=> Newest(e))
  BY EventParts DEF OnceInv, Known, Newest
<1>2. e[1] # c \/ ~Newest(e)
  BY EventParts
<1>3. /\ InWrites(e)' <=> InWrites(e)
      /\ OneWrite(e) => OneWrite(e)'
  BY DEF InWrites, OneWrite
<1>4. /\ Holds(buf, e)' <=> Holds(buf, e)
      /\ Single(buf, e)' <=> Single(buf, e)
      /\ Holds(queue, e)' <=> Holds(queue, e)
      /\ Single(queue, e)' <=> Single(queue, e)
      /\ Injected(e)' <=> Injected(e)
  BY DEF Holds, Single, Injected
<1> QED BY <1>1, <1>2, <1>3, <1>4, TracedKept

(* Asking and dialing change nothing about an event that is not sent yet.  *)
LEMMA RouteOnce ==
    ASSUME SecureTyped, OnceInv, NEW c \in Callers,
           \/ Secure!RouteChecks(c) \/ Secure!RouteCached(c) \/ Secure!RouteStamps(c) \/ Secure!RouteAsks(c)
           \/ Secure!RouteStores(c) \/ Secure!ForwardFails(c) \/ Secure!Drop(c) \/ Secure!Written(c)
    PROVE  OnceInv'
<1> USE DEF Secure!proxy, Secure!history, Secure!Goto, Secure!Decide
<1>1. UNCHANGED <<buf, queue, writes, direct, remote, lost, doubt, twice, done, at>>
  BY DEF Secure!RouteChecks, Secure!RouteCached, Secure!RouteStamps, Secure!RouteAsks, Secure!RouteStores,
         Secure!ForwardFails, Secure!Drop, Secure!Written
<1>2. \A d \in Callers : d # c => spc'[d] = spc[d]
  BY DEF Secure!RouteChecks, Secure!RouteCached, Secure!RouteStamps, Secure!RouteAsks, Secure!RouteStores,
         Secure!ForwardFails, Secure!Drop, Secure!Written,
         SecureTyped, SecureWhere
<1>3. \/ /\ spc[c] \in {"route", "cached", "stamp", "query", "store", "forward"}
         /\ spc'[c] \in {"cached", "stamp", "query", "store", "forward", "inject"}
      \/ spc[c] = "drop" /\ spc'[c] = "inject"
      \/ spc[c] = "wait" /\ done[c] = "err" /\ spc'[c] = "drop"
      \/ spc[c] = "wait" /\ done[c] = "ok" /\ spc'[c] = "idle"
  BY DEF Secure!RouteChecks, Secure!RouteCached, Secure!RouteStamps, Secure!RouteAsks, Secure!RouteStores,
         Secure!ForwardFails, Secure!Drop, Secure!Written,
         SecureTyped, SecureWhere
<1>4. ASSUME NEW e \in Secure!Events PROVE Traced(e)'
  <2>1. CASE e # Secure!Event(c)
    BY <1>1, <1>2, <2>1, OthersKept
  <2>2. CASE e = Secure!Event(c)
    <3>1. e[1] = c /\ Newest(e) /\ Newest(e)' /\ Known(e) /\ Known(e)' /\ Traced(e)
      BY <1>1, <2>2, EventParts DEF OnceInv, Newest, Known
    <3>2. Unsent(e)' => Unsent(e)
      BY <1>1, <1>3, <3>1 DEF Unsent
    <3>3. ~Awaited(e) /\ ~Awaited(e)'
      BY <1>3, <3>1 DEF Awaited
    <3>4. e \notin doubt => Sole(e)'
      BY <1>1, <3>1, <3>2, <3>3, SameBooks DEF Traced, Sole
    <3>5. e \in doubt => spc[c] = "drop" /\ spc'[c] = "inject" /\ Left(e)'
      BY <1>3, <3>1 DEF Traced, Left
    <3>6. Handled(e) => Handled(e)' \/ Injected(e) \/ e \in lost \/ InWrites(e) \/ Holds(buf, e) \/ Holds(queue, e)
      BY <1>1, <1>3, <3>1 DEF Handled
    <3>7. Known(e)' => Injected(e)' \/ e \in lost' \/ InWrites(e)' \/ Holds(buf, e)' \/ Holds(queue, e)' \/ Handled(e)'
      BY <1>1, <3>1, <3>6, SameBooks DEF Traced
    <3>8. e \in doubt' => /\ Known(e)' /\ (e \in direct' \/ Left(e)')
                          /\ Newest(e)' => spc'[e[1]] \in {"drop", "inject", "idle"}
      BY <1>1, <3>1, <3>5
    <3> QED BY <1>1, <3>4, <3>7, <3>8 DEF Traced
  <2> QED BY <2>1, <2>2
<1> QED BY <1>1, <1>4 DEF OnceInv

(* An event that is sent for the first time has one copy from then on. *)
LEMMA SendOnce ==
    ASSUME SecureTyped, OnceInv, NEW c \in Callers, Secure!ForwardCached(c) \/ Secure!ForwardDials(c)
    PROVE  OnceInv'
<1> USE DEF Secure!proxy, Secure!history, Secure!Goto, Secure!StartWrite
<1>1. /\ UNCHANGED <<buf, queue, direct, remote, lost, doubt, twice, at>> /\ spc[c] = "forward"
      /\ \A d \in Callers : d # c => spc'[d] = spc[d] /\ done'[d] = done[d]
      /\ spc'[c] = "wait" /\ done'[c] = "none"
  BY DEF Secure!ForwardCached, Secure!ForwardDials, SecureTyped, SecureWhere
<1>2. PICK k : writes' = writes \cup {[ev |-> Secure!Event(c), link |-> k]}
  BY DEF Secure!ForwardCached, Secure!ForwardDials
<1>3. ASSUME NEW e \in Secure!Events PROVE Traced(e)'
  <2>1. CASE e # Secure!Event(c)
    BY <1>1, <1>2, <2>1, OthersKept
  <2>2. CASE e = Secure!Event(c)
    <3>1. e[1] = c /\ Newest(e) /\ Newest(e)' /\ Traced(e)
      BY <1>1, <2>2, EventParts DEF OnceInv, Newest
    <3>2. Unsent(e) /\ e \notin doubt
      BY <1>1, <3>1 DEF Unsent, Traced
    <3>3. Sole(e) /\ ~InWrites(e) /\ ~Holds(buf, e) /\ ~Holds(queue, e) /\ ~Injected(e)
      BY <3>1, <3>2 DEF Traced, Sole
    <3>4. InWrites(e)' /\ OneWrite(e)'
      <4> DEFINE v == [ev |-> Secure!Event(c), link |-> k]
      <4>1. v.ev = e /\ writes' = writes \cup {v}
        BY <1>2, <2>2
      <4> HIDE DEF v
      <4>2. \A w \in writes' : w.ev = e => w = v
        BY <3>3, <4>1 DEF InWrites
      <4> QED BY <4>1, <4>2 DEF InWrites, OneWrite
    <3>5. Awaited(e)' /\ Handled(e)' /\ Known(e)'
      BY <1>1, <3>1, EventParts DEF Awaited, Handled, Known, Newest
    <3>6. ~Unsent(e)'
      BY <1>1, <3>1, <3>5 DEF Unsent
    <3>7. /\ ~Holds(buf, e)' /\ ~Holds(queue, e)' /\ ~Injected(e)'
          /\ Single(buf, e)' /\ Single(queue, e)'
      BY <1>1, <3>3 DEF Sole, Holds, Single, Injected
    <3>8. Sole(e)'
      BY <3>4, <3>5, <3>6, <3>7 DEF Sole
    <3> QED BY <1>1, <3>2, <3>5, <3>8 DEF Traced
  <2> QED BY <2>1, <2>2
<1> QED BY <1>1, <1>3 DEF OnceInv

(* Giving up a wait puts the event in doubt; its caller will inject it. *)
LEMMA TimeoutOnce ==
    ASSUME SecureTyped, OnceInv, NEW c \in Callers, Secure!Timeout(c)
    PROVE  OnceInv'
<1> USE DEF Secure!proxy, Secure!history, Secure!Goto
<1>1. /\ UNCHANGED <<buf, queue, writes, direct, remote, lost, twice, at, done>> /\ spc[c] = "wait"
      /\ \A d \in Callers : d # c => spc'[d] = spc[d]
      /\ spc'[c] = "drop" /\ doubt' = doubt \cup {Secure!Event(c)}
  BY DEF Secure!Timeout, SecureTyped, SecureWhere
<1>2. ASSUME NEW e \in Secure!Events PROVE Traced(e)'
  <2>1. CASE e # Secure!Event(c)
    BY <1>1, <2>1, OthersKept
  <2>2. CASE e = Secure!Event(c)
    <3>1. e[1] = c /\ Newest(e)' /\ Known(e)'
      BY <1>1, <2>2, EventParts DEF Newest, Known
    <3>2. Left(e)' /\ Handled(e)' /\ e \in doubt'
      BY <1>1, <2>2, <3>1 DEF Left, Handled
    <3> QED BY <1>1, <3>1, <3>2 DEF Traced
  <2> QED BY <2>1, <2>2
<1> QED BY <1>1, <1>2 DEF OnceInv

(* The inner injector takes an event that has no copy, or is in doubt. *)
LEMMA InjectOnce ==
    ASSUME SecureTyped, OnceInv, NEW c \in Callers, Secure!Inject(c)
    PROVE  OnceInv'
<1> USE DEF Secure!proxy, Secure!history, Secure!Goto
<1>1. /\ UNCHANGED <<buf, queue, writes, remote, lost, doubt, at, done>> /\ spc[c] = "inject"
      /\ \A d \in Callers : d # c => spc'[d] = spc[d]
      /\ spc'[c] = "idle" /\ direct' = direct \cup {Secure!Event(c)}
      /\ twice' = IF Injected(Secure!Event(c)) THEN twice \cup {Secure!Event(c)} ELSE twice
  BY DEF Secure!Inject, Secure!Twice, Injected, SecureTyped, SecureWhere
<1>2. Secure!Event(c) \in Secure!Events
  BY <1>1, EventTyped
<1>3. Newest(Secure!Event(c)) /\ Secure!Event(c)[1] = c /\ Traced(Secure!Event(c))
  BY <1>2, EventParts DEF OnceInv
<1>4. Secure!Event(c) \notin doubt => /\ ~InWrites(Secure!Event(c)) /\ ~Holds(buf, Secure!Event(c))
                                      /\ ~Holds(queue, Secure!Event(c)) /\ ~Injected(Secure!Event(c))
                                      /\ Sole(Secure!Event(c))
  BY <1>1, <1>3 DEF Traced, Sole, Unsent
<1>5. ASSUME NEW e \in Secure!Events PROVE Traced(e)'
  <2>1. CASE e # Secure!Event(c)
    BY <1>1, <2>1, OthersKept
  <2>2. CASE e = Secure!Event(c)
    <3>1. e[1] = c /\ Newest(e)' /\ Known(e)' /\ Injected(e)' /\ e \in direct'
      BY <1>1, <1>3, <2>2, EventParts DEF Newest, Known, Injected
    <3>2. ~Unsent(e)'
      BY <1>1, <3>1 DEF Unsent
    <3>3. e \notin doubt => ~InWrites(e)' /\ ~Holds(buf, e)' /\ ~Holds(queue, e)' /\ OneWrite(e)' /\ Single(buf, e)' /\ Single(queue, e)'
      BY <1>1, <1>4, <2>2 DEF Sole, InWrites, OneWrite, Holds, Single
    <3>4. e \notin doubt => Sole(e)'
      BY <3>2, <3>3 DEF Sole
    <3> QED BY <1>1, <3>1, <3>4 DEF Traced
  <2> QED BY <2>1, <2>2
<1>6. twice' \subseteq doubt'
  BY <1>1, <1>4 DEF OnceInv
<1> QED BY <1>5, <1>6 DEF OnceInv

(* A write goroutine hands its copy to the pipe, or tells its caller that  *)
(* there is none; if the caller does not wait any more the event is in     *)
(* doubt.                                                                  *)
LEMMA WriteOnce ==
    ASSUME SecureTyped, OnceInv, NEW w \in writes, Secure!Write(w)
    PROVE  OnceInv'
<1> USE DEF Secure!proxy, Secure!history
<1> DEFINE x == w.ev
           c == w.ev[1]
           res == Secure!Result(w.link)
<1>1. /\ UNCHANGED <<queue, direct, remote, lost, doubt, twice, at, spc>> /\ writes' = writes \ {w}
      /\ w \in Frame /\ x \in Secure!Events /\ buf \in Seq(Frame)
  BY DEF Secure!Write, SecureTyped, SecureFrames, Frame
<1>2. c \in Callers /\ (Secure!Event(c) = x <=> Newest(x)) /\ res \in {"ok", "err"}
  BY <1>1, EventParts DEF Secure!Result
<1>3. done' = IF Newest(x) /\ spc[c] = "wait" THEN [done EXCEPT ![c] = res] ELSE done
  BY <1>2 DEF Secure!Write
<1>4. buf' = IF Secure!Alive(w.link) THEN Append(buf, w) ELSE buf
  BY DEF Secure!Write
<1>5. res = IF Secure!Alive(w.link) THEN "ok" ELSE "err"
  BY DEF Secure!Result
<1> HIDE DEF res
<1>6. ASSUME NEW e \in Secure!Events PROVE Traced(e)'
  <2>0. Traced(e) /\ (Known(e)' <=> Known(e)) /\ (Newest(e)' <=> Newest(e)) /\ (Injected(e)' <=> Injected(e))
        /\ e[1] \in Callers /\ (Holds(queue, e)' <=> Holds(queue, e)) /\ (Single(queue, e)' <=> Single(queue, e))
    BY <1>1, EventParts DEF OnceInv, Known, Newest, Injected, Holds, Single
  <2>1. CASE e # x
    <3>1. (InWrites(e)' <=> InWrites(e)) /\ (OneWrite(e) => OneWrite(e)')
      BY <1>1, <2>1 DEF InWrites, OneWrite
    <3>2. (Holds(buf, e)' <=> Holds(buf, e)) /\ (Single(buf, e) => Single(buf, e)')
      <4>1. CASE buf' = buf
        BY <4>1 DEF Holds, Single
      <4>2. CASE buf' = Append(buf, w)
        <5>1. /\ Holds(Append(buf, w), e) <=> Holds(buf, e)
              /\ Single(buf, e) => Single(Append(buf, w), e)
          BY <1>1, <2>1, HoldsAppend
        <5> QED BY <4>2, <5>1 DEF Holds, Single
      <4> QED BY <1>4, <4>1, <4>2
    <3>3. done'[e[1]] = done[e[1]] \/ ~Newest(e)
      <4>1. CASE e[1] = c /\ Newest(e)
        <5>1. ~Newest(x)
          BY <1>1, <1>2, <2>1, <4>1, EventParts
        <5> QED BY <1>3, <5>1
      <4>2. CASE e[1] # c
        BY <1>2, <1>3, <2>0, <4>2 DEF SecureTyped, SecureWhere
      <4> QED BY <4>1, <4>2
    <3> QED BY <1>1, <2>0, <3>1, <3>2, <3>3, TracedKept
  <2>2. CASE e = x
    <3>1. InWrites(e)
      BY <2>2 DEF InWrites
    <3>2. CASE e \in doubt
      <4>1. e[1] = c /\ (Newest(e) => spc[c] # "wait") /\ done' = done
        BY <1>3, <2>0, <2>2, <3>2 DEF Traced
      <4>2. Left(e)' <=> Left(e)
        BY <1>1, <2>0 DEF Left
      <4>3. Left(e) => Handled(e)'
        BY <1>1, <2>0 DEF Left, Handled
      <4> QED BY <1>1, <2>0, <3>2, <4>1, <4>2, <4>3 DEF Traced, Injected
    <3>3. CASE e \notin doubt
      <4>1. Sole(e) /\ Awaited(e) /\ ~Holds(buf, e) /\ ~Holds(queue, e) /\ ~Injected(e)
        BY <2>0, <3>1, <3>3 DEF Traced, Sole
      <4>2. ~InWrites(e)' /\ OneWrite(e)'
        BY <1>1, <2>2, <4>1 DEF Sole, OneWrite, InWrites
      <4>3. done'[e[1]] = res /\ spc'[e[1]] = "wait" /\ Newest(e)' /\ Known(e)'
        BY <1>1, <1>2, <1>3, <2>0, <2>2, <4>1, EventParts DEF Awaited, Known, Newest, SecureTyped, SecureWhere
      <4>4. CASE Secure!Alive(w.link)
        <5>1. Holds(Append(buf, w), e) /\ Single(Append(buf, w), e)
          BY <1>1, <2>2, <4>1, HoldsAppend DEF Sole
        <5>2. Holds(buf, e)' /\ Single(buf, e)'
          BY <1>4, <4>4, <5>1 DEF Holds, Single
        <5>3. ~Unsent(e)'
          BY <1>5, <4>3, <4>4 DEF Unsent
        <5>4. Sole(e)'
          BY <2>0, <4>1, <4>2, <5>2, <5>3 DEF Sole
        <5> QED BY <1>1, <3>3, <4>3, <5>2, <5>4 DEF Traced
      <4>5. CASE ~Secure!Alive(w.link)
        <5>1. ~Holds(buf, e)' /\ Single(buf, e)'
          BY <1>4, <4>1, <4>5 DEF Holds, Single, Sole
        <5>2. Sole(e)'
          BY <2>0, <4>1, <4>2, <5>1 DEF Sole
        <5>3. Handled(e)'
          BY <1>5, <4>3, <4>5 DEF Handled
        <5> QED BY <1>1, <3>3, <4>3, <5>2, <5>3 DEF Traced
      <4> QED BY <4>4, <4>5
    <3> QED BY <3>2, <3>3
  <2> QED BY <2>1, <2>2
<1> QED BY <1>1, <1>6 DEF OnceInv

(* What the agent reads, drops, injects or takes with it. *)
LEMMA AgentOnce ==
    ASSUME SecureTyped, OnceInv, Secure!Agent
    PROVE  OnceInv'
<1> USE DEF Secure!proxy, Secure!history
<1>0. UNCHANGED <<done, writes, spc, at, direct, doubt>>
  BY DEF Secure!Agent, Secure!AgentReads, Secure!AgentHangsUp, Secure!AgentListens, Secure!AgentInjects,
         Secure!AgentDies, Secure!AgentStarts
<1>a. ASSUME NEW e
      PROVE  /\ Known(e)' <=> Known(e)
             /\ Newest(e)' <=> Newest(e)
             /\ InWrites(e)' <=> InWrites(e)
             /\ OneWrite(e)' <=> OneWrite(e)
             /\ Unsent(e)' <=> Unsent(e)
             /\ Awaited(e)' <=> Awaited(e)
             /\ Left(e)' <=> Left(e)
             /\ Handled(e)' <=> Handled(e)
  BY <1>0 DEF Known, Newest, InWrites, OneWrite, Unsent, Awaited, Left, Handled
<1>b. ASSUME NEW e, e \in Secure!Events,
             Injected(e)' <=> Injected(e),
             Holds(buf, e)' => Holds(buf, e), Single(buf, e) => Single(buf, e)',
             Holds(queue, e)' => Holds(queue, e) \/ (Holds(buf, e) /\ ~(Holds(buf, e)' /\ Sole(e))),
             Sole(e) => Single(queue, e)',
             Holds(buf, e) \/ Holds(queue, e) \/ e \in lost => Holds(buf, e)' \/ Holds(queue, e)' \/ e \in lost'
      PROVE  Traced(e)'
  <2>0. Traced(e)
    BY <1>b DEF OnceInv
  <2>1. Sole(e) => Sole(e)'
    BY <1>a, <1>b DEF Sole
  <2> QED BY <1>0, <1>a, <1>b, <2>0, <2>1 DEF Traced
<1>1. CASE Secure!AgentReads
  <2>1. buf \in Seq(Frame) /\ buf # <<>> /\ buf' = Tail(buf) /\ queue \in Seq(Frame) /\ UNCHANGED <<remote, twice>>
    BY <1>1 DEF Secure!AgentReads, SecureTyped, SecureFrames
  <2>2. \/ queue' = queue /\ lost' = lost \cup {Head(buf).ev}
        \/ queue' = Append(queue, Head(buf)) /\ lost' = lost
    BY <1>1 DEF Secure!AgentReads
  <2>3. Head(buf) \in Frame
    BY <2>1, FramesShrink
  <2>4. ASSUME NEW e \in Secure!Events PROVE Traced(e)'
    <3>1. Injected(e)' <=> Injected(e)
      BY <1>0, <2>1 DEF Injected
    <3>2. /\ Holds(buf, e) <=> Head(buf).ev = e \/ Holds(Tail(buf), e)
          /\ Single(buf, e) => Single(Tail(buf), e) /\ (Head(buf).ev = e => ~Holds(Tail(buf), e))
      BY <2>1, HoldsTail
    <3>3. /\ Holds(buf, e)' <=> Holds(Tail(buf), e)
          /\ Single(buf, e)' <=> Single(Tail(buf), e)
      BY <2>1 DEF Holds, Single
    <3>4. CASE queue' = queue /\ lost' = lost \cup {Head(buf).ev}
      <4>1. /\ Holds(queue, e)' <=> Holds(queue, e)
            /\ Single(queue, e)' <=> Single(queue, e)
            /\ e \in lost' <=> e \in lost \/ e = Head(buf).ev
        BY <3>4 DEF Holds, Single
      <4> QED BY <1>b, <3>1, <3>2, <3>3, <4>1 DEF Sole
    <3>5. CASE queue' = Append(queue, Head(buf)) /\ lost' = lost
      <4>1. /\ Holds(Append(queue, Head(buf)), e) <=> Holds(queue, e) \/ Head(buf).ev = e
            /\ Single(queue, e) /\ (Head(buf).ev # e \/ ~Holds(queue, e)) => Single(Append(queue, Head(buf)), e)
        BY <2>1, <2>3, HoldsAppend
      <4>2. /\ Holds(queue, e)' <=> Holds(Append(queue, Head(buf)), e)
            /\ Single(queue, e)' <=> Single(Append(queue, Head(buf)), e)
        BY <3>5 DEF Holds, Single
      <4>3. e \in lost' <=> e \in lost
        BY <3>5
      <4> QED BY <1>b, <3>1, <3>2, <3>3, <4>1, <4>2, <4>3 DEF Sole
    <3> QED BY <2>2, <3>4, <3>5
  <2> QED BY <1>0, <2>1, <2>4 DEF OnceInv
<1>2. CASE Secure!AgentHangsUp \/ Secure!AgentStarts
  <2>1. UNCHANGED <<buf, queue, remote, lost, twice>>
    BY <1>2 DEF Secure!AgentHangsUp, Secure!AgentStarts
  <2>2. ASSUME NEW e \in Secure!Events PROVE Traced(e)'
    <3>1. Traced(e)
      BY DEF OnceInv
    <3> QED BY <1>0, <1>a, <2>1, <3>1, SameBooks, TracedKept
  <2> QED BY <1>0, <2>1, <2>2 DEF OnceInv
<1>3. ASSUME UNCHANGED <<remote, twice>>, queue' = <<>>, buf' = <<>> \/ buf' = buf,
             \A e \in Secure!Events : e \in lost \/ Holds(queue, e) \/ (Holds(buf, e) /\ buf' # buf) => e \in lost'
      PROVE  OnceInv'
  <2>1. ASSUME NEW e \in Secure!Events PROVE Traced(e)'
    <3>1. Injected(e)' <=> Injected(e)
      BY <1>0, <1>3 DEF Injected
    <3>2. ~Holds(queue, e)' /\ Single(queue, e)'
      BY <1>3 DEF Holds, Single
    <3>3. (Holds(buf, e)' => Holds(buf, e)) /\ (Single(buf, e) => Single(buf, e)')
      BY <1>3 DEF Holds, Single
    <3>4. buf' = buf => (Holds(buf, e)' <=> Holds(buf, e))
      BY DEF Holds
    <3> QED BY <1>3, <1>b, <3>1, <3>2, <3>3, <3>4
  <2> QED BY <1>0, <1>3, <2>1 DEF OnceInv
<1>c. \A s, e : e \in Secure!FramesOf(s) <=> \E i \in DOMAIN s : s[i].ev = e
  BY DEF Secure!FramesOf
<1>d. \A e : (Holds(queue, e) => e \in Secure!FramesOf(queue)) /\ (Holds(buf, e) => e \in Secure!FramesOf(buf))
  BY <1>c DEF Holds, SecureTyped, SecureFrames
<1>4. CASE Secure!AgentListens
  <2>1. queue' = <<>> /\ UNCHANGED <<remote, twice, buf>>
        /\ lost' = lost \cup (Secure!FramesOf(queue) \ Secure!FramesOf(<<>>))
    BY <1>4 DEF Secure!AgentListens, Secure!Drained
  <2>2. \A e : e \notin Secure!FramesOf(<<>>)
    BY <1>c
  <2> QED BY <1>3, <1>d, <2>1, <2>2
<1>5. CASE Secure!AgentDies
  <2>1. queue' = <<>> /\ buf' = <<>> /\ UNCHANGED <<remote, twice>>
        /\ lost' = lost \cup Secure!FramesOf(queue) \cup Secure!FramesOf(buf)
    BY <1>5 DEF Secure!AgentDies
  <2> QED BY <1>3, <1>d, <2>1
<1>6. CASE Secure!AgentInjects
  <2> DEFINE x == Head(queue).ev
  <2>1. queue \in Seq(Frame) /\ queue # <<>> /\ queue' = Tail(queue) /\ UNCHANGED <<buf, lost>>
        /\ remote' = remote \cup {x} /\ twice' = IF Injected(x) THEN twice \cup {x} ELSE twice
    BY <1>6 DEF Secure!AgentInjects, Secure!Twice, Injected, SecureTyped, SecureFrames
  <2>2. x \in Secure!Events
    BY <2>1, FramesShrink DEF Frame
  <2>3. Holds(queue, x) /\ Traced(x)
    BY <2>1, <2>2, HoldsTail DEF OnceInv
  <2> HIDE DEF x
  <2>4. ASSUME NEW e \in Secure!Events PROVE Traced(e)'
    <3>0. Traced(e)
      BY DEF OnceInv
    <3>1. /\ Holds(queue, e) <=> x = e \/ Holds(Tail(queue), e)
          /\ Single(queue, e) => Single(Tail(queue), e) /\ (x = e => ~Holds(Tail(queue), e))
      BY <2>1, HoldsTail DEF x
    <3>2. /\ Holds(queue, e)' <=> Holds(Tail(queue), e)
          /\ Single(queue, e)' <=> Single(Tail(queue), e)
          /\ Holds(buf, e)' <=> Holds(buf, e)
          /\ Single(buf, e)' <=> Single(buf, e)
      BY <2>1 DEF Holds, Single
    <3>3. Injected(e)' <=> Injected(e) \/ e = x
      BY <1>0, <2>1 DEF Injected
    <3>4. Sole(e) => Sole(e)'
      BY <1>a, <3>1, <3>2, <3>3 DEF Sole
    <3> QED BY <1>0, <1>a, <2>1, <3>0, <3>1, <3>2, <3>3, <3>4 DEF Traced
  <2>5. x \in doubt \/ ~Injected(x)
    BY <2>3 DEF Traced, Sole
  <2> QED BY <1>0, <2>1, <2>4, <2>5 DEF OnceInv
<1> QED BY <1>1, <1>2, <1>4, <1>5, <1>6 DEF Secure!Agent

LEMMA OnceStep == SecureTyped /\ OnceInv /\ [Secure!Next]_(Secure!vars) => OnceInv'
<1> SUFFICES ASSUME SecureTyped, OnceInv, [Secure!Next]_(Secure!vars) PROVE OnceInv'
  OBVIOUS
<1>1. ASSUME UNCHANGED <<writes, spc, at, done, buf, queue, direct, remote, twice, doubt, lost>>
      PROVE  OnceInv'
  <2>1. \A e : (Known(e)' <=> Known(e)) /\ (Newest(e)' <=> Newest(e))
    BY <1>1 DEF Known, Newest
  <2> QED BY <1>1, <2>1, SameBooks, TracedKept DEF OnceInv
<1>2. CASE Secure!Expire \/ Secure!Flip \/ UNCHANGED Secure!vars
  BY <1>1, <1>2 DEF Secure!Expire, Secure!Flip, Secure!vars, Secure!proxy, Secure!history, Secure!asking
<1>3. ASSUME NEW c \in Callers, Secure!Caller(c) PROVE OnceInv'
  BY <1>3, CallOnce, RouteOnce, SendOnce, TimeoutOnce, InjectOnce DEF Secure!Caller
<1> QED BY <1>2, <1>3, WriteOnce, AgentOnce DEF Secure!Next

LEMMA OnceInit == Secure!Init => OnceInv
<1> SUFFICES ASSUME Secure!Init PROVE OnceInv
  OBVIOUS
<1>1. /\ writes = {} /\ buf = <<>> /\ queue = <<>> /\ direct = {} /\ remote = {} /\ doubt = {} /\ twice = {}
      /\ \A c \in Callers : at[c] = 0 /\ spc[c] = "idle"
  BY DEF Secure!Init
<1>2. ASSUME NEW e \in Secure!Events PROVE Traced(e)
  <2>1. e[1] \in Callers /\ e[2] \in Nat \ {0}
    <3>1. PICK c \in Callers, n \in 1 .. MaxEvents : e = <<c, n>>
      BY DEF Secure!Events
    <3> QED BY <3>1, SecureAssumption DEF Secure!BoundsAssumption
  <2>2. ~Known(e)
    BY <1>1, <2>1 DEF Known
  <2>3. Sole(e)
    BY <1>1 DEF Sole, InWrites, OneWrite, Holds, Single, Injected
  <2> QED BY <1>1, <2>2, <2>3 DEF Traced
<1> QED BY <1>1, <1>2 DEF OnceInv

LEMMA OnceInvIsExactlyOnce == SecureTyped /\ OnceInv => Secure!ExactlyOnce
<1> SUFFICES ASSUME SecureTyped, OnceInv, Secure!AtRest, NEW e \in Secure!Events, e[2] <= at[e[1]]
             PROVE  e \in direct \cup remote \cup lost
  BY DEF Secure!ExactlyOnce, OnceInv
<1>1. e[1] \in Callers /\ Traced(e) /\ Known(e)
  BY EventParts DEF OnceInv, Known
<1>2. ~InWrites(e) /\ ~Holds(buf, e) /\ ~Holds(queue, e) /\ ~Handled(e)
  BY <1>1 DEF Secure!AtRest, InWrites, Holds, Handled
<1> QED BY <1>1, <1>2 DEF Traced, Injected

(* What the agent injects came through the last connection. *)
LEMMA LastConnection ==
    ASSUME SecureTyped, Secure!Next, remote' # remote
    PROVE  \A w \in writes \cup {buf[i] : i \in DOMAIN buf} \cup {queue[i] : i \in DOMAIN queue} :
              ~(w.link > Head(queue).link)
<1>1. queue # <<>>
  BY DEF Secure!Next, Secure!Caller, Secure!Call, Secure!RouteChecks, Secure!RouteCached, Secure!RouteStamps, Secure!RouteAsks, Secure!RouteStores,
         Secure!ForwardCached, Secure!ForwardDials, Secure!ForwardFails, Secure!Written, Secure!Timeout, Secure!Drop,
         Secure!Inject, Secure!Write, Secure!Agent, Secure!AgentReads, Secure!AgentHangsUp, Secure!AgentListens,
         Secure!AgentInjects, Secure!AgentDies, Secure!AgentStarts, Secure!Expire, Secure!Flip, Secure!history
<1>2. queue \in Seq(Frame) /\ buf \in Seq(Frame) /\ link \in 0 .. MaxLinks /\ MaxLinks \in Nat
  BY SecureAssumption DEF SecureTyped, SecureFrames, SecureWhere, Secure!BoundsAssumption
<1>3. Head(queue).link = link
  <2>1. Head(queue) = queue[1] /\ 1 \in 1 .. Len(queue)
    BY <1>1, <1>2, FramesShrink
  <2> QED BY <2>1 DEF SecureTyped, SecureFrames
<1>4. \A w \in writes \cup {buf[i] : i \in DOMAIN buf} \cup {queue[i] : i \in DOMAIN queue} : w.link <= link
  <2>1. \A w \in writes : w.link <= link
    BY DEF SecureTyped, SecureFrames
  <2>2. \A i \in DOMAIN buf : buf[i].link <= link
    BY <1>2 DEF SecureTyped, SecureFrames
  <2>3. \A i \in DOMAIN queue : queue[i].link <= link
    BY <1>2 DEF SecureTyped, SecureFrames
  <2> QED BY <2>1, <2>2, <2>3
<1>5. \A w \in writes \cup {buf[i] : i \in DOMAIN buf} \cup {queue[i] : i \in DOMAIN queue} : w.link \in 1 .. MaxLinks
  <2>1. \A w \in writes \cup {buf[i] : i \in DOMAIN buf} \cup {queue[i] : i \in DOMAIN queue} : w \in Frame
    BY <1>2 DEF SecureTyped, SecureFrames
  <2> QED BY <2>1 DEF Frame
<1> QED BY <1>2, <1>3, <1>4, <1>5

(* What is known of the desktop: an answer that was read since the last    *)
(* change is right, and so is the cache when such an answer was stored     *)
(* with no older one still to come.                                        *)
DesktopKnown ==
    /\ \A c \in Callers : spc[c] = "store" /\ c \notin older /\ answer[c] = "default" => ~locked
    /\ ~unsure => older = {} /\ (~secure => ~locked)

(* The steps of other parts of a caller, of the pipe and of the agent do   *)
(* not concern it.                                                         *)
LEMMA DesktopAlone ==
    ASSUME SecureTyped, NEW c \in Callers, Secure!Caller(c), ~Secure!RouteAsks(c), ~Secure!RouteStores(c)
    PROVE  /\ UNCHANGED <<secure, locked, answer, older, unsure>>
           /\ \A d \in Callers : spc'[d] = "store" => spc[d] = "store"
<1> USE DEF Secure!Goto, Secure!proxy, Secure!history, Secure!asking
<1>1. UNCHANGED <<secure, locked, answer, older, unsure>>
  BY Zenon DEF Secure!Caller, Secure!Call, Secure!RouteChecks, Secure!RouteCached, Secure!RouteStamps,
     Secure!ForwardCached, Secure!ForwardDials, Secure!ForwardFails, Secure!Written, Secure!Timeout, Secure!Drop,
     Secure!Inject
<1>2. \A d \in Callers : spc'[d] = "store" => spc[d] = "store"
  BY DEF Secure!Caller, Secure!Call, Secure!RouteChecks, Secure!RouteCached, Secure!RouteStamps,
     Secure!ForwardCached, Secure!ForwardDials, Secure!ForwardFails, Secure!Written, Secure!Timeout, Secure!Drop,
     Secure!Inject, Secure!StartWrite, Secure!Decide, SecureTyped, SecureWhere
<1> QED BY <1>1, <1>2

LEMMA DesktopStep == SecureTyped /\ DesktopKnown /\ [Secure!Next]_(Secure!vars) => DesktopKnown'
<1> SUFFICES ASSUME SecureTyped, DesktopKnown, [Secure!Next]_(Secure!vars) PROVE DesktopKnown'
  OBVIOUS
<1>1. ASSUME UNCHANGED <<secure, locked, answer, older, unsure>>,
             \A d \in Callers : spc'[d] = "store" => spc[d] = "store"
      PROVE  DesktopKnown'
  BY Zenon, <1>1 DEF DesktopKnown
<1>2. ASSUME NEW c \in Callers, Secure!RouteAsks(c) PROVE DesktopKnown'
  <2>1. /\ UNCHANGED <<secure, locked, older, unsure>>
        /\ \A d \in Callers : d # c => spc'[d] = spc[d] /\ answer'[d] = answer[d]
    BY <1>2 DEF Secure!RouteAsks, Secure!Goto, Secure!proxy, Secure!history, SecureTyped, SecureWhere
  <2>2. PICK a \in {"error", IF locked THEN "secure" ELSE "default"} : answer' = [answer EXCEPT ![c] = a]
    BY <1>2 DEF Secure!RouteAsks
  <2>3. answer'[c] = "default" => ~locked
    BY <2>2 DEF SecureTyped, SecureWhere
  <2>4. \A d \in Callers : spc'[d] = "store" /\ d \notin older' /\ answer'[d] = "default" => ~locked'
    BY <2>1, <2>3 DEF DesktopKnown
  <2> QED BY Zenon, <2>1, <2>4 DEF DesktopKnown
<1>3. ASSUME NEW c \in Callers, Secure!RouteStores(c) PROVE DesktopKnown'
  <2>1. /\ spc[c] = "store" /\ locked' = locked /\ older' = older \ {c} /\ spc'[c] # "store"
        /\ secure' = (answer[c] # "default") /\ unsure' = (unsure /\ older # {})
        /\ \A d \in Callers : d # c => spc'[d] = spc[d] /\ answer'[d] = answer[d]
    BY <1>3 DEF Secure!RouteStores, Secure!Goto, Secure!Decide, SecureTyped, SecureWhere
  <2>2. \A d \in Callers : spc'[d] = "store" /\ d \notin older' /\ answer'[d] = "default" => ~locked'
    BY <2>1 DEF DesktopKnown
  <2>3. CASE older = {}
    <3>1. older' = {} /\ c \notin older
      BY <2>1, <2>3
    <3>2. answer[c] = "default" => ~locked
      BY <2>1, <3>1 DEF DesktopKnown
    <3>3. ~secure' => answer[c] = "default"
      BY Zenon, <2>1
    <3> QED BY Zenon, <2>1, <2>2, <3>1, <3>2, <3>3 DEF DesktopKnown
  <2>4. CASE older # {}
    <3>1. unsure
      BY Zenon, <2>4 DEF DesktopKnown
    <3>2. unsure'
      BY Zenon, <2>1, <2>4, <3>1
    <3> QED BY Zenon, <2>2, <3>2 DEF DesktopKnown
  <2> QED BY <2>3, <2>4
<1>4. CASE Secure!Flip
  <2>1. unsure' /\ older' = {d \in Callers : spc[d] = "store"} /\ spc' = spc
    BY Zenon, <1>4 DEF Secure!Flip
  <2> QED BY Zenon, <2>1 DEF DesktopKnown
<1>5. ASSUME NEW c \in Callers, Secure!Caller(c) PROVE DesktopKnown'
  BY <1>1, <1>2, <1>3, <1>5, DesktopAlone
<1>6. CASE \/ Secure!Agent \/ Secure!Expire \/ (\E w \in writes : Secure!Write(w)) \/ UNCHANGED Secure!vars
  <2>1. UNCHANGED <<secure, locked, answer, older, unsure, spc>>
    BY Zenon, <1>6 DEF Secure!Write, Secure!Agent, Secure!AgentReads, Secure!AgentHangsUp, Secure!AgentListens,
       Secure!AgentInjects, Secure!AgentDies, Secure!AgentStarts, Secure!Expire, Secure!proxy, Secure!history,
       Secure!asking, Secure!vars
  <2> QED BY Zenon, <1>1, <2>1
<1> QED BY <1>4, <1>5, <1>6 DEF Secure!Next

(* Deciding uses the cache, or the answer to the caller's own question.    *)
LEMMA RoutesRight ==
    ASSUME SecureTyped, DesktopKnown, Secure!Next, NEW c \in Callers, locked, spc'[c] = "inject"
    PROVE  /\ spc[c] = "store" => c \in older
           /\ spc[c] = "cached" => unsure
<1> USE DEF Secure!Goto, Secure!proxy, Secure!history, Secure!asking
<1>1. SUFFICES ASSUME spc[c] \in {"store", "cached"}
               PROVE  /\ spc[c] = "store" => c \in older
                      /\ spc[c] = "cached" => unsure
  OBVIOUS
<1>2. \E d \in Callers : Secure!Caller(d)
  <2>1. spc' # spc
    BY <1>1
  <2> QED BY <2>1 DEF Secure!Next, Secure!Write, Secure!Agent, Secure!AgentReads, Secure!AgentHangsUp,
     Secure!AgentListens, Secure!AgentInjects, Secure!AgentDies, Secure!AgentStarts, Secure!Expire, Secure!Flip
<1>3. ASSUME NEW d \in Callers, Secure!Caller(d) PROVE Secure!RouteCached(c) \/ Secure!RouteStores(c)
  <2>1. d = c
    BY <1>1, <1>3 DEF Secure!Caller, Secure!Call, Secure!RouteChecks, Secure!RouteCached, Secure!RouteStamps,
       Secure!RouteAsks, Secure!RouteStores, Secure!ForwardCached, Secure!ForwardDials, Secure!ForwardFails,
       Secure!Written, Secure!Timeout, Secure!Drop, Secure!Inject, Secure!StartWrite, Secure!Decide, SecureTyped,
       SecureWhere
  <2> QED BY <1>1, <1>3, <2>1 DEF Secure!Caller, Secure!Call, Secure!RouteChecks, Secure!RouteStamps,
         Secure!RouteAsks, Secure!ForwardCached, Secure!ForwardDials, Secure!ForwardFails, Secure!Written,
         Secure!Timeout, Secure!Drop, Secure!Inject
<1>4. CASE Secure!RouteCached(c)
  <2>1. spc[c] = "cached" /\ spc'[c] = IF secure THEN "forward" ELSE "inject"
    BY <1>4 DEF Secure!RouteCached, Secure!Decide, SecureTyped, SecureWhere
  <2>2. ~secure
    BY <2>1
  <2> QED BY <2>1, <2>2 DEF DesktopKnown
<1>5. CASE Secure!RouteStores(c)
  <2>1. spc[c] = "store" /\ spc'[c] = IF answer[c] # "default" THEN "forward" ELSE "inject"
    BY <1>5 DEF Secure!RouteStores, Secure!Decide, SecureTyped, SecureWhere
  <2>2. answer[c] = "default"
    BY <2>1
  <2> QED BY <2>1, <2>2 DEF DesktopKnown
<1> QED BY <1>2, <1>3, <1>4, <1>5

-----------------------------------------------------------------------------
(* The clipboards.  Types: what a watcher is about to send is a content.   *)

Progress == [Clip!Writers -> {"idle", "fill", "close", "mark"}]
Args     == [Clip!Writers -> Contents \cup {None}]

ClipBoards ==
    /\ system \in [Clip!Machines -> {"windows", "darwin"}]
    /\ board \in [Clip!Machines -> Clip!Board]
    /\ holder \in [Clip!Machines -> Clip!Writers \cup {None}]
    /\ changed \in [Clip!Machines -> BOOLEAN]
    /\ lastWritten \in [Clip!Machines -> (Contents \ {EmptyText}) \cup {None}]

ClipWriters == cpc \in [Clip!Machines -> Progress] /\ arg \in [Clip!Machines -> Args]

ClipWatchers ==
    /\ watch \in [Clip!Machines -> {"off", "tick", "read", "check"}]
    /\ seen \in [Clip!Machines -> Clip!Board]
    /\ \A m \in Clip!Machines : watch[m] = "check" => seen[m].val \in Contents
    /\ raced \in [Clip!Machines -> BOOLEAN]

ClipSession ==
    /\ inbox \in [Clip!Machines -> Seq(Contents)]
    /\ \A m \in Clip!Machines : Len(inbox[m]) <= LinkCap
    /\ offers \in [Clip!Machines -> Nat]
    /\ up \in BOOLEAN /\ calm \in BOOLEAN

ClipCounts == copies \in 0 .. MaxCopies /\ ctrouble \in 0 .. MaxTrouble

ClipTyped == ClipBoards /\ ClipWriters /\ ClipWatchers /\ ClipSession /\ ClipCounts

LEMMA ClipInit == Clip!Init => ClipTyped
<1> SUFFICES ASSUME Clip!Init PROVE ClipTyped
  OBVIOUS
<1> USE ClipAssumption DEF Clip!ContentsAssumption, Clip!Init, Clip!Blank, Clip!Board
<1>1. ClipBoards
  BY DEF ClipBoards
<1>2. ClipWriters
  BY DEF ClipWriters, Progress, Args
<1>3. ClipWatchers
  BY DEF ClipWatchers
<1>4. ClipSession /\ ClipCounts
  BY DEF ClipSession, ClipCounts
<1> QED BY <1>1, <1>2, <1>3, <1>4 DEF ClipTyped

LEMMA GotoTyped ==
    ASSUME ClipTyped, NEW m \in Clip!Machines, NEW w \in Clip!Writers, NEW l \in {"idle", "fill", "close", "mark"},
           Clip!Goto(m, w, l)
    PROVE  ClipWriters'
BY DEF Clip!Goto, ClipTyped, ClipWriters, Progress, Args

LEMMA TakeTyped ==
    ASSUME ClipTyped, NEW m \in Clip!Machines, NEW w \in Clip!Writers, NEW v \in Contents, Clip!Take(m, w, v),
           system' = system, lastWritten' = lastWritten
    PROVE  ClipWriters' /\ ClipBoards'
<1>1. ClipWriters'
  BY DEF Clip!Take, ClipTyped, ClipWriters, Progress, Args
<1>2. Clip!Blank \in Clip!Board
  BY DEF Clip!Blank, Clip!Board
<1>3. ClipBoards'
  BY <1>2 DEF Clip!Take, ClipTyped, ClipBoards
<1> QED BY <1>1, <1>3

LEMMA TroubledTyped ==
    ASSUME ClipTyped, NEW now, Clip!Troubled(now), copies' \in 0 .. MaxCopies
    PROVE  ClipCounts'
BY ClipAssumption DEF Clip!Troubled, Clip!ContentsAssumption, ClipTyped, ClipCounts

LEMMA EndTyped ==
    ASSUME ClipTyped, Clip!EndSession
    PROVE  ClipSession' /\ (seen' = seen /\ raced' \in [Clip!Machines -> BOOLEAN] => ClipWatchers')
<1>1. LinkCap \in Nat /\ Len(<<>>) <= LinkCap /\ <<>> \in Seq(Contents)
  BY ClipAssumption DEF Clip!ContentsAssumption
<1>2. ClipSession'
  BY <1>1 DEF Clip!EndSession, ClipTyped, ClipSession
<1>3. ASSUME seen' = seen, raced' \in [Clip!Machines -> BOOLEAN] PROVE ClipWatchers'
  BY <1>3 DEF Clip!EndSession, ClipTyped, ClipWatchers
<1> QED BY <1>2, <1>3

LEMMA OverlapTyped ==
    ASSUME ClipTyped, NEW m \in Clip!Machines, NEW now \in BOOLEAN, Clip!Overlap(m, now), copies' = copies
    PROVE  ClipCounts' /\ raced' \in [Clip!Machines -> BOOLEAN]
<1>1. Clip!Troubled(now /\ ~raced[m]) /\ raced' = [raced EXCEPT ![m] = now]
  BY DEF Clip!Overlap
<1>2. raced' \in [Clip!Machines -> BOOLEAN]
  BY <1>1 DEF ClipTyped, ClipWatchers
<1>3. copies' \in 0 .. MaxCopies
  BY DEF ClipTyped, ClipCounts
<1> QED BY <1>1, <1>2, <1>3, TroubledTyped

LEMMA WatchersTyped ==
    ASSUME ClipTyped, UNCHANGED <<watch, seen>>, raced' \in [Clip!Machines -> BOOLEAN]
    PROVE  ClipWatchers'
BY DEF ClipTyped, ClipWatchers

LEMMA BeginTyped ==
    ASSUME ClipTyped, NEW m \in Clip!Machines, NEW w \in Clip!Session, NEW v \in Contents, NEW opened \in BOOLEAN,
           Clip!BeginWrite(m, w, v, opened), UNCHANGED <<system, lastWritten, copies>>
    PROVE  ClipWriters' /\ ClipBoards' /\ ClipCounts' /\ raced' \in [Clip!Machines -> BOOLEAN]
<1>1. CASE opened
  <2>1. Clip!Take(m, w, v) /\ \E now \in BOOLEAN : Clip!Overlap(m, now)
    BY Zenon, <1>1 DEF Clip!BeginWrite
  <2> QED BY <2>1, TakeTyped, OverlapTyped DEF Clip!Writers
<1>2. CASE ~opened
  BY <1>2 DEF Clip!BeginWrite, ClipTyped, ClipWriters, ClipBoards, ClipCounts, ClipWatchers
<1> QED BY <1>1, <1>2

LEMMA WriterTyped ==
    ASSUME ClipTyped, NEW m \in Clip!Machines, NEW w \in Clip!Writers, Clip!Write(m, w)
    PROVE  ClipTyped'
<1>1. CASE Clip!Fill(m, w)
  <2>1. /\ UNCHANGED <<system, lastWritten, seen, raced, copies, ctrouble>>
        /\ ClipCounts'
    BY <1>1 DEF Clip!Fill, ClipTyped, ClipCounts
  <2>2. CASE holder[m] # w
    <3>1. Clip!Fail(m, w) /\ UNCHANGED <<board, holder, changed>>
      BY <1>1, <2>2 DEF Clip!Fill
    <3>2. ClipWriters'
      BY <3>1, GotoTyped DEF Clip!Fail
    <3>3. ClipSession' /\ ClipWatchers'
      <4>1. CASE Clip!EndSession
        BY <2>1, <4>1, EndTyped DEF ClipTyped, ClipWatchers
      <4>2. CASE calm' = FALSE /\ UNCHANGED <<up, inbox, offers, watch>>
        BY <2>1, <4>2 DEF ClipTyped, ClipSession, ClipWatchers
      <4> QED BY <3>1, <4>1, <4>2 DEF Clip!Fail
    <3>4. ClipBoards'
      BY <2>1, <3>1 DEF ClipTyped, ClipBoards
    <3> QED BY <2>1, <3>2, <3>3, <3>4 DEF ClipTyped
  <2>3. CASE holder[m] = w
    <3>1. /\ board' = [board EXCEPT ![m] = [val |-> arg[m][w], by |-> w]]
          /\ \/ changed' = [changed EXCEPT ![m] = TRUE] /\ holder' = holder /\ Clip!Goto(m, w, "close")
             \/ /\ holder' = [holder EXCEPT ![m] = None] /\ changed' = changed
                /\ Clip!Goto(m, w, "idle") \/ Clip!Goto(m, w, "mark")
          /\ UNCHANGED <<up, calm, inbox, offers, watch>>
      BY <1>1, <2>3 DEF Clip!Fill
    <3>2. [val |-> arg[m][w], by |-> w] \in Clip!Board
      BY DEF ClipTyped, ClipWriters, Args, Clip!Board
    <3>3. ClipBoards'
      BY <2>1, <3>1, <3>2 DEF ClipTyped, ClipBoards
    <3>4. ClipWriters'
      BY <3>1, GotoTyped
    <3>5. ClipSession' /\ ClipWatchers'
      BY <2>1, <3>1 DEF ClipTyped, ClipSession, ClipWatchers
    <3> QED BY <2>1, <3>3, <3>4, <3>5 DEF ClipTyped
  <2> QED BY <2>2, <2>3
<1>2. CASE Clip!Close(m, w)
  <2>1. Clip!Goto(m, w, "idle") \/ Clip!Goto(m, w, "mark")
    BY <1>2 DEF Clip!Close
  <2>2. ClipBoards' /\ ClipSession' /\ ClipWatchers' /\ ClipCounts'
    BY <1>2 DEF Clip!Close, ClipTyped, ClipBoards, ClipSession, ClipWatchers, ClipCounts
  <2> QED BY <2>1, <2>2, GotoTyped DEF ClipTyped
<1>3. CASE Clip!Mark(m, w)
  <2>1. Clip!Goto(m, w, "idle") /\ Clip!Marker(arg[m][w]) \in (Contents \ {EmptyText}) \cup {None}
    BY <1>3 DEF Clip!Mark, Clip!Marker, ClipTyped, ClipWriters, Args
  <2>2. ClipBoards' /\ ClipSession' /\ ClipWatchers' /\ ClipCounts'
    BY <1>3, <2>1 DEF Clip!Mark, ClipTyped, ClipBoards, ClipSession, ClipWatchers, ClipCounts
  <2> QED BY <2>1, <2>2, GotoTyped DEF ClipTyped
<1> QED BY <1>1, <1>2, <1>3 DEF Clip!Write

LEMMA OtherTyped == \A m \in Clip!Machines : Clip!Other(m) \in Clip!Machines /\ Clip!Other(m) # m /\ Clip!Other(Clip!Other(m)) = m
BY DEF Clip!Machines, Clip!Other

LEMMA WatchTyped ==
    ASSUME ClipTyped, NEW m \in Clip!Machines, Clip!Watch(m)
    PROVE  ClipTyped'
<1>1. CASE Clip!Sample(m)
  <2>1. ClipCounts' /\ raced' \in [Clip!Machines -> BOOLEAN]
    <3>1. \E now \in BOOLEAN : Clip!Overlap(m, now)
      BY Zenon, <1>1 DEF Clip!Sample
    <3> QED BY <1>1, <3>1, OverlapTyped DEF Clip!Sample
  <2>2. ClipBoards' /\ ClipSession' /\ ClipWriters'
    BY <1>1 DEF Clip!Sample, ClipTyped, ClipBoards, ClipSession, ClipWriters
  <2>3. ClipWatchers'
    BY <1>1, <2>1 DEF Clip!Sample, ClipTyped, ClipWatchers
  <2> QED BY <2>1, <2>2, <2>3 DEF ClipTyped
<1>2. CASE Clip!Read(m)
  <2>1. ClipCounts' /\ raced' \in [Clip!Machines -> BOOLEAN]
    <3>1. \E now \in BOOLEAN : Clip!Overlap(m, now)
      BY Zenon, <1>2 DEF Clip!Read
    <3> QED BY <1>2, <3>1, OverlapTyped DEF Clip!Read
  <2>2. calm' \in BOOLEAN
    BY Zenon, <1>2 DEF Clip!Read, ClipTyped, ClipSession
  <2>3. ClipBoards' /\ ClipSession' /\ ClipWriters'
    BY <1>2, <2>2 DEF Clip!Read, ClipTyped, ClipBoards, ClipSession, ClipWriters
  <2>4. \/ watch' = [watch EXCEPT ![m] = "tick"] /\ seen' = seen
        \/ board[m].val # None /\ watch' = [watch EXCEPT ![m] = "check"] /\ seen' = [seen EXCEPT ![m] = board[m]]
    BY <1>2 DEF Clip!Read
  <2>5. ClipWatchers'
    <3>1. CASE watch' = [watch EXCEPT ![m] = "tick"] /\ seen' = seen
      BY <2>1, <3>1 DEF ClipTyped, ClipWatchers
    <3>2. CASE board[m].val # None /\ watch' = [watch EXCEPT ![m] = "check"] /\ seen' = [seen EXCEPT ![m] = board[m]]
      <4>1. board[m] \in Clip!Board /\ board[m].val \in Contents
        BY <3>2 DEF ClipTyped, ClipBoards, Clip!Board
      <4> QED BY <2>1, <3>2, <4>1 DEF ClipTyped, ClipWatchers
    <3> QED BY <2>4, <3>1, <3>2
  <2> QED BY <2>1, <2>3, <2>5 DEF ClipTyped
<1>3. CASE Clip!Check(m)
  <2>1. Clip!Blank \in Clip!Board /\ Clip!Consumed(m) \in (Contents \ {EmptyText}) \cup {None}
    BY DEF Clip!Blank, Clip!Board, Clip!Consumed, ClipTyped, ClipBoards
  <2>2. calm' \in BOOLEAN
    BY Zenon, <1>3 DEF Clip!Check, ClipTyped, ClipSession
  <2>3. inbox' \in [Clip!Machines -> Seq(Contents)] /\ \A o \in Clip!Machines : Len(inbox'[o]) <= LinkCap
    <3>1. CASE inbox' = inbox
      BY <3>1 DEF ClipTyped, ClipSession
    <3>2. CASE ~Clip!Own(m) /\ inbox' = [inbox EXCEPT ![Clip!Other(m)] = Append(@, seen[m].val)]
      <4> DEFINE o == Clip!Other(m)
      <4>1. o \in Clip!Machines /\ seen[m].val \in Contents /\ Len(inbox[o]) < LinkCap /\ inbox[o] \in Seq(Contents)
        BY <1>3, <3>2, OtherTyped DEF Clip!Check, ClipTyped, ClipWatchers, ClipSession
      <4>2. \A s \in Seq(Contents), v \in Contents : Append(s, v) \in Seq(Contents) /\ Len(Append(s, v)) = Len(s) + 1 /\ Len(s) \in Nat
        OBVIOUS
      <4>3. Append(inbox[o], seen[m].val) \in Seq(Contents) /\ Len(Append(inbox[o], seen[m].val)) <= LinkCap
        BY <4>1, <4>2, ClipAssumption DEF Clip!ContentsAssumption
      <4>4. inbox' = [inbox EXCEPT ![o] = Append(inbox[o], seen[m].val)]
        BY <3>2
      <4> HIDE DEF o
      <4> QED BY <4>1, <4>3, <4>4 DEF ClipTyped, ClipSession
    <3> QED BY <1>3, <3>1, <3>2 DEF Clip!Check
  <2>4. ClipSession' /\ ClipWriters' /\ ClipCounts'
    BY <1>3, <2>2, <2>3 DEF Clip!Check, ClipTyped, ClipSession, ClipWriters, ClipCounts
  <2>5. ClipBoards' /\ ClipWatchers'
    BY <1>3, <2>1 DEF Clip!Check, ClipTyped, ClipBoards, ClipWatchers
  <2> QED BY <2>4, <2>5 DEF ClipTyped
<1> QED BY <1>1, <1>2, <1>3 DEF Clip!Watch

LEMMA SessionTyped ==
    ASSUME ClipTyped, NEW m \in Clip!Machines,
           Clip!Receive(m) \/ Clip!FilesArrive(m) \/ Clip!FilesRefused(m)
    PROVE  ClipTyped'
<1>0. Clip!Opens(m) \subseteq BOOLEAN /\ "sink" \in Clip!Session /\ "files" \in Clip!Session /\ FileList \in Contents
  BY ClipAssumption DEF Clip!Opens, Clip!Session, Clip!ContentsAssumption
<1>1. CASE Clip!Receive(m)
  <2>1. /\ inbox[m] \in Seq(Contents) /\ inbox[m] # <<>> /\ Len(inbox[m]) <= LinkCap
        /\ UNCHANGED <<system, lastWritten, seen, copies>>
    BY <1>1 DEF Clip!Receive, ClipTyped, ClipSession
  <2>2. /\ Head(inbox[m]) \in Contents /\ Tail(inbox[m]) \in Seq(Contents) /\ Len(Tail(inbox[m])) <= LinkCap
    BY <2>1, ClipAssumption DEF Clip!ContentsAssumption
  <2>3. [inbox EXCEPT ![m] = Tail(@)] \in [Clip!Machines -> Seq(Contents)]
        /\ \A o \in Clip!Machines : Len([inbox EXCEPT ![m] = Tail(@)][o]) <= LinkCap
    <3> DEFINE t == Tail(inbox[m])
    <3>1. [inbox EXCEPT ![m] = Tail(@)] = [inbox EXCEPT ![m] = t]
      OBVIOUS
    <3>2. t \in Seq(Contents) /\ Len(t) <= LinkCap
      BY <2>2
    <3> HIDE DEF t
    <3>3. [inbox EXCEPT ![m] = t] \in [Clip!Machines -> Seq(Contents)]
          /\ \A o \in Clip!Machines : Len([inbox EXCEPT ![m] = t][o]) <= LinkCap
      BY <3>2 DEF ClipTyped, ClipSession
    <3> QED BY <3>1, <3>3
  <2>4. \/ /\ offers' = [offers EXCEPT ![m] = @ + 1] /\ inbox' = [inbox EXCEPT ![m] = Tail(@)]
           /\ UNCHANGED <<board, holder, changed, cpc, arg, raced, ctrouble, watch, up, calm>>
        \/ \E opened \in BOOLEAN :
              /\ Clip!BeginWrite(m, "sink", Head(inbox[m]), opened)
              /\ \/ inbox' = [inbox EXCEPT ![m] = Tail(@)] /\ UNCHANGED <<offers, watch, up, calm>>
                 \/ Clip!EndSession
    BY <1>0, <1>1 DEF Clip!Receive
  <2>5. CASE /\ offers' = [offers EXCEPT ![m] = @ + 1] /\ inbox' = [inbox EXCEPT ![m] = Tail(@)]
             /\ UNCHANGED <<board, holder, changed, cpc, arg, raced, ctrouble, watch, up, calm>>
    <3>1. offers' \in [Clip!Machines -> Nat]
      BY <2>5 DEF ClipTyped, ClipSession
    <3>2. ClipSession'
      BY <2>3, <2>5, <3>1 DEF ClipTyped, ClipSession
    <3> QED BY <2>1, <2>5, <3>2 DEF ClipTyped, ClipBoards, ClipWriters, ClipWatchers, ClipCounts
  <2>6. ASSUME NEW opened \in BOOLEAN, Clip!BeginWrite(m, "sink", Head(inbox[m]), opened),
               \/ inbox' = [inbox EXCEPT ![m] = Tail(@)] /\ UNCHANGED <<offers, watch, up, calm>>
               \/ Clip!EndSession
        PROVE  ClipTyped'
    <3>1. ClipWriters' /\ ClipBoards' /\ ClipCounts' /\ raced' \in [Clip!Machines -> BOOLEAN]
      BY <1>0, <2>1, <2>2, <2>6, BeginTyped
    <3>2. CASE inbox' = [inbox EXCEPT ![m] = Tail(@)] /\ UNCHANGED <<offers, watch, up, calm>>
      <4>1. ClipSession'
        BY <2>3, <3>2 DEF ClipTyped, ClipSession
      <4> QED BY <2>1, <3>1, <3>2, <4>1, WatchersTyped DEF ClipTyped
    <3>3. CASE Clip!EndSession
      BY <2>1, <3>1, <3>3, EndTyped DEF ClipTyped
    <3> QED BY <2>6, <3>2, <3>3
  <2> QED BY <2>4, <2>5, <2>6
<1>2. CASE Clip!FilesArrive(m)
  <2>1. PICK opened \in BOOLEAN : Clip!BeginWrite(m, "files", FileList, opened) /\ calm' = (calm /\ opened)
    BY <1>0, <1>2 DEF Clip!FilesArrive
  <2>2. ClipWriters' /\ ClipBoards' /\ ClipCounts' /\ raced' \in [Clip!Machines -> BOOLEAN]
    BY <1>0, <1>2, <2>1, BeginTyped DEF Clip!FilesArrive
  <2>3. calm' \in BOOLEAN
    BY Zenon, <2>1 DEF ClipTyped, ClipSession
  <2>4. offers' \in [Clip!Machines -> Nat]
    <3>1. offers[m] > 0 /\ offers' = [offers EXCEPT ![m] = offers[m] - 1] /\ offers[m] \in Nat
      BY <1>2 DEF Clip!FilesArrive, ClipTyped, ClipSession
    <3>2. offers[m] - 1 \in Nat
      BY <3>1
    <3> QED BY <3>1, <3>2 DEF ClipTyped, ClipSession
  <2>5. ClipSession'
    BY <1>2, <2>3, <2>4 DEF Clip!FilesArrive, ClipTyped, ClipSession
  <2> QED BY <1>2, <2>2, <2>5, WatchersTyped DEF Clip!FilesArrive, ClipTyped
<1>3. CASE Clip!FilesRefused(m)
  <2>1. offers' \in [Clip!Machines -> Nat]
    <3>1. offers[m] > 0 /\ offers' = [offers EXCEPT ![m] = offers[m] - 1] /\ offers[m] \in Nat
      BY <1>3 DEF Clip!FilesRefused, ClipTyped, ClipSession
    <3>2. offers[m] - 1 \in Nat
      BY <3>1
    <3> QED BY <3>1, <3>2 DEF ClipTyped, ClipSession
  <2> QED BY <1>3, <2>1 DEF Clip!FilesRefused, ClipTyped, ClipBoards, ClipWriters, ClipWatchers, ClipSession, ClipCounts
<1> QED BY <1>1, <1>2, <1>3

LEMMA ClipStep == ClipTyped /\ [Clip!Next]_(Clip!vars) => ClipTyped'
<1> SUFFICES ASSUME ClipTyped, [Clip!Next]_(Clip!vars) PROVE ClipTyped'
  OBVIOUS
<1>1. ASSUME NEW m \in Clip!Machines, NEW v \in Contents, Clip!Copy(m, v) PROVE ClipTyped'
  <2>1. Clip!Take(m, "user", v) /\ "user" \in Clip!Writers /\ UNCHANGED <<system, lastWritten, watch, seen, raced>>
    BY <1>1 DEF Clip!Copy, Clip!Writers
  <2>2. copies' \in 0 .. MaxCopies /\ \E now : Clip!Troubled(now)
    BY <1>1, ClipAssumption DEF Clip!Copy, Clip!ContentsAssumption, ClipTyped, ClipCounts
  <2>3. calm' \in BOOLEAN
    BY Zenon, <1>1 DEF Clip!Copy, ClipTyped, ClipSession
  <2>4. ClipSession' /\ ClipWatchers'
    BY <1>1, <2>1, <2>3 DEF Clip!Copy, ClipTyped, ClipSession, ClipWatchers
  <2> QED BY <2>1, <2>2, <2>4, TakeTyped, TroubledTyped DEF ClipTyped
<1>2. CASE Clip!LoseSession
  <2>1. ClipCounts'
    BY <1>2, TroubledTyped DEF Clip!LoseSession, ClipTyped, ClipCounts
  <2>2. ClipSession' /\ ClipWatchers'
    BY <1>2, EndTyped DEF Clip!LoseSession, ClipTyped, ClipWatchers
  <2> QED BY <1>2, <2>1, <2>2 DEF Clip!LoseSession, ClipTyped, ClipBoards, ClipWriters
<1>3. CASE Clip!Reconnect
  <2>1. "client" \in Clip!Machines
    BY DEF Clip!Machines
  <2> QED BY <1>3, <2>1 DEF Clip!Reconnect, ClipTyped, ClipBoards, ClipWriters, ClipWatchers, ClipSession, ClipCounts
<1>4. CASE UNCHANGED Clip!vars
  BY <1>4 DEF Clip!vars, ClipTyped, ClipBoards, ClipWriters, ClipWatchers, ClipSession, ClipCounts
<1> QED BY <1>1, <1>2, <1>3, <1>4, WriterTyped, WatchTyped, SessionTyped DEF Clip!Next

LEMMA ClipTypedIsTypeOK == ClipTyped => Clip!TypeOK
BY DEF ClipTyped, ClipBoards, ClipWriters, ClipWatchers, ClipSession, ClipCounts, Progress, Args, Clip!TypeOK

(* Since the last write of the session began, no round of the watcher and  *)
(* no second write has met it: one writer is at it while the watcher rests; *)
(* what the watcher finds next of the session is what the marker says, and *)
(* it finds it once.                                                       *)
FromSession(m) == board[m].by \in Clip!Session

OneWriter(m)   == \A v, w \in Clip!Session : cpc[m][v] # "idle" /\ cpc[m][w] # "idle" => v = w
WatcherIdle(m) == Clip!Writing(m) => watch[m] \in {"tick", "off"}
FillsBlank(m)  == \A w \in Clip!Session : cpc[m][w] = "fill" => ~FromSession(m)
WroteArg(m)    == \A w \in Clip!Session :
                     cpc[m][w] \in {"close", "mark"} /\ FromSession(m) => board[m].val = arg[m][w]
MarkedBoard(m) == ~Clip!Writing(m) /\ FromSession(m) /\ (changed[m] \/ watch[m] = "read")
                     => lastWritten[m] = Clip!Marker(board[m].val)
FoundOnce(m)   == FromSession(m) /\ watch[m] \in {"read", "check"} => ~changed[m]
MarkedSeen(m)  == watch[m] = "check" /\ seen[m].by \in Clip!Session
                     => lastWritten[m] = Clip!Marker(seen[m].val)

Undisturbed(m) ==
    ~raced[m] =>
        /\ OneWriter(m) /\ WatcherIdle(m)
        /\ FillsBlank(m) /\ WroteArg(m)
        /\ MarkedBoard(m) /\ FoundOnce(m) /\ MarkedSeen(m)

EchoInv == \A m \in Clip!Machines : Undisturbed(m)

(* Another program has no marker. *)
NoUserMark == \A m \in Clip!Machines : cpc[m]["user"] # "mark"

LEMMA NoUserMarkStep == ClipTyped /\ NoUserMark /\ [Clip!Next]_(Clip!vars) => NoUserMark'
<1> SUFFICES ASSUME ClipTyped, NoUserMark, [Clip!Next]_(Clip!vars) PROVE NoUserMark'
  OBVIOUS
<1>0. "user" \in Clip!Writers /\ Clip!Session \subseteq Clip!Writers
  BY DEF Clip!Writers
<1> USE <1>0 DEF ClipTyped, ClipWriters, Progress, NoUserMark
<1>1. ASSUME NEW m \in Clip!Machines, NEW w \in Clip!Writers, NEW l \in {"idle", "fill", "close", "mark"},
             w = "user" => l # "mark", cpc' = [cpc EXCEPT ![m][w] = l]
      PROVE  NoUserMark'
  BY <1>1
<1>2. ASSUME NEW m \in Clip!Machines, NEW w \in Clip!Writers, Clip!Write(m, w) PROVE NoUserMark'
  <2>1. \E l \in {"idle", "fill", "close", "mark"} :
           (w = "user" => l # "mark") /\ cpc' = [cpc EXCEPT ![m][w] = l]
    BY <1>2 DEF Clip!Write, Clip!Fill, Clip!Fail, Clip!Close, Clip!Mark, Clip!Goto
  <2> QED BY <2>1, <1>1
<1>3. ASSUME NEW m \in Clip!Machines, Clip!Watch(m) \/ Clip!FilesRefused(m) PROVE NoUserMark'
  BY <1>3 DEF Clip!Watch, Clip!Sample, Clip!Read, Clip!Check, Clip!FilesRefused
<1>4. ASSUME NEW m \in Clip!Machines, Clip!Receive(m) \/ Clip!FilesArrive(m) PROVE NoUserMark'
  <2>1. cpc' = cpc \/ \E w \in Clip!Session : cpc' = [cpc EXCEPT ![m][w] = "fill"]
    BY <1>4 DEF Clip!Receive, Clip!FilesArrive, Clip!BeginWrite, Clip!Take, Clip!Session
  <2> QED BY <2>1, <1>1
<1>5. ASSUME NEW m \in Clip!Machines, NEW v \in Contents, Clip!Copy(m, v) PROVE NoUserMark'
  BY <1>1, <1>5 DEF Clip!Copy, Clip!Take
<1>6. CASE Clip!LoseSession \/ Clip!Reconnect \/ UNCHANGED Clip!vars
  BY <1>6 DEF Clip!LoseSession, Clip!Reconnect, Clip!vars
<1> QED BY <1>2, <1>3, <1>4, <1>5, <1>6 DEF Clip!Next

(* A machine on which nothing but the end of its watcher happens. *)
LEMMA RoundKept ==
    ASSUME NEW x \in Clip!Machines, Undisturbed(x),
           raced'[x] = raced[x], cpc'[x] = cpc[x], arg'[x] = arg[x], board'[x] = board[x],
           changed'[x] = changed[x], lastWritten'[x] = lastWritten[x], seen'[x] = seen[x],
           watch'[x] = watch[x] \/ watch'[x] = "off"
    PROVE  Undisturbed(x)'
<1>1. CASE watch'[x] = watch[x]
  BY <1>1 DEF Undisturbed, FromSession, OneWriter, WatcherIdle, FillsBlank, WroteArg, MarkedBoard, FoundOnce,
         MarkedSeen, Clip!Writing
<1>2. CASE watch'[x] = "off"
  BY <1>2 DEF Undisturbed, FromSession, OneWriter, WatcherIdle, FillsBlank, WroteArg, MarkedBoard, FoundOnce,
         MarkedSeen, Clip!Writing
<1> QED BY <1>1, <1>2

(* What the end of the session does to the watchers. *)
LEMMA WatchEnds ==
    ASSUME ClipTyped, NEW x \in Clip!Machines, Clip!EndSession \/ UNCHANGED watch
    PROVE  watch'[x] = watch[x] \/ watch'[x] = "off"
BY DEF Clip!EndSession, Clip!Machines, ClipTyped, ClipWatchers

LEMMA NoneFromSession == None \notin Clip!Session /\ "user" \notin Clip!Session /\ Clip!Blank.by = None
BY ClipAssumption DEF Clip!ContentsAssumption, Clip!Session, Clip!Blank

(* A write of the session that gets the clipboard. *)
LEMMA TakeEcho ==
    ASSUME ClipTyped, EchoInv, NEW m \in Clip!Machines, NEW w \in Clip!Session, NEW v,
           Clip!Take(m, w, v),
           raced' = [raced EXCEPT ![m] = watch[m] # "tick" \/ \E o \in Clip!Session \ {w} : cpc[m][o] # "idle"],
           UNCHANGED <<lastWritten, seen>>,
           Clip!EndSession \/ UNCHANGED watch
    PROVE  EchoInv'
<1>1. ASSUME NEW x \in Clip!Machines, x # m PROVE Undisturbed(x)'
  BY <1>1, RoundKept, WatchEnds DEF Clip!Take, EchoInv, ClipTyped, ClipBoards, ClipWriters, ClipWatchers
<1>2. Undisturbed(m)'
  <2> SUFFICES ASSUME ~raced'[m] PROVE Undisturbed(m)'
    BY DEF Undisturbed
  <2>1. watch[m] = "tick" /\ \A o \in Clip!Session \ {w} : cpc[m][o] = "idle"
    BY DEF ClipTyped, ClipWatchers
  <2>2. watch'[m] \in {"tick", "off"}
    BY <2>1, WatchEnds
  <2>3. ~FromSession(m)'
    BY NoneFromSession DEF Clip!Take, FromSession, ClipTyped, ClipBoards
  <2>4. cpc'[m][w] = "fill" /\ \A o \in Clip!Session \ {w} : cpc'[m][o] = "idle"
    BY <2>1 DEF Clip!Take, ClipTyped, ClipWriters, Progress, Clip!Writers
  <2> QED BY <2>2, <2>3, <2>4 DEF Undisturbed, OneWriter, WatcherIdle, FillsBlank, WroteArg, MarkedBoard, FoundOnce,
         MarkedSeen
<1> QED BY <1>1, <1>2 DEF EchoInv

LEMMA WriteEcho ==
    ASSUME ClipTyped, EchoInv, NoUserMark, NEW m \in Clip!Machines, NEW w \in Clip!Writers, Clip!Write(m, w)
    PROVE  EchoInv'
<1>0. UNCHANGED <<seen, raced>> /\ (Clip!EndSession \/ UNCHANGED watch)
  BY DEF Clip!Write, Clip!Fill, Clip!Fail, Clip!Close, Clip!Mark
<1>1. ASSUME NEW x \in Clip!Machines, x # m PROVE Undisturbed(x)'
  <2>1. cpc'[x] = cpc[x] /\ arg'[x] = arg[x]
    BY <1>1 DEF Clip!Write, Clip!Fill, Clip!Fail, Clip!Close, Clip!Mark, Clip!Goto, ClipTyped, ClipWriters
  <2>2. board'[x] = board[x] /\ changed'[x] = changed[x] /\ lastWritten'[x] = lastWritten[x]
    BY <1>1 DEF Clip!Write, Clip!Fill, Clip!Close, Clip!Mark, ClipTyped, ClipBoards
  <2>3. watch'[x] = watch[x] \/ watch'[x] = "off"
    BY <1>0, WatchEnds
  <2> QED BY <1>0, <2>1, <2>2, <2>3, RoundKept DEF EchoInv
<1>2. Undisturbed(m)'
  <2> SUFFICES ASSUME ~raced[m] PROVE Undisturbed(m)'
    BY <1>0 DEF Undisturbed
  <2>0. /\ OneWriter(m) /\ WatcherIdle(m) /\ FillsBlank(m) /\ WroteArg(m)
        /\ MarkedBoard(m) /\ FoundOnce(m) /\ MarkedSeen(m)
    BY DEF EchoInv, Undisturbed
  <2>01. watch'[m] = watch[m] \/ watch'[m] = "off"
    BY <1>0, WatchEnds
  <2>1. CASE Clip!Fill(m, w) /\ holder[m] # w
    <3>1. /\ UNCHANGED <<board, holder, changed, lastWritten>>
          /\ cpc[m][w] = "fill"
          /\ \A o \in Clip!Writers : cpc'[m][o] = IF o = w THEN "idle" ELSE cpc[m][o]
          /\ \A o \in Clip!Writers \ {w} : arg'[m][o] = arg[m][o]
      BY <2>1 DEF Clip!Fill, Clip!Fail, Clip!Goto, ClipTyped, ClipWriters, Progress, Args
    <3>2. CASE w \in Clip!Session
      <4>1. ~FromSession(m)'
        BY <2>0, <3>1, <3>2 DEF FillsBlank, FromSession
      <4>2. OneWriter(m)' /\ WatcherIdle(m)'
        BY <2>0, <2>01, <3>1 DEF OneWriter, WatcherIdle, Clip!Writing, Clip!Writers
      <4>3. MarkedSeen(m)'
        BY <1>0, <2>0, <2>01, <3>1 DEF MarkedSeen
      <4> QED BY <4>1, <4>2, <4>3 DEF Undisturbed, FillsBlank, WroteArg, MarkedBoard, FoundOnce
    <3>3. CASE w \notin Clip!Session
      BY <1>0, <2>0, <2>01, <3>1, <3>3 DEF Undisturbed, FromSession, OneWriter, WatcherIdle, FillsBlank, WroteArg,
         MarkedBoard, FoundOnce, MarkedSeen, Clip!Writing, Clip!Writers
    <3> QED BY <3>2, <3>3
  <2>2. CASE Clip!Fill(m, w) /\ holder[m] = w
    <3>1. /\ board'[m] = [val |-> arg[m][w], by |-> w]
          /\ UNCHANGED <<lastWritten, watch>>
          /\ cpc[m][w] = "fill" /\ cpc'[m][w] \in {"close", "mark", "idle"}
          /\ w \in Clip!Session => cpc'[m][w] # "idle"
          /\ \A o \in Clip!Writers \ {w} : cpc'[m][o] = cpc[m][o]
      BY <2>2 DEF Clip!Fill, Clip!Goto, ClipTyped, ClipWriters, ClipBoards, Progress, Args, Clip!Session
    <3>2. \A o \in Clip!Writers : cpc'[m][o] # "idle" => arg'[m][o] = arg[m][o]
      BY <2>2, <3>1 DEF Clip!Fill, Clip!Goto, ClipTyped, ClipWriters, Progress, Args
    <3>3. CASE w \in Clip!Session
      <4>1. \A o \in Clip!Session \ {w} : cpc'[m][o] = "idle"
        BY <2>0, <3>1, <3>3 DEF OneWriter, Clip!Writers
      <4>2. Clip!Writing(m) /\ Clip!Writing(m)' /\ watch'[m] \in {"tick", "off"}
        BY <2>0, <3>1, <3>3 DEF WatcherIdle, Clip!Writing
      <4>3. FillsBlank(m)' /\ WroteArg(m)'
        BY <3>1, <3>2, <3>3, <4>1 DEF FillsBlank, WroteArg, Clip!Writers
      <4>4. OneWriter(m)'
        BY <4>1 DEF OneWriter
      <4> QED BY <4>2, <4>3, <4>4 DEF Undisturbed, WatcherIdle, MarkedBoard, FoundOnce, MarkedSeen
    <3>4. CASE w \notin Clip!Session
      <4>1. ~FromSession(m)'
        BY <3>1, <3>4 DEF FromSession
      <4>2. OneWriter(m)' /\ WatcherIdle(m)'
        BY <2>0, <3>1, <3>4 DEF OneWriter, WatcherIdle, Clip!Writing, Clip!Writers
      <4>3. MarkedSeen(m)'
        BY <1>0, <2>0, <3>1 DEF MarkedSeen
      <4> QED BY <4>1, <4>2, <4>3 DEF Undisturbed, FillsBlank, WroteArg, MarkedBoard, FoundOnce
    <3> QED BY <3>3, <3>4
  <2>3. CASE Clip!Close(m, w)
    <3>1. /\ UNCHANGED <<board, changed, lastWritten, watch>>
          /\ cpc[m][w] = "close" /\ cpc'[m][w] = IF w = "user" THEN "idle" ELSE "mark"
          /\ \A o \in Clip!Writers \ {w} : cpc'[m][o] = cpc[m][o]
      BY <2>3 DEF Clip!Close, Clip!Goto, ClipTyped, ClipWriters, Progress
    <3>2. \A o \in Clip!Writers : cpc'[m][o] # "idle" => arg'[m][o] = arg[m][o]
      BY <2>3, <3>1 DEF Clip!Close, Clip!Goto, ClipTyped, ClipWriters, Progress, Args
    <3>3. \A o \in Clip!Session : (cpc'[m][o] = "idle" <=> cpc[m][o] = "idle") /\ (cpc'[m][o] = "fill" => cpc[m][o] = "fill")
                                  /\ (cpc'[m][o] \in {"close", "mark"} => cpc[m][o] \in {"close", "mark"})
      BY <3>1, NoneFromSession DEF Clip!Writers
    <3> QED BY <1>0, <2>0, <3>1, <3>2, <3>3 DEF Undisturbed, FromSession, OneWriter, WatcherIdle, FillsBlank, WroteArg,
         MarkedBoard, FoundOnce, MarkedSeen, Clip!Writing, Clip!Writers
  <2>4. CASE Clip!Mark(m, w)
    <3>1. /\ UNCHANGED <<board, changed, watch>>
          /\ lastWritten'[m] = Clip!Marker(arg[m][w])
          /\ cpc[m][w] = "mark" /\ cpc'[m][w] = "idle"
          /\ \A o \in Clip!Writers \ {w} : cpc'[m][o] = cpc[m][o]
      BY <2>4 DEF Clip!Mark, Clip!Goto, ClipTyped, ClipWriters, ClipBoards, Progress
    <3>2. w \in Clip!Session
      BY <3>1 DEF NoUserMark, Clip!Writers
    <3>3. \A o \in Clip!Session : cpc'[m][o] = "idle"
      BY <2>0, <3>1, <3>2 DEF OneWriter, Clip!Writers
    <3>4. watch[m] \in {"tick", "off"}
      BY <2>0, <3>1, <3>2 DEF WatcherIdle, Clip!Writing
    <3>5. MarkedBoard(m)'
      <4>1. FromSession(m) => board[m].val = arg[m][w]
        BY <2>0, <3>1, <3>2 DEF WroteArg
      <4> QED BY <3>1, <4>1 DEF MarkedBoard, FromSession, Clip!Marker
    <3> QED BY <3>1, <3>3, <3>4, <3>5 DEF Undisturbed, OneWriter, WatcherIdle, FillsBlank, WroteArg, FoundOnce, MarkedSeen
  <2> QED BY <2>1, <2>2, <2>3, <2>4 DEF Clip!Write
<1> QED BY <1>1, <1>2 DEF EchoInv

LEMMA WatchEcho ==
    ASSUME ClipTyped, EchoInv, NEW m \in Clip!Machines, Clip!Watch(m)
    PROVE  EchoInv'
<1>1. ASSUME NEW x \in Clip!Machines, x # m PROVE Undisturbed(x)'
  <2>1. cpc' = cpc /\ arg' = arg /\ board' = board
    BY DEF Clip!Watch, Clip!Sample, Clip!Read, Clip!Check
  <2>2. changed'[x] = changed[x] /\ lastWritten'[x] = lastWritten[x]
    BY <1>1 DEF Clip!Watch, Clip!Sample, Clip!Read, Clip!Check, ClipTyped, ClipBoards
  <2>3. raced'[x] = raced[x]
    BY <1>1 DEF Clip!Watch, Clip!Sample, Clip!Read, Clip!Check, Clip!Overlap, ClipTyped, ClipWatchers
  <2>4. seen'[x] = seen[x] /\ watch'[x] = watch[x]
    BY <1>1 DEF Clip!Watch, Clip!Sample, Clip!Read, Clip!Check, ClipTyped, ClipWatchers
  <2> QED BY <2>1, <2>2, <2>3, <2>4, RoundKept DEF EchoInv
<1>2. CASE Clip!Sample(m) \/ Clip!Read(m)
  <2> SUFFICES ASSUME ~raced'[m] PROVE Undisturbed(m)'
    BY <1>1 DEF Undisturbed, EchoInv
  <2>1. ~raced[m] /\ ~Clip!Writing(m)
    BY <1>2 DEF Clip!Sample, Clip!Read, Clip!Overlap, ClipTyped, ClipWatchers
  <2>2. /\ OneWriter(m) /\ WatcherIdle(m) /\ FillsBlank(m) /\ WroteArg(m)
        /\ MarkedBoard(m) /\ FoundOnce(m) /\ MarkedSeen(m)
    BY <2>1 DEF EchoInv, Undisturbed
  <2>3. UNCHANGED <<cpc, arg, board, lastWritten>>
    BY <1>2 DEF Clip!Sample, Clip!Read
  <2>4. OneWriter(m)' /\ WatcherIdle(m)' /\ FillsBlank(m)' /\ WroteArg(m)'
    BY <2>1, <2>3 DEF OneWriter, WatcherIdle, FillsBlank, WroteArg, Clip!Writing
  <2>5. CASE Clip!Sample(m)
    <3>1. changed[m] /\ ~changed'[m] /\ watch'[m] = "read"
      BY <2>5 DEF Clip!Sample, ClipTyped, ClipBoards, ClipWatchers
    <3> QED BY <2>1, <2>2, <2>3, <2>4, <3>1 DEF Undisturbed, FromSession, MarkedBoard, FoundOnce, MarkedSeen
  <2>6. CASE Clip!Read(m)
    <3>1. /\ watch[m] = "read" /\ changed' = changed
          /\ \/ watch'[m] = "tick" /\ seen' = seen
             \/ watch'[m] = "check" /\ seen'[m] = board[m]
      BY <2>6 DEF Clip!Read, ClipTyped, ClipWatchers
    <3> QED BY <2>1, <2>2, <2>3, <2>4, <3>1 DEF Undisturbed, FromSession, MarkedBoard, FoundOnce, MarkedSeen
  <2> QED BY <1>2, <2>5, <2>6
<1>3. CASE Clip!Check(m)
  <2> SUFFICES ASSUME ~raced'[m] PROVE Undisturbed(m)'
    BY <1>1 DEF Undisturbed, EchoInv
  <2>1. ~raced[m] /\ watch[m] = "check" /\ watch'[m] = "tick" /\ UNCHANGED <<cpc, arg, board, changed>>
    BY <1>3 DEF Clip!Check, ClipTyped, ClipWatchers
  <2>2. /\ OneWriter(m) /\ WatcherIdle(m) /\ FillsBlank(m) /\ WroteArg(m)
        /\ MarkedBoard(m) /\ FoundOnce(m) /\ MarkedSeen(m)
    BY <2>1 DEF EchoInv, Undisturbed
  <2> QED BY <2>1, <2>2 DEF Undisturbed, FromSession, OneWriter, WatcherIdle, FillsBlank, WroteArg, MarkedBoard,
         FoundOnce, MarkedSeen, Clip!Writing
<1> QED BY <1>1, <1>2, <1>3 DEF Clip!Watch, EchoInv

LEMMA BeginEcho ==
    ASSUME ClipTyped, EchoInv, NEW m \in Clip!Machines, NEW w \in Clip!Session, NEW v, NEW opened \in BOOLEAN,
           Clip!BeginWrite(m, w, v, opened), UNCHANGED <<lastWritten, seen>>,
           Clip!EndSession \/ UNCHANGED watch
    PROVE  EchoInv'
<1>1. CASE opened
  <2>1. /\ Clip!Take(m, w, v)
        /\ raced' = [raced EXCEPT ![m] = watch[m] # "tick" \/ \E o \in Clip!Session \ {w} : cpc[m][o] # "idle"]
    BY Zenon, <1>1 DEF Clip!BeginWrite, Clip!Overlap
  <2> QED BY <2>1, TakeEcho
<1>2. CASE ~opened
  <2>1. UNCHANGED <<board, holder, changed, cpc, arg, raced, ctrouble>>
    BY Zenon, <1>2 DEF Clip!BeginWrite
  <2> QED BY <2>1, RoundKept, WatchEnds DEF EchoInv
<1> QED BY <1>1, <1>2

LEMMA EchoStep == ClipTyped /\ NoUserMark /\ EchoInv /\ [Clip!Next]_(Clip!vars) => EchoInv'
<1> SUFFICES ASSUME ClipTyped, NoUserMark, EchoInv, [Clip!Next]_(Clip!vars) PROVE EchoInv'
  OBVIOUS
<1>0. ASSUME UNCHANGED <<cpc, arg, board, changed, lastWritten, seen, raced>>, Clip!EndSession \/ UNCHANGED watch
      PROVE  EchoInv'
  BY <1>0, RoundKept, WatchEnds DEF EchoInv
<1>1. ASSUME NEW m \in Clip!Machines, Clip!Receive(m) PROVE EchoInv'
  <2>1. UNCHANGED <<lastWritten, seen>> /\ Clip!Opens(m) \subseteq BOOLEAN /\ "sink" \in Clip!Session
    BY <1>1 DEF Clip!Receive, Clip!Opens, Clip!Session
  <2>2. \/ UNCHANGED <<cpc, arg, board, changed, raced, watch>>
        \/ \E opened \in BOOLEAN : /\ Clip!BeginWrite(m, "sink", Head(inbox[m]), opened)
                                   /\ Clip!EndSession \/ UNCHANGED watch
    BY <1>1, <2>1 DEF Clip!Receive
  <2> QED BY <1>0, <2>1, <2>2, BeginEcho
<1>2. ASSUME NEW m \in Clip!Machines, Clip!FilesArrive(m) PROVE EchoInv'
  <2>1. UNCHANGED <<lastWritten, seen, watch>> /\ Clip!Opens(m) \subseteq BOOLEAN /\ "files" \in Clip!Session
    BY <1>2 DEF Clip!FilesArrive, Clip!Opens, Clip!Session
  <2>2. \E opened \in BOOLEAN : Clip!BeginWrite(m, "files", FileList, opened)
    BY <1>2, <2>1 DEF Clip!FilesArrive
  <2> QED BY <2>1, <2>2, BeginEcho
<1>3. ASSUME NEW m \in Clip!Machines, NEW v \in Contents, Clip!Copy(m, v) PROVE EchoInv'
  <2>1. Clip!Take(m, "user", v) /\ UNCHANGED <<lastWritten, watch, seen, raced>>
    BY <1>3 DEF Clip!Copy
  <2>2. ASSUME NEW x \in Clip!Machines, x # m PROVE Undisturbed(x)'
    BY <2>1, <2>2, RoundKept DEF Clip!Take, EchoInv, ClipTyped, ClipBoards, ClipWriters
  <2>3. ~FromSession(m)'
    BY <2>1, NoneFromSession DEF Clip!Take, FromSession, ClipTyped, ClipBoards
  <2>4. \A w \in Clip!Session : cpc'[m][w] = cpc[m][w]
    BY <2>1, NoneFromSession DEF Clip!Take, ClipTyped, ClipWriters, Progress, Clip!Writers
  <2>5. Undisturbed(m)'
    BY <2>1, <2>3, <2>4 DEF EchoInv, Undisturbed, OneWriter, WatcherIdle, FillsBlank, WroteArg, MarkedBoard,
         FoundOnce, MarkedSeen, Clip!Writing
  <2> QED BY <2>2, <2>5 DEF EchoInv
<1>4. CASE Clip!Reconnect
  <2>1. ASSUME NEW x \in Clip!Machines, x # "client" PROVE Undisturbed(x)'
    BY <1>4, <2>1, RoundKept DEF Clip!Reconnect, EchoInv, ClipTyped, ClipBoards, ClipWatchers
  <2>2. Undisturbed("client")'
    <3>1. "client" \in Clip!Machines
      BY DEF Clip!Machines
    <3>2. /\ ~Clip!Writing("client") /\ UNCHANGED <<cpc, arg, board, seen>>
          /\ ~changed'["client"] /\ watch'["client"] = "tick"
      BY <1>4, <3>1 DEF Clip!Reconnect, ClipTyped, ClipBoards, ClipWatchers
    <3> QED BY <3>2 DEF Undisturbed, FromSession, OneWriter, WatcherIdle, FillsBlank, WroteArg, MarkedBoard,
         FoundOnce, MarkedSeen, Clip!Writing
  <2> QED BY <2>1, <2>2 DEF EchoInv
<1>5. ASSUME NEW m \in Clip!Machines, Clip!FilesRefused(m) PROVE EchoInv'
  BY <1>0, <1>5 DEF Clip!FilesRefused
<1>6. CASE Clip!LoseSession
  BY <1>0, <1>6 DEF Clip!LoseSession
<1>7. CASE UNCHANGED Clip!vars
  BY <1>0, <1>7 DEF Clip!vars
<1> QED BY <1>1, <1>2, <1>3, <1>4, <1>5, <1>6, <1>7, WriteEcho, WatchEcho DEF Clip!Next

LEMMA EchoInit == Clip!Init => EchoInv /\ NoUserMark
<1> SUFFICES ASSUME Clip!Init PROVE EchoInv /\ NoUserMark
  OBVIOUS
<1>1. ASSUME NEW m \in Clip!Machines
      PROVE  /\ \A w \in Clip!Writers : cpc[m][w] = "idle"
             /\ watch[m] = "tick" /\ board[m] = Clip!Blank
  BY <1>1 DEF Clip!Init
<1> QED BY <1>1, NoneFromSession DEF EchoInv, NoUserMark, Undisturbed, FromSession, OneWriter, WatcherIdle, FillsBlank,
         WroteArg, MarkedBoard, FoundOnce, MarkedSeen, Clip!Writing, Clip!Writers

(* What the marker names is not sent. *)
LEMMA OwnStays ==
    ASSUME ClipTyped, EchoInv, NEW m \in Clip!Machines, Clip!Check(m), seen[m].by \in Clip!Session,
           ~raced[m], seen[m].val # EmptyText
    PROVE  Clip!Own(m)
<1>1. watch[m] = "check"
  BY DEF Clip!Check
<1>2. lastWritten[m] = Clip!Marker(seen[m].val)
  BY <1>1 DEF EchoInv, Undisturbed, MarkedSeen
<1>3. seen[m].val \in Contents
  BY <1>1 DEF ClipTyped, ClipWatchers
<1> QED BY <1>2, <1>3, ClipAssumption DEF Clip!ContentsAssumption, Clip!Marker, Clip!Own

LEMMA SendsOther ==
    ASSUME ClipTyped, EchoInv, NEW m \in Clip!Machines, Clip!Check(m), seen[m].by \in Clip!Session,
           inbox'[Clip!Other(m)] # inbox[Clip!Other(m)]
    PROVE  raced[m] \/ seen[m].val = EmptyText
<1> SUFFICES ASSUME ~raced[m], seen[m].val # EmptyText PROVE FALSE
  OBVIOUS
<1>1. Clip!Own(m)
  BY OwnStays
<1>2. inbox' = inbox
  BY <1>1 DEF Clip!Check
<1> QED BY <1>2

(* While nothing was lost and no copy met anything else, one content v, the *)
(* last one copied, on machine m, is all there is on the way.              *)

(* The watcher of x is going to look at what is on the clipboard. *)
Filling(x) == \E w \in Clip!Writers : cpc[x][w] = "fill"
Due(x) == changed[x] \/ watch[x] \in {"read", "check"} \/ (system[x] = "windows" /\ Filling(x))

Carries(x, v) ==
    /\ \A i \in 1 .. Len(inbox[x]) : inbox[x][i] = v
    /\ offers[x] > 0 => v = FileList
    /\ \A w \in Clip!Writers : cpc[x][w] # "idle" => arg[x][w] = v /\ v \in Contents
    /\ cpc[x]["sink"] # "idle" => v # FileList
    /\ cpc[x]["files"] # "idle" => v = FileList
    /\ watch[x] = "check" => seen[x].val = v
    /\ lastWritten[x] \in {None, v} /\ (v = EmptyText => lastWritten[x] = None)

(* Who writes has the clipboard, and the watcher's next round is to come.  *)
Works(x) ==
    /\ \A w \in Clip!Writers : cpc[x][w] \in {"fill", "close"} => holder[x] = w
    /\ \A w \in Clip!Writers : cpc[x][w] = "fill" => board[x].val = None
    /\ \A w \in Clip!Writers : cpc[x][w] # "idle" => Due(x)
    /\ watch[x] # "off"

Still(x) == inbox[x] = <<>> /\ offers[x] = 0 /\ ~Clip!Writing(x)

(* The machine of the copy is on its own until the copy is finished. *)
Origin(m, v) ==
    /\ lastWritten[m] = None
    /\ v # EmptyText => Still(m)
    /\ cpc[m]["user"] # "idle" => /\ Still(m) /\ Still(Clip!Other(m)) /\ watch[m] # "check"
                                  /\ ~changed[Clip!Other(m)] /\ watch[Clip!Other(m)] = "tick"

(* The other one has what the session brought. *)
Target(o, v) ==
    /\ cpc[o]["user"] = "idle"
    /\ Due(o) => board[o].val = None \/ (board[o].val = v /\ FromSession(o))
    /\ watch[o] = "check" => seen[o].by \in Clip!Session
    /\ lastWritten[o] # None => Due(o)

(* Whoever does not show v yet is about to. *)
Arrives(m, v) ==
    LET o == Clip!Other(m) IN
    /\ board[m].val = v \/ Filling(m)
    /\ board[o].val = v \/ Filling(o) \/ inbox[o] # <<>> \/ offers[o] > 0 \/ Due(m)

Wave(m, v) ==
    /\ up
    /\ \A x \in Clip!Machines : Carries(x, v) /\ Works(x)
    /\ Origin(m, v) /\ Target(Clip!Other(m), v) /\ Arrives(m, v)

CalmInv == calm => \E m \in Clip!Machines, v \in Contents \cup {None} : Wave(m, v)

(* Both machines, and one whose part of the state is as it was. *)
LEMMA TwoMachines ==
    ASSUME NEW m \in Clip!Machines
    PROVE  /\ Clip!Other(m) \in Clip!Machines /\ Clip!Other(m) # m /\ Clip!Other(Clip!Other(m)) = m
           /\ Clip!Machines = {m, Clip!Other(m)}
BY DEF Clip!Machines, Clip!Other

Same(x) ==
    /\ system'[x] = system[x] /\ board'[x] = board[x] /\ holder'[x] = holder[x] /\ changed'[x] = changed[x]
    /\ lastWritten'[x] = lastWritten[x] /\ cpc'[x] = cpc[x] /\ arg'[x] = arg[x] /\ watch'[x] = watch[x]
    /\ seen'[x] = seen[x] /\ inbox'[x] = inbox[x] /\ offers'[x] = offers[x]

LEMMA SameKept ==
    ASSUME NEW x, NEW v, Same(x)
    PROVE  /\ Carries(x, v)' <=> Carries(x, v)
           /\ Works(x)' <=> Works(x)
           /\ Still(x)' <=> Still(x)
           /\ Due(x)' <=> Due(x)
           /\ Filling(x)' <=> Filling(x)
           /\ Target(x, v)' <=> Target(x, v)
<1>1. (Filling(x)' <=> Filling(x)) /\ (Due(x)' <=> Due(x))
  BY DEF Same, Filling, Due
<1>2. Carries(x, v)' <=> Carries(x, v)
  BY DEF Same, Carries
<1>3. Works(x)' <=> Works(x)
  BY <1>1 DEF Same, Works
<1>4. Still(x)' <=> Still(x)
  BY DEF Same, Still, Clip!Writing
<1>5. Target(x, v)' <=> Target(x, v)
  BY <1>1 DEF Same, Target, FromSession
<1> QED BY <1>1, <1>2, <1>3, <1>4, <1>5

(* One writer is at it on each machine. *)
LEMMA OneActive ==
    ASSUME ClipTyped, NEW m \in Clip!Machines, NEW v, Wave(m, v), NEW x \in Clip!Machines,
           NEW w \in Clip!Writers, cpc[x][w] # "idle"
    PROVE  /\ \A u \in Clip!Writers \ {w} : cpc[x][u] = "idle"
           /\ w \in Clip!Session => /\ cpc[m]["user"] = "idle"
                                    /\ x = m => v = EmptyText
           /\ w \notin Clip!Session => x = m /\ w = "user"
<1>0. x = m \/ x = Clip!Other(m)
  BY TwoMachines
<1>1. w \in Clip!Session => Clip!Writing(x)
  BY DEF Clip!Writing
<1>2. w = "user" => x = m /\ Still(m)
  BY <1>0 DEF Wave, Origin, Target
<1>3. w \in Clip!Session => cpc[m]["user"] = "idle"
  BY <1>0, <1>1 DEF Wave, Origin, Still
<1>4. w \in Clip!Session => cpc[x]["user"] = "idle"
  BY <1>0, <1>3 DEF Wave, Target
<1>5. cpc[x]["sink"] = "idle" \/ cpc[x]["files"] = "idle"
  BY DEF Wave, Carries
<1>6. w \notin Clip!Session => w = "user"
  BY DEF Clip!Writers
<1>7. x = m /\ w \in Clip!Session => v = EmptyText
  BY <1>1 DEF Wave, Origin, Still
<1>8. ASSUME NEW u \in Clip!Writers \ {w} PROVE cpc[x][u] = "idle"
  <2>1. CASE w = "user"
    <3>1. u \in Clip!Session
      BY <2>1 DEF Clip!Writers
    <3> QED BY <1>2, <2>1, <3>1 DEF Still, Clip!Writing
  <2>2. CASE w \in Clip!Session
    BY <1>4, <1>5, <2>2 DEF Clip!Writers, Clip!Session
  <2> QED BY <1>6, <2>1, <2>2
<1> QED BY <1>2, <1>3, <1>6, <1>7, <1>8

(* A writer goes on. *)
LEMMA WriteWave ==
    ASSUME ClipTyped, NoUserMark, NEW m \in Clip!Machines, NEW v, Wave(m, v), calm',
           NEW x \in Clip!Machines, NEW w \in Clip!Writers, Clip!Write(x, w)
    PROVE  Wave(m, v)'
<1> DEFINE o == Clip!Other(m)
<1>0. o \in Clip!Machines /\ o # m /\ Clip!Machines = {m, o}
  BY TwoMachines
<1>1. /\ up /\ Carries(x, v) /\ Works(x) /\ Carries(m, v) /\ Works(m) /\ Carries(o, v) /\ Works(o)
      /\ Origin(m, v) /\ Target(o, v) /\ Arrives(m, v)
  BY <1>0 DEF Wave
<1>2. cpc[x][w] \in {"fill", "close", "mark"} /\ arg[x][w] = v /\ v \in Contents /\ Due(x)
  BY <1>1 DEF Clip!Write, Clip!Fill, Clip!Close, Clip!Mark, Carries, Works
<1>3. /\ \A u \in Clip!Writers \ {w} : cpc[x][u] = "idle"
      /\ w \in Clip!Session => cpc[m]["user"] = "idle" /\ (x = m => v = EmptyText)
      /\ w \notin Clip!Session => x = m /\ w = "user"
  BY <1>2, OneActive
<1>4. ~Clip!Fail(x, w)
  BY DEF Clip!Fail, Clip!EndSession
<1>5. CASE Clip!Fill(x, w) \/ Clip!Close(x, w) \/ Clip!Mark(x, w)
  <2>1. /\ UNCHANGED <<up, calm, system, inbox, offers, watch, seen>>
        /\ \A y \in Clip!Machines \ {x} : Same(y)
    BY <1>4, <1>5 DEF Clip!Fill, Clip!Close, Clip!Mark, Clip!Goto, Same, ClipTyped, ClipBoards, ClipWriters
  <2>2. /\ cpc'[x][w] = IF cpc[x][w] = "fill" /\ system[x] = "windows" THEN "close"
                        ELSE IF cpc[x][w] # "mark" /\ w # "user" THEN "mark" ELSE "idle"
        /\ \A u \in Clip!Writers \ {w} : cpc'[x][u] = "idle"
        /\ cpc'[x][w] # "idle" => arg'[x][w] = v
    <3> DEFINE l == IF cpc[x][w] = "fill" /\ system[x] = "windows" THEN "close"
                    ELSE IF cpc[x][w] # "mark" /\ w # "user" THEN "mark" ELSE "idle"
    <3>1. Clip!Goto(x, w, l)
      <4>1. CASE Clip!Fill(x, w)
        BY <1>4, <4>1 DEF Clip!Fill
      <4>2. CASE Clip!Close(x, w)
        BY <4>2 DEF Clip!Close
      <4>3. CASE Clip!Mark(x, w)
        BY <4>3 DEF Clip!Mark
      <4> QED BY <1>5, <4>1, <4>2, <4>3
    <3> HIDE DEF l
    <3>2. cpc'[x][w] = l /\ \A u \in Clip!Writers \ {w} : cpc'[x][u] = cpc[x][u]
      BY <3>1 DEF Clip!Goto, ClipTyped, ClipWriters, Progress
    <3>3. l # "idle" => arg' = arg
      BY <3>1 DEF Clip!Goto
    <3> QED BY <1>2, <1>3, <3>2, <3>3 DEF l
  <2>3. holder[x] = w /\ cpc'[x][w] = "close" => holder'[x] = w
    BY <1>4, <1>5, <2>2 DEF Clip!Fill, Clip!Close, Clip!Mark
  <2>4. changed'[x] = changed[x] \/ changed'[x] = TRUE
    BY <1>5 DEF Clip!Fill, Clip!Close, Clip!Mark, ClipTyped, ClipBoards
  <2>5. cpc[x][w] = "fill" => /\ board'[x] = [val |-> v, by |-> w]
                              /\ system[x] = "windows" => changed'[x] = TRUE
    BY <1>2, <1>4, <1>5 DEF Clip!Fill, Clip!Close, Clip!Mark, ClipTyped, ClipBoards
  <2>6. cpc[x][w] # "fill" => board' = board
    BY <1>5 DEF Clip!Fill, Clip!Close, Clip!Mark
  <2>7. IF cpc[x][w] = "mark" THEN lastWritten'[x] = Clip!Marker(v) ELSE lastWritten'[x] = lastWritten[x]
    BY <1>2, <1>5 DEF Clip!Fill, Clip!Close, Clip!Mark, ClipTyped, ClipBoards
  <2>8. ~Filling(x)'
    BY <2>2 DEF Filling
  <2>9. Due(x)'
    <3>1. CASE cpc[x][w] = "fill" /\ system[x] = "windows"
      BY <2>5, <3>1 DEF Due
    <3>2. CASE ~(cpc[x][w] = "fill" /\ system[x] = "windows")
      <4>1. changed[x] \/ watch[x] \in {"read", "check"}
        BY <1>2, <1>3, <3>2 DEF Due, Filling
      <4> QED BY <2>1, <2>4, <4>1 DEF Due
    <3> QED BY <3>1, <3>2
  <2>10. Carries(x, v)'
    <3>1. lastWritten'[x] \in {None, v} /\ (v = EmptyText => lastWritten'[x] = None)
      BY <1>1, <2>7 DEF Carries, Clip!Marker
    <3>2. cpc'[x]["sink"] # "idle" => v # FileList
      BY <1>1, <1>2, <2>2 DEF Carries, Clip!Writers, Clip!Session
    <3>3. cpc'[x]["files"] # "idle" => v = FileList
      BY <1>1, <1>2, <2>2 DEF Carries, Clip!Writers, Clip!Session
    <3>4. \A u \in Clip!Writers : cpc'[x][u] # "idle" => arg'[x][u] = v
      BY <2>2
    <3> QED BY <1>1, <1>2, <2>1, <3>1, <3>2, <3>3, <3>4 DEF Carries
  <2>11. Works(x)'
    <3>1. \A u \in Clip!Writers : cpc'[x][u] \in {"fill", "close"} => holder'[x] = u
      BY <1>1, <1>2, <2>2, <2>3 DEF Works
    <3>2. \A u \in Clip!Writers : cpc'[x][u] # "fill"
      BY <2>2
    <3> QED BY <1>1, <2>1, <2>9, <3>1, <3>2 DEF Works
  <2>12. Still(x) => w = "user" /\ Still(x)'
    BY <1>2, <1>3, <2>1, <2>2 DEF Still, Clip!Writing, Clip!Writers
  <2>13. CASE x = m
    <3>1. Same(o)
      BY <1>0, <2>1, <2>13
    <3>2. lastWritten'[m] = None
      BY <1>1, <1>2, <1>3, <2>7, <2>13, NoneFromSession DEF Origin, Clip!Marker, NoUserMark
    <3>3. cpc'[m]["user"] # "idle" => cpc[m]["user"] # "idle"
      BY <1>2, <2>2, <2>13 DEF Clip!Writers
    <3>4. Origin(m, v)'
      BY <1>1, <2>1, <2>12, <2>13, <3>1, <3>2, <3>3, SameKept DEF Origin, Same
    <3>5. Arrives(m, v)'
      <4>1. board'[m].val = v
        <5>1. CASE cpc[x][w] = "fill"
          BY <2>5, <2>13, <5>1
        <5>2. CASE cpc[x][w] # "fill"
          BY <1>1, <1>3, <2>6, <2>13, <5>2 DEF Arrives, Filling
        <5> QED BY <5>1, <5>2
      <4> QED BY <2>9, <2>13, <4>1 DEF Arrives
    <3>6. Carries(o, v)' /\ Works(o)' /\ Target(o, v)'
      BY <1>1, <3>1, SameKept
    <3> HIDE DEF o
    <3>7. \A y \in Clip!Machines : Carries(y, v)' /\ Works(y)'
      BY <1>0, <2>10, <2>11, <2>13, <3>6
    <3> QED BY <1>1, <2>1, <3>4, <3>5, <3>6, <3>7 DEF Wave, o
  <2>14. CASE x = o
    <3>1. Same(m) /\ w \in Clip!Session /\ cpc[m]["user"] = "idle"
      BY <1>0, <1>3, <2>1, <2>14
    <3>2. Origin(m, v)'
      BY <1>1, <3>1, SameKept DEF Origin, Same
    <3>3. Arrives(m, v)'
      <4>1. board'[o].val = v \/ inbox'[o] # <<>> \/ offers'[o] > 0 \/ Due(m)'
        <5>1. CASE cpc[x][w] = "fill"
          BY <2>5, <2>14, <5>1
        <5>2. CASE cpc[x][w] # "fill"
          <6>1. ~Filling(o)
            BY <1>3, <2>14, <5>2 DEF Filling
          <6> QED BY <1>1, <2>1, <2>6, <3>1, <5>2, <6>1, SameKept DEF Arrives
        <5> QED BY <5>1, <5>2
      <4>2. board'[m].val = v \/ Filling(m)'
        BY <1>1, <3>1, SameKept DEF Arrives, Same
      <4> QED BY <4>1, <4>2 DEF Arrives
    <3>4. Target(o, v)'
      <4>1. cpc'[o]["user"] = "idle"
        BY <2>2, <2>14, <3>1, NoneFromSession DEF Clip!Writers
      <4>2. board'[o].val = None \/ (board'[o].val = v /\ FromSession(o)')
        <5>1. CASE cpc[x][w] = "fill"
          BY <2>5, <2>14, <3>1, <5>1 DEF FromSession
        <5>2. CASE cpc[x][w] # "fill"
          BY <1>1, <1>2, <2>6, <2>14, <5>2 DEF FromSession, Target
        <5> QED BY <5>1, <5>2
      <4>3. watch'[o] = "check" => seen'[o].by \in Clip!Session
        BY <1>1, <2>1 DEF Target
      <4> QED BY <2>9, <2>14, <4>1, <4>2, <4>3 DEF Target
    <3>5. Carries(m, v)' /\ Works(m)'
      BY <1>1, <3>1, SameKept
    <3> HIDE DEF o
    <3>6. \A y \in Clip!Machines : Carries(y, v)' /\ Works(y)'
      BY <1>0, <2>10, <2>11, <2>14, <3>5
    <3> QED BY <1>1, <2>1, <3>2, <3>3, <3>4, <3>6 DEF Wave, o
  <2> QED BY <1>0, <2>13, <2>14
<1> QED BY <1>5 DEF Clip!Write

(* The watcher samples the counter or reads the clipboard. *)
LEMMA LookWave ==
    ASSUME ClipTyped, NoUserMark, NEW m \in Clip!Machines, NEW v, Wave(m, v), calm',
           NEW x \in Clip!Machines, Clip!Sample(x) \/ Clip!Read(x)
    PROVE  Wave(m, v)'
<1> DEFINE o == Clip!Other(m)
<1>0. o \in Clip!Machines /\ o # m /\ Clip!Machines = {m, o}
  BY TwoMachines
<1>1. /\ up /\ Carries(x, v) /\ Works(x) /\ Carries(m, v) /\ Works(m) /\ Carries(o, v) /\ Works(o)
      /\ Origin(m, v) /\ Target(o, v) /\ Arrives(m, v)
  BY <1>0 DEF Wave
<1>2. /\ UNCHANGED <<system, board, holder, lastWritten, cpc, arg, inbox, offers, up>>
      /\ \A y \in Clip!Machines \ {x} : Same(y)
  BY DEF Clip!Sample, Clip!Read, Same, ClipTyped, ClipBoards, ClipWatchers
<1>3. Due(x) /\ (x = o => cpc[m]["user"] = "idle")
  <2>1. changed[x] \/ watch[x] = "read"
    BY DEF Clip!Sample, Clip!Read
  <2> QED BY <1>1, <2>1 DEF Due, Origin
<1>4. /\ Due(x)' /\ watch'[x] # "off"
      /\ watch'[x] = "check" => /\ seen'[x] = board[x] /\ seen'[x].val \in Contents
                                /\ holder[x] = None
  <2>1. CASE Clip!Sample(x)
    BY <2>1 DEF Clip!Sample, ClipTyped, ClipWatchers, Due
  <2>2. CASE Clip!Read(x) /\ (holder[x] # None \/ board[x].val = None)
    <3>1. watch'[x] = "tick" /\ changed' = changed
      BY <2>2 DEF Clip!Read, ClipTyped, ClipWatchers
    <3>2. changed[x] \/ (system[x] = "windows" /\ \E w \in Clip!Writers : holder[x] = w /\ cpc[x][w] = "fill")
      BY Zenon, <2>2 DEF Clip!Read
    <3> QED BY <1>2, <3>1, <3>2 DEF Due, Filling
  <2>3. CASE Clip!Read(x) /\ ~(holder[x] # None \/ board[x].val = None)
    <3>1. watch'[x] = "check" /\ seen'[x] = board[x]
      BY <2>3 DEF Clip!Read, ClipTyped, ClipWatchers
    <3>2. board[x].val \in Contents
      BY <2>3 DEF ClipTyped, ClipBoards, Clip!Board
    <3> QED BY <2>3, <3>1, <3>2 DEF Due
  <2> QED BY <2>1, <2>2, <2>3
<1>5. watch'[x] = "check" => \A w \in Clip!Writers : cpc[x][w] # "fill"
  BY <1>1, <1>4, ClipAssumption DEF Works, Clip!ContentsAssumption
<1>6. watch'[x] = "check" => board[x].val = v /\ (x = o => FromSession(o))
  <2> SUFFICES ASSUME watch'[x] = "check" PROVE board[x].val = v /\ (x = o => FromSession(o))
    OBVIOUS
  <2>1. ~Filling(x) /\ board[x].val # None
    BY <1>4, <1>5, ClipAssumption DEF Filling, Clip!ContentsAssumption
  <2>2. CASE x = m
    BY <1>0, <1>1, <2>1, <2>2 DEF Arrives
  <2>3. CASE x = o
    BY <1>1, <1>3, <2>1, <2>3 DEF Target
  <2> QED BY <1>0, <2>2, <2>3
<1>7. Filling(x)' <=> Filling(x)
  BY <1>2 DEF Filling
<1>8. Carries(x, v)'
  BY <1>1, <1>2, <1>4, <1>6 DEF Carries
<1>9. Works(x)'
  BY <1>1, <1>2, <1>4 DEF Works
<1>10. Still(x)' <=> Still(x)
  BY <1>2 DEF Still, Clip!Writing
<1>11. CASE x = m
  <2>1. Same(o)
    BY <1>0, <1>2, <1>11
  <2>2. watch'[m] = "check" => cpc[m]["user"] = "idle"
    <3> SUFFICES ASSUME watch'[m] = "check", cpc[m]["user"] # "idle" PROVE FALSE
      BY DEF ClipTyped
    <3>1. "user" \in Clip!Writers /\ "user" # None
      BY ClipAssumption DEF Clip!ContentsAssumption, Clip!Writers
    <3>2. cpc[m]["user"] \in {"fill", "close"}
      BY <3>1 DEF NoUserMark, ClipTyped, ClipWriters, Progress
    <3> QED BY <1>1, <1>4, <1>11, <3>1, <3>2 DEF Works
  <2>3. Origin(m, v)'
    BY <1>1, <1>2, <1>10, <1>11, <2>1, <2>2, SameKept DEF Origin, Same
  <2>4. Arrives(m, v)'
    BY <1>1, <1>2, <1>4, <1>7, <1>11, <2>1, SameKept DEF Arrives
  <2>5. Carries(o, v)' /\ Works(o)' /\ Target(o, v)'
    BY <1>1, <2>1, SameKept
  <2> HIDE DEF o
  <2>6. \A y \in Clip!Machines : Carries(y, v)' /\ Works(y)'
    BY <1>0, <1>8, <1>9, <1>11, <2>5
  <2> QED BY <1>1, <1>2, <2>3, <2>4, <2>5, <2>6 DEF Wave, o
<1>12. CASE x = o
  <2>1. Same(m)
    BY <1>0, <1>2, <1>12
  <2>2. Origin(m, v)'
    BY <1>1, <1>2, <1>3, <1>12, <2>1, SameKept DEF Origin, Same
  <2>3. Arrives(m, v)'
    BY <1>1, <1>2, <1>7, <1>12, <2>1, SameKept DEF Arrives
  <2>4. Target(o, v)'
    <3>1. board[o].val = None \/ (board[o].val = v /\ FromSession(o))
      BY <1>1, <1>3, <1>12 DEF Target
    <3>2. watch'[o] = "check" => seen'[o].by \in Clip!Session
      BY <1>4, <1>6, <1>12 DEF FromSession
    <3> QED BY <1>1, <1>2, <1>4, <1>12, <3>1, <3>2 DEF Target, FromSession
  <2>5. Carries(m, v)' /\ Works(m)'
    BY <1>1, <2>1, SameKept
  <2> HIDE DEF o
  <2>6. \A y \in Clip!Machines : Carries(y, v)' /\ Works(y)'
    BY <1>0, <1>8, <1>9, <1>12, <2>5
  <2> QED BY <1>1, <1>2, <2>2, <2>3, <2>4, <2>6 DEF Wave, o
<1> QED BY <1>0, <1>11, <1>12

LEMMA Appended ==
    ASSUME NEW s \in Seq(Contents), NEW v \in Contents, \A i \in 1 .. Len(s) : s[i] = v
    PROVE  /\ \A i \in 1 .. Len(Append(s, v)) : Append(s, v)[i] = v
           /\ Append(s, v) # <<>>
OBVIOUS

LEMMA TakenOff ==
    ASSUME NEW s \in Seq(Contents), NEW v, s # <<>>, \A i \in 1 .. Len(s) : s[i] = v
    PROVE  Head(s) = v /\ \A i \in 1 .. Len(Tail(s)) : Tail(s)[i] = v
OBVIOUS

(* The watcher sends what it has read, or takes it for its own. *)
LEMMA CheckWave ==
    ASSUME ClipTyped, EchoInv, NoUserMark, NEW m \in Clip!Machines, NEW v, Wave(m, v), calm',
           NEW x \in Clip!Machines, Clip!Check(x)
    PROVE  Wave(m, v)'
<1> DEFINE o == Clip!Other(m)
           y == Clip!Other(x)
<1>0. o \in Clip!Machines /\ o # m /\ Clip!Machines = {m, o} /\ Clip!Other(o) = m
  BY TwoMachines
<1>01. y \in Clip!Machines /\ y # x
  BY TwoMachines
<1>1. /\ up /\ Carries(x, v) /\ Works(x) /\ Carries(m, v) /\ Works(m) /\ Carries(o, v) /\ Works(o) /\ Carries(y, v) /\ Works(y)
      /\ Origin(m, v) /\ Target(o, v) /\ Arrives(m, v)
  BY <1>0, <1>01 DEF Wave
<1>2. /\ UNCHANGED <<system, board, holder, changed, cpc, arg, offers, up>>
      /\ watch[x] = "check" /\ watch' = [watch EXCEPT ![x] = "tick"] /\ seen' = [seen EXCEPT ![x] = Clip!Blank]
      /\ lastWritten' = [lastWritten EXCEPT ![x] = Clip!Consumed(x)]
      /\ ~raced[x]
  BY Zenon DEF Clip!Check
<1>3. seen[x].val = v /\ v \in Contents
  BY <1>1, <1>2 DEF Carries, ClipTyped, ClipWatchers
<1>4. \A w \in Clip!Writers : cpc[x][w] = "idle"
  <2>1. ~Clip!Writing(x)
    BY <1>2 DEF EchoInv, Undisturbed, WatcherIdle
  <2>2. cpc[x]["user"] = "idle"
    BY <1>0, <1>1, <1>2 DEF Origin, Target
  <2> QED BY <2>1, <2>2 DEF Clip!Writing, Clip!Writers
<1>5. inbox' = inbox \/ inbox' = [inbox EXCEPT ![y] = Append(inbox[y], v)]
  BY <1>3 DEF Clip!Check
<1>6. /\ \A i \in 1 .. Len(inbox'[m]) : inbox'[m][i] = v
      /\ \A i \in 1 .. Len(inbox'[o]) : inbox'[o][i] = v
      /\ inbox[o] # <<>> => inbox'[o] # <<>>
      /\ inbox'[x] = inbox[x]
  <2>1. CASE inbox' = inbox
    BY <1>1, <2>1 DEF Carries
  <2>2. CASE inbox' = [inbox EXCEPT ![y] = Append(inbox[y], v)]
    <3>1. inbox[y] \in Seq(Contents)
      BY <1>01 DEF ClipTyped, ClipSession
    <3>2. \A i \in 1 .. Len(Append(inbox[y], v)) : Append(inbox[y], v)[i] = v /\ Append(inbox[y], v) # <<>>
      BY <1>1, <1>3, <3>1, Appended DEF Carries
    <3>3. Append(inbox[y], v) # <<>>
      BY <1>1, <1>3, <3>1, Appended DEF Carries
    <3> DEFINE s == Append(inbox[y], v)
    <3> HIDE DEF s, y, o
    <3>4. inbox' = [inbox EXCEPT ![y] = s] /\ s # <<>> /\ \A i \in 1 .. Len(s) : s[i] = v
      BY <2>2, <3>2, <3>3 DEF s
    <3> QED BY <1>0, <1>01, <1>1, <3>4 DEF Carries, ClipTyped, ClipSession
  <2> QED BY <1>5, <2>1, <2>2
<1>7. lastWritten'[x] \in {None, v} /\ (v = EmptyText => lastWritten'[x] = None)
  BY <1>1, <1>2 DEF Carries, Clip!Consumed, ClipTyped, ClipBoards
<1>8. ASSUME NEW z \in Clip!Machines PROVE Carries(z, v)' /\ Works(z)' /\ (Filling(z)' <=> Filling(z))
  <2>1. Carries(z, v) /\ Works(z) /\ \A i \in 1 .. Len(inbox'[z]) : inbox'[z][i] = v
    BY <1>0, <1>1, <1>6, <1>8
  <2>2. z # x => watch'[z] = watch[z] /\ seen'[z] = seen[z] /\ lastWritten'[z] = lastWritten[z]
    BY <1>2 DEF ClipTyped, ClipWatchers, ClipBoards
  <2>3. z = x => watch'[z] = "tick"
    BY <1>2 DEF ClipTyped, ClipWatchers
  <2>4. Filling(z)' <=> Filling(z)
    BY <1>2 DEF Filling
  <2>5. z # x => (Due(z)' <=> Due(z))
    BY <1>2, <2>2, <2>4 DEF Due
  <2>6. Carries(z, v)'
    BY <1>2, <1>7, <2>1, <2>2, <2>3 DEF Carries
  <2>7. Works(z)'
    BY <1>2, <1>4, <2>1, <2>2, <2>3, <2>5 DEF Works
  <2> QED BY <2>4, <2>6, <2>7
<1>9. CASE x = m
  <2>1. lastWritten[m] = None /\ ~Clip!Own(m)
    BY <1>1, <1>9 DEF Origin, Clip!Own
  <2>2. inbox'[o] # <<>>
    <3>1. inbox' = [inbox EXCEPT ![o] = Append(inbox[o], v)]
      BY <1>1, <1>3, <1>9, <2>1 DEF Clip!Check
    <3>2. inbox[o] \in Seq(Contents)
      BY <1>0 DEF ClipTyped, ClipSession
    <3>3. Append(inbox[o], v) # <<>>
      BY <1>1, <1>3, <3>2, Appended DEF Carries
    <3> QED BY <1>0, <3>1, <3>3 DEF ClipTyped, ClipSession
  <2>3. lastWritten'[m] = None
    BY <1>2, <1>9, <2>1 DEF Clip!Consumed, ClipTyped, ClipBoards
  <2>4. Origin(m, v)'
    <3>1. cpc'[m]["user"] = "idle"
      BY <1>2, <1>4, <1>9 DEF Clip!Writers
    <3>2. Still(m) => Still(m)'
      BY <1>2, <1>6, <1>9 DEF Still, Clip!Writing
    <3> QED BY <1>1, <2>3, <3>1, <3>2 DEF Origin
  <2>5. Target(o, v)'
    <3>1. watch'[o] = watch[o] /\ seen'[o] = seen[o] /\ lastWritten'[o] = lastWritten[o]
      BY <1>0, <1>2, <1>9 DEF ClipTyped, ClipWatchers, ClipBoards
    <3>2. Due(o)' <=> Due(o)
      BY <1>2, <3>1 DEF Due, Filling
    <3> QED BY <1>1, <1>2, <3>1, <3>2 DEF Target, FromSession
  <2>6. Arrives(m, v)'
    BY <1>1, <1>2, <1>8, <1>9, <2>2 DEF Arrives
  <2> QED BY <1>1, <1>2, <1>8, <2>4, <2>5, <2>6 DEF Wave
<1>10. CASE x = o
  <2>1. seen[o].by \in Clip!Session /\ cpc[m]["user"] = "idle"
    BY <1>1, <1>2, <1>10 DEF Target, Origin
  <2>2. v # EmptyText => inbox' = inbox
    <3> SUFFICES ASSUME v # EmptyText PROVE inbox' = inbox
      OBVIOUS
    <3>1. Clip!Own(o)
      BY <1>0, <1>2, <1>3, <1>10, <2>1, OwnStays
    <3> QED BY <1>10, <3>1 DEF Clip!Check
  <2>3. lastWritten'[o] = None
    <3>1. CASE v = EmptyText
      BY <1>7, <1>10, <3>1
    <3>2. CASE v # EmptyText
      <4>1. Clip!Own(o)
        BY <1>0, <1>2, <1>3, <1>10, <2>1, <3>2, OwnStays
      <4> QED BY <1>2, <1>10, <4>1 DEF Clip!Consumed, ClipTyped, ClipBoards
    <3> QED BY <3>1, <3>2
  <2>4. watch'[m] = watch[m] /\ lastWritten'[m] = lastWritten[m]
    BY <1>0, <1>2, <1>10 DEF ClipTyped, ClipWatchers, ClipBoards
  <2>5. Origin(m, v)'
    <3>1. v # EmptyText => Still(m)'
      BY <1>1, <1>2, <2>2 DEF Origin, Still, Clip!Writing
    <3> QED BY <1>1, <1>2, <2>1, <2>4, <3>1 DEF Origin
  <2>6. Target(o, v)'
    <3>1. watch'[o] = "tick" /\ cpc'[o]["user"] = "idle"
      BY <1>2, <1>4, <1>10 DEF ClipTyped, ClipWatchers, Clip!Writers
    <3>2. Due(o)
      BY <1>2, <1>10 DEF Due
    <3> QED BY <1>1, <1>2, <2>3, <3>1, <3>2 DEF Target, FromSession
  <2>7. Arrives(m, v)'
    <3>1. Due(m)' <=> Due(m)
      BY <1>2, <1>8, <2>4 DEF Due
    <3> QED BY <1>0, <1>1, <1>2, <1>6, <1>8, <3>1 DEF Arrives
  <2> QED BY <1>1, <1>2, <1>8, <2>5, <2>6, <2>7 DEF Wave
<1> QED BY <1>0, <1>9, <1>10

(* A writer of the session begins to write what has come. *)
LEMMA BeginWave ==
    ASSUME ClipTyped, NEW m \in Clip!Machines, NEW v \in Contents, Wave(m, v),
           NEW x \in Clip!Machines, NEW w \in Clip!Session,
           cpc[x][w] = "idle", ~Still(x) \/ v = EmptyText, cpc[m]["user"] = "idle",
           w = "sink" => v # FileList, w = "files" => v = FileList,
           x = m => v = EmptyText,
           Clip!Take(x, w, v),
           UNCHANGED <<system, lastWritten, watch, seen, up>>,
           \A z \in Clip!Machines : \A i \in 1 .. Len(inbox'[z]) : inbox'[z][i] = v,
           \A z \in Clip!Machines : offers'[z] > 0 => v = FileList,
           \A z \in Clip!Machines \ {x} : inbox'[z] = inbox[z] /\ offers'[z] = offers[z]
    PROVE  Wave(m, v)'
<1> DEFINE o == Clip!Other(m)
<1>0. o \in Clip!Machines /\ o # m /\ Clip!Machines = {m, o}
  BY TwoMachines
<1>1. /\ up /\ Carries(x, v) /\ Works(x) /\ Carries(m, v) /\ Works(m) /\ Carries(o, v) /\ Works(o)
      /\ Origin(m, v) /\ Target(o, v) /\ Arrives(m, v)
  BY <1>0 DEF Wave
<1>2. \A u \in Clip!Writers : cpc[x][u] = "idle"
  <2>1. cpc[x]["user"] = "idle"
    BY <1>0, <1>1 DEF Target
  <2>2. \A u \in Clip!Session \ {w} : cpc[x][u] = "idle"
    BY <1>1 DEF Carries, Clip!Session
  <2> QED BY <2>1, <2>2 DEF Clip!Writers
<1>3. /\ board'[x] = Clip!Blank /\ holder'[x] = w /\ changed'[x] = TRUE
      /\ cpc'[x][w] = "fill" /\ arg'[x][w] = v
      /\ \A u \in Clip!Writers \ {w} : cpc'[x][u] = "idle"
  BY <1>2 DEF Clip!Take, ClipTyped, ClipBoards, ClipWriters, Progress, Args, Clip!Writers
<1>4. \A z \in Clip!Machines \ {x} : Same(z)
  BY DEF Clip!Take, Same, ClipTyped, ClipBoards, ClipWriters
<1>5. Due(x)' /\ Filling(x)'
  BY <1>3 DEF Due, Filling, Clip!Writers
<1>6. Carries(x, v)'
  BY <1>1, <1>3 DEF Carries, Clip!Writers, Clip!Session
<1>7. Works(x)'
  BY <1>1, <1>3, <1>5 DEF Works, Clip!Blank
<1>8. cpc'[x]["user"] = "idle"
  BY <1>3, NoneFromSession DEF Clip!Writers
<1>9. CASE x = m
  <2>1. Same(o)
    BY <1>0, <1>4, <1>9
  <2>2. Origin(m, v)'
    BY <1>1, <1>8, <1>9 DEF Origin
  <2>3. Arrives(m, v)'
    BY <1>5, <1>9 DEF Arrives
  <2>4. Carries(o, v)' /\ Works(o)' /\ Target(o, v)'
    BY <1>1, <2>1, SameKept
  <2> HIDE DEF o
  <2>5. \A y \in Clip!Machines : Carries(y, v)' /\ Works(y)'
    BY <1>0, <1>6, <1>7, <1>9, <2>4
  <2> QED BY <1>1, <2>2, <2>3, <2>4, <2>5 DEF Wave, o
<1>10. CASE x = o
  <2>1. Same(m)
    BY <1>0, <1>4, <1>10
  <2>2. Origin(m, v)'
    <3>1. cpc'[m]["user"] = "idle"
      BY <2>1 DEF Same
    <3> QED BY <1>1, <2>1, <3>1, SameKept DEF Origin, Same
  <2>3. Arrives(m, v)'
    BY <1>1, <1>5, <1>10, <2>1, SameKept DEF Arrives, Same
  <2>4. Target(o, v)'
    BY <1>1, <1>3, <1>5, <1>8, <1>10 DEF Target, Clip!Blank
  <2>5. Carries(m, v)' /\ Works(m)'
    BY <1>1, <2>1, SameKept
  <2> HIDE DEF o
  <2>6. \A y \in Clip!Machines : Carries(y, v)' /\ Works(y)'
    BY <1>0, <1>6, <1>7, <1>10, <2>5
  <2> QED BY <1>1, <2>2, <2>3, <2>4, <2>6 DEF Wave, o
<1> QED BY <1>0, <1>9, <1>10

(* What comes from the session is v. *)
LEMMA SessionWave ==
    ASSUME ClipTyped, NEW m \in Clip!Machines, NEW v, Wave(m, v), calm',
           NEW x \in Clip!Machines, Clip!Receive(x) \/ Clip!FilesArrive(x)
    PROVE  Wave(m, v)'
<1> DEFINE o == Clip!Other(m)
<1>0. o \in Clip!Machines /\ o # m /\ Clip!Machines = {m, o}
  BY TwoMachines
<1>1. /\ up /\ Carries(x, v) /\ Works(x) /\ Carries(m, v) /\ Works(m) /\ Carries(o, v) /\ Works(o)
      /\ Origin(m, v) /\ Target(o, v) /\ Arrives(m, v)
  BY <1>0 DEF Wave
<1>2. FileList \in Contents /\ EmptyText # FileList
  BY ClipAssumption DEF Clip!ContentsAssumption
<1>3. ~Still(x)
  <2>1. inbox[x] # <<>> \/ offers[x] > 0
    BY DEF Clip!Receive, Clip!FilesArrive
  <2> QED BY <2>1 DEF Still
<1>4. cpc[m]["user"] = "idle" /\ (x = m => v = EmptyText)
  BY <1>0, <1>1, <1>3 DEF Origin
<1>5. CASE Clip!Receive(x)
  <2>1. inbox[x] \in Seq(Contents) /\ inbox[x] # <<>> /\ cpc[x]["sink"] = "idle"
        /\ \A i \in 1 .. Len(inbox[x]) : inbox[x][i] = v
    BY <1>1, <1>5 DEF Clip!Receive, Carries, ClipTyped, ClipSession
  <2> DEFINE t == Tail(inbox[x])
  <2>2. Head(inbox[x]) = v /\ v \in Contents /\ \A i \in 1 .. Len(t) : t[i] = v
    <3>1. Head(inbox[x]) \in Contents
      BY <2>1
    <3> QED BY <2>1, <3>1, TakenOff
  <2>3. inbox' = [inbox EXCEPT ![x] = t] /\ UNCHANGED <<system, lastWritten, seen, watch, up>>
    BY <1>5 DEF Clip!Receive, Clip!EndSession
  <2> HIDE DEF t
  <2>4. /\ \A z \in Clip!Machines : \A i \in 1 .. Len(inbox'[z]) : inbox'[z][i] = v
        /\ \A z \in Clip!Machines \ {x} : inbox'[z] = inbox[z]
    <3>1. \A z \in Clip!Machines : Carries(z, v)
      BY DEF Wave
    <3> QED BY <2>2, <2>3, <3>1 DEF Carries, ClipTyped, ClipSession
  <2>5. CASE v = FileList
    <3>1. /\ offers' = [offers EXCEPT ![x] = @ + 1]
          /\ UNCHANGED <<board, holder, changed, cpc, arg, raced, ctrouble>>
      BY <1>5, <2>2, <2>5 DEF Clip!Receive
    <3>2. x = o
      BY <1>0, <1>2, <1>4, <2>5
    <3>3. offers'[o] > 0 /\ Same(m)
      BY <1>0, <2>3, <2>4, <3>1, <3>2 DEF ClipTyped, ClipSession, Same
    <3>4. Carries(o, v)' /\ Works(o)' /\ Target(o, v)'
      <4>1. (Filling(o)' <=> Filling(o)) /\ (Due(o)' <=> Due(o))
        BY <2>3, <3>1 DEF Filling, Due
      <4>2. Carries(o, v)'
        BY <1>0, <1>1, <2>3, <2>4, <2>5, <3>1 DEF Carries
      <4>3. Works(o)'
        BY <1>1, <2>3, <3>1, <4>1 DEF Works
      <4>4. Target(o, v)'
        BY <1>1, <2>3, <3>1, <4>1 DEF Target, FromSession
      <4> QED BY <4>2, <4>3, <4>4
    <3>5. Origin(m, v)'
      BY <1>1, <1>4, <3>1, <3>3, SameKept DEF Origin, Same
    <3>6. Arrives(m, v)'
      BY <1>1, <3>3, SameKept DEF Arrives, Same
    <3>7. Carries(m, v)' /\ Works(m)'
      BY <1>1, <3>3, SameKept
    <3> HIDE DEF o
    <3>8. \A y \in Clip!Machines : Carries(y, v)' /\ Works(y)'
      BY <1>0, <3>4, <3>7
    <3> QED BY <1>1, <2>3, <3>4, <3>5, <3>6, <3>8 DEF Wave, o
  <2>6. CASE v # FileList
    <3>1. \E opened \in Clip!Opens(x) :
             /\ Clip!BeginWrite(x, "sink", v, opened)
             /\ IF opened THEN UNCHANGED <<offers, watch, up, calm>> ELSE Clip!EndSession
      BY <1>5, <2>2, <2>6 DEF Clip!Receive
    <3>2. Clip!Take(x, "sink", v) /\ UNCHANGED offers
      BY Zenon, <3>1 DEF Clip!BeginWrite, Clip!EndSession
    <3>3. \A z \in Clip!Machines : offers'[z] > 0 => v = FileList
      BY <3>2 DEF Wave, Carries
    <3> QED BY <1>3, <1>4, <2>1, <2>2, <2>3, <2>4, <2>6, <3>2, <3>3, BeginWave DEF Clip!Session
  <2> QED BY <2>5, <2>6
<1>6. CASE Clip!FilesArrive(x)
  <2>1. /\ offers[x] > 0 /\ cpc[x]["files"] = "idle" /\ v = FileList
        /\ UNCHANGED <<system, lastWritten, watch, seen, inbox, up>>
        /\ offers' = [offers EXCEPT ![x] = @ - 1]
    BY <1>1, <1>6 DEF Clip!FilesArrive, Carries
  <2>2. \E opened \in Clip!Opens(x) : Clip!BeginWrite(x, "files", v, opened) /\ opened
    BY <1>6, <2>1 DEF Clip!FilesArrive
  <2>3. Clip!Take(x, "files", v)
    BY Zenon, <2>2 DEF Clip!BeginWrite
  <2>4. \A z \in Clip!Machines : \A i \in 1 .. Len(inbox'[z]) : inbox'[z][i] = v
    BY <2>1 DEF Wave, Carries
  <2>5. \A z \in Clip!Machines \ {x} : offers'[z] = offers[z]
    BY <2>1 DEF ClipTyped, ClipSession
  <2> QED BY <1>2, <1>3, <1>4, <2>1, <2>3, <2>4, <2>5, BeginWave DEF Clip!Session
<1> QED BY <1>5, <1>6

(* A copy made at rest is the next thing on the way. *)
LEMMA CopyWave ==
    ASSUME ClipTyped, NEW m \in Clip!Machines, NEW v, Wave(m, v), calm',
           NEW x \in Clip!Machines, NEW c \in Contents, Clip!Copy(x, c)
    PROVE  Wave(x, c)'
<1> DEFINE y == Clip!Other(x)
           o == Clip!Other(m)
<1>0. /\ y \in Clip!Machines /\ y # x /\ Clip!Machines = {x, y}
      /\ o \in Clip!Machines /\ Clip!Machines = {m, o}
  BY TwoMachines
<1>1. Clip!Quiet
  BY Zenon DEF Clip!Copy
<1>2. ASSUME NEW z \in Clip!Machines
      PROVE  /\ \A u \in Clip!Writers : cpc[z][u] = "idle"
             /\ ~changed[z] /\ watch[z] = "tick" /\ inbox[z] = <<>> /\ offers[z] = 0
             /\ ~Due(z) /\ ~Filling(z) /\ lastWritten[z] = None
  <2>1. /\ \A u \in Clip!Writers : cpc[z][u] = "idle"
        /\ ~changed[z] /\ watch[z] = "tick" /\ inbox[z] = <<>> /\ offers[z] = 0
    BY <1>1 DEF Clip!Quiet
  <2>2. ~Due(z) /\ ~Filling(z)
    BY <2>1 DEF Due, Filling
  <2>3. lastWritten[z] = None
    BY <1>0, <2>2 DEF Wave, Origin, Target
  <2> QED BY <2>1, <2>2, <2>3
<1>3. /\ Clip!Take(x, "user", c) /\ "user" \in Clip!Writers /\ up
      /\ UNCHANGED <<system, lastWritten, watch, seen, inbox, offers, up>>
  BY DEF Clip!Copy, Clip!Writers, Wave
<1>4. /\ board'[x] = Clip!Blank /\ holder'[x] = "user" /\ changed'[x] = TRUE
      /\ cpc'[x]["user"] = "fill" /\ arg'[x]["user"] = c
      /\ \A u \in Clip!Writers \ {"user"} : cpc'[x][u] = "idle"
  BY <1>2, <1>3 DEF Clip!Take, ClipTyped, ClipBoards, ClipWriters, Progress, Args
<1>5. Same(y)
  BY <1>0, <1>3 DEF Clip!Take, Same, ClipTyped, ClipBoards, ClipWriters
<1>6. Due(x)' /\ Filling(x)'
  BY <1>3, <1>4 DEF Due, Filling
<1>7. "sink" \in Clip!Writers \ {"user"} /\ "files" \in Clip!Writers \ {"user"} /\ Clip!Session = Clip!Writers \ {"user"}
  BY DEF Clip!Writers, Clip!Session
<1>8. Carries(x, c)'
  BY <1>2, <1>3, <1>4, <1>7 DEF Carries
<1>9. Works(x)'
  BY <1>2, <1>3, <1>4, <1>6 DEF Works, Clip!Blank
<1>10. Carries(y, c) /\ Works(y) /\ Still(y) /\ Target(y, c)
  <2>1. Carries(y, c)
    BY <1>0, <1>2, <1>7 DEF Carries
  <2>2. Works(y)
    BY <1>0, <1>2 DEF Works
  <2>3. Still(y)
    BY <1>0, <1>2, <1>7 DEF Still, Clip!Writing
  <2>4. Target(y, c)
    BY <1>0, <1>2, <1>7 DEF Target, Clip!Writers
  <2> QED BY <2>1, <2>2, <2>3, <2>4
<1>11. Carries(y, c)' /\ Works(y)' /\ Still(y)' /\ Target(y, c)'
  BY <1>5, <1>10, SameKept
<1>12. Still(x)'
  BY <1>2, <1>3, <1>4, <1>7 DEF Still, Clip!Writing
<1>13. Origin(x, c)'
  BY <1>0, <1>2, <1>3, <1>5, <1>11, <1>12 DEF Origin, Same
<1>14. Arrives(x, c)'
  BY <1>6 DEF Arrives
<1> HIDE DEF y
<1>15. \A z \in Clip!Machines : Carries(z, c)' /\ Works(z)'
  BY <1>0, <1>8, <1>9, <1>11
<1> QED BY <1>3, <1>11, <1>13, <1>14, <1>15 DEF Wave, y

LEMMA CalmStep == ClipTyped /\ EchoInv /\ NoUserMark /\ CalmInv /\ [Clip!Next]_(Clip!vars) => CalmInv'
<1> SUFFICES ASSUME ClipTyped, EchoInv, NoUserMark, CalmInv, [Clip!Next]_(Clip!vars), calm'
             PROVE  \E m \in Clip!Machines, v \in Contents \cup {None} : Wave(m, v)'
  BY DEF CalmInv
<1>0. calm
  BY Zenon DEF Clip!Next, Clip!Write, Clip!Fill, Clip!Fail, Clip!EndSession, Clip!Close, Clip!Mark, Clip!Watch, Clip!Sample,
         Clip!Read, Clip!Check, Clip!Receive, Clip!FilesArrive, Clip!FilesRefused, Clip!Copy, Clip!LoseSession,
         Clip!Reconnect, Clip!vars
<1>1. PICK m \in Clip!Machines, v \in Contents \cup {None} : Wave(m, v)
  BY <1>0 DEF CalmInv
<1>2. ASSUME NEW x \in Clip!Machines, NEW w \in Clip!Writers, Clip!Write(x, w) PROVE Wave(m, v)'
  BY <1>1, <1>2, WriteWave
<1>3. ASSUME NEW x \in Clip!Machines, Clip!Watch(x) PROVE Wave(m, v)'
  BY <1>1, <1>3, LookWave, CheckWave DEF Clip!Watch
<1>4. ASSUME NEW x \in Clip!Machines, Clip!Receive(x) \/ Clip!FilesArrive(x) PROVE Wave(m, v)'
  BY <1>1, <1>4, SessionWave
<1>5. ASSUME NEW x \in Clip!Machines, NEW c \in Contents, Clip!Copy(x, c) PROVE Wave(x, c)'
  BY <1>1, <1>5, CopyWave
<1>6. ~Clip!LoseSession /\ ~Clip!Reconnect /\ \A x \in Clip!Machines : ~Clip!FilesRefused(x)
  BY <1>1 DEF Clip!LoseSession, Clip!EndSession, Clip!Reconnect, Clip!FilesRefused, Wave
<1>7. CASE UNCHANGED Clip!vars
  <2>1. up' = up /\ \A x \in Clip!Machines : Same(x)
    BY <1>7 DEF Clip!vars, Same
  <2>2. Clip!Other(m) \in Clip!Machines
    BY TwoMachines
  <2>3. Origin(m, v)' /\ Arrives(m, v)'
    BY <1>1, <2>1, <2>2, SameKept DEF Wave, Origin, Arrives, Same
  <2> QED BY <1>1, <2>1, <2>2, <2>3, SameKept DEF Wave
<1> QED BY <1>1, <1>2, <1>3, <1>4, <1>5, <1>6, <1>7 DEF Clip!Next

LEMMA CalmInit == Clip!Init => CalmInv
<1> SUFFICES ASSUME Clip!Init PROVE Wave("server", None)
  BY DEF CalmInv, Clip!Machines
<1>1. ASSUME NEW x \in Clip!Machines
      PROVE  /\ \A w \in Clip!Writers : cpc[x][w] = "idle"
             /\ watch[x] = "tick" /\ board[x].val = None /\ ~changed[x] /\ lastWritten[x] = None
             /\ inbox[x] = <<>> /\ offers[x] = 0
  BY <1>1 DEF Clip!Init, Clip!Blank
<1>2. "server" \in Clip!Machines /\ Clip!Other("server") \in Clip!Machines /\ up
  BY DEF Clip!Machines, Clip!Other, Clip!Init
<1>3. ASSUME NEW x \in Clip!Machines
      PROVE  /\ Carries(x, None) /\ Works(x) /\ Still(x) /\ Target(x, None)
  <2>1. "sink" \in Clip!Writers /\ "files" \in Clip!Writers /\ "user" \in Clip!Writers /\ Clip!Session \subseteq Clip!Writers
    BY DEF Clip!Writers, Clip!Session
  <2>2. ~Due(x)
    BY <1>1, <1>3 DEF Due, Filling
  <2>3. Carries(x, None)
    BY <1>1, <1>3, <2>1 DEF Carries
  <2>4. Works(x)
    BY <1>1, <1>3 DEF Works
  <2>5. Still(x)
    BY <1>1, <1>3, <2>1 DEF Still, Clip!Writing
  <2>6. Target(x, None)
    BY <1>1, <1>3, <2>1, <2>2 DEF Target
  <2> QED BY <2>3, <2>4, <2>5, <2>6
<1>4. Origin("server", None) /\ Arrives("server", None)
  BY <1>1, <1>2, <1>3 DEF Origin, Arrives, Clip!Writers
<1> QED BY <1>2, <1>3, <1>4 DEF Wave

(* At rest both show v. *)
LEMMA CalmAgrees == CalmInv => Clip!ClipboardsAgree
<1> SUFFICES ASSUME CalmInv, calm, Clip!Quiet PROVE board["server"].val = board["client"].val
  BY DEF Clip!ClipboardsAgree
<1>1. PICK m \in Clip!Machines, v \in Contents \cup {None} : Wave(m, v)
  BY DEF CalmInv
<1>2. ASSUME NEW x \in Clip!Machines PROVE ~Due(x) /\ ~Filling(x) /\ inbox[x] = <<>> /\ offers[x] = 0
  BY <1>2 DEF Clip!Quiet, Due, Filling
<1>3. board[m].val = v /\ board[Clip!Other(m)].val = v
  BY <1>1, <1>2, TwoMachines DEF Wave, Arrives
<1> QED BY <1>3 DEF Clip!Machines, Clip!Other

-----------------------------------------------------------------------------
(* The parts together. *)

LEMMA DesktopStart == Secure!Init => DesktopKnown
<1> SUFFICES ASSUME Secure!Init PROVE DesktopKnown
  OBVIOUS
<1>1. unsure = locked /\ older = {} /\ \A c \in Callers : spc[c] = "idle"
  BY DEF Secure!Init
<1>2. \A c \in Callers : spc[c] # "store"
  BY <1>1
<1> QED BY Zenon, <1>1, <1>2 DEF DesktopKnown

DesktopInv ==
    /\ StoreInv
    /\ ClipTyped /\ NoUserMark /\ EchoInv /\ CalmInv
    /\ SecureTyped /\ OnceInv /\ DesktopKnown
    /\ ServiceTyped

(* A step of one part is a step, or no step, of every part. *)
LEMMA DesktopSteps ==
    [DesktopNext]_all =>
        /\ [Next]_vars
        /\ [Clip!Next]_(Clip!vars)
        /\ [Secure!Next]_(Secure!vars)
        /\ [Service!Next]_(Service!vars)
<1>1. clipVars' = clipVars => UNCHANGED Clip!vars
  BY DEF clipVars, Clip!vars
<1>2. secureVars' = secureVars => UNCHANGED Secure!vars
  BY DEF secureVars, Secure!vars, Secure!proxy, Secure!history, Secure!asking
<1>3. serviceVars' = serviceVars => UNCHANGED Service!vars
  BY DEF serviceVars, Service!vars
<1>4. UNCHANGED all => vars' = vars /\ clipVars' = clipVars /\ secureVars' = secureVars /\ serviceVars' = serviceVars
  BY Zenon DEF all
<1> QED BY Zenon, <1>1, <1>2, <1>3, <1>4 DEF DesktopNext, OnSettings, OnClip, OnSecure, OnService

LEMMA DesktopBegins == DesktopInit => DesktopInv
BY InitInv, ClipInit, EchoInit, CalmInit, SecureInit, OnceInit, DesktopStart, ServiceInit DEF DesktopInit, DesktopInv

LEMMA DesktopKeeps == DesktopInv /\ [DesktopNext]_all => DesktopInv'
<1> SUFFICES ASSUME DesktopInv, [DesktopNext]_all PROVE DesktopInv'
  OBVIOUS
<1>1. StoreInv'
  BY DesktopSteps, NextType, NextQuiet DEF DesktopInv, StoreInv
<1>2. ClipTyped' /\ NoUserMark' /\ EchoInv' /\ CalmInv'
  BY DesktopSteps, ClipStep, NoUserMarkStep, EchoStep, CalmStep DEF DesktopInv
<1>3. SecureTyped' /\ OnceInv' /\ DesktopKnown'
  BY DesktopSteps, SecureStep, OnceStep, DesktopStep DEF DesktopInv
<1>4. ServiceTyped'
  BY DesktopSteps, ServiceStep DEF DesktopInv
<1> QED BY <1>1, <1>2, <1>3, <1>4 DEF DesktopInv

(* The inductive invariant of the four parts. *)
THEOREM DesktopInvariant == DesktopSpec => []DesktopInv
BY DesktopBegins, DesktopKeeps, PTL DEF DesktopSpec

(* Type correctness of the four parts, with the capacities of the pipe,    *)
(* the injection queue and the link as bounds of what they hold.           *)
THEOREM DesktopTypeCorrect == DesktopSpec => []DesktopTypeOK
<1>1. DesktopInv => DesktopTypeOK
  BY ClipTypedIsTypeOK, SecureTypedIsTypeOK, ServiceTypedIsTypeOK DEF DesktopInv, DesktopTypeOK, StoreInv
<1> QED BY <1>1, DesktopInvariant, PTL

(* An event is injected a second time only after its caller gave up        *)
(* waiting for it, and none disappears without a full queue, a drain or an *)
(* agent that died, for any number of callers, connections and mishaps.    *)
THEOREM InjectedOnce == DesktopSpec => []ExactlyOnce
<1>1. DesktopInv => ExactlyOnce
  BY OnceInvIsExactlyOnce DEF DesktopInv, ExactlyOnce
<1> QED BY <1>1, DesktopInvariant, PTL

(* The agent injects nothing of an older connection once a frame of a      *)
(* newer one has come.                                                     *)
THEOREM NothingLate == DesktopSpec => NoLateInjection
<1>1. DesktopInv /\ [DesktopNext]_all =>
        [\A ev \in remote' \ remote :
            ~ \E w \in writes \cup {buf[i] : i \in DOMAIN buf} \cup {queue[i] : i \in DOMAIN queue} :
                  w.ev[1] = ev[1] /\ w.ev[2] > ev[2] /\ w.link > Head(queue).link]_(Secure!vars)
  <2> SUFFICES ASSUME DesktopInv, [DesktopNext]_all, ~UNCHANGED Secure!vars, NEW ev \in remote' \ remote,
                      NEW w \in writes \cup {buf[i] : i \in DOMAIN buf} \cup {queue[i] : i \in DOMAIN queue}
               PROVE  ~(w.link > Head(queue).link)
    BY Zenon
  <2>1. Secure!Next /\ SecureTyped
    BY DesktopSteps DEF DesktopInv
  <2>2. remote' # remote
    OBVIOUS
  <2> QED BY Zenon, <2>1, <2>2, LastConnection
<1> QED BY <1>1, DesktopInvariant, PTL DEF DesktopSpec, NoLateInjection, Secure!NoLateInjection

(* On the secure desktop a caller bypasses the agent only with an answer   *)
(* from before the machine was locked, or with the cache as long as no     *)
(* later answer has been stored without an older one to come, for any      *)
(* number of callers whose checks, stamps, queries and stores interleave.  *)
THEOREM RoutedRight == DesktopSpec => RightDesktop
<1>1. DesktopInv /\ [DesktopNext]_all =>
        [\A c \in Callers : locked /\ spc'[c] = "inject" =>
            /\ spc[c] = "store" => c \in older
            /\ spc[c] = "cached" => unsure]_(Secure!vars)
  <2> SUFFICES ASSUME DesktopInv, [DesktopNext]_all, ~UNCHANGED Secure!vars, NEW c \in Callers,
                      locked, spc'[c] = "inject"
               PROVE  /\ spc[c] = "store" => c \in older
                      /\ spc[c] = "cached" => unsure
    BY Zenon
  <2>1. Secure!Next /\ SecureTyped /\ DesktopKnown
    BY DesktopSteps DEF DesktopInv
  <2> QED BY <2>1, RoutesRight
<1> QED BY <1>1, DesktopInvariant, PTL DEF DesktopSpec, RightDesktop, Secure!RightDesktop

(* Users who copy one after the other, when nothing is on the way, end up  *)
(* with the same content on both machines, for any contents, any capacity  *)
(* of the link and any number of copies.                                   *)
THEOREM ClipboardsEndEqual == DesktopSpec => []ClipboardsAgree
<1>1. DesktopInv => ClipboardsAgree
  BY CalmAgrees DEF DesktopInv, ClipboardsAgree
<1> QED BY <1>1, DesktopInvariant, PTL

(* What the session put on a clipboard is sent back only if the watcher's  *)
(* round, or a second write, overlapped the write, or if it is the text    *)
(* without characters.                                                     *)
THEOREM EchoOnlyAfterRace == DesktopSpec => EchoNeedsRace
<1>1. DesktopInv =>
        [\A m \in Clip!Machines :
            (Clip!Check(m) /\ seen[m].by \in Clip!Session /\ inbox'[Clip!Other(m)] # inbox[Clip!Other(m)])
                => (raced[m] \/ seen[m].val = EmptyText)]_(Clip!vars)
  BY SendsOther DEF DesktopInv
<1> QED BY <1>1, DesktopInvariant, PTL DEF EchoNeedsRace, Clip!EchoNeedsRace
=============================================================================
