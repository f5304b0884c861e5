---------------------------- MODULE SettingsStore ----------------------------
(***************************************************************************)
(* The settings (platform/config) and the requests of the control panel    *)
(* that change them: in memory without a lock, then to disk through one    *)
(* temporary file that is renamed.  A file is an inode, which a writer has *)
(* opened by name and keeps whatever its name becomes.  The program may    *)
(* crash between any two steps; the file system does not.                  *)
(***************************************************************************)
EXTENDS Naturals

CONSTANTS
    Requests,   \* requests to the panel; each sets the settings to its own values
    Fields,     \* the fields every request sets
    Default,    \* the value of a field without a file, and at the first start
    Torn,       \* a file that holds no complete settings
    Inodes,     \* what the file system has for files, numbered
    MaxCrashes  \* bound

ASSUME SettingsAssumption ==
    /\ Default \notin Requests /\ Inodes \subseteq Nat \ {0}
    /\ Torn \notin [Fields -> Requests \cup {Default}]
    /\ MaxCrashes \in Nat

VARIABLES
    mem,      \* Settings of the running program
    pc,       \* progress of each request
    todo,     \* fields it has not set yet
    body,     \* what it has marshalled
    fd,       \* the inode it writes to
    inode,    \* content of each inode
    tmp,      \* inode named settings.json.tmp, 0 for none
    file,     \* inode named settings.json, 0 for none
    overlap,  \* history: two requests were at it at once
    partial,  \* history: a request stopped before its save
    saved,    \* history: what a request was told is saved
    crashes

vars == <<mem, pc, todo, body, fd, inode, tmp, file, overlap, partial, saved, crashes>>

Settings == [Fields -> Requests \cup {Default}]
Fresh    == [f \in Fields |-> Default]

TypeOK ==
    /\ mem \in Settings
    /\ pc \in [Requests -> {"new", "set", "marshal", "open", "write", "rename", "end"}]
    /\ todo \in [Requests -> SUBSET Fields]
    /\ body \in [Requests -> Settings]
    /\ fd \in [Requests -> Inodes \cup {0}]
    /\ inode \in [Inodes -> Settings \cup {Torn}]
    /\ {tmp, file} \subseteq Inodes \cup {0}
    /\ {overlap, partial} \subseteq BOOLEAN
    /\ saved \in Settings
    /\ crashes \in 0..MaxCrashes

Init ==
    /\ mem = Fresh
    /\ pc = [r \in Requests |-> "new"]
    /\ todo = [r \in Requests |-> Fields]
    /\ body = [r \in Requests |-> Fresh]
    /\ fd = [r \in Requests |-> 0]
    /\ inode = [i \in Inodes |-> Torn]
    /\ tmp = 0 /\ file = 0
    /\ overlap = FALSE /\ partial = FALSE
    /\ saved = Fresh
    /\ crashes = 0

-----------------------------------------------------------------------------

Goto(r, l) == pc' = [pc EXCEPT ![r] = l]
Busy(r)    == pc[r] \notin {"new", "end"}

(* What Load makes of the file. *)
OnDisk == IF file = 0 \/ inode[file] = Torn THEN Fresh ELSE inode[file]

(* UpdateSettings with valid values, or persist after a node has started.  *)
Begin(r) ==
    /\ pc[r] = "new"
    /\ Goto(r, "set")
    /\ overlap' = (overlap \/ \E q \in Requests : Busy(q))
    /\ UNCHANGED <<mem, todo, body, fd, inode, tmp, file, partial, saved, crashes>>

SetField(r, f) ==
    /\ pc[r] = "set" /\ f \in todo[r]
    /\ mem' = [mem EXCEPT ![f] = r]
    /\ todo' = [todo EXCEPT ![r] = @ \ {f}]
    /\ IF todo[r] = {f} THEN Goto(r, "marshal") ELSE UNCHANGED pc
    /\ UNCHANGED <<body, fd, inode, tmp, file, overlap, partial, saved, crashes>>

(* The login item cannot be changed: UpdateSettings returns without saving *)
(* what it has set.                                                        *)
AutoStartFails(r) ==
    /\ pc[r] = "marshal"
    /\ Goto(r, "end")
    /\ partial' = TRUE
    /\ UNCHANGED <<mem, todo, body, fd, inode, tmp, file, overlap, saved, crashes>>

(* Save: MarshalIndent. *)
Marshal(r) ==
    /\ pc[r] = "marshal"
    /\ body' = [body EXCEPT ![r] = mem]
    /\ Goto(r, "open")
    /\ UNCHANGED <<mem, todo, fd, inode, tmp, file, overlap, partial, saved, crashes>>

(* WriteFile opens the file of a name, makes it if it is not there, and    *)
(* truncates it.                                                           *)
Opened(name) ==
    IF name # 0 THEN {name}
    ELSE {i \in Inodes : i \notin {tmp, file} /\ \A q \in Requests : fd[q] # i}

OpenTmp_InPlace(r) ==
    /\ pc[r] = "open"
    /\ \E i \in Opened(file) :
         file' = i /\ fd' = [fd EXCEPT ![r] = i] /\ inode' = [inode EXCEPT ![i] = Torn]
    /\ Goto(r, "write")
    /\ UNCHANGED <<mem, todo, body, tmp, overlap, partial, saved, crashes>>

OpenTmp(r) ==
    /\ pc[r] = "open"
    /\ \E i \in Opened(tmp) :
         tmp' = i /\ fd' = [fd EXCEPT ![r] = i] /\ inode' = [inode EXCEPT ![i] = Torn]
    /\ Goto(r, "write")
    /\ UNCHANGED <<mem, todo, body, file, overlap, partial, saved, crashes>>

(* WriteFile writes and closes; a full disk leaves less than the whole. *)
WriteTmp(r) ==
    /\ pc[r] = "write"
    /\ fd' = [fd EXCEPT ![r] = 0]
    /\ \/ inode' = [inode EXCEPT ![fd[r]] = body[r]] /\ Goto(r, "rename") /\ UNCHANGED partial
       \/ Goto(r, "end") /\ partial' = TRUE /\ UNCHANGED inode
    /\ UNCHANGED <<mem, todo, body, tmp, file, overlap, saved, crashes>>

(* Rename takes whatever has the temporary name; without one it fails. *)
Rename(r) ==
    /\ pc[r] = "rename"
    /\ Goto(r, "end")
    /\ IF tmp = 0
         THEN partial' = TRUE /\ UNCHANGED <<tmp, file, saved>>
         ELSE file' = tmp /\ tmp' = 0 /\ saved' = body[r] /\ UNCHANGED partial
    /\ UNCHANGED <<mem, todo, body, fd, inode, overlap, crashes>>

(* The program ends anywhere and is started again: runPanel loads.  The    *)
(* requests under way are answered with nothing.                           *)
Crash ==
    /\ crashes < MaxCrashes
    /\ crashes' = crashes + 1
    /\ mem' = OnDisk
    /\ pc' = [r \in Requests |-> IF Busy(r) THEN "end" ELSE pc[r]]
    /\ fd' = [r \in Requests |-> 0]
    /\ partial' = FALSE
    /\ UNCHANGED <<todo, body, inode, tmp, file, overlap, saved>>

Next ==
    \/ \E r \in Requests :
          \/ Begin(r) \/ AutoStartFails(r) \/ Marshal(r) \/ OpenTmp(r) \/ WriteTmp(r) \/ Rename(r)
          \/ \E f \in Fields : SetField(r, f)
    \/ Crash

Spec == Init /\ [][Next]_vars

-----------------------------------------------------------------------------

(* As long as no two requests overlap, what a request was told is saved is *)
(* what a crash at any moment leaves to the next start ("Save writes       *)
(* settings atomically", config.go:103), and between requests the program   *)
(* shows what is on disk unless one of them has failed half-way.           *)
SettingsSurvive ==
    ~overlap =>
        /\ OnDisk = saved
        /\ (~partial /\ \A r \in Requests : ~Busy(r)) => mem = saved
=============================================================================
