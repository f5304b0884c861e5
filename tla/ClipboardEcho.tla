---------------------------- MODULE ClipboardEcho ----------------------------
(***************************************************************************)
(* The clipboard bridge (platform/clipboard and the clipboard half of      *)
(* platform/adapter): the clipboards of a server and of one client, the    *)
(* watcher that polls each of them, and the two goroutines that write what *)
(* the session brings, the receive loop (texts) and the file manager       *)
(* (files that have arrived).  A write happens in steps, as the operating  *)
(* system sees it: another program, the watcher and the other writer come  *)
(* in between.                                                             *)
(*                                                                         *)
(* The change counter of a clipboard is compared with the watcher's last   *)
(* sample and nothing else, so the model keeps whether the two differ.     *)
(***************************************************************************)
EXTENDS Naturals, Sequences

CONSTANTS
    Contents,   \* what can be copied
    FileList,   \* the contents that name files: the session carries an offer of them
    EmptyText,  \* the text without characters
    None,       \* nothing the program supports, and no marker
    LinkCap,    \* messages a connection holds before its sender has to wait
    MaxCopies,  \* bound: copies made by the users
    MaxTrouble  \* bound: copies begun in the middle of something, rounds of a watcher that
                \* overlap a write of the session, and lost sessions, together

ContentsAssumption ==
    /\ FileList \in Contents /\ EmptyText \in Contents /\ FileList # EmptyText
    /\ None \notin Contents \cup {"sink", "files", "user"}
    /\ LinkCap \in Nat \ {0} /\ {MaxCopies, MaxTrouble} \subseteq Nat

VARIABLES
    system,       \* operating system of each machine
    board,        \* content of each clipboard, and who put it there
    holder,       \* the writer that has emptied the clipboard and not finished, or None
    changed,      \* the change counter is not what the watcher sampled last
    lastWritten,  \* marker of each Clipper
    pc,           \* progress of each writer of each machine
    arg,          \* what it writes
    watch, seen,  \* progress of each watcher, and what it has read
    inbox,        \* clipboard messages on the way to each machine
    offers,       \* file offers each machine's file manager has not settled
    up,           \* the session exists
    raced,        \* history: a watcher's round overlapped the session's last write
    calm,         \* history: nothing was lost and no copy overlapped anything else
    copies, trouble

vars == <<system, board, holder, changed, lastWritten, pc, arg, watch, seen, inbox, offers,
          up, raced, calm, copies, trouble>>

Machines == {"server", "client"}
Session  == {"sink", "files"}           \* goroutines that call Clipper.Write
Writers  == Session \cup {"user"}       \* and any other program
Other(m) == IF m = "server" THEN "client" ELSE "server"

Board == [val : Contents \cup {None}, by : Writers \cup {None}]
Blank == [val |-> None, by |-> None]

TypeOK ==
    /\ system \in [Machines -> {"windows", "darwin"}]
    /\ board \in [Machines -> Board]
    /\ holder \in [Machines -> Writers \cup {None}]
    /\ changed \in [Machines -> BOOLEAN]
    /\ lastWritten \in [Machines -> (Contents \ {EmptyText}) \cup {None}]
    /\ pc \in [Machines -> [Writers -> {"idle", "fill", "close", "mark"}]]
    /\ arg \in [Machines -> [Writers -> Contents \cup {None}]]
    /\ watch \in [Machines -> {"off", "tick", "read", "check"}]
    /\ seen \in [Machines -> Board]
    /\ \A m \in Machines : inbox[m] \in Seq(Contents) /\ Len(inbox[m]) <= LinkCap
    /\ offers \in [Machines -> Nat]
    /\ up \in BOOLEAN /\ raced \in [Machines -> BOOLEAN] /\ calm \in BOOLEAN
    /\ copies \in 0..MaxCopies /\ trouble \in 0..MaxTrouble

Init ==
    /\ system \in [Machines -> {"windows", "darwin"}]
    /\ board = [m \in Machines |-> Blank]
    /\ holder = [m \in Machines |-> None]
    /\ changed = [m \in Machines |-> FALSE]
    /\ lastWritten = [m \in Machines |-> None]
    /\ pc = [m \in Machines |-> [w \in Writers |-> "idle"]]
    /\ arg = [m \in Machines |-> [w \in Writers |-> None]]
    /\ watch = [m \in Machines |-> "tick"]
    /\ seen = [m \in Machines |-> Blank]
    /\ inbox = [m \in Machines |-> <<>>]
    /\ offers = [m \in Machines |-> 0]
    /\ up = TRUE
    /\ raced = [m \in Machines |-> FALSE]
    /\ calm = TRUE
    /\ copies = 0 /\ trouble = 0

-----------------------------------------------------------------------------

Writing(m) == \E w \in Session : pc[m][w] # "idle"

(* Nothing is on its way, being written or waiting for the watcher. *)
Quiet ==
    \A m \in Machines :
        /\ \A w \in Writers : pc[m][w] = "idle"
        /\ ~changed[m] /\ watch[m] = "tick"
        /\ inbox[m] = <<>> /\ offers[m] = 0

Goto(m, w, l) ==
    /\ pc' = [pc EXCEPT ![m][w] = l]
    /\ arg' = IF l = "idle" THEN [arg EXCEPT ![m][w] = None] ELSE arg

Troubled(now) ==
    /\ trouble' = IF now THEN trouble + 1 ELSE trouble
    /\ trouble' <= MaxTrouble

(* The last write of the session on m has, or has not, met a round of the  *)
(* watcher or another write.                                               *)
Overlap(m, now) ==
    /\ raced' = [raced EXCEPT ![m] = now]
    /\ Troubled(now /\ ~raced[m])

(* The session is over: what is on its way is lost, the client's node      *)
(* stops its watcher and both file managers drop their offers.             *)
EndSession ==
    /\ up' = FALSE /\ calm' = FALSE
    /\ inbox' = [m \in Machines |-> <<>>]
    /\ offers' = [m \in Machines |-> 0]
    /\ watch' = [watch EXCEPT !["client"] = "off"]

(* platformWrite returns an error.  The sink passes it on, which ends the  *)
(* session; the file manager gives up the transfer.                        *)
Fail(m, w) ==
    /\ Goto(m, w, "idle")
    /\ IF w = "sink" /\ up
         THEN EndSession
         ELSE calm' = FALSE /\ UNCHANGED <<up, inbox, offers, watch>>

-----------------------------------------------------------------------------
(* Writing, step by step. *)

(* OpenClipboard and EmptyClipboard, or clearContents.  On Windows the     *)
(* clipboard has one user at a time, and the code does not wait for it.    *)
Free(m) == system[m] = "darwin" \/ holder[m] = None

(* Whether a writer of the session gets the clipboard; the watcher that    *)
(* reads it just then has it open as well.                                 *)
Opens(m) ==
    IF ~Free(m) THEN {FALSE}
    ELSE IF system[m] = "windows" /\ watch[m] = "read" THEN BOOLEAN
    ELSE {TRUE}

Take(m, w, v) ==
    /\ Free(m)
    /\ board' = [board EXCEPT ![m] = Blank]
    /\ holder' = [holder EXCEPT ![m] = w]
    /\ changed' = [changed EXCEPT ![m] = TRUE]
    /\ pc' = [pc EXCEPT ![m][w] = "fill"]
    /\ arg' = [arg EXCEPT ![m][w] = v]

(* Clipper.Write begins; what came with the call is in arg. *)
BeginWrite(m, w, v, opened) ==
    IF opened
      THEN /\ Take(m, w, v)
           /\ Overlap(m, watch[m] # "tick" \/ \E o \in Session \ {w} : pc[m][o] # "idle")
      ELSE UNCHANGED <<board, holder, changed, pc, arg, raced, trouble>>

(* SetClipboardData, which counts as a change of its own, or setString and *)
(* writeObjects, which do not and fail for who is not the last to have     *)
(* cleared the pasteboard.                                                 *)
Fill(m, w) ==
    /\ pc[m][w] = "fill"
    /\ IF holder[m] # w
         THEN Fail(m, w) /\ UNCHANGED <<board, holder, changed>>
         ELSE /\ board' = [board EXCEPT ![m] = [val |-> arg[m][w], by |-> w]]
              /\ IF system[m] = "windows"
                   THEN /\ changed' = [changed EXCEPT ![m] = TRUE]
                        /\ Goto(m, w, "close")
                        /\ UNCHANGED holder
                   ELSE /\ holder' = [holder EXCEPT ![m] = None]
                        /\ Goto(m, w, IF w = "user" THEN "idle" ELSE "mark")
                        /\ UNCHANGED changed
              /\ UNCHANGED <<up, calm, inbox, offers, watch>>
    /\ UNCHANGED <<system, lastWritten, seen, raced, copies, trouble>>

(* CloseClipboard *)
Close(m, w) ==
    /\ pc[m][w] = "close"
    /\ holder' = [holder EXCEPT ![m] = None]
    /\ Goto(m, w, IF w = "user" THEN "idle" ELSE "mark")
    /\ UNCHANGED <<system, board, changed, lastWritten, watch, seen, inbox, offers, up, raced,
                   calm, copies, trouble>>

Marker_Forgets(v) == None

(* The bytes Write remembers: a copy of an empty slice is nil. *)
Marker(v) == IF v = EmptyText THEN None ELSE v

(* Write remembers what it wrote. *)
Mark(m, w) ==
    /\ pc[m][w] = "mark"
    /\ lastWritten' = [lastWritten EXCEPT ![m] = Marker(arg[m][w])]
    /\ Goto(m, w, "idle")
    /\ UNCHANGED <<system, board, holder, changed, watch, seen, inbox, offers, up, raced, calm,
                   copies, trouble>>

-----------------------------------------------------------------------------
(* Watch. *)

(* A tick that finds another sequence number. *)
Sample(m) ==
    /\ watch[m] = "tick" /\ changed[m]
    /\ changed' = [changed EXCEPT ![m] = FALSE]
    /\ watch' = [watch EXCEPT ![m] = "read"]
    /\ Overlap(m, raced[m] \/ Writing(m))
    /\ UNCHANGED <<system, board, holder, lastWritten, pc, arg, seen, inbox, offers, up, calm,
                   copies>>

(* platformRead finds nothing while a writer holds the clipboard.  When no *)
(* change of the counter is to come, what is written is never looked at.   *)
Read(m) ==
    /\ watch[m] = "read"
    /\ Overlap(m, raced[m] \/ Writing(m))
    /\ IF holder[m] # None \/ board[m].val = None
         THEN /\ watch' = [watch EXCEPT ![m] = "tick"]
              /\ calm' = (calm /\ (changed[m] \/ (system[m] = "windows"
                            /\ \E w \in Writers : holder[m] = w /\ pc[m][w] = "fill")))
              /\ UNCHANGED seen
         ELSE /\ watch' = [watch EXCEPT ![m] = "check"]
              /\ seen' = [seen EXCEPT ![m] = board[m]]
              /\ UNCHANGED calm
    /\ UNCHANGED <<system, board, holder, changed, lastWritten, pc, arg, inbox, offers, up,
                   copies>>

Own(m) == lastWritten[m] # None /\ lastWritten[m] = seen[m].val

Consumed_KeepsMarker(m) == lastWritten[m]

(* The marker that a content of our own uses up. *)
Consumed(m) == IF Own(m) THEN None ELSE lastWritten[m]

(* What is not our own goes to the other side; without a session, nowhere. *)
Check(m) ==
    /\ watch[m] = "check"
    /\ Own(m) \/ Len(inbox[Other(m)]) < LinkCap
    /\ lastWritten' = [lastWritten EXCEPT ![m] = Consumed(m)]
    /\ inbox' = IF Own(m) \/ ~up THEN inbox
                ELSE [inbox EXCEPT ![Other(m)] = Append(@, seen[m].val)]
    /\ seen' = [seen EXCEPT ![m] = Blank]
    /\ watch' = [watch EXCEPT ![m] = "tick"]
    /\ calm' = (calm /\ ~raced[m])
    /\ UNCHANGED <<system, board, holder, changed, pc, arg, offers, up, raced, copies,
                   trouble>>

-----------------------------------------------------------------------------
(* The session and the users. *)

(* sink: a text is written, a list of files is an offer. *)
Receive(m) ==
    /\ inbox[m] # <<>> /\ pc[m]["sink"] = "idle"
    /\ \E v \in {Head(inbox[m])}, opened \in Opens(m) :
       IF v = FileList
         THEN /\ offers' = [offers EXCEPT ![m] = @ + 1]
              /\ inbox' = [inbox EXCEPT ![m] = Tail(@)]
              /\ UNCHANGED <<board, holder, changed, pc, arg, raced, trouble, watch, up, calm>>
         ELSE /\ BeginWrite(m, "sink", v, opened)
              /\ IF opened
                   THEN inbox' = [inbox EXCEPT ![m] = Tail(@)] /\ UNCHANGED <<offers, watch, up, calm>>
                   ELSE EndSession
    /\ UNCHANGED <<system, lastWritten, seen, copies>>

(* The last file of an offer has arrived: WriteFiles. *)
FilesArrive(m) ==
    /\ offers[m] > 0 /\ pc[m]["files"] = "idle"
    /\ offers' = [offers EXCEPT ![m] = @ - 1]
    /\ \E opened \in Opens(m) :
          BeginWrite(m, "files", FileList, opened) /\ calm' = (calm /\ opened)
    /\ UNCHANGED <<system, lastWritten, watch, seen, inbox, up, copies>>

(* The offer is rejected, or its transfer fails. *)
FilesRefused(m) ==
    /\ offers[m] > 0
    /\ offers' = [offers EXCEPT ![m] = @ - 1]
    /\ calm' = FALSE
    /\ UNCHANGED <<system, board, holder, changed, lastWritten, pc, arg, watch, seen, inbox, up,
                   raced, copies, trouble>>

(* A user, or another program, starts to copy. *)
Copy(m, v) ==
    /\ pc[m]["user"] = "idle"
    /\ copies < MaxCopies
    /\ copies' = copies + 1
    /\ Take(m, "user", v)
    /\ calm' = (calm /\ Quiet)
    /\ Troubled(~Quiet)
    /\ UNCHANGED <<system, lastWritten, watch, seen, inbox, offers, up, raced>>

(* The network fails, or somebody stops a node. *)
LoseSession ==
    /\ up /\ Troubled(TRUE)
    /\ EndSession
    /\ UNCHANGED <<system, board, holder, changed, lastWritten, pc, arg, seen, raced, copies>>

(* RunClient again, with a new Clipper: no marker, and what is on the      *)
(* clipboard by now counts as known.                                       *)
Reconnect ==
    /\ ~up /\ ~Writing("client")
    /\ up' = TRUE
    /\ lastWritten' = [lastWritten EXCEPT !["client"] = None]
    /\ changed' = [changed EXCEPT !["client"] = FALSE]
    /\ watch' = [watch EXCEPT !["client"] = "tick"]
    /\ raced' = [raced EXCEPT !["client"] = FALSE]
    /\ UNCHANGED <<system, board, holder, pc, arg, seen, inbox, offers, calm, copies,
                   trouble>>

Write(m, w) == Fill(m, w) \/ Close(m, w) \/ Mark(m, w)
Watch(m)    == Sample(m) \/ Read(m) \/ Check(m)

Next ==
    \/ \E m \in Machines, w \in Writers : Write(m, w)
    \/ \E m \in Machines : Watch(m) \/ Receive(m) \/ FilesArrive(m) \/ FilesRefused(m)
    \/ \E m \in Machines, v \in Contents : Copy(m, v)
    \/ LoseSession \/ Reconnect

Spec == Init /\ [][Next]_vars

-----------------------------------------------------------------------------

(* What the session put on a clipboard goes back into the session only     *)
(* when the watcher's round overlapped that write, or a second write of    *)
(* the session did.  The comment at clipboard.go:4-6 promises it without a *)
(* condition; an empty text, whose marker is nil, is the other exception.  *)
EchoNeedsRace ==
    [][\A m \in Machines :
        (Check(m) /\ seen[m].by \in Session /\ inbox'[Other(m)] # inbox[Other(m)])
            => (raced[m] \/ seen[m].val = EmptyText)]_vars

(* Users who copy one after the other, each when the machines are at rest  *)
(* and none in the moment the watcher looks, find the same content on both *)
(* machines: no marker left behind by an earlier copy hides a later one.   *)
ClipboardsAgree ==
    (calm /\ Quiet) => board["server"].val = board["client"].val
=============================================================================
