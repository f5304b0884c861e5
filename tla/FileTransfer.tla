---------------------------- MODULE FileTransfer ----------------------------
(***************************************************************************)
(* One file transfer of platform/filexfer between the Manager that offers  *)
(* copied files ("out") and the Manager that receives them ("in").         *)
(*                                                                         *)
(* Threads: on the offering node the session read goroutine (AcceptMsg,    *)
(* CancelMsg, DoneMsg) and the goroutine that streams the files; on the    *)
(* receiving node the read goroutine (TakeOffer, TakeChunk, TakeCancel),   *)
(* the write loop and the panel's accept/decline request.  Both managers   *)
(* outlive their nodes, which the user stops and starts; when a client's   *)
(* connection ends, its receive goroutine detaches the manager, late       *)
(* perhaps, when a new node has attached it again.                         *)
(*                                                                         *)
(* Data is counted in chunks: a block is known by its offset in its file.  *)
(* A file's content may have changed size between the offer, which states  *)
(* the size, and the reading.                                              *)
(***************************************************************************)
EXTENDS Integers, Sequences

CONSTANTS
    Declared,       \* the size of each file when it was offered
    Actual,         \* the sizes the files may have when they are read
    Autos,          \* whether the offer is below the auto-accept limit
    Roles,          \* which nodes may be the session clients, as sets
    NetCap,         \* what the network buffers of one direction hold
    RecvCap,        \* capacity of recvCh (256 in the code)
    MaxSessions,    \* bound: connections established in all
    MaxFaults       \* bound: failing file or clipboard operations

Nodes == {"out", "in"}
N     == Len(Declared)
Files == 1 .. N

ASSUME FilesAssumption ==
    /\ Declared \in Seq(Nat)
    /\ Actual \subseteq [Files -> Nat]
ASSUME NodesAssumption  == Autos \subseteq BOOLEAN /\ Roles \subseteq SUBSET Nodes
ASSUME BoundsAssumption ==
    /\ NetCap \in Nat \ {0} /\ RecvCap \in Nat \ {0}
    /\ MaxSessions \in Nat \ {0} /\ MaxFaults \in Nat

VARIABLES
    clients,        \* the nodes that are session clients
    running,        \* "no", "yes", "lost" (a client without its connection), "crashed"
    attached,       \* the nodes whose manager can send (send # nil)
    stale,          \* clients whose receive goroutine has yet to detach
    link, sessions, \* the connection between the nodes
    toIn, toOut,    \* messages in flight
    actual,         \* the sizes the files have when they are read
    offered,        \* the transfer in Manager.out: "no", "yes", "gone"
    peer,           \* outPeer: state and whether cancel is closed
    strm,           \* the streaming goroutine
    known,          \* the transfer is in Manager.in
    tr,             \* inTransfer
    ui,             \* whether Respond has looked the transfer up
    recvCh,         \* chunks waiting for the write loop
    disk,           \* offsets of the blocks in each staged file
    clip,           \* the clipboard points at the staged files
    faults          \* failed operations so far

nodes  == <<clients, running, attached, stale, link, sessions>>
sender == <<offered, peer, strm>>
recver == <<known, tr, ui, recvCh, disk, clip>>
vars   == <<nodes, toIn, toOut, actual, sender, recver, faults>>

NoPeer == [state |-> "none", cancel |-> FALSE]
NoTr   == [state |-> "none", idx |-> 1, off |-> 0, open |-> FALSE]
Cancel(why)     == [type |-> "cancel", why |-> why]
Chunk(idx, off) == [type |-> "chunk", idx |-> idx, off |-> off]
Fin             == [type |-> "fin"]

Init ==
    /\ clients \in Roles
    /\ running = [n \in Nodes |-> "yes"] /\ attached = Nodes /\ stale = {}
    /\ link = TRUE /\ sessions = 1
    /\ toIn = << >> /\ toOut = << >>
    /\ actual \in Actual
    /\ offered = "no" /\ peer = NoPeer
    /\ strm = [pc |-> "none", idx |-> 1, off |-> 0]
    /\ known = FALSE /\ tr = NoTr /\ ui = "idle" /\ recvCh = << >>
    /\ disk = [i \in Files |-> << >>] /\ clip = FALSE
    /\ faults = 0

-----------------------------------------------------------------------------
(* emit.  Without a running node it fails at once.  On a connection that   *)
(* has ended it fails or, unnoticed, loses the message.  Otherwise it      *)
(* waits for room in the network buffers.                                  *)
CanEmit(n) == n \in attached

(* The offering process executes nothing after a panic. *)
Alive == running["out"] # "crashed"

EmitIn(m) ==
    /\ CanEmit("out")
    /\ IF link THEN Len(toIn) < NetCap /\ toIn' = Append(toIn, m) ELSE UNCHANGED toIn

EmitInFails == (~CanEmit("out") \/ ~link) /\ UNCHANGED toIn

(* The receiver sends at most two messages, too few to fill a buffer; it   *)
(* ignores whether they could be sent.                                     *)
EmitOut(m) == toOut' = IF CanEmit("in") /\ link THEN Append(toOut, m) ELSE toOut

Fault == faults < MaxFaults /\ faults' = faults + 1

-----------------------------------------------------------------------------
(* The offering manager. *)

(* PrepareOutbound registers the sources and the offer is broadcast.  A    *)
(* transfer id is fresh, so the same offer never goes out again.           *)
Offer ==
    /\ Alive /\ offered = "no" /\ CanEmit("out")
    /\ offered' = "yes"
    /\ EmitIn([type |-> "offer"])
    /\ UNCHANGED <<nodes, toOut, actual, peer, strm, recver, faults>>

NextOut(type) == Alive /\ link /\ toOut # << >> /\ Head(toOut).type = type /\ toOut' = Tail(toOut)

(* onAccept: the first accept of a known offer starts the stream, an       *)
(* unknown one is answered with a cancel.                                  *)
AcceptMsg ==
    /\ NextOut("accept")
    /\ IF offered = "yes"
       THEN /\ peer' = IF peer = NoPeer THEN [state |-> "sending", cancel |-> FALSE] ELSE peer
            /\ strm' = IF strm.pc = "none" THEN [strm EXCEPT !.pc = "file"] ELSE strm
            /\ UNCHANGED toIn
       ELSE (EmitIn(Cancel("unknown transfer")) \/ EmitInFails) /\ UNCHANGED <<peer, strm>>
    /\ UNCHANGED <<nodes, actual, offered, recver, faults>>

(* onCanceled, outbound half. *)
CancelMsg ==
    /\ NextOut("cancel")
    /\ peer' = IF offered # "yes" THEN peer
               ELSE IF peer = NoPeer
               THEN [state |-> IF Head(toOut).why = "declined" THEN "declined" ELSE "canceled",
                     cancel |-> FALSE]
               ELSE [state |-> IF peer.state = "sending" THEN "canceled" ELSE peer.state,
                     cancel |-> TRUE]
    /\ UNCHANGED <<nodes, toIn, actual, offered, strm, recver, faults>>

(* markOutPeer: whatever the state was, unless the transfer was cleared.   *)
MarkPeer(state) ==
    peer' = IF offered = "yes" /\ peer # NoPeer THEN [peer EXCEPT !.state = state] ELSE peer

DoneMsg ==
    /\ NextOut("done")
    /\ MarkPeer("done")
    /\ UNCHANGED <<nodes, toIn, actual, offered, strm, recver, faults>>

(* stream *)
StreamAt(pc) == Alive /\ strm.pc = pc
StreamTo(pc) == strm' = [strm EXCEPT !.pc = pc]
StreamQuits  == MarkPeer("canceled") /\ StreamTo("end")
StreamFails  == MarkPeer("failed") /\ StreamTo("tell")
StreamRest   == UNCHANGED <<nodes, toOut, actual, offered, recver>>

(* The next file is opened, or the last one has been sent. *)
StreamFile ==
    /\ StreamAt("file")
    /\ \/ strm.idx > N /\ StreamTo("fin") /\ UNCHANGED <<peer, faults>>
       \/ strm.idx <= N /\ peer.cancel /\ StreamQuits /\ UNCHANGED faults
       \/ strm.idx <= N /\ ~peer.cancel /\ StreamTo("read") /\ UNCHANGED <<peer, faults>>
       \/ strm.idx <= N /\ ~peer.cancel /\ Fault /\ StreamFails
    /\ UNCHANGED toIn /\ StreamRest

AtEOF == strm.off = actual[strm.idx]

StreamRead ==
    /\ StreamAt("read")
    /\ \/ AtEOF /\ strm' = [pc |-> "file", idx |-> strm.idx + 1, off |-> 0]
          /\ UNCHANGED <<peer, faults>>
       \/ ~AtEOF /\ peer.cancel /\ StreamQuits /\ UNCHANGED faults
       \/ ~AtEOF /\ ~peer.cancel /\ StreamTo("send") /\ UNCHANGED <<peer, faults>>
       \/ Fault /\ StreamFails
    /\ UNCHANGED toIn /\ StreamRest

StreamSend ==
    /\ StreamAt("send")
    /\ \/ /\ EmitIn(Chunk(strm.idx, strm.off))
          /\ strm' = [strm EXCEPT !.pc = "read", !.off = @ + 1]
          /\ UNCHANGED peer
       \/ EmitInFails /\ StreamFails
    /\ UNCHANGED faults /\ StreamRest

(* Mutant: success is reported as soon as everything has been sent. *)
StreamFin_MarksDone ==
    /\ StreamAt("fin")
    /\ \/ EmitIn(Fin) /\ MarkPeer("done") /\ StreamTo("end")
       \/ EmitInFails /\ StreamFails
    /\ UNCHANGED faults /\ StreamRest

StreamFin ==
    /\ StreamAt("fin")
    /\ \/ EmitIn(Fin) /\ StreamTo("end") /\ UNCHANGED peer
       \/ EmitInFails /\ StreamFails
    /\ UNCHANGED faults /\ StreamRest

(* Mutant: the receiver is not told. *)
StreamTell_Silent ==
    /\ StreamAt("tell") /\ StreamTo("end")
    /\ UNCHANGED <<peer, faults, toIn>> /\ StreamRest

(* The receiver is told that the stream failed. *)
StreamTell ==
    /\ StreamAt("tell")
    /\ EmitIn(Cancel("send failed")) \/ EmitInFails
    /\ StreamTo("end")
    /\ UNCHANGED <<peer, faults>> /\ StreamRest

Stream == StreamFile \/ StreamRead \/ StreamSend \/ StreamFin \/ StreamTell
ReadOut == AcceptMsg \/ CancelMsg \/ DoneMsg
-----------------------------------------------------------------------------
(* The receiving manager. *)

NextIn(types) == link /\ toIn # << >> /\ Head(toIn).type \in types /\ toIn' = Tail(toIn)

(* HandleOffer: a small transfer starts by itself, a large one waits for   *)
(* the user.                                                               *)
TakeOffer ==
    /\ NextIn({"offer"})
    /\ known' = TRUE
    /\ \/ TRUE \in Autos /\ tr' = [NoTr EXCEPT !.state = "receiving"]
          /\ EmitOut([type |-> "accept"])
       \/ FALSE \in Autos /\ tr' = [NoTr EXCEPT !.state = "pending"] /\ UNCHANGED toOut
    /\ UNCHANGED <<nodes, actual, sender, ui, recvCh, disk, clip, faults>>

(* Mutant: the queue has no limit. *)
TakeChunk_Unbounded ==
    /\ NextIn({"chunk", "fin"})
    /\ recvCh' = IF known THEN Append(recvCh, Head(toIn)) ELSE recvCh
    /\ UNCHANGED <<nodes, toOut, actual, sender, known, tr, ui, disk, clip, faults>>

(* Handle hands chunks of a known transfer to the write loop, waiting for  *)
(* room in recvCh, and drops the others.                                   *)
TakeChunk ==
    /\ NextIn({"chunk", "fin"})
    /\ IF known THEN Len(recvCh) < RecvCap /\ recvCh' = Append(recvCh, Head(toIn))
                ELSE UNCHANGED recvCh
    /\ UNCHANGED <<nodes, toOut, actual, sender, known, tr, ui, disk, clip, faults>>

(* Mutant: the staged file is not closed. *)
TakeCancel_KeepsFile ==
    /\ NextIn({"cancel"})
    /\ tr' = IF known /\ tr.state \in {"receiving", "pending"}
             THEN [tr EXCEPT !.state = "canceled"] ELSE tr
    /\ UNCHANGED <<nodes, toOut, actual, sender, known, ui, recvCh, disk, clip, faults>>

(* onCanceled, inbound half: it overtakes the chunks that still wait in    *)
(* recvCh.                                                                 *)
TakeCancel ==
    /\ NextIn({"cancel"})
    /\ tr' = IF ~known THEN tr
             ELSE [tr EXCEPT !.open = FALSE,
                     !.state = IF @ \in {"receiving", "pending"} THEN "canceled" ELSE @]
    /\ UNCHANGED <<nodes, toOut, actual, sender, known, ui, recvCh, disk, clip, faults>>

(* Respond: looked up under Manager.mu, decided under the transfer's lock. *)
RespondLookup ==
    /\ ui = "idle" /\ known /\ tr.state = "pending"
    /\ ui' = "found"
    /\ UNCHANGED <<nodes, toIn, toOut, actual, sender, known, tr, recvCh, disk, clip, faults>>

RespondDecide ==
    /\ ui = "found"
    /\ ui' = "idle"
    /\ \/ tr.state # "pending" /\ UNCHANGED <<tr, toOut, faults>>
       \/ tr.state = "pending" /\ tr' = [tr EXCEPT !.state = "receiving"]
          /\ EmitOut([type |-> "accept"]) /\ UNCHANGED faults
       \/ tr.state = "pending" /\ tr' = [tr EXCEPT !.state = "declined"]
          /\ EmitOut(Cancel("declined")) /\ UNCHANGED faults
       \/ tr.state = "pending" /\ Fault /\ tr' = [tr EXCEPT !.state = "failed"] /\ UNCHANGED toOut
    /\ UNCHANGED <<nodes, toIn, actual, sender, known, recvCh, disk, clip>>

(* processChunk, on the write loop under the transfer's lock. *)
NextChunk(types) ==
    /\ recvCh # << >> /\ Head(recvCh).type \in types
    /\ recvCh' = Tail(recvCh)
    /\ UNCHANGED <<nodes, toIn, actual, sender, known, ui>>

(* Mutant: the transfer's state is not looked at. *)
Receiving_Always == TRUE

Receiving == tr.state = "receiving"

(* The next block of the current file, within its declared size. *)
InOrder(m) ==
    /\ m.idx = tr.idx /\ tr.idx <= N
    /\ m.off = tr.off /\ tr.off < Declared[m.idx]

(* Mutant: the failure is not reported to the sender. *)
Refuse_Silent ==
    /\ tr' = [tr EXCEPT !.state = "failed", !.open = FALSE]
    /\ UNCHANGED toOut

Refuse ==
    /\ tr' = [tr EXCEPT !.state = "failed", !.open = FALSE]
    /\ EmitOut(Cancel("receive failed"))

IgnoreChunk ==
    /\ ~Receiving
    /\ NextChunk({"chunk", "fin"})
    /\ UNCHANGED <<toOut, tr, disk, clip, faults>>

RefuseChunk ==
    /\ Receiving
    /\ NextChunk({"chunk"})
    /\ \/ ~InOrder(Head(recvCh)) /\ UNCHANGED faults
       \/ InOrder(Head(recvCh)) /\ Fault
    /\ Refuse
    /\ UNCHANGED <<disk, clip>>

(* Mutant: the offset is not reset for the next file. *)
Advanced_KeepsOffset ==
    IF tr.off + 1 = Declared[tr.idx]
    THEN [tr EXCEPT !.idx = @ + 1, !.off = @ + 1, !.open = FALSE]
    ELSE [tr EXCEPT !.off = @ + 1, !.open = TRUE]

(* The transfer after one more block: a file that is complete is closed.   *)
Advanced ==
    IF tr.off + 1 = Declared[tr.idx]
    THEN [tr EXCEPT !.idx = @ + 1, !.off = 0, !.open = FALSE]
    ELSE [tr EXCEPT !.off = @ + 1, !.open = TRUE]

(* The file is created, and truncated, by its first block. *)
WriteChunk ==
    /\ Receiving
    /\ NextChunk({"chunk"})
    /\ InOrder(Head(recvCh))
    /\ disk' = [disk EXCEPT ![tr.idx] =
                  Append(IF tr.open THEN @ ELSE << >>, Head(recvCh).off)]
    /\ tr' = Advanced
    /\ UNCHANGED <<toOut, clip, faults>>

(* Mutant: the number of files received is not looked at. *)
FinishChunk_AnyCount ==
    /\ Receiving
    /\ NextChunk({"fin"})
    /\ clip' = TRUE /\ tr' = [tr EXCEPT !.state = "done"]
    /\ EmitOut([type |-> "done"])
    /\ UNCHANGED <<disk, faults>>

(* The final chunk: the clipboard is pointed at the files and the sender   *)
(* told; with files missing, or when the clipboard fails, it is told so.   *)
FinishChunk ==
    /\ Receiving
    /\ NextChunk({"fin"})
    /\ \/ tr.idx = N + 1 /\ clip' = TRUE /\ tr' = [tr EXCEPT !.state = "done"]
          /\ EmitOut([type |-> "done"]) /\ UNCHANGED faults
       \/ tr.idx = N + 1 /\ Fault /\ Refuse /\ UNCHANGED clip
       \/ tr.idx # N + 1 /\ Refuse /\ UNCHANGED <<clip, faults>>
    /\ UNCHANGED disk

ReadIn    == TakeOffer \/ TakeChunk \/ TakeCancel
Respond   == RespondLookup \/ RespondDecide
WriteLoop == IgnoreChunk \/ RefuseChunk \/ WriteChunk \/ FinishChunk

-----------------------------------------------------------------------------
(* Nodes and connections. *)

(* Detach of either manager.  On the offering side, the cancel channel of  *)
(* every peer is closed; closing one that is closed already panics.        *)
DetachPanics == offered = "yes" /\ peer.cancel

DetachOut ==
    /\ peer' = IF offered = "yes" /\ peer # NoPeer
               THEN [state |-> IF peer.state = "sending" THEN "canceled" ELSE peer.state,
                     cancel |-> TRUE]
               ELSE peer
    /\ offered' = IF offered = "yes" THEN "gone" ELSE offered
    /\ UNCHANGED <<strm, recver>>

DetachIn ==
    /\ tr' = IF ~known THEN tr
             ELSE [tr EXCEPT !.open = FALSE,
                     !.state = IF @ = "receiving" THEN "canceled" ELSE @]
    /\ known' = FALSE
    /\ UNCHANGED <<sender, ui, recvCh, disk, clip>>

Detach(n) ==
    /\ attached' = attached \ {n}
    /\ IF n = "out" THEN DetachOut ELSE DetachIn

(* What becomes of a node that Detach is called for. *)
After(n, state) == IF n = "out" /\ DetachPanics THEN "crashed" ELSE state

Drop == link' = FALSE /\ toIn' = << >> /\ toOut' = << >>

Lost(n) == IF n \in clients /\ running[n] = "yes" THEN "lost" ELSE running[n]

(* The connection ends; what was in flight is lost. *)
Lose ==
    /\ link /\ Drop
    /\ running' = [n \in Nodes |-> Lost(n)]
    /\ stale' = stale \cup {n \in clients : running[n] = "yes"}
    /\ UNCHANGED <<clients, attached, sessions, actual, sender, recver, faults>>

(* The receive goroutine of a client whose connection has ended detaches   *)
(* the manager, also when a new node has attached it in the meantime.      *)
ReceiverGone(n) ==
    /\ n \in stale /\ running[n] # "crashed"
    /\ stale' = stale \ {n}
    /\ Detach(n)
    /\ running' = [running EXCEPT ![n] = After(n, IF @ = "lost" THEN "no" ELSE @)]
    /\ UNCHANGED <<clients, link, sessions, toIn, toOut, actual, faults>>

(* Server.Close or Client.Close: the manager is detached, the connection   *)
(* closed.  A client's receive goroutine notices afterwards.               *)
Stop(n) ==
    /\ running[n] \in {"yes", "lost"}
    /\ Detach(n)
    /\ Drop
    /\ running' = [m \in Nodes |-> IF m = n THEN After(n, "no")
                                   ELSE IF link THEN Lost(m) ELSE running[m]]
    /\ stale' = stale \cup {m \in clients : m = n \/ (link /\ running[m] = "yes")}
    /\ UNCHANGED <<clients, sessions, actual, faults>>

Start(n) ==
    /\ running[n] = "no" /\ sessions < MaxSessions
    /\ running' = [running EXCEPT ![n] = "yes"]
    /\ attached' = attached \cup {n}
    /\ UNCHANGED <<clients, stale, link, sessions, toIn, toOut, actual, sender, recver, faults>>

Connect ==
    /\ ~link /\ \A n \in Nodes : running[n] = "yes"
    /\ sessions < MaxSessions
    /\ link' = TRUE /\ sessions' = sessions + 1
    /\ UNCHANGED <<clients, running, attached, stale, toIn, toOut, actual, sender, recver, faults>>

Node(n) == ReceiverGone(n) \/ Stop(n) \/ Start(n)

Next ==
    \/ Offer \/ ReadOut \/ Stream
    \/ ReadIn \/ Respond \/ WriteLoop
    \/ Lose \/ Connect
    \/ \E n \in Nodes : Node(n)

(* A goroutine that can go on eventually does.  Users and networks do as   *)
(* they please.                                                            *)
Fairness ==
    /\ WF_vars(ReadOut) /\ WF_vars(Stream)
    /\ WF_vars(ReadIn) /\ WF_vars(WriteLoop)

Spec == Init /\ [][Next]_vars /\ Fairness

-----------------------------------------------------------------------------
InStates   == {"none", "pending", "receiving", "done", "declined", "failed", "canceled"}
PeerStates == {"none", "sending", "done", "declined", "failed", "canceled"}

(* Type invariant, with the positions of the stream and of the transfer    *)
(* inside the files and the queues inside their capacities.                *)
TypeOK ==
    /\ clients \in Roles
    /\ running \in [Nodes -> {"no", "yes", "lost", "crashed"}]
    /\ attached \subseteq Nodes /\ stale \subseteq clients
    /\ link \in BOOLEAN /\ sessions \in 0 .. MaxSessions
    /\ Len(toIn) <= NetCap /\ Len(toOut) <= 2 /\ Len(recvCh) <= RecvCap
    /\ actual \in Actual
    /\ offered \in {"no", "yes", "gone"} /\ peer.state \in PeerStates
    /\ strm.pc \in {"none", "file", "read", "send", "fin", "tell", "end"}
    /\ strm.idx \in 1 .. N + 1 /\ (strm.idx <= N => strm.off \in 0 .. actual[strm.idx])
    /\ tr.state \in InStates /\ tr.idx \in 1 .. N + 1 /\ tr.off \in Nat
    /\ (tr.idx <= N => tr.off \in 0 .. Declared[tr.idx])
    /\ disk \in [Files -> Seq(Nat)]
    /\ faults \in 0 .. MaxFaults

Whole(size) == [k \in 1 .. size |-> k - 1]

(* When the clipboard points at the received files, each of them holds     *)
(* every block of its source, once and in order, up to the offered size:   *)
(* through cancels that overtake queued chunks, sources that change, lost  *)
(* connections and a stream that carries on over the next one.             *)
FilesIntact == clip => \A i \in Files : disk[i] = Whole(Declared[i])

(* The sender shows "done" only after every chunk has landed and the       *)
(* receiver has updated its clipboard.                                     *)
DoneMeansDelivered == peer.state = "done" => clip

(* A staged file is held open only by a transfer that is still receiving   *)
(* and still listed, however the transfer ends.                            *)
NoLeakedFile == tr.open => known /\ Receiving

(* Once a transfer has failed, been declined or been canceled, nothing     *)
(* more is written to its files, although chunks may still be queued.      *)
AbortIsFinal ==
    [][tr.state \in {"declined", "failed", "canceled", "done"} => disk' = disk /\ tr'.state = tr.state]_vars

(* Nothing but the transfer itself has happened: one connection that holds. *)
Connected == sessions = 1 /\ link

SendingEnds   == (Connected /\ peer.state = "sending") ~> (peer.state # "sending" \/ ~Connected)
ReceivingEnds == (Connected /\ Receiving) ~> (~Receiving \/ ~Connected)

(* While both nodes stay connected no transfer hangs: the sender's ends in *)
(* done, failed, declined or canceled, the receiver's does not stay        *)
(* "receiving", whichever side or operation has failed.                    *)
TransferEnds == SendingEnds /\ ReceivingEnds

(* With no failing operation and unchanged sources, an accepted transfer   *)
(* is delivered.                                                           *)
Clean == Connected /\ faults = 0 /\ actual = Declared

Delivered == (Clean /\ peer.state = "sending") ~> (peer.state = "done" \/ ~Clean)

(* Stopping a node clears its transfers; it does not crash the process by  *)
(* closing a channel that is closed already.                               *)
DetachIsSafe == Alive
=============================================================================
