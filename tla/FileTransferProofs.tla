------------------------- MODULE FileTransferProofs -------------------------
(***************************************************************************)
(* Proofs about FileTransfer, for every list of files, capacity of the     *)
(* queues, number of connections and number of failing operations.         *)
(***************************************************************************)
EXTENDS FileTransfer, TLAPS

Reasons  == {"unknown transfer", "send failed", "declined", "receive failed"}
OfferMsg == [type |-> "offer"]
Pieces   == [type : {"chunk"}, idx : Files, off : Nat] \cup {Fin}
InMsgs   == {OfferMsg} \cup Pieces \cup [type : {"cancel"}, why : Reasons]
OutMsgs  == [type : {"accept", "done"}] \cup [type : {"cancel"}, why : Reasons]

Transfers == [state : InStates, idx : 1 .. N + 1, off : Nat, open : BOOLEAN]

NodesTyped ==
    /\ clients \in Roles
    /\ running \in [Nodes -> {"no", "yes", "lost", "crashed"}]
    /\ attached \subseteq Nodes /\ stale \subseteq clients
    /\ link \in BOOLEAN /\ sessions \in 0 .. MaxSessions
    /\ faults \in 0 .. MaxFaults

SenderTyped ==
    /\ actual \in Actual
    /\ offered \in {"no", "yes", "gone"}
    /\ peer \in [state : PeerStates, cancel : BOOLEAN]
    /\ strm \in [pc : {"none", "file", "read", "send", "fin", "tell", "end"},
                 idx : 1 .. N + 1, off : Nat]
    /\ strm.pc \in {"read", "send"} => strm.idx <= N
    /\ strm.idx <= N => strm.off <= actual[strm.idx]
    /\ strm.pc = "send" => strm.off < actual[strm.idx]

RecverTyped ==
    /\ known \in BOOLEAN /\ clip \in BOOLEAN
    /\ tr \in Transfers
    /\ tr.idx <= N => tr.off <= Declared[tr.idx]
    /\ disk \in [Files -> Seq(Nat)]

QueuesTyped ==
    /\ toIn \in Seq(InMsgs) /\ Len(toIn) <= NetCap
    /\ toOut \in Seq(OutMsgs)
    /\ recvCh \in Seq(Pieces) /\ Len(recvCh) <= RecvCap

Typed == NodesTyped /\ SenderTyped /\ RecverTyped /\ QueuesTyped

(* Before the receiver has agreed nothing moves but the offer: the         *)
(* transfer is as it was created and no stream has started.                *)
Quiet ==
    tr.state \in {"none", "pending"} =>
        /\ tr.idx = 1 /\ tr.off = 0 /\ ~tr.open
        /\ toOut = << >> /\ recvCh = << >> /\ strm.pc = "none" /\ ~clip
        /\ toIn = << >> \/ (tr.state = "none" /\ toIn = <<OfferMsg>>)

(* The offer goes out once, and it is the only one that makes a transfer.  *)
OfferOnce ==
    /\ offered = "no" => tr.state = "none" /\ toIn = << >>
    /\ tr.state = "none" => ~known
    /\ tr.state # "none" => \A k \in DOMAIN toIn : toIn[k].type # "offer"

(* How many messages a transfer has sent by the time it is in a state.     *)
Sent(state) == IF state \in {"none", "pending"} THEN 0
               ELSE IF state \in {"receiving", "canceled", "declined"} THEN 1 ELSE 2

FewAnswers == Len(toOut) <= Sent(tr.state)

(* A detached transfer that is still receiving was only now accepted: it   *)
(* gets no chunk.                                                          *)
Abandoned == Receiving /\ ~known => recvCh = << >>

(* What lies on disk: every file before the current one, and the current   *)
(* one as far as the transfer has come.                                    *)
Landed ==
    /\ \A i \in Files : i < tr.idx => disk[i] = Whole(Declared[i])
    /\ tr.open => /\ tr.idx <= N /\ disk[tr.idx] = Whole(tr.off)
    /\ Receiving /\ ~tr.open => tr.off = 0

Finished ==
    /\ clip => tr.state = "done" /\ tr.idx = N + 1
    /\ \A k \in DOMAIN toOut : toOut[k].type = "done" => clip

IInv == /\ Typed /\ Quiet /\ OfferOnce /\ FewAnswers /\ Abandoned
        /\ NoLeakedFile /\ Landed /\ Finished /\ DoneMeansDelivered

-----------------------------------------------------------------------------
LEMMA Sizes == N \in Nat /\ Declared \in [Files -> Nat]
BY FilesAssumption DEF N, Files

(* The actions of the two managers. *)
Transferring == Offer \/ ReadOut \/ Stream \/ ReadIn \/ Respond \/ WriteLoop

(* The managers leave the nodes and the connection alone, and count every  *)
(* operation that fails.                                                   *)
LEMMA ManagersKeepNodes ==
    Transferring => UNCHANGED nodes /\ (UNCHANGED faults \/ Fault)
<1>1. Offer \/ ReadOut => UNCHANGED nodes /\ UNCHANGED faults
  BY DEF Offer, ReadOut, AcceptMsg, CancelMsg, DoneMsg
<1>2. Stream => UNCHANGED nodes
  BY DEF Stream, StreamFile, StreamRead, StreamSend, StreamFin, StreamTell, StreamRest
<1>3. StreamFile \/ StreamRead => UNCHANGED faults \/ Fault
  BY DEF StreamFile, StreamRead
<1>4. StreamSend \/ StreamFin \/ StreamTell => UNCHANGED faults
  BY DEF StreamSend, StreamFin, StreamTell
<1>5. ReadIn => UNCHANGED nodes /\ UNCHANGED faults
  BY DEF ReadIn, TakeOffer, TakeChunk, TakeCancel
<1>6. Respond => UNCHANGED nodes /\ (UNCHANGED faults \/ Fault)
  BY DEF Respond, RespondLookup, RespondDecide
<1>7. WriteLoop => UNCHANGED nodes /\ (UNCHANGED faults \/ Fault)
  BY DEF WriteLoop, IgnoreChunk, RefuseChunk, WriteChunk, FinishChunk, NextChunk
<1> QED BY <1>1, <1>2, <1>3, <1>4, <1>5, <1>6, <1>7 DEF Transferring, Stream

(* The connections and the two nodes keep their types. *)
LEMMA NodesStep == NodesTyped /\ [Next]_vars => NodesTyped'
<1> SUFFICES ASSUME NodesTyped, [Next]_vars
             PROVE  NodesTyped'
  OBVIOUS
<1> USE NodesAssumption, BoundsAssumption DEF NodesTyped
<1>1. CASE Transferring
  BY <1>1, ManagersKeepNodes DEF nodes, Fault
<1>2. CASE Lose
  BY <1>2 DEF Lose, Drop, Lost, Nodes
<1>3. CASE Connect
  BY <1>3 DEF Connect
<1>4. ASSUME NEW n \in Nodes, ReceiverGone(n)
      PROVE  NodesTyped'
  BY <1>4 DEF ReceiverGone, Detach, After, Nodes
<1>5. ASSUME NEW n \in Nodes, Stop(n)
      PROVE  NodesTyped'
  <2>1. /\ clients' = clients /\ attached' = attached \ {n} /\ link' = FALSE
        /\ sessions' = sessions /\ faults' = faults
        /\ stale' = stale \cup {m \in clients : m = n \/ (link /\ running[m] = "yes")}
    BY <1>5 DEF Stop, Detach, Drop
  <2>2. running' \in [Nodes -> {"no", "yes", "lost", "crashed"}]
    BY <1>5 DEF Stop, After, Lost
  <2> QED BY <2>1, <2>2
<1>6. ASSUME NEW n \in Nodes, Start(n)
      PROVE  NodesTyped'
  BY <1>6 DEF Start, Nodes
<1>7. CASE UNCHANGED vars
  BY <1>7 DEF vars, nodes
<1> QED BY <1>1, <1>2, <1>3, <1>4, <1>5, <1>6, <1>7 DEF Next, Node, Transferring

(* The steps that are not the offering manager's leave it alone.           *)
LEMMA OthersKeepSender ==
    ReadIn \/ Respond \/ WriteLoop \/ Lose \/ Connect => UNCHANGED <<actual, sender>>
<1>1. ReadIn \/ Respond => UNCHANGED <<actual, sender>>
  BY DEF ReadIn, TakeOffer, TakeChunk, TakeCancel, Respond, RespondLookup, RespondDecide
<1>2. WriteLoop => UNCHANGED <<actual, sender>>
  BY DEF WriteLoop, IgnoreChunk, RefuseChunk, WriteChunk, FinishChunk, NextChunk
<1>3. Lose \/ Connect => UNCHANGED <<actual, sender>>
  BY DEF Lose, Connect
<1> QED BY <1>1, <1>2, <1>3

LEMMA NodesKeepSender ==
    ASSUME NEW n \in Nodes, Node(n)
    PROVE  /\ UNCHANGED <<actual, strm>>
           /\ \/ UNCHANGED <<offered, peer>>
              \/ DetachOut
<1>1. Start(n) => UNCHANGED <<actual, offered, peer, strm>>
  BY DEF Start, sender
<1>2. Detach(n) => UNCHANGED strm /\ (UNCHANGED <<offered, peer>> \/ DetachOut)
  BY DEF Detach, DetachIn, DetachOut, sender
<1>3. ReceiverGone(n) \/ Stop(n) => UNCHANGED actual /\ Detach(n)
  BY DEF ReceiverGone, Stop
<1> QED BY <1>1, <1>2, <1>3 DEF Node

(* The offering manager keeps its types, and the stream its place in the   *)
(* files as they are.                                                      *)
LEMMA SenderStep == SenderTyped /\ [Next]_vars => SenderTyped'
<1> SUFFICES ASSUME SenderTyped, [Next]_vars
             PROVE  SenderTyped'
  OBVIOUS
<1>0. /\ N \in Nat /\ actual \in [Files -> Nat]
      /\ peer.state \in PeerStates /\ peer.cancel \in BOOLEAN
      /\ strm.idx \in 1 .. N + 1 /\ strm.off \in Nat
  BY Sizes, FilesAssumption DEF SenderTyped
<1> USE <1>0 DEF SenderTyped
<1>1. CASE ReadOut
  <2>1. actual' = actual /\ offered' = offered
    BY <1>1 DEF ReadOut, AcceptMsg, CancelMsg, DoneMsg
  <2>2. peer' \in [state : PeerStates, cancel : BOOLEAN]
    <3>1. AcceptMsg \/ CancelMsg =>
            \/ peer' = peer
            \/ \E st \in PeerStates, c \in BOOLEAN : peer' = [state |-> st, cancel |-> c]
      BY DEF AcceptMsg, CancelMsg, PeerStates
    <3>2. DoneMsg => peer' = peer \/ peer' = [peer EXCEPT !.state = "done"]
      BY DEF DoneMsg, MarkPeer
    <3>3. "done" \in PeerStates /\ peer \in [state : PeerStates, cancel : BOOLEAN]
      BY DEF PeerStates
    <3>4. CASE AcceptMsg \/ CancelMsg
      BY <3>1, <3>3, <3>4
    <3>5. CASE DoneMsg
      BY <3>2, <3>3, <3>5
    <3> QED BY <1>1, <3>4, <3>5 DEF ReadOut
  <2>3. strm' = strm \/ (strm.pc = "none" /\ strm' = [strm EXCEPT !.pc = "file"])
    BY <1>1 DEF ReadOut, AcceptMsg, CancelMsg, DoneMsg
  <2> QED BY <2>1, <2>2, <2>3
<1>2. CASE Stream
  <2>1. actual' = actual /\ offered' = offered
    BY <1>2 DEF Stream, StreamFile, StreamRead, StreamSend, StreamFin, StreamTell, StreamRest
  <2>2. \/ peer' = peer \/ MarkPeer("canceled") \/ MarkPeer("failed")
    BY <1>2 DEF Stream, StreamFile, StreamRead, StreamSend, StreamFin, StreamTell,
                StreamQuits, StreamFails
  <2>3. peer' \in [state : PeerStates, cancel : BOOLEAN]
    BY <2>2 DEF MarkPeer, PeerStates
  <2>4. CASE StreamFile
    BY <2>1, <2>3, <2>4 DEF StreamFile, StreamTo, StreamQuits, StreamFails
  <2>5. CASE StreamRead
    BY <2>1, <2>3, <2>5 DEF StreamRead, StreamAt, StreamTo, StreamQuits, StreamFails, AtEOF, Files
  <2>6. CASE StreamSend
    <3>1. strm.off + 1 \in Nat /\ strm.pc = "send"
      BY <2>6 DEF StreamSend, StreamAt
    <3>2. \/ strm' = [pc |-> "read", idx |-> strm.idx, off |-> strm.off + 1]
          \/ strm' = [strm EXCEPT !.pc = "tell"]
      BY <2>6 DEF StreamSend, StreamTo, StreamFails
    <3>3. strm.idx \in Files /\ actual[strm.idx] \in Nat
      BY <3>1 DEF Files
    <3> QED BY <2>1, <2>3, <3>1, <3>2, <3>3
  <2>7. CASE StreamFin \/ StreamTell
    BY <2>1, <2>3, <2>7 DEF StreamFin, StreamTell, StreamTo, StreamFails
  <2> QED BY <1>2, <2>4, <2>5, <2>6, <2>7 DEF Stream
<1>3. CASE Offer
  BY <1>3 DEF Offer
<1>4. CASE ReadIn \/ Respond \/ WriteLoop \/ Lose \/ Connect
  BY <1>4, OthersKeepSender DEF sender
<1>5. ASSUME NEW n \in Nodes, Node(n)
      PROVE  SenderTyped'
  <2>1. /\ UNCHANGED <<actual, strm>>
        /\ UNCHANGED <<offered, peer>> \/ DetachOut
    BY <1>5, NodesKeepSender
  <2>2. DetachOut => /\ offered' \in {"no", "yes", "gone"}
                     /\ peer' \in [state : PeerStates, cancel : BOOLEAN]
    BY DEF DetachOut, PeerStates
  <2> QED BY <2>1, <2>2
<1>6. CASE UNCHANGED vars
  BY <1>6 DEF vars, sender
<1> QED BY <1>1, <1>2, <1>3, <1>4, <1>5, <1>6 DEF Next

(* The steps that are not the receiving manager's leave it alone.          *)
LEMMA OthersKeepRecver ==
    Offer \/ ReadOut \/ Stream \/ Lose \/ Connect => UNCHANGED recver
<1>1. Offer \/ ReadOut => UNCHANGED recver
  BY DEF Offer, ReadOut, AcceptMsg, CancelMsg, DoneMsg
<1>2. Stream => UNCHANGED recver
  BY DEF Stream, StreamFile, StreamRead, StreamSend, StreamFin, StreamTell, StreamRest
<1>3. Lose \/ Connect => UNCHANGED recver
  BY DEF Lose, Connect
<1> QED BY <1>1, <1>2, <1>3

LEMMA NodesKeepRecver ==
    ASSUME NEW n \in Nodes, Node(n)
    PROVE  UNCHANGED recver \/ (DetachIn /\ UNCHANGED recvCh)
<1>1. Start(n) => UNCHANGED recver
  BY DEF Start
<1>2. Detach(n) => UNCHANGED recver \/ (DetachIn /\ UNCHANGED recvCh)
  BY DEF Detach, DetachIn, DetachOut, recver
<1>3. ReceiverGone(n) \/ Stop(n) => Detach(n)
  BY DEF ReceiverGone, Stop
<1> QED BY <1>1, <1>2, <1>3 DEF Node

(* A change of the transfer's state leaves its place in the files.         *)
Turned(to) == /\ tr' \in Transfers /\ tr'.state = to
              /\ tr'.idx = tr.idx /\ tr'.off = tr.off

(* The states a cancel or a detach ends, and what they leave of the others. *)
Ended(states) == IF tr.state \in states THEN "canceled" ELSE tr.state

(* The transfer as the record it is.                                       *)
LEMMA TransferRecord ==
    ASSUME NEW st \in InStates, NEW i \in 1 .. N + 1, NEW f \in Nat, NEW o \in BOOLEAN,
           tr' = [state |-> st, idx |-> i, off |-> f, open |-> o]
    PROVE  tr' \in Transfers /\ tr'.state = st /\ tr'.idx = i /\ tr'.off = f /\ tr'.open = o
BY DEF Transfers

LEMMA TurnedRecord ==
    ASSUME tr \in Transfers, NEW to \in InStates, NEW o \in BOOLEAN,
           tr' = [state |-> to, idx |-> tr.idx, off |-> tr.off, open |-> o]
    PROVE  Turned(to) /\ tr'.open = o
BY DEF Turned, Transfers

LEMMA CreatedTyped ==
    ASSUME NEW st \in InStates, tr' = [NoTr EXCEPT !.state = st]
    PROVE  /\ tr' \in Transfers /\ tr'.state = st
           /\ tr'.idx = 1 /\ tr'.off = 0 /\ ~tr'.open
<1>1. PICK o \in BOOLEAN : ~o /\ tr' = [state |-> st, idx |-> 1, off |-> 0, open |-> o]
  BY DEF NoTr
<1>2. PICK i \in 1 .. N + 1, f \in Nat : i = 1 /\ f = 0
  BY Sizes
<1>3. tr' = [state |-> st, idx |-> i, off |-> f, open |-> o]
  BY <1>1, <1>2
<1>4. tr' \in Transfers /\ tr'.state = st /\ tr'.idx = i /\ tr'.off = f /\ tr'.open = o
  BY <1>3, TransferRecord
<1> QED BY <1>1, <1>2, <1>4

LEMMA CancelTurns ==
    ASSUME tr \in Transfers, TakeCancel, known
    PROVE  Turned(Ended({"receiving", "pending"})) /\ ~tr'.open
<1>1. PICK o \in BOOLEAN :
        ~o /\ tr' = [state |-> Ended({"receiving", "pending"}), idx |-> tr.idx,
                     off |-> tr.off, open |-> o]
  BY DEF TakeCancel, Ended, Transfers
<1> QED BY <1>1, TurnedRecord DEF Ended, Transfers, InStates

LEMMA DetachTurns ==
    ASSUME tr \in Transfers, DetachIn, known
    PROVE  Turned(Ended({"receiving"})) /\ ~tr'.open
<1>1. PICK o \in BOOLEAN :
        ~o /\ tr' = [state |-> Ended({"receiving"}), idx |-> tr.idx,
                     off |-> tr.off, open |-> o]
  BY DEF DetachIn, Ended, Transfers
<1> QED BY <1>1, TurnedRecord DEF Ended, Transfers, InStates

LEMMA RefuseTurns ==
    ASSUME tr \in Transfers, Refuse
    PROVE  Turned("failed") /\ ~tr'.open
<1>1. PICK o \in BOOLEAN :
        ~o /\ tr' = [state |-> "failed", idx |-> tr.idx, off |-> tr.off, open |-> o]
  BY DEF Refuse, Transfers
<1> QED BY <1>1, TurnedRecord DEF InStates

LEMMA RespondTurns ==
    ASSUME tr \in Transfers, RespondDecide
    PROVE  \/ UNCHANGED <<tr, toOut>>
           \/ /\ tr.state = "pending" /\ tr'.open = tr.open
              /\ \/ Turned("receiving") /\ EmitOut([type |-> "accept"])
                 \/ Turned("declined") /\ EmitOut(Cancel("declined"))
                 \/ Turned("failed") /\ UNCHANGED toOut
<1>1. \A st \in InStates :
        tr' = [tr EXCEPT !.state = st] => Turned(st) /\ tr'.open = tr.open
  BY DEF Turned, Transfers
<1> QED BY <1>1 DEF RespondDecide, InStates

LEMMA FinishTurns ==
    ASSUME tr \in Transfers, tr' = [tr EXCEPT !.state = "done"]
    PROVE  Turned("done") /\ tr'.open = tr.open
BY DEF Turned, Transfers, InStates

(* One more block.                                                         *)
LEMMA AdvancedTyped ==
    ASSUME tr \in Transfers, tr.idx <= N, tr.off < Declared[tr.idx], tr' = Advanced
    PROVE  /\ tr' \in Transfers /\ tr'.state = tr.state
           /\ IF tr.off + 1 = Declared[tr.idx]
              THEN tr'.idx = tr.idx + 1 /\ tr'.off = 0 /\ ~tr'.open
              ELSE tr'.idx = tr.idx /\ tr'.off = tr.off + 1 /\ tr'.open
<1>1. N \in Nat /\ tr.idx \in 1 .. N + 1 /\ tr.off \in Nat /\ Declared[tr.idx] \in Nat
  BY Sizes DEF Transfers, Files
<1>2. PICK o \in BOOLEAN :
        IF tr.off + 1 = Declared[tr.idx]
        THEN ~o /\ tr' = [state |-> tr.state, idx |-> tr.idx + 1, off |-> 0, open |-> o]
        ELSE o /\ tr' = [state |-> tr.state, idx |-> tr.idx, off |-> tr.off + 1, open |-> o]
  BY DEF Advanced, Transfers
<1> QED BY <1>1, <1>2 DEF Transfers

(* The block written next extends the file of the current position.        *)
LEMMA WriteMoves ==
    ASSUME RecverTyped, QueuesTyped, WriteChunk
    PROVE  /\ tr.idx \in Files /\ tr.off < Declared[tr.idx]
           /\ disk' = [disk EXCEPT ![tr.idx] =
                         Append(IF tr.open THEN disk[tr.idx] ELSE << >>, tr.off)]
           /\ disk' \in [Files -> Seq(Nat)]
<1>1. InOrder(Head(recvCh)) /\ tr.idx \in 1 .. N + 1 /\ tr.off \in Nat
  BY DEF WriteChunk, RecverTyped, Transfers
<1>2. tr.idx \in Files /\ tr.off < Declared[tr.idx] /\ Head(recvCh).off = tr.off
  BY <1>1, Sizes DEF InOrder, Files
<1>3. disk' = [disk EXCEPT ![tr.idx] =
                 Append(IF tr.open THEN disk[tr.idx] ELSE << >>, tr.off)]
  BY <1>2 DEF WriteChunk
<1>4. disk \in [Files -> Seq(Nat)] /\ disk[tr.idx] \in Seq(Nat)
  BY <1>2 DEF RecverTyped
<1>5. Append(IF tr.open THEN disk[tr.idx] ELSE << >>, tr.off) \in Seq(Nat)
  BY <1>1, <1>4
<1> QED BY <1>2, <1>3, <1>4, <1>5

(* The receiving manager keeps its types and its place in the files.       *)
LEMMA RecverStep == RecverTyped /\ QueuesTyped /\ [Next]_vars => RecverTyped'
<1> SUFFICES ASSUME RecverTyped, QueuesTyped, [Next]_vars
             PROVE  RecverTyped'
  OBVIOUS
<1>0. /\ N \in Nat /\ tr \in Transfers /\ tr.idx \in 1 .. N + 1 /\ tr.off \in Nat
      /\ known \in BOOLEAN /\ clip \in BOOLEAN /\ disk \in [Files -> Seq(Nat)]
      /\ tr.idx <= N => tr.off <= Declared[tr.idx]
  BY Sizes DEF RecverTyped, Transfers
<1>1. ASSUME NEW st \in InStates, Turned(st), UNCHANGED disk,
             known' \in BOOLEAN, clip' \in BOOLEAN
      PROVE  RecverTyped'
  BY <1>0, <1>1 DEF RecverTyped, Turned
<1>2. CASE TakeOffer
  <2>1. PICK st \in InStates : tr' = [NoTr EXCEPT !.state = st]
    BY <1>2 DEF TakeOffer, InStates
  <2>2. tr' \in Transfers /\ tr'.idx = 1 /\ tr'.off = 0
    BY <2>1, CreatedTyped
  <2>3. 1 <= N => Declared[1] \in Nat
    BY <1>0, Sizes DEF Files
  <2>4. known' = TRUE /\ clip' = clip /\ disk' = disk
    BY <1>2 DEF TakeOffer
  <2> QED BY <1>0, <2>2, <2>3, <2>4 DEF RecverTyped
<1>3. CASE TakeChunk \/ RespondLookup \/ IgnoreChunk
  BY <1>0, <1>3 DEF TakeChunk, RespondLookup, IgnoreChunk, NextChunk, RecverTyped
<1>4. CASE TakeCancel
  <2>1. UNCHANGED <<known, clip, disk>> /\ (~known => tr' = tr)
    BY <1>4 DEF TakeCancel
  <2>2. CASE known
    BY <1>0, <1>1, <1>4, <2>1, <2>2, CancelTurns DEF Ended, InStates, Transfers
  <2> QED BY <1>0, <2>1, <2>2 DEF RecverTyped
<1>5. CASE RespondDecide
  <2>1. UNCHANGED <<known, clip, disk>>
    BY <1>5 DEF RespondDecide
  <2> QED BY <1>0, <1>1, <1>5, <2>1, RespondTurns DEF InStates, RecverTyped
<1>6. CASE RefuseChunk
  <2>1. UNCHANGED <<known, clip, disk>> /\ Refuse
    BY <1>6 DEF RefuseChunk, NextChunk
  <2> QED BY <1>0, <1>1, <2>1, RefuseTurns DEF InStates
<1>7. CASE WriteChunk
  <2>1. UNCHANGED <<known, clip>> /\ tr' = Advanced
    BY <1>7 DEF WriteChunk, NextChunk
  <2>2. /\ tr.idx \in Files /\ tr.off < Declared[tr.idx]
        /\ disk' \in [Files -> Seq(Nat)]
    BY <1>7, WriteMoves
  <2>3. tr.idx <= N /\ Declared[tr.idx] \in Nat
    BY <1>0, <2>2, Sizes DEF Files
  <2>4. tr.idx + 1 <= N => Declared[tr.idx + 1] \in Nat
    BY <1>0, Sizes DEF Files
  <2> QED BY <1>0, <2>1, <2>2, <2>3, <2>4, AdvancedTyped DEF RecverTyped
<1>8. CASE FinishChunk
  <2>1. /\ UNCHANGED <<known, disk>> /\ clip' \in BOOLEAN
        /\ tr' = [tr EXCEPT !.state = "done"] \/ Refuse
    BY <1>0, <1>8 DEF FinishChunk, NextChunk
  <2> QED BY <1>0, <1>1, <2>1, RefuseTurns, FinishTurns DEF InStates
<1>9. ASSUME NEW n \in Nodes, Node(n)
      PROVE  RecverTyped'
  <2>1. CASE UNCHANGED recver
    BY <1>0, <2>1 DEF recver, RecverTyped
  <2>2. CASE DetachIn
    <3>1. known' = FALSE /\ UNCHANGED <<clip, disk>> /\ (~known => tr' = tr)
      BY <2>2 DEF DetachIn
    <3>2. CASE known
      BY <1>0, <1>1, <2>2, <3>1, <3>2, DetachTurns DEF Ended, InStates, Transfers
    <3> QED BY <1>0, <3>1, <3>2 DEF RecverTyped
  <2> QED BY <1>9, <2>1, <2>2, NodesKeepRecver
<1>10. CASE Offer \/ ReadOut \/ Stream \/ Lose \/ Connect \/ UNCHANGED vars
  BY <1>0, <1>10, OthersKeepRecver DEF vars, recver, RecverTyped
<1> QED BY <1>2, <1>3, <1>4, <1>5, <1>6, <1>7, <1>8, <1>9, <1>10
        DEF Next, ReadIn, Respond, WriteLoop

-----------------------------------------------------------------------------
(* The queues. *)

LEMMA TailOf ==
    ASSUME NEW S, NEW q \in Seq(S), q # << >>
    PROVE  /\ Tail(q) \in Seq(S) /\ Len(Tail(q)) = Len(q) - 1 /\ Len(q) \in Nat \ {0}
           /\ \A k \in DOMAIN Tail(q) : k + 1 \in DOMAIN q /\ Tail(q)[k] = q[k + 1]
           /\ 1 \in DOMAIN q /\ Head(q) = q[1] /\ Head(q) \in S
OBVIOUS

LEMMA AppendTo ==
    ASSUME NEW S, NEW q \in Seq(S), NEW m \in S
    PROVE  /\ Append(q, m) \in Seq(S) /\ Len(Append(q, m)) = Len(q) + 1
           /\ \A k \in DOMAIN Append(q, m) :
                \/ k \in DOMAIN q /\ Append(q, m)[k] = q[k]
                \/ k = Len(q) + 1 /\ Append(q, m)[k] = m
OBVIOUS

(* What a step does to the queue of an operation's messages.               *)
Grows(q, qp, new) == \E m \in new : qp = Append(q, m)
Shrinks(q, qp)    == q # << >> /\ qp = Tail(q)

(* Everything that is sent to the receiver after the offer.                *)
Later == Pieces \cup [type : {"cancel"}, why : Reasons]

LEMMA MessageTypes ==
    /\ Later \subseteq InMsgs /\ {OfferMsg} \subseteq InMsgs
    /\ \A m \in Later : m.type # "offer"
    /\ \A m \in InMsgs : m.type \in {"chunk", "fin"} => m \in Pieces
    /\ Cancel("unknown transfer") \in Later /\ Cancel("send failed") \in Later
    /\ Cancel("declined") \in OutMsgs /\ Cancel("receive failed") \in OutMsgs
    /\ \A m \in [type : {"cancel"}, why : Reasons] : m.type # "done"
    /\ Fin \in Later /\ OfferMsg.type = "offer"
<1>1. \A m \in [type : {"cancel"}, why : Reasons] : m.type = "cancel"
  OBVIOUS
<1>2. \A m \in Pieces : m.type \in {"chunk", "fin"}
  BY DEF Pieces, Fin
<1>3. \A why \in Reasons : Cancel(why) \in Later /\ Cancel(why) \in OutMsgs
  BY DEF Cancel, Later, OutMsgs
<1>4. {OfferMsg} \subseteq InMsgs /\ Later \subseteq InMsgs /\ Fin \in Later
  BY DEF Later, InMsgs, Pieces
<1>5. \A m \in Later : m.type # "offer"
  BY <1>1, <1>2 DEF Later
<1>6. OfferMsg.type = "offer"
  BY DEF OfferMsg
<1>7. \A m \in InMsgs : m.type \in {"chunk", "fin"} => m \in Pieces
  BY <1>1, <1>6 DEF InMsgs
<1> QED BY <1>1, <1>3, <1>4, <1>5, <1>6, <1>7 DEF Reasons

(* Messages for the receiver: the offer; what the stream sends, or the     *)
(* answer to an accept; nothing else.                                      *)
LEMMA InMoves ==
    ASSUME SenderTyped, [Next]_vars
    PROVE  \/ toIn' = toIn \/ toIn' = << >>
           \/ ReadIn /\ Shrinks(toIn, toIn')
           \/ Offer /\ toIn' = Append(toIn, OfferMsg) /\ Len(toIn) < NetCap
           \/ /\ (Stream /\ strm.pc # "none") \/ (AcceptMsg /\ toOut # << >>)
              /\ Grows(toIn, toIn', Later) /\ Len(toIn) < NetCap
<1>1. CASE Offer
  BY <1>1 DEF Offer, EmitIn, OfferMsg
<1>2. CASE ReadOut
  <2>1. AcceptMsg => \/ toIn' = toIn
                     \/ /\ toIn' = Append(toIn, Cancel("unknown transfer"))
                        /\ Len(toIn) < NetCap /\ toOut # << >>
    BY DEF AcceptMsg, EmitIn, EmitInFails, NextOut
  <2>2. CancelMsg \/ DoneMsg => toIn' = toIn
    BY DEF CancelMsg, DoneMsg
  <2>3. Cancel("unknown transfer") \in Later
    BY MessageTypes
  <2> QED BY <1>2, <2>1, <2>2, <2>3 DEF ReadOut, Grows
<1>3. CASE Stream
  <2>1. StreamFile \/ StreamRead => toIn' = toIn
    BY DEF StreamFile, StreamRead
  <2>2. StreamSend => \/ toIn' = toIn
                      \/ /\ toIn' = Append(toIn, Chunk(strm.idx, strm.off))
                         /\ Len(toIn) < NetCap /\ strm.pc = "send"
    BY DEF StreamSend, StreamAt, EmitIn, EmitInFails
  <2>3. StreamFin => \/ toIn' = toIn
                     \/ toIn' = Append(toIn, Fin) /\ Len(toIn) < NetCap /\ strm.pc = "fin"
    BY DEF StreamFin, StreamAt, EmitIn, EmitInFails
  <2>4. StreamTell => \/ toIn' = toIn
                      \/ /\ toIn' = Append(toIn, Cancel("send failed"))
                         /\ Len(toIn) < NetCap /\ strm.pc = "tell"
    BY DEF StreamTell, StreamAt, EmitIn, EmitInFails
  <2>5. strm.pc = "send" => Chunk(strm.idx, strm.off) \in Later
    BY Sizes DEF SenderTyped, Chunk, Later, Pieces, Files
  <2>6. Cancel("send failed") \in Later /\ Fin \in Later
    BY MessageTypes
  <2> QED BY <1>3, <2>1, <2>2, <2>3, <2>4, <2>5, <2>6 DEF Stream, Grows
<1>4. CASE ReadIn
  BY <1>4 DEF ReadIn, TakeOffer, TakeChunk, TakeCancel, NextIn, Shrinks
<1>5. CASE Respond \/ WriteLoop
  <2>1. Respond => toIn' = toIn
    BY DEF Respond, RespondLookup, RespondDecide
  <2>2. WriteLoop => toIn' = toIn
    BY DEF WriteLoop, IgnoreChunk, RefuseChunk, WriteChunk, FinishChunk, NextChunk
  <2> QED BY <1>5, <2>1, <2>2
<1>6. CASE Lose \/ Connect
  BY <1>6 DEF Lose, Connect, Drop
<1>7. ASSUME NEW n \in Nodes, Node(n)
      PROVE  toIn' = toIn \/ toIn' = << >>
  BY <1>7 DEF Node, ReceiverGone, Stop, Start, Drop
<1>8. CASE UNCHANGED vars
  BY <1>8 DEF vars
<1> QED BY <1>1, <1>2, <1>3, <1>4, <1>5, <1>6, <1>7, <1>8 DEF Next

(* Messages for the sender: every answer is sent by a step that decides    *)
(* what becomes of the transfer.                                           *)
Answering == TakeOffer \/ RespondDecide \/ RefuseChunk \/ FinishChunk

LEMMA OutMoves ==
    ASSUME [Next]_vars
    PROVE  \/ toOut' = toOut \/ toOut' = << >>
           \/ ReadOut /\ Shrinks(toOut, toOut')
           \/ Answering
<1>1. CASE Offer
  BY <1>1 DEF Offer
<1>2. CASE ReadOut
  BY <1>2 DEF ReadOut, AcceptMsg, CancelMsg, DoneMsg, NextOut, Shrinks
<1>3. CASE Stream
  BY <1>3 DEF Stream, StreamFile, StreamRead, StreamSend, StreamFin, StreamTell, StreamRest
<1>4. CASE ReadIn
  BY <1>4 DEF ReadIn, TakeChunk, TakeCancel, Answering
<1>5. CASE Respond
  BY <1>5 DEF Respond, RespondLookup, Answering
<1>6. CASE WriteLoop
  BY <1>6 DEF WriteLoop, IgnoreChunk, WriteChunk, Answering
<1>7. CASE Lose \/ Connect
  BY <1>7 DEF Lose, Connect, Drop
<1>8. ASSUME NEW n \in Nodes, Node(n)
      PROVE  toOut' = toOut \/ toOut' = << >>
  BY <1>8 DEF Node, ReceiverGone, Stop, Start, Drop
<1>9. CASE UNCHANGED vars
  BY <1>9 DEF vars
<1> QED BY <1>1, <1>2, <1>3, <1>4, <1>5, <1>6, <1>7, <1>8, <1>9 DEF Next

LEMMA Answers ==
    ASSUME Answering
    PROVE  \/ toOut' = toOut \/ Grows(toOut, toOut', OutMsgs)
<1>1. /\ [type |-> "accept"] \in OutMsgs /\ [type |-> "done"] \in OutMsgs
      /\ Cancel("declined") \in OutMsgs /\ Cancel("receive failed") \in OutMsgs
  BY MessageTypes DEF OutMsgs
<1>2. \A m \in OutMsgs : EmitOut(m) => toOut' = toOut \/ Grows(toOut, toOut', OutMsgs)
  BY DEF EmitOut, Grows
<1> QED BY <1>1, <1>2
        DEF Answering, TakeOffer, RespondDecide, RefuseChunk, FinishChunk, Refuse

(* Chunks wait for the write loop of a transfer that is listed.            *)
LEMMA ChMoves ==
    ASSUME QueuesTyped, [Next]_vars
    PROVE  \/ recvCh' = recvCh
           \/ WriteLoop /\ Shrinks(recvCh, recvCh')
           \/ /\ TakeChunk /\ known /\ toIn # << >>
              /\ Grows(recvCh, recvCh', Pieces) /\ Len(recvCh) < RecvCap
<1>1. CASE TakeChunk
  <2>1. toIn # << >> /\ Head(toIn).type \in {"chunk", "fin"}
    BY <1>1 DEF TakeChunk, NextIn
  <2>2. Head(toIn) \in Pieces
    BY <2>1, TailOf, MessageTypes DEF QueuesTyped
  <2> QED BY <1>1, <2>1, <2>2 DEF TakeChunk, Grows
<1>2. CASE WriteLoop
  BY <1>2 DEF WriteLoop, IgnoreChunk, RefuseChunk, WriteChunk, FinishChunk, NextChunk, Shrinks
<1>3. CASE TakeOffer \/ TakeCancel \/ Respond
  BY <1>3 DEF TakeOffer, TakeCancel, Respond, RespondLookup, RespondDecide
<1>4. CASE Offer \/ ReadOut \/ Stream \/ Lose \/ Connect
  BY <1>4, OthersKeepRecver DEF recver
<1>5. ASSUME NEW n \in Nodes, Node(n)
      PROVE  recvCh' = recvCh
  BY <1>5, NodesKeepRecver DEF recver
<1>6. CASE UNCHANGED vars
  BY <1>6 DEF vars, recver
<1> QED BY <1>1, <1>2, <1>3, <1>4, <1>5, <1>6 DEF Next, ReadIn

(* The queues keep their types and stay within their capacities.           *)
LEMMA QueuesStep == SenderTyped /\ QueuesTyped /\ [Next]_vars => QueuesTyped'
<1> SUFFICES ASSUME SenderTyped, QueuesTyped, [Next]_vars
             PROVE  QueuesTyped'
  OBVIOUS
<1>0. NetCap \in Nat \ {0} /\ RecvCap \in Nat \ {0}
  BY BoundsAssumption
<1>1. toIn' \in Seq(InMsgs) /\ Len(toIn') <= NetCap
  <2>1. /\ Append(toIn, OfferMsg) \in Seq(InMsgs)
        /\ Len(Append(toIn, OfferMsg)) = Len(toIn) + 1
    BY AppendTo, MessageTypes DEF QueuesTyped
  <2>2. Grows(toIn, toIn', Later) => toIn' \in Seq(InMsgs) /\ Len(toIn') = Len(toIn) + 1
    <3> SUFFICES ASSUME NEW m \in Later, toIn' = Append(toIn, m)
                 PROVE  toIn' \in Seq(InMsgs) /\ Len(toIn') = Len(toIn) + 1
      BY DEF Grows
    <3>1. m \in InMsgs
      BY MessageTypes
    <3> QED BY <3>1, AppendTo DEF QueuesTyped
  <2>3. Shrinks(toIn, toIn') => toIn' \in Seq(InMsgs) /\ Len(toIn') = Len(toIn) - 1
    BY TailOf DEF Shrinks, QueuesTyped
  <2>4. << >> \in Seq(InMsgs) /\ Len(<< >>) = 0 /\ Len(toIn) \in Nat
    BY DEF QueuesTyped
  <2>5. CASE toIn' = toIn
    BY <2>5 DEF QueuesTyped
  <2>6. CASE Shrinks(toIn, toIn')
    BY <1>0, <2>3, <2>4, <2>6 DEF QueuesTyped
  <2>7. CASE toIn' = << >>
    BY <1>0, <2>4, <2>7
  <2>8. CASE Len(toIn) < NetCap /\ (toIn' = Append(toIn, OfferMsg) \/ Grows(toIn, toIn', Later))
    BY <1>0, <2>1, <2>2, <2>4, <2>8
  <2> QED BY <2>5, <2>6, <2>7, <2>8, InMoves
<1>2. toOut' \in Seq(OutMsgs)
  <2>1. Shrinks(toOut, toOut') => toOut' \in Seq(OutMsgs)
    BY TailOf DEF Shrinks, QueuesTyped
  <2>2. Grows(toOut, toOut', OutMsgs) => toOut' \in Seq(OutMsgs)
    BY AppendTo DEF Grows, QueuesTyped
  <2>3. << >> \in Seq(OutMsgs)
    OBVIOUS
  <2> QED BY <2>1, <2>2, <2>3, OutMoves, Answers DEF QueuesTyped
<1>3. recvCh' \in Seq(Pieces) /\ Len(recvCh') <= RecvCap
  <2>1. Shrinks(recvCh, recvCh') => recvCh' \in Seq(Pieces) /\ Len(recvCh') = Len(recvCh) - 1
    BY TailOf DEF Shrinks, QueuesTyped
  <2>2. Grows(recvCh, recvCh', Pieces) => recvCh' \in Seq(Pieces) /\ Len(recvCh') = Len(recvCh) + 1
    BY AppendTo DEF Grows, QueuesTyped
  <2>3. Len(recvCh) \in Nat /\ Len(recvCh) <= RecvCap
    BY DEF QueuesTyped
  <2> QED BY <1>0, <2>1, <2>2, <2>3, ChMoves DEF QueuesTyped
<1> QED BY <1>1, <1>2, <1>3 DEF QueuesTyped

(* Every way a transfer changes.                                           *)
LEMMA TransferMoves ==
    ASSUME RecverTyped, QueuesTyped, [Next]_vars
    PROVE  \/ tr' = tr
           \/ TakeOffer
           \/ /\ RespondDecide /\ tr.state = "pending" /\ tr'.open = tr.open
              /\ Turned("receiving") \/ Turned("declined") \/ Turned("failed")
           \/ TakeCancel /\ known /\ Turned(Ended({"receiving", "pending"})) /\ ~tr'.open
           \/ DetachIn /\ known /\ Turned(Ended({"receiving"})) /\ ~tr'.open
           \/ WriteChunk
           \/ (RefuseChunk \/ FinishChunk) /\ Receiving /\ Turned("failed") /\ ~tr'.open
           \/ /\ FinishChunk /\ Receiving /\ tr.idx = N + 1 /\ clip'
              /\ Turned("done") /\ tr'.open = tr.open
<1>0. tr \in Transfers
  BY DEF RecverTyped
<1>1. CASE ReadIn
  <2>1. TakeChunk \/ (TakeCancel /\ ~known) => tr' = tr
    BY DEF TakeChunk, TakeCancel
  <2> QED BY <1>0, <1>1, <2>1, CancelTurns DEF ReadIn
<1>2. CASE Respond
  <2>1. RespondLookup => tr' = tr
    BY DEF RespondLookup
  <2> QED BY <1>0, <1>2, <2>1, RespondTurns DEF Respond
<1>3. CASE WriteLoop
  <2>1. IgnoreChunk => tr' = tr
    BY DEF IgnoreChunk
  <2>2. RefuseChunk => Receiving /\ Refuse
    BY DEF RefuseChunk
  <2>3. FinishChunk => /\ Receiving
                       /\ Refuse \/ (tr' = [tr EXCEPT !.state = "done"] /\ tr.idx = N + 1 /\ clip')
    BY DEF FinishChunk
  <2> QED BY <1>0, <1>3, <2>1, <2>2, <2>3, RefuseTurns, FinishTurns DEF WriteLoop
<1>4. CASE Offer \/ ReadOut \/ Stream \/ Lose \/ Connect \/ UNCHANGED vars
  BY <1>4, OthersKeepRecver DEF vars, recver
<1>5. ASSUME NEW n \in Nodes, Node(n), tr' # tr
      PROVE  DetachIn /\ known /\ Turned(Ended({"receiving"})) /\ ~tr'.open
  <2>1. DetachIn
    BY <1>5, NodesKeepRecver DEF recver
  <2>2. known
    BY <1>5, <2>1 DEF DetachIn
  <2> QED BY <1>0, <2>1, <2>2, DetachTurns
<1> QED BY <1>1, <1>2, <1>3, <1>4, <1>5 DEF Next

-----------------------------------------------------------------------------
(* The history of a transfer, one named part of the invariant at a time. *)

LEMMA WriteTurns ==
    ASSUME RecverTyped, QueuesTyped, WriteChunk
    PROVE  /\ Receiving /\ tr'.state = tr.state /\ tr' \in Transfers
           /\ recvCh # << >> /\ UNCHANGED <<known, clip, toIn, toOut, strm>>
           /\ IF tr.off + 1 = Declared[tr.idx]
              THEN tr'.idx = tr.idx + 1 /\ tr'.off = 0 /\ ~tr'.open
              ELSE tr'.idx = tr.idx /\ tr'.off = tr.off + 1 /\ tr'.open
<1>1. tr.idx \in Files /\ tr.off < Declared[tr.idx] /\ tr \in Transfers
  BY WriteMoves DEF RecverTyped
<1>2. tr.idx <= N
  BY <1>1, Sizes DEF Files
<1>3. /\ Receiving /\ tr' = Advanced /\ recvCh # << >>
      /\ UNCHANGED <<known, clip, toIn, toOut, strm>>
  BY DEF WriteChunk, NextChunk, sender
<1> QED BY <1>1, <1>2, <1>3, AdvancedTyped

(* An offer is taken from the network by a manager that has no transfer.   *)
LEMMA OfferTaken ==
    ASSUME QueuesTyped, OfferOnce, TakeOffer
    PROVE  /\ tr.state = "none" /\ tr' \in Transfers /\ known'
           /\ tr'.idx = 1 /\ tr'.off = 0 /\ ~tr'.open
           /\ UNCHANGED <<sender, recvCh, disk, clip>>
           /\ \/ tr'.state = "receiving" /\ EmitOut([type |-> "accept"])
              \/ tr'.state = "pending" /\ UNCHANGED toOut
<1>1. toIn # << >> /\ Head(toIn).type = "offer" /\ UNCHANGED <<sender, recvCh, disk, clip>> /\ known'
  BY DEF TakeOffer, NextIn
<1>2. 1 \in DOMAIN toIn /\ toIn[1].type = "offer"
  BY <1>1, TailOf DEF QueuesTyped
<1>3. \/ tr' = [NoTr EXCEPT !.state = "receiving"] /\ EmitOut([type |-> "accept"])
      \/ tr' = [NoTr EXCEPT !.state = "pending"] /\ UNCHANGED toOut
  BY DEF TakeOffer
<1>4. "receiving" \in InStates /\ "pending" \in InStates
  BY DEF InStates
<1> QED BY <1>1, <1>2, <1>3, <1>4, CreatedTyped DEF OfferOnce

LEMMA QuietStep ==
    ASSUME Typed, Quiet, OfferOnce, [Next]_vars
    PROVE  Quiet'
<1> SUFFICES ASSUME tr'.state \in {"none", "pending"}
             PROVE  /\ tr'.idx = 1 /\ tr'.off = 0 /\ ~tr'.open
                    /\ toOut' = << >> /\ recvCh' = << >> /\ strm'.pc = "none" /\ ~clip'
                    /\ toIn' = << >> \/ (tr'.state = "none" /\ toIn' = <<OfferMsg>>)
  BY DEF Quiet
<1> USE DEF Typed
<1>1. \/ tr' = tr
      \/ TakeOffer /\ tr'.state = "pending"
      \/ /\ tr.state = tr'.state /\ ~tr'.open
         /\ tr'.idx = tr.idx /\ tr'.off = tr.off
         /\ TakeCancel \/ DetachIn
  BY TransferMoves, WriteTurns, OfferTaken DEF Turned, Ended, Receiving
<1>2. tr.state \in {"none", "pending"} /\ (tr' = tr \/ tr.state = tr'.state \/ tr.state = "none")
  BY <1>1, OfferTaken
<1>3. /\ tr.idx = 1 /\ tr.off = 0 /\ ~tr.open
      /\ toOut = << >> /\ recvCh = << >> /\ strm.pc = "none" /\ ~clip
      /\ toIn = << >> \/ (tr.state = "none" /\ toIn = <<OfferMsg>>)
  BY <1>2 DEF Quiet
<1>4. tr'.idx = 1 /\ tr'.off = 0 /\ ~tr'.open
  BY <1>1, <1>3, OfferTaken
<1>5. ~WriteLoop /\ ~ReadOut
  BY <1>3 DEF WriteLoop, IgnoreChunk, RefuseChunk, WriteChunk, FinishChunk, NextChunk,
              ReadOut, AcceptMsg, CancelMsg, DoneMsg, NextOut
<1>6. recvCh' = << >>
  <2>1. ~TakeChunk
    <3>1. toIn = <<OfferMsg>> => Head(toIn).type = "offer"
      BY DEF OfferMsg
    <3> QED BY <1>3, <3>1 DEF TakeChunk, NextIn
  <2> QED BY <1>3, <1>5, <2>1, ChMoves
<1>7. toOut' = << >>
  <2>1. TakeOffer => toOut' = toOut
    BY OfferTaken, <1>1
  <2>2. RespondDecide => toOut' = toOut
    BY <1>2, RespondTurns DEF RecverTyped, Turned
  <2> QED BY <1>3, <1>5, <2>1, <2>2, OutMoves DEF Answering, WriteLoop
<1>8. strm'.pc = "none" /\ (~Offer => offered' = offered \/ offered' = "gone")
  <2>1. ~Stream
    BY <1>3 DEF Stream, StreamFile, StreamRead, StreamSend, StreamFin, StreamTell, StreamAt
  <2>2. ReadIn \/ Respond \/ Lose \/ Connect => UNCHANGED sender
    BY OthersKeepSender
  <2> QED BY <1>3, <1>5, <2>1, <2>2, NodesKeepSender DEF Next, Offer, DetachOut, vars, sender
<1>9. ~clip'
  <2>1. ReadIn \/ Respond => clip' = clip
    BY DEF ReadIn, TakeOffer, TakeChunk, TakeCancel, Respond, RespondLookup, RespondDecide
  <2>2. UNCHANGED recver \/ DetachIn => clip' = clip
    BY DEF recver, DetachIn
  <2> QED BY <1>3, <1>5, <2>1, <2>2, OthersKeepRecver, NodesKeepRecver DEF Next, vars
<1>10. toIn' = << >> \/ (tr'.state = "none" /\ toIn' = <<OfferMsg>>)
  <2>1. toIn' = << >> \/ toIn' = toIn \/ (Offer /\ toIn' = Append(toIn, OfferMsg))
    <3>1. Shrinks(toIn, toIn') => toIn' = << >>
      BY <1>3 DEF Shrinks
    <3>2. ~(Stream /\ strm.pc # "none") /\ ~(AcceptMsg /\ toOut # << >>)
      BY <1>3
    <3> QED BY <3>1, <3>2, InMoves
  <2>2. Offer => tr.state = "none" /\ toIn = << >> /\ tr' = tr
    BY OthersKeepRecver DEF Offer, OfferOnce, recver
  <2>3. Append(<< >>, OfferMsg) = <<OfferMsg>>
    OBVIOUS
  <2>4. TakeOffer => toIn' = << >>
    BY <1>3 DEF TakeOffer, NextIn
  <2>5. tr'.state # tr.state => TakeOffer
    BY <1>1
  <2> QED BY <1>3, <2>1, <2>2, <2>3, <2>4, <2>5
<1> QED BY <1>4, <1>6, <1>7, <1>8, <1>9, <1>10

(* What is written to disk, to the clipboard and to the list of transfers. *)
LEMMA DiskMoves ==
    ASSUME [Next]_vars
    PROVE  disk' = disk \/ WriteChunk
<1>1. ReadIn \/ Respond => disk' = disk
  BY DEF ReadIn, TakeOffer, TakeChunk, TakeCancel, Respond, RespondLookup, RespondDecide
<1>2. WriteLoop => disk' = disk \/ WriteChunk
  BY DEF WriteLoop, IgnoreChunk, RefuseChunk, FinishChunk
<1>3. UNCHANGED recver \/ DetachIn => disk' = disk
  BY DEF recver, DetachIn
<1> QED BY <1>1, <1>2, <1>3, OthersKeepRecver, NodesKeepRecver DEF Next, vars

LEMMA ClipMoves ==
    ASSUME [Next]_vars
    PROVE  clip' = clip \/ (FinishChunk /\ clip' = TRUE /\ tr' = [tr EXCEPT !.state = "done"])
<1>1. ReadIn \/ Respond => clip' = clip
  BY DEF ReadIn, TakeOffer, TakeChunk, TakeCancel, Respond, RespondLookup, RespondDecide
<1>2. IgnoreChunk \/ RefuseChunk \/ WriteChunk => clip' = clip
  BY DEF IgnoreChunk, RefuseChunk, WriteChunk
<1>3. FinishChunk => clip' = clip \/ (clip' = TRUE /\ tr' = [tr EXCEPT !.state = "done"])
  BY DEF FinishChunk
<1>4. UNCHANGED recver \/ DetachIn => clip' = clip
  BY DEF recver, DetachIn
<1> QED BY <1>1, <1>2, <1>3, <1>4, OthersKeepRecver, NodesKeepRecver DEF Next, WriteLoop, vars

LEMMA KnownMoves ==
    ASSUME [Next]_vars
    PROVE  known' = known \/ TakeOffer \/ DetachIn
<1>1. TakeChunk \/ TakeCancel \/ Respond => known' = known
  BY DEF TakeChunk, TakeCancel, Respond, RespondLookup, RespondDecide
<1>2. WriteLoop => known' = known
  BY DEF WriteLoop, IgnoreChunk, RefuseChunk, WriteChunk, FinishChunk, NextChunk
<1>3. UNCHANGED recver => known' = known
  BY DEF recver
<1> QED BY <1>1, <1>2, <1>3, OthersKeepRecver, NodesKeepRecver DEF Next, ReadIn, vars

(* A transfer is made by an offer and by nothing else, and stays made.     *)
LEMMA MadeOnce ==
    ASSUME Typed, OfferOnce, [Next]_vars
    PROVE  /\ tr'.state = "none" => tr.state = "none" /\ ~known'
           /\ tr.state = "none" => TakeOffer \/ tr' = tr
<1> USE DEF Typed
<1>1. /\ tr'.state = "none" => tr.state = "none" /\ ~TakeOffer
      /\ tr.state = "none" => TakeOffer \/ tr' = tr
  <2>1. TakeOffer => tr'.state # "none"
    BY OfferTaken
  <2>2. TakeCancel /\ Turned(Ended({"receiving", "pending"})) /\ known => tr.state # "none"
    BY DEF OfferOnce
  <2> QED BY <2>1, <2>2, TransferMoves, WriteTurns DEF Turned, Ended, Receiving, OfferOnce
<1>2. DetachIn => known' = FALSE
  BY DEF DetachIn
<1> QED BY <1>1, <1>2, KnownMoves DEF OfferOnce

LEMMA OfferOnceStep ==
    ASSUME Typed, Quiet, OfferOnce, [Next]_vars
    PROVE  OfferOnce'
<1> USE DEF Typed
<1>1. ASSUME offered' = "no"
      PROVE  tr'.state = "none" /\ toIn' = << >>
  <2>1. offered = "no" /\ ~Offer
    <3>1. Offer => offered' = "yes"
      BY DEF Offer
    <3>2. ReadOut => offered' = offered
      BY DEF ReadOut, AcceptMsg, CancelMsg, DoneMsg
    <3>3. Stream => offered' = offered
      BY DEF Stream, StreamFile, StreamRead, StreamSend, StreamFin, StreamTell, StreamRest
    <3>4. DetachOut => offered' = IF offered = "yes" THEN "gone" ELSE offered
      BY DEF DetachOut
    <3> QED BY <1>1, <3>1, <3>2, <3>3, <3>4, OthersKeepSender, NodesKeepSender
            DEF Next, sender, vars
  <2>2. tr.state = "none" /\ toIn = << >> /\ toOut = << >> /\ strm.pc = "none"
    BY <2>1 DEF OfferOnce, Quiet
  <2>3. ~ReadIn
    BY <2>2 DEF ReadIn, TakeOffer, TakeChunk, TakeCancel, NextIn
  <2> QED BY <2>1, <2>2, <2>3, InMoves, MadeOnce DEF ReadIn
<1>2. ASSUME tr'.state # "none"
      PROVE  \A k \in DOMAIN toIn' : toIn'[k].type # "offer"
  <2>1. CASE tr.state = "none"
    <3>1. TakeOffer
      BY <1>2, <2>1, MadeOnce
    <3>2. toIn # << >> /\ toIn' = Tail(toIn)
      BY <3>1 DEF TakeOffer, NextIn
    <3>3. toIn = <<OfferMsg>>
      BY <2>1, <3>2 DEF Quiet
    <3>4. toIn' = << >>
      BY <3>2, <3>3
    <3> QED BY <3>4
  <2>2. CASE tr.state # "none"
    <3>1. \A k \in DOMAIN toIn : toIn[k].type # "offer"
      BY <2>2 DEF OfferOnce
    <3>2. ~Offer
      BY <2>2 DEF Offer, OfferOnce
    <3>3. Later \in SUBSET InMsgs /\ \A m \in Later : m.type # "offer"
      BY MessageTypes
    <3>4. Grows(toIn, toIn', Later) \/ Shrinks(toIn, toIn') \/ toIn' = toIn \/ toIn' = << >>
      BY <3>2, InMoves
    <3>5. \A k \in DOMAIN toIn' :
            (\E j \in DOMAIN toIn : toIn'[k] = toIn[j]) \/ toIn'[k] \in Later
      <4>1. CASE Grows(toIn, toIn', Later)
        BY <3>3, <4>1, AppendTo DEF Grows, QueuesTyped
      <4>2. CASE Shrinks(toIn, toIn')
        BY <4>2, TailOf DEF Shrinks, QueuesTyped
      <4> QED BY <3>4, <4>1, <4>2
    <3> QED BY <3>1, <3>3, <3>5
  <2> QED BY <2>1, <2>2
<1> QED BY <1>1, <1>2, MadeOnce DEF OfferOnce

(* How much the receiver has told the sender.                              *)
LEMMA FewAnswersStep ==
    ASSUME Typed, OfferOnce, FewAnswers, Quiet, [Next]_vars
    PROVE  FewAnswers'
<1> USE DEF Typed
<1>0. Len(toOut) \in Nat /\ toOut \in Seq(OutMsgs)
  BY DEF QueuesTyped
<1>1. CASE ~Answering
  <2>1. Len(toOut') <= Len(toOut)
    BY <1>0, <1>1, OutMoves, TailOf DEF Shrinks
  <2>2. Sent(tr.state) <= Sent(tr'.state)
    BY <1>1, TransferMoves, WriteTurns
       DEF Turned, Ended, Sent, Answering, Receiving, RecverTyped, Transfers, InStates
  <2>3. Len(toOut') \in Nat
    BY QueuesStep DEF QueuesTyped
  <2>4. Sent(tr.state) \in Nat /\ Sent(tr'.state) \in Nat
    BY DEF Sent
  <2> QED BY <1>0, <2>1, <2>2, <2>3, <2>4 DEF FewAnswers
<1>2. ASSUME NEW m \in OutMsgs, EmitOut(m)
      PROVE  Len(toOut') <= Len(toOut) + 1
  BY <1>0, <1>2, AppendTo DEF EmitOut
<1>3. /\ [type |-> "accept"] \in OutMsgs /\ [type |-> "done"] \in OutMsgs
      /\ Cancel("declined") \in OutMsgs /\ Cancel("receive failed") \in OutMsgs
  BY MessageTypes DEF OutMsgs
<1>4. CASE TakeOffer
  <2>1. tr.state = "none" /\ Len(toOut) = 0
    BY <1>4, OfferTaken DEF Quiet
  <2>2. \/ tr'.state = "receiving" /\ Len(toOut') <= 1
        \/ tr'.state = "pending" /\ toOut' = toOut
    <3>1. \/ tr'.state = "receiving" /\ EmitOut([type |-> "accept"])
          \/ tr'.state = "pending" /\ toOut' = toOut
      BY <1>4, OfferTaken
    <3>2. EmitOut([type |-> "accept"]) => Len(toOut') <= Len(toOut) + 1
      BY <1>2, <1>3
    <3> QED BY <2>1, <3>1, <3>2
  <2> QED BY <1>0, <2>1, <2>2 DEF FewAnswers, Sent
<1>5. CASE RespondDecide
  <2>1. \/ UNCHANGED <<tr, toOut>>
        \/ tr.state = "pending" /\ tr'.state = "failed" /\ toOut' = toOut
        \/ /\ tr.state = "pending" /\ tr'.state \in {"receiving", "declined"}
           /\ Len(toOut') <= Len(toOut) + 1
    BY <1>2, <1>3, <1>5, RespondTurns DEF RecverTyped, Turned
  <2> QED BY <1>0, <2>1 DEF FewAnswers, Sent, Quiet
<1>6. CASE RefuseChunk \/ FinishChunk
  <2>1. Len(toOut') <= Len(toOut) + 1
    BY <1>2, <1>3, <1>6 DEF RefuseChunk, FinishChunk, Refuse
  <2>2. Receiving /\ tr'.state \in {"failed", "done"}
    <3>1. Receiving /\ (Refuse \/ tr' = [tr EXCEPT !.state = "done"])
      BY <1>6 DEF RefuseChunk, FinishChunk
    <3> QED BY <3>1, RefuseTurns, FinishTurns DEF RecverTyped, Turned
  <2> QED BY <1>0, <2>1, <2>2 DEF FewAnswers, Sent, Receiving
<1> QED BY <1>1, <1>4, <1>5, <1>6 DEF Answering

LEMMA AbandonedStep ==
    ASSUME Typed, OfferOnce, Quiet, Abandoned, [Next]_vars
    PROVE  Abandoned'
<1> SUFFICES ASSUME tr'.state = "receiving", ~known'
             PROVE  recvCh' = << >>
  BY DEF Abandoned, Receiving
<1> USE DEF Typed
<1>1. ~TakeOffer /\ ~(DetachIn /\ known)
  BY OfferTaken, DetachTurns DEF RecverTyped, Turned, Ended
<1>2. ~known
  BY <1>1, KnownMoves
<1>3. CASE Receiving
  BY <1>2, <1>3, ChMoves DEF Abandoned, Shrinks
<1>4. CASE ~Receiving
  <2>1. RespondDecide /\ tr.state = "pending"
    BY <1>1, <1>2, <1>4, TransferMoves, WriteTurns DEF Receiving, Turned
  <2> QED BY <2>1 DEF RespondDecide, Quiet
<1> QED BY <1>3, <1>4

LEMMA NoLeakedFileStep ==
    ASSUME Typed, OfferOnce, Abandoned, Landed, NoLeakedFile, [Next]_vars
    PROVE  NoLeakedFile'
<1> SUFFICES ASSUME tr'.open
             PROVE  known' /\ tr'.state = "receiving"
  BY DEF NoLeakedFile, Receiving
<1> USE DEF Typed
<1>1. CASE WriteChunk
  BY <1>1, WriteTurns DEF Receiving, Abandoned
<1>2. CASE ~WriteChunk
  <2>1. ~(DetachIn /\ known)
    BY DetachTurns DEF RecverTyped
  <2>2. tr.open => tr.idx # N + 1
    BY Sizes DEF Landed, RecverTyped, Transfers
  <2>3. tr' = tr
    BY <1>2, <2>1, <2>2, TransferMoves, OfferTaken DEF NoLeakedFile, Receiving
  <2> QED BY <2>1, <2>3, KnownMoves, OfferTaken DEF NoLeakedFile, Receiving
<1> QED BY <1>1, <1>2

LEMMA SeqEqual ==
    ASSUME NEW S, NEW p \in Seq(S), NEW q \in Seq(S), Len(p) = Len(q),
           \A k \in 1 .. Len(p) : p[k] = q[k]
    PROVE  p = q
OBVIOUS

(* One block more at the end of a file that is whole so far.               *)
LEMMA WholeAppend ==
    ASSUME NEW n \in Nat
    PROVE  Append(Whole(n), n) = Whole(n + 1) /\ Whole(n) \in Seq(Nat)
<1>1. Whole(n) \in Seq(Nat) /\ Len(Whole(n)) = n
  BY DEF Whole
<1>2. Append(Whole(n), n) \in Seq(Nat) /\ Len(Append(Whole(n), n)) = n + 1
  BY <1>1
<1>3. \A k \in 1 .. n + 1 : Append(Whole(n), n)[k] = k - 1
  BY <1>1 DEF Whole
<1>4. Whole(n + 1) \in Seq(Nat) /\ Len(Whole(n + 1)) = n + 1
  BY DEF Whole
<1>5. \A k \in 1 .. n + 1 : Whole(n + 1)[k] = k - 1
  BY DEF Whole
<1> QED BY <1>1, <1>2, <1>3, <1>4, <1>5, SeqEqual

LEMMA LandedStep ==
    ASSUME Typed, OfferOnce, Quiet, Landed, [Next]_vars
    PROVE  Landed'
<1> USE DEF Typed
<1>0. /\ N \in Nat /\ Declared \in [Files -> Nat] /\ tr.idx \in 1 .. N + 1 /\ tr.off \in Nat
      /\ disk \in [Files -> Seq(Nat)]
  BY Sizes DEF RecverTyped, Transfers
<1>1. CASE TakeOffer
  <2>1. tr'.idx = 1 /\ tr'.off = 0 /\ ~tr'.open
    BY <1>1, OfferTaken
  <2> QED BY <1>0, <2>1 DEF Landed, Receiving, Files
<1>2. CASE WriteChunk
  <2>1. /\ tr.idx \in Files /\ tr.off < Declared[tr.idx]
        /\ disk' = [disk EXCEPT ![tr.idx] =
                      Append(IF tr.open THEN disk[tr.idx] ELSE << >>, tr.off)]
    BY <1>2, WriteMoves
  <2>2. /\ Receiving
        /\ IF tr.off + 1 = Declared[tr.idx]
           THEN tr'.idx = tr.idx + 1 /\ tr'.off = 0 /\ ~tr'.open
           ELSE tr'.idx = tr.idx /\ tr'.off = tr.off + 1 /\ tr'.open
    BY <1>2, WriteTurns
  <2>3. disk'[tr.idx] = Whole(tr.off + 1)
    <3>1. CASE tr.open
      BY <1>0, <2>1, <3>1, WholeAppend DEF Landed
    <3>2. CASE ~tr.open
      <4>1. tr.off = 0 /\ disk'[tr.idx] = Append(<< >>, 0)
        BY <1>0, <2>1, <2>2, <3>2 DEF Landed
      <4>2. << >> = Whole(0)
        BY DEF Whole
      <4>3. 0 \in Nat /\ 0 + 1 = 1
        OBVIOUS
      <4>4. Append(Whole(0), 0) = Whole(0 + 1)
        BY <4>3, WholeAppend
      <4> QED BY <4>1, <4>2, <4>3, <4>4
    <3> QED BY <3>1, <3>2
  <2>4. \A i \in Files : i < tr.idx => disk'[i] = Whole(Declared[i])
    BY <1>0, <2>1 DEF Landed, Files
  <2>5. tr.idx <= N
    BY <1>0, <2>1 DEF Files
  <2>6. CASE tr.off + 1 = Declared[tr.idx]
    <3>1. tr'.idx = tr.idx + 1 /\ tr'.off = 0 /\ ~tr'.open
      BY <2>2, <2>6
    <3>2. \A i \in Files : i < tr'.idx => i < tr.idx \/ i = tr.idx
      BY <1>0, <3>1 DEF Files
    <3> QED BY <2>3, <2>4, <2>6, <3>1, <3>2 DEF Landed
  <2>7. CASE tr.off + 1 # Declared[tr.idx]
    BY <2>2, <2>3, <2>4, <2>5, <2>7 DEF Landed
  <2> QED BY <2>6, <2>7
<1>3. CASE ~TakeOffer /\ ~WriteChunk
  <2>1. disk' = disk /\ tr'.idx = tr.idx /\ tr'.off = tr.off
    BY <1>3, DiskMoves, TransferMoves DEF Turned
  <2>2. /\ tr'.open => tr.open
        /\ Receiving' /\ ~tr'.open => tr.off = 0
    BY <1>3, TransferMoves DEF Turned, Ended, Receiving, Landed, Quiet
  <2> QED BY <2>1, <2>2 DEF Landed
<1> QED BY <1>1, <1>2, <1>3

LEMMA FinishedStep ==
    ASSUME Typed, OfferOnce, Quiet, Finished, [Next]_vars
    PROVE  Finished'
<1> USE DEF Typed
<1>1. clip' => tr'.state = "done" /\ tr'.idx = N + 1
  <2>1. CASE clip
    <3>1. tr.state = "done" /\ tr.idx = N + 1
      BY <2>1 DEF Finished
    <3> QED BY <3>1, TransferMoves, OfferTaken, WriteTurns DEF Turned, Ended, Receiving
  <2>2. CASE ~clip /\ clip'
    <3>1. FinishChunk /\ tr' = [tr EXCEPT !.state = "done"]
      BY <2>2, ClipMoves
    <3>2. tr'.state = "done" /\ tr'.idx = tr.idx
      BY <3>1, FinishTurns DEF RecverTyped, Turned
    <3>3. ~Refuse
      BY <3>2, RefuseTurns DEF RecverTyped, Turned
    <3> QED BY <3>1, <3>2, <3>3 DEF FinishChunk
  <2> QED BY <2>1, <2>2
<1>2. clip => clip'
  BY ClipMoves
<1>3. ASSUME NEW m \in OutMsgs, m.type # "done", EmitOut(m)
      PROVE  \A k \in DOMAIN toOut' : toOut'[k].type = "done" => clip
  BY <1>3, AppendTo DEF EmitOut, Finished, QueuesTyped
<1>4. /\ [type |-> "accept"] \in OutMsgs /\ Cancel("declined") \in OutMsgs
      /\ Cancel("receive failed") \in OutMsgs
      /\ Cancel("declined").type # "done" /\ Cancel("receive failed").type # "done"
  BY MessageTypes DEF OutMsgs, Cancel
<1>5. \A k \in DOMAIN toOut' : toOut'[k].type = "done" => clip'
  <2>1. CASE toOut' = toOut \/ toOut' = << >> \/ Shrinks(toOut, toOut')
    <3>1. CASE toOut' = toOut \/ toOut' = << >>
      BY <1>2, <3>1 DEF Finished
    <3>2. CASE Shrinks(toOut, toOut')
      BY <1>2, <3>2, TailOf DEF Finished, Shrinks, QueuesTyped
    <3> QED BY <2>1, <3>1, <3>2
  <2>2. CASE TakeOffer
    <3>1. toOut' = toOut \/ EmitOut([type |-> "accept"])
      BY <2>2, OfferTaken
    <3> QED BY <1>2, <1>3, <1>4, <2>1, <3>1
  <2>3. CASE RespondDecide
    <3>1. toOut' = toOut \/ EmitOut([type |-> "accept"]) \/ EmitOut(Cancel("declined"))
      BY <2>3 DEF RespondDecide
    <3> QED BY <1>2, <1>3, <1>4, <2>1, <3>1
  <2>4. CASE RefuseChunk \/ FinishChunk
    <3>1. Refuse \/ clip'
      BY <2>4 DEF RefuseChunk, FinishChunk
    <3> QED BY <1>2, <1>3, <1>4, <3>1 DEF Refuse
  <2> QED BY <2>1, <2>2, <2>3, <2>4, OutMoves DEF Answering
<1> QED BY <1>1, <1>5 DEF Finished

LEMMA DoneMeansDeliveredStep ==
    ASSUME Typed, Finished, DoneMeansDelivered, [Next]_vars
    PROVE  DoneMeansDelivered'
<1> USE DEF Typed
<1>1. clip => clip'
  BY ClipMoves
<1>2. peer'.state = "done" => peer.state = "done" \/ DoneMsg
  <2>1. peer \in [state : PeerStates, cancel : BOOLEAN]
    BY DEF SenderTyped
  <2>2. AcceptMsg => peer'.state # "done" \/ peer' = peer
    <3>1. AcceptMsg => peer' = peer \/ peer' = [state |-> "sending", cancel |-> FALSE]
      BY DEF AcceptMsg
    <3> QED BY <3>1
  <2>3. CancelMsg => peer'.state # "done" \/ peer'.state = peer.state
    BY DEF CancelMsg
  <2>4. MarkPeer("canceled") \/ MarkPeer("failed") => peer' = peer \/ peer'.state # "done"
    BY <2>1 DEF MarkPeer
  <2>5. Stream => peer' = peer \/ MarkPeer("canceled") \/ MarkPeer("failed")
    BY DEF Stream, StreamFile, StreamRead, StreamSend, StreamFin, StreamTell,
           StreamQuits, StreamFails
  <2>6. DetachOut => peer' = peer \/ peer'.state # "done" \/ peer'.state = peer.state
    BY DEF DetachOut
  <2>7. Offer => peer' = peer
    BY DEF Offer
  <2> QED BY <2>2, <2>3, <2>4, <2>5, <2>6, <2>7, OthersKeepSender, NodesKeepSender
          DEF Next, ReadOut, sender, vars
<1>3. DoneMsg => clip
  <2>1. DoneMsg => toOut # << >> /\ Head(toOut).type = "done"
    BY DEF DoneMsg, NextOut
  <2> QED BY <2>1, TailOf DEF QueuesTyped, Finished
<1> QED BY <1>1, <1>2, <1>3 DEF DoneMeansDelivered

-----------------------------------------------------------------------------
LEMMA InitInv == Init => IInv
<1> SUFFICES ASSUME Init
             PROVE  IInv
  OBVIOUS
<1> USE NodesAssumption, BoundsAssumption, FilesAssumption, Sizes DEF Init
<1>1. NodesTyped
  BY DEF NodesTyped
<1>2. 1 \in 1 .. N + 1 /\ (1 <= N => 1 \in Files)
  BY DEF Files
<1>3. SenderTyped
  BY <1>2 DEF SenderTyped, NoPeer, PeerStates
<1>4. tr \in Transfers /\ tr.state = "none" /\ tr.idx = 1 /\ tr.off = 0 /\ ~tr.open
  BY <1>2 DEF Transfers, NoTr, InStates
<1>5. RecverTyped
  <2>1. disk \in [Files -> Seq(Nat)]
    OBVIOUS
  <2>2. tr.idx <= N => tr.off <= Declared[tr.idx]
    <3>1. 1 <= N => Declared[1] \in Nat
      BY <1>2
    <3> QED BY <1>4, <3>1
  <2>3. known \in BOOLEAN /\ clip \in BOOLEAN
    OBVIOUS
  <2> HIDE DEF Init
  <2> QED BY <1>4, <2>1, <2>2, <2>3 DEF RecverTyped
<1>6. QueuesTyped
  BY DEF QueuesTyped
<1>7. Quiet /\ OfferOnce /\ FewAnswers /\ Abandoned /\ NoLeakedFile
  BY <1>4 DEF Quiet, OfferOnce, FewAnswers, Sent, Abandoned, NoLeakedFile, Receiving
<1>8. Landed /\ Finished
  BY <1>4 DEF Landed, Finished, Receiving, Files
<1>9. DoneMeansDelivered
  BY DEF DoneMeansDelivered, NoPeer
<1> QED BY <1>1, <1>3, <1>5, <1>6, <1>7, <1>8, <1>9 DEF IInv, Typed

LEMMA NextInv == IInv /\ [Next]_vars => IInv'
BY NodesStep, SenderStep, RecverStep, QueuesStep, QuietStep, OfferOnceStep, FewAnswersStep,
   AbandonedStep, NoLeakedFileStep, LandedStep, FinishedStep, DoneMeansDeliveredStep
   DEF IInv, Typed

(* The inductive invariant of a transfer, from the offer to its end.       *)
THEOREM TransferInv == Spec => []IInv
BY InitInv, NextInv, PTL DEF Spec

(* Type correctness, with the stream and the transfer inside their files   *)
(* and every queue inside its capacity: the receiver never has more than   *)
(* two answers under way.                                                  *)
THEOREM TransferTypeOK == Spec => []TypeOK
<1>1. IInv => TypeOK
  <2> SUFFICES ASSUME IInv
               PROVE  TypeOK
    OBVIOUS
  <2> USE DEF IInv, Typed
  <2>1. Len(toOut) <= 2
    <3>1. Len(toOut) \in Nat
      BY DEF QueuesTyped
    <3> QED BY <3>1 DEF FewAnswers, Sent
  <2>2. /\ peer.state \in PeerStates /\ strm.idx \in 1 .. N + 1 /\ strm.off \in Nat
        /\ strm.pc \in {"none", "file", "read", "send", "fin", "tell", "end"}
    BY DEF SenderTyped
  <2>3. /\ tr.state \in InStates /\ tr.idx \in 1 .. N + 1 /\ tr.off \in Nat
    BY DEF RecverTyped, Transfers
  <2>4. strm.idx <= N => strm.off \in 0 .. actual[strm.idx]
    <3>1. strm.idx <= N => actual[strm.idx] \in Nat
      BY <2>2, FilesAssumption, Sizes DEF SenderTyped, Files
    <3> QED BY <2>2, <3>1 DEF SenderTyped
  <2>5. tr.idx <= N => tr.off \in 0 .. Declared[tr.idx]
    <3>1. tr.idx <= N => Declared[tr.idx] \in Nat
      BY <2>3, Sizes DEF Files
    <3> QED BY <2>3, <3>1 DEF RecverTyped
  <2> QED BY <2>1, <2>2, <2>3, <2>4, <2>5
          DEF TypeOK, NodesTyped, SenderTyped, RecverTyped, QueuesTyped
<1> QED BY <1>1, TransferInv, PTL

(* When the clipboard points at the files, each of them is whole.          *)
THEOREM TransferFilesIntact == Spec => []FilesIntact
<1>1. IInv => FilesIntact
  <2> SUFFICES ASSUME IInv, clip, NEW i \in Files
               PROVE  disk[i] = Whole(Declared[i])
    BY DEF FilesIntact
  <2>1. tr.idx = N + 1 /\ i < tr.idx
    BY Sizes DEF IInv, Finished, Files
  <2> QED BY <2>1 DEF IInv, Landed
<1> QED BY <1>1, TransferInv, PTL

(* The sender shows "done" only for files that have arrived.               *)
THEOREM TransferDoneMeansDelivered == Spec => []DoneMeansDelivered
<1>1. IInv => DoneMeansDelivered
  BY DEF IInv
<1> QED BY <1>1, TransferInv, PTL

(* No staged file stays open after its transfer.                           *)
THEOREM TransferNoLeakedFile == Spec => []NoLeakedFile
<1>1. IInv => NoLeakedFile
  BY DEF IInv
<1> QED BY <1>1, TransferInv, PTL

(* A transfer that has ended stays ended and writes nothing more.          *)
THEOREM TransferAbortIsFinal == Spec => AbortIsFinal
<1>1. IInv /\ [Next]_vars =>
        [tr.state \in {"declined", "failed", "canceled", "done"} =>
            disk' = disk /\ tr'.state = tr.state]_vars
  <2> SUFFICES ASSUME IInv, [Next]_vars, tr.state \in {"declined", "failed", "canceled", "done"}
               PROVE  disk' = disk /\ tr'.state = tr.state
    OBVIOUS
  <2> USE DEF IInv, Typed
  <2>1. ~WriteChunk /\ ~TakeOffer
    BY OfferTaken DEF WriteChunk, Receiving
  <2> QED BY <2>1, DiskMoves, TransferMoves DEF Turned, Ended, Receiving
<1> QED BY <1>1, TransferInv, PTL DEF Spec, AbortIsFinal
=============================================================================
