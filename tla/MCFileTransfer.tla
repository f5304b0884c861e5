--------------------------- MODULE MCFileTransfer ---------------------------
(***************************************************************************)
(* Small instances of FileTransfer: two files of two and one chunks, whose *)
(* sources may have shrunk or grown by one chunk when they are read, and   *)
(* a pair of files of which the first is empty.                            *)
(***************************************************************************)
EXTENDS FileTransfer

TwoFiles   == <<2, 1>>
Changing   == {<<2, 1>>, <<1, 1>>, <<3, 1>>, <<2, 0>>}
EmptyFirst == <<0, 1>>
AsOffered  == {<<0, 1>>}
Stable     == {<<2, 1>>}

(* Either node may run the session server, or a third one relays. *)
AnyRoles == {{"out"}, {"in"}, {"out", "in"}}
Relayed  == {{"out", "in"}}
=============================================================================
