---------------------------- MODULE MCFcgxReader ----------------------------
(* FcgxReader for TLC.  Headers and bodies of 2 bytes can be cut like those  *)
(* of 8 can; a pair of 2 bytes sent in records of 1 and 3 is cut by the      *)
(* records too.  The extra records are all that a web server sends which     *)
(* multiplexes a connection, asks for values and speaks a later version of   *)
(* the protocol; with MCPads and ServerAbort every oddity comes up.          *)
EXTENDS FcgxReader

MCIds == {1}
MCShapes == {<<1, 2>>, <<3, 0>>}
MCPads == {0, 1}
MCExtras == {[type |-> "values", id |-> 0, len |-> 2, pad |-> 1],
             [type |-> "unknown", id |-> 0, len |-> 0, pad |-> 0],
             [type |-> "unknown", id |-> 0, len |-> 2, pad |-> 0],
             [type |-> "begin", id |-> 2, len |-> 2, pad |-> 0],
             [type |-> "stdin", id |-> 2, len |-> 1, pad |-> 0],
             [type |-> "stdin", id |-> 2, len |-> 0, pad |-> 0]}
MCReads == {1, 4}

Plain == {<<2, 0>>}
NoPads == {0}
NoExtras == {}
=============================================================================
