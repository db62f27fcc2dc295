----------------------------- MODULE MCOsWin32 -----------------------------
(* OsWin32 for TLC: a table with two entries besides the standard ones, and  *)
(* two requests, so that an entry is used again while a request is open.     *)
EXTENDS OsWin32

MCRequests == {"r1", "r2"}
=============================================================================
