------------------------------ MODULE MCOsAsync ------------------------------
(* OsAsync for TLC: two descriptors, a table that holds one of them at first *)
(* and is grown for the other.                                              *)
EXTENDS OsAsync
=============================================================================
