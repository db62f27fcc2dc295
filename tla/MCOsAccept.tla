----------------------------- MODULE MCOsAccept -----------------------------
(* OsAccept for TLC: a TCP listener whose workers need no lock, an AF_UNIX   *)
(* one whose workers do, a program that wants accept() to fail when it is    *)
(* interrupted, and one with a handler of its own that restarts it.          *)
EXTENDS OsAccept

Mode(i, l, f, r) == [inet |-> i, locking |-> l, failOnIntr |-> f, restart |-> r]

MCModes == {Mode(TRUE, TRUE, FALSE, FALSE), Mode(FALSE, TRUE, FALSE, FALSE),
            Mode(TRUE, FALSE, TRUE, FALSE), Mode(FALSE, FALSE, FALSE, TRUE)}
=============================================================================
