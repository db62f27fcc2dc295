------------------------------ MODULE OsAccept ------------------------------
(***************************************************************************)
(* OS_Accept of os_unix.c: the worker processes of one application share a *)
(* listening socket, lock it where the platform needs that, take one       *)
(* connection each, check the client, and are told to stop by a signal.    *)
(*                                                                         *)
(* sock is the C variable "socket": it keeps the number of a descriptor    *)
(* that OS_Accept has closed (Stale).                                      *)
(*                                                                         *)
(* A definition introduced by "Mutant:" is not part of the model: it is    *)
(* what the next one would be with a plausible bug.                        *)
(***************************************************************************)
EXTENDS Naturals, Sequences

CONSTANTS
    Workers, Conns,
    None,           \* no worker, no connection
    Modes,          \* the builds and programs considered: a set of records, see below
    MaxSignals,     \* signals sent, a bound
    MaxDeaths       \* processes killed, and processes started again, bounds

ASSUME AcceptAssumption ==
    /\ None \notin Workers \cup Conns
    /\ Modes \subseteq [inet : BOOLEAN,         \* a TCP listener, else AF_UNIX
                        locking : BOOLEAN,      \* USE_LOCKING
                        failOnIntr : BOOLEAN,   \* FCGI_FAIL_ACCEPT_ON_INTR
                        restart : BOOLEAN]      \* the program's own handler, with SA_RESTART
    /\ MaxSignals \in Nat /\ MaxDeaths \in Nat

VARIABLES
    mode,
    conn, good,     \* each connection; whether its client is allowed (inet), sends (unix)
    backlog,        \* the connections that wait, in order
    pc, sock,       \* of each worker
    shutdownPending,
    lock,           \* who has locked the listening socket
    late,           \* connections a worker took since it was told to stop
    signals, deaths, spawns

net  == <<conn, good, backlog>>
vars == <<mode, net, pc, sock, shutdownPending, lock, late, signals, deaths, spawns>>

\* AcquireLock holds from here to ReleaseLock.
Critical == {"test", "window", "blocked", "judge", "release", "giveup"}
InAccept == Critical \cup {"lock", "select"}
Places   == InAccept \cup {"new", "free", "serve", "leaving", "exited"}

TypeOK ==
    /\ mode \in Modes
    /\ conn \in [Conns -> {"absent", "queued", "held", "served", "closed"}]
    /\ good \in [Conns -> BOOLEAN]
    /\ backlog \in Seq(Conns)
    /\ pc \in [Workers -> Places]
    /\ sock \in [Workers -> Conns \cup {None}]
    /\ \A w \in Workers : pc[w] \in {"judge", "release", "select", "serve"} => sock[w] # None
    /\ shutdownPending \in [Workers -> BOOLEAN]
    /\ lock \in Workers \cup {None}
    /\ late \in [Workers -> Nat]
    /\ signals \in 0..MaxSignals /\ deaths \in 0..MaxDeaths /\ spawns \in 0..MaxDeaths

Init ==
    /\ mode \in Modes
    /\ conn = [c \in Conns |-> "absent"]
    /\ good = [c \in Conns |-> FALSE]
    /\ backlog = <<>>
    /\ pc = [w \in Workers |-> "new"]
    /\ sock = [w \in Workers |-> None]
    /\ shutdownPending = [w \in Workers |-> FALSE]
    /\ lock = None
    /\ late = [w \in Workers |-> 0]
    /\ signals = 0 /\ deaths = 0 /\ spawns = 0

Goes(w, where) == pc' = [pc EXCEPT ![w] = where]

Open(w)  == sock[w] # None /\ conn[sock[w]] \in {"held", "served"}
Stale(w) == sock[w] # None /\ conn[sock[w]] = "closed"

\* close(socket): nothing happens to a connection that is closed already.
Closes(w) == conn' = IF sock[w] = None THEN conn ELSE [conn EXCEPT ![sock[w]] = "closed"]

Unlocks(w) == lock' = IF lock = w THEN None ELSE lock

\* The kernel closes what the process had, and drops its locks.
Dies(w) ==
    /\ Goes(w, "exited")
    /\ conn' = IF Open(w) THEN [conn EXCEPT ![sock[w]] = "closed"] ELSE conn
    /\ sock' = [sock EXCEPT ![w] = None]
    /\ Unlocks(w)

-----------------------------------------------------------------------------
(* The web server *)

Connect(c) ==
    /\ conn[c] = "absent"
    /\ conn' = [conn EXCEPT ![c] = "queued"]
    /\ \E g \in BOOLEAN : good' = [good EXCEPT ![c] = g]
    /\ backlog' = Append(backlog, c)
    /\ UNCHANGED <<mode, pc, sock, shutdownPending, lock, late, signals, deaths, spawns>>

-----------------------------------------------------------------------------
(* OS_Accept *)

Entry == IF mode.locking THEN "lock" ELSE "test"

\* OS_LibInit puts the signal handlers in place.
Start(w) ==
    /\ pc[w] = "new"
    /\ Goes(w, "free")
    /\ UNCHANGED <<mode, net, sock, shutdownPending, lock, late, signals, deaths, spawns>>

Call(w) ==
    /\ pc[w] = "free"
    /\ Goes(w, Entry)
    /\ sock' = [sock EXCEPT ![w] = None]
    /\ UNCHANGED <<mode, net, shutdownPending, lock, late, signals, deaths, spawns>>

\* Mutant: the lock is shared, not exclusive.
SharedLock(w) ==
    /\ pc[w] = "lock"
    /\ lock' = w
    /\ Goes(w, "test")
    /\ UNCHANGED <<mode, net, sock, shutdownPending, late, signals, deaths, spawns>>

AcquireLock(w) ==
    /\ pc[w] = "lock"
    /\ lock \in {None, w}
    /\ lock' = w
    /\ Goes(w, "test")
    /\ UNCHANGED <<mode, net, sock, shutdownPending, late, signals, deaths, spawns>>

\* Mutant: shutdownPending is not tested before accept().
TestNothing(w) ==
    /\ pc[w] = "test"
    /\ Goes(w, "window")
    /\ UNCHANGED <<mode, net, sock, shutdownPending, lock, late, signals, deaths, spawns>>

\* Mutant: the loop is not left.
TestContinues(w) ==
    /\ pc[w] = "test"
    /\ IF shutdownPending[w] THEN UNCHANGED pc ELSE Goes(w, "window")
    /\ UNCHANGED <<mode, net, sock, shutdownPending, lock, late, signals, deaths, spawns>>

\* "There's a window here": between the test and accept().  The break leaves
\* the socket as it is, which after a connection was closed is not negative.
TestShutdown(w) ==
    /\ pc[w] = "test"
    /\ Goes(w, IF ~shutdownPending[w] THEN "window"
               ELSE IF sock[w] = None THEN "giveup" ELSE "judge")
    /\ UNCHANGED <<mode, net, sock, shutdownPending, lock, late, signals, deaths, spawns>>

Block(w) ==
    /\ pc[w] = "window"
    /\ Goes(w, "blocked")
    /\ UNCHANGED <<mode, net, sock, shutdownPending, lock, late, signals, deaths, spawns>>

Accepts(w) ==
    /\ pc[w] = "blocked"
    /\ backlog # <<>>
    /\ backlog' = Tail(backlog)
    /\ conn' = [conn EXCEPT ![Head(backlog)] = "held"]
    /\ sock' = [sock EXCEPT ![w] = Head(backlog)]
    /\ late' = [late EXCEPT ![w] = IF shutdownPending[w] THEN @ + 1 ELSE @]
    /\ Goes(w, "judge")
    /\ UNCHANGED <<mode, good, shutdownPending, lock, signals, deaths, spawns>>

\* The client left first: is_reasonable_accept_errno, and OS_Accept tries again.
AcceptAborted(w) ==
    /\ pc[w] = "blocked"
    /\ backlog # <<>>
    /\ backlog' = Tail(backlog)
    /\ conn' = [conn EXCEPT ![Head(backlog)] = "closed"]
    /\ sock' = [sock EXCEPT ![w] = None]
    /\ Goes(w, IF shutdownPending[w] THEN "giveup" ELSE "test")
    /\ UNCHANGED <<mode, good, shutdownPending, lock, late, signals, deaths, spawns>>

\* Any other errno, as when the process is out of descriptors.
AcceptFails(w) ==
    /\ pc[w] = "blocked"
    /\ sock' = [sock EXCEPT ![w] = None]
    /\ Goes(w, "giveup")
    /\ UNCHANGED <<mode, net, shutdownPending, lock, late, signals, deaths, spawns>>

\* ClientAddrOK, of the address that the last accept() returned.
Judge(w) ==
    /\ pc[w] = "judge"
    /\ IF ~mode.inet \/ good[sock[w]] THEN Goes(w, "release") /\ UNCHANGED conn
       ELSE Goes(w, "test") /\ Closes(w)
    /\ UNCHANGED <<mode, good, backlog, sock, shutdownPending, lock, late, signals, deaths, spawns>>

\* OS_Accept returns the socket.
Returns(w) ==
    /\ Goes(w, "serve")
    /\ conn' = [conn EXCEPT ![sock[w]] = "served"]

ReleaseLock(w) ==
    /\ pc[w] \in {"release", "giveup"}
    /\ Unlocks(w)
    /\ IF pc[w] = "giveup" THEN Goes(w, "leaving") /\ UNCHANGED conn
       ELSE IF mode.inet THEN Returns(w)
       ELSE Goes(w, "select") /\ UNCHANGED conn
    /\ UNCHANGED <<mode, good, backlog, sock, shutdownPending, late, signals, deaths, spawns>>

\* OS_Accept returns -1 and leaves socket and lock to the end of the process.
ReleaseFails(w) ==
    /\ pc[w] \in {"release", "giveup"}
    /\ mode.locking
    /\ Goes(w, "leaving")
    /\ UNCHANGED <<mode, net, sock, shutdownPending, lock, late, signals, deaths, spawns>>

\* Mutant: a timeout of select() is taken for data.
KeepsAll(w) ==
    /\ pc[w] = "select"
    /\ Returns(w)
    /\ UNCHANGED <<mode, good, backlog, sock, shutdownPending, lock, late, signals, deaths, spawns>>

\* is_af_unix_keeper: the client has sent something within two seconds.  A closed
\* descriptor is an error of select(), and closed again.
KeepsUnix(w) ==
    /\ pc[w] = "select"
    /\ IF Open(w) /\ good[sock[w]] THEN Returns(w) ELSE Goes(w, Entry) /\ Closes(w)
    /\ UNCHANGED <<mode, good, backlog, sock, shutdownPending, lock, late, signals, deaths, spawns>>

-----------------------------------------------------------------------------
(* The application, and the life of the processes *)

\* FCGX_Finish
Finish(w) ==
    /\ pc[w] = "serve"
    /\ Closes(w)
    /\ Goes(w, "free")
    /\ UNCHANGED <<mode, good, backlog, sock, shutdownPending, lock, late, signals, deaths, spawns>>

\* "Return -1 to the caller, who should exit".
Exit(w) ==
    /\ pc[w] = "leaving"
    /\ Dies(w)
    /\ UNCHANGED <<mode, good, backlog, shutdownPending, late, signals, deaths, spawns>>

Kill(w) ==
    /\ pc[w] # "exited"
    /\ deaths < MaxDeaths
    /\ deaths' = deaths + 1
    /\ Dies(w)
    /\ UNCHANGED <<mode, good, backlog, shutdownPending, late, signals, spawns>>

Spawn(w) ==
    /\ pc[w] = "exited"
    /\ spawns < MaxDeaths
    /\ spawns' = spawns + 1
    /\ Goes(w, "new")
    /\ shutdownPending' = [shutdownPending EXCEPT ![w] = FALSE]
    /\ late' = [late EXCEPT ![w] = 0]
    /\ UNCHANGED <<mode, net, sock, lock, signals, deaths>>

-----------------------------------------------------------------------------
(* Signals *)

\* A system call of the worker returns with EINTR; ends: the loops around it do
\* not go on (shutdownPending, or fail_on_intr).
Interrupted(w, ends) ==
    \/ /\ pc[w] = "lock"
       /\ Goes(w, IF ends THEN "leaving" ELSE "lock")
       /\ UNCHANGED <<conn, sock>>
    \/ /\ pc[w] = "blocked"
       /\ sock' = [sock EXCEPT ![w] = None]
       /\ Goes(w, IF ends THEN "giveup" ELSE "test")
       /\ UNCHANGED conn
    \/ /\ pc[w] = "select"
       /\ Goes(w, Entry)
       /\ Closes(w)
       /\ UNCHANGED sock

\* SIGUSR1 or SIGTERM, which before OS_LibInit end the process.  With the handler
\* of the library no call is restarted, with the program's own all but select() are;
\* a call that is about to begin is missed.
Terminate(w) ==
    /\ signals < MaxSignals
    /\ signals' = signals + 1
    /\ pc[w] # "exited"
    /\ IF pc[w] = "new" THEN Dies(w) /\ UNCHANGED shutdownPending
       ELSE /\ shutdownPending' = [shutdownPending EXCEPT ![w] = TRUE]
            /\ \/ (mode.restart => pc[w] = "select") /\ Interrupted(w, TRUE)
               \/ /\ pc[w] # "select" /\ (mode.restart \/ pc[w] # "blocked")
                  /\ UNCHANGED <<pc, conn, sock>>
            /\ UNCHANGED lock
    /\ UNCHANGED <<mode, good, backlog, late, deaths, spawns>>

\* Any other signal with a handler: SIGPIPE of the library, the program's own.
OtherSignal(w) ==
    /\ signals < MaxSignals
    /\ signals' = signals + 1
    /\ Interrupted(w, mode.failOnIntr \/ shutdownPending[w])
    /\ UNCHANGED <<mode, good, backlog, shutdownPending, lock, late, deaths, spawns>>

-----------------------------------------------------------------------------
Accept(w) ==
    \/ Call(w) \/ AcquireLock(w) \/ TestShutdown(w) \/ Block(w) \/ Accepts(w)
    \/ Judge(w) \/ ReleaseLock(w) \/ KeepsUnix(w)

Worker(w) == Start(w) \/ Accept(w) \/ Finish(w) \/ Exit(w)

Next ==
    \/ \E c \in Conns : Connect(c)
    \/ \E w \in Workers : \/ Worker(w)
                          \/ AcceptAborted(w) \/ AcceptFails(w) \/ ReleaseFails(w)
                          \/ Kill(w) \/ Spawn(w) \/ Terminate(w) \/ OtherSignal(w)

\* Processes run, and the application returns from each request.  fcntl() grants
\* a lock to some worker that waits for it, not to each of them.
Spec == Init /\ [][Next]_vars /\ \A w \in Workers : WF_vars(Worker(w))

-----------------------------------------------------------------------------
(* Properties *)

\* No two workers are between AcquireLock and ReleaseLock, whatever signals, errors
\* and deaths come in between; a process that died has not kept the lock.  (Types
\* are the first conjunct.)
LockedInside ==
    /\ TypeOK
    /\ mode.locking => \A w \in Workers : pc[w] \in Critical => lock = w
    /\ lock # None => pc[lock] \in Critical \cup {"leaving"}

\* A worker told to stop takes one connection at most (the window before accept(),
\* or the handler that restarts it), and then no more.
OneAfterShutdown == \A w \in Workers : late[w] <= 1

\* Told to stop after it has closed a connection, OS_Accept never gets out of its
\* loop: it tests the closed descriptor for ever.
Spins(w) == shutdownPending[w] /\ Stale(w) /\ pc[w] \in InAccept \ {"window", "blocked"}

\* A connection that waits is taken, unless no process is left or one of them spins.
QueuedIsTaken ==
    \A c \in Conns : conn[c] = "queued" ~>
        \/ conn[c] # "queued"
        \/ \A w \in Workers : pc[w] = "exited"
        \/ \E w \in Workers : Spins(w)

\* "-1 if the operation fails, otherwise this is a valid IPC fd": a worker that finds
\* shutdownPending set returns from OS_Accept.
ShutdownReturns ==
    \A w \in Workers : shutdownPending[w] /\ pc[w] = "test" ~> pc[w] \notin InAccept

\* Each connection has one worker at most, each worker one connection.
Owner == [c \in Conns |->
            IF \E w \in Workers : sock[w] = c /\ Open(w)
            THEN CHOOSE w \in Workers : sock[w] = c /\ Open(w) ELSE None]

Listener == INSTANCE SharedListener WITH owner <- Owner

\* The pool keeps the promise of SharedListener: what OS_Accept returns is open and its
\* client passed the test, never the descriptor that it has closed and still has in
\* its variable.
ImplementsListener == Listener!Spec
=============================================================================
