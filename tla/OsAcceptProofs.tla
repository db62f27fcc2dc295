--------------------------- MODULE OsAcceptProofs ---------------------------
(***************************************************************************)
(* OsAccept for any number of workers, connections, signals and deaths:    *)
(* the lock around accept(), what a worker told to stop still takes, and   *)
(* that the pool implements SharedListener.                                *)
(***************************************************************************)
EXTENDS OsAccept, TLAPS

\* The two conjuncts of LockedInside about the lock.
LockInv ==
    /\ mode.locking => \A w \in Workers : pc[w] \in Critical => lock = w
    /\ lock # None => pc[lock] \in Critical \cup {"leaving"}

\* The only connection a worker takes after it was told to stop is one that it was
\* about to wait for.
LateInv ==
    \A w \in Workers :
        /\ late[w] <= 1
        /\ ~shutdownPending[w] => late[w] = 0
        /\ pc[w] \in {"window", "blocked"} => late[w] = 0

\* Only connections nobody has taken wait, each once.
BacklogInv ==
    /\ \A i \in 1..Len(backlog) : conn[backlog[i]] = "queued"
    /\ \A i, j \in 1..Len(backlog) : backlog[i] = backlog[j] => i = j

\* The variable socket of a worker: what it can hold where.
SockInv ==
    \A w \in Workers :
        /\ sock[w] # None => conn[sock[w]] \in {"held", "served", "closed"}
        /\ Open(w) => \/ pc[w] \in {"judge", "release", "select", "leaving"}
                         /\ conn[sock[w]] = "held"
                      \/ pc[w] = "serve"
        /\ pc[w] = "serve" => conn[sock[w]] = "served"
        /\ pc[w] \in {"giveup", "exited", "new"} => sock[w] = None

\* A TCP connection that OS_Accept has closed is one whose client was refused, and is
\* refused again whenever the address is tested again.
RefusedInv ==
    \A w \in Workers : mode.inet =>
        /\ pc[w] # "select"
        /\ pc[w] = "release" => conn[sock[w]] = "held" /\ good[sock[w]]
        /\ pc[w] \in {"lock", "test", "judge"} /\ Stale(w) => ~good[sock[w]]

\* No two workers have the same connection.
UniqueInv ==
    \A v, w \in Workers : Open(w) /\ sock[v] = sock[w] => v = w

IInv == TypeOK /\ LockInv /\ LateInv /\ BacklogInv /\ SockInv /\ RefusedInv /\ UniqueInv

-----------------------------------------------------------------------------
(* Facts the steps share. *)

USE AcceptAssumption

LEMMA ModeType ==
    ASSUME TypeOK
    PROVE  /\ mode.inet \in BOOLEAN /\ mode.locking \in BOOLEAN
           /\ mode.failOnIntr \in BOOLEAN /\ mode.restart \in BOOLEAN
  BY DEF TypeOK

\* Where a call of OS_Accept goes on is outside the lock where there is one.
LEMMA EntryPlace ==
    ASSUME TypeOK
    PROVE  /\ Entry \in {"lock", "test"} /\ (Entry = "lock" <=> mode.locking)
           /\ Entry \in Places
  BY ModeType DEF Entry, Places, InAccept, Critical

LEMMA InitInv == Init => IInv
<1> SUFFICES ASSUME Init PROVE IInv
  OBVIOUS
<1>1. TypeOK
  BY DEF Init, TypeOK, Places
<1>2. LockInv /\ LateInv
  BY DEF Init, LockInv, LateInv, Critical
<1>3. BacklogInv /\ SockInv /\ RefusedInv /\ UniqueInv
  BY DEF Init, BacklogInv, SockInv, RefusedInv, UniqueInv, Open, Stale
<1> QED BY <1>1, <1>2, <1>3 DEF IInv

-----------------------------------------------------------------------------
(* The web server. *)

LEMMA ConnectKeeps == ASSUME IInv, NEW c \in Conns, Connect(c) PROVE IInv'
<1> USE DEF IInv
<1>1. TypeOK'
  BY DEF TypeOK, Connect
<1>2. LockInv' /\ LateInv'
  BY DEF LockInv, LateInv, Connect
<1>3. BacklogInv'
  BY DEF TypeOK, BacklogInv, Connect
<1>4. SockInv' /\ RefusedInv' /\ UniqueInv'
  BY DEF TypeOK, SockInv, RefusedInv, UniqueInv, Open, Stale, Connect
<1> QED BY <1>1, <1>2, <1>3, <1>4
-----------------------------------------------------------------------------
(* What a worker does to its own connection leaves the others' alone. *)

LEMMA OwnOnly ==
    ASSUME TypeOK, SockInv, UniqueInv, BacklogInv, NEW w \in Workers, NEW s,
           sock[w] # None, Open(w) \/ s = "closed",
           conn' = [conn EXCEPT ![sock[w]] = s], backlog' = backlog
    PROVE  /\ conn'[sock[w]] = s
           /\ \A v \in Workers \ {w} : sock[v] # None => conn'[sock[v]] = conn[sock[v]]
           /\ BacklogInv'
<1>1. sock[w] \in Conns /\ conn'[sock[w]] = s /\ conn[sock[w]] # "queued"
  BY DEF TypeOK, SockInv
<1>2. ASSUME NEW v \in Workers \ {w}, sock[v] # None
      PROVE  conn'[sock[v]] = conn[sock[v]]
  <2>1. CASE sock[v] = sock[w]
    BY <1>1, <1>2, <2>1 DEF TypeOK, SockInv, UniqueInv, Open
  <2>2. CASE sock[v] # sock[w]
    BY <2>2, <1>2 DEF TypeOK
  <2> QED BY <2>1, <2>2
<1>3. ASSUME NEW i \in 1..Len(backlog) PROVE conn'[backlog[i]] = "queued"
  BY <1>1 DEF TypeOK, BacklogInv
<1>4. BacklogInv'
  BY <1>3 DEF BacklogInv
<1> QED BY <1>1, <1>2, <1>4

LEMMA ClosesOwn ==
    ASSUME TypeOK, SockInv, UniqueInv, BacklogInv, NEW w \in Workers,
           Closes(w), backlog' = backlog
    PROVE  /\ conn' \in [Conns -> {"absent", "queued", "held", "served", "closed"}]
           /\ sock[w] # None => conn'[sock[w]] = "closed"
           /\ \A v \in Workers \ {w} : sock[v] # None => conn'[sock[v]] = conn[sock[v]]
           /\ BacklogInv'
<1>1. CASE sock[w] = None
  BY <1>1 DEF Closes, TypeOK, BacklogInv
<1>2. CASE sock[w] # None
  <2>1. conn' = [conn EXCEPT ![sock[w]] = "closed"]
    BY <1>2 DEF Closes
  <2> QED BY <1>2, <2>1, OwnOnly DEF TypeOK
<1> QED BY <1>1, <1>2

\* The end of a process, whatever it was doing.
LEMMA DiesKeeps ==
    ASSUME IInv, NEW w \in Workers, Dies(w),
           UNCHANGED <<mode, good, backlog, shutdownPending, late>>,
           signals' \in 0..MaxSignals, deaths' \in 0..MaxDeaths, spawns' \in 0..MaxDeaths
    PROVE  IInv'
<1> USE DEF IInv
<1>1. TypeOK'
  BY DEF TypeOK, Dies, Unlocks, Goes, Open, Places
<1>2. LockInv' /\ LateInv'
  BY ModeType DEF TypeOK, LockInv, LateInv, Dies, Unlocks, Goes, Critical
<1>3. BacklogInv'
  <2>1. CASE Open(w)
    BY <2>1, OwnOnly DEF Dies, Open
  <2>2. CASE ~Open(w)
    BY <2>2 DEF Dies, BacklogInv
  <2> QED BY <2>1, <2>2
<1>4. SockInv'
  BY DEF TypeOK, SockInv, UniqueInv, Dies, Goes, Open
<1>5. RefusedInv'
  BY ModeType DEF TypeOK, RefusedInv, SockInv, UniqueInv, Dies, Goes, Open, Stale
<1>6. UniqueInv'
  BY DEF TypeOK, UniqueInv, Dies, Open
<1> QED BY <1>1, <1>2, <1>3, <1>4, <1>5, <1>6

\* A signal that ends the call the worker is in.
LEMMA InterruptedKeeps ==
    ASSUME IInv, NEW w \in Workers, NEW ends \in BOOLEAN, Interrupted(w, ends),
           UNCHANGED <<mode, good, backlog, lock, late, deaths, spawns>>,
           \/ shutdownPending' = shutdownPending
           \/ shutdownPending' = [shutdownPending EXCEPT ![w] = TRUE],
           signals' \in 0..MaxSignals
    PROVE  IInv'
<1> USE DEF IInv
<1>0. /\ shutdownPending' \in [Workers -> BOOLEAN]
      /\ \A v \in Workers : shutdownPending[v] => shutdownPending'[v]
  BY DEF TypeOK
<1>1. CASE pc[w] \in {"lock", "blocked"}
  <2>1. /\ conn' = conn
        /\ pc[w] = "lock" => /\ sock' = sock
                             /\ pc' = [pc EXCEPT ![w] = IF ends THEN "leaving" ELSE "lock"]
        /\ pc[w] = "blocked" => /\ sock' = [sock EXCEPT ![w] = None]
                                /\ pc' = [pc EXCEPT ![w] = IF ends THEN "giveup" ELSE "test"]
    BY <1>1 DEF Interrupted, Goes
  <2>2. TypeOK'
    BY <1>0, <1>1, <2>1 DEF TypeOK, Places, InAccept, Critical
  <2>3. LockInv' /\ LateInv'
    BY <1>0, <1>1, <2>1, ModeType DEF TypeOK, LockInv, LateInv, Critical
  <2>4. BacklogInv' /\ UniqueInv'
    BY <1>1, <2>1 DEF TypeOK, BacklogInv, UniqueInv, Open
  <2>5. SockInv'
    BY <1>1, <2>1 DEF TypeOK, SockInv, Open
  <2>6. RefusedInv'
    <3>1. CASE pc[w] = "lock"
      BY <2>1, <3>1 DEF TypeOK, RefusedInv, Stale
    <3>2. CASE pc[w] = "blocked"
      BY <2>1, <3>2 DEF TypeOK, RefusedInv, Stale
    <3> QED BY <1>1, <3>1, <3>2
  <2> QED BY <2>2, <2>3, <2>4, <2>5, <2>6
<1>2. CASE pc[w] = "select"
  <2>1. Closes(w) /\ sock' = sock /\ pc' = [pc EXCEPT ![w] = Entry]
    BY <1>2 DEF Interrupted, Goes
  <2>2. TypeOK'
    BY <1>0, <1>2, <2>1, ClosesOwn, EntryPlace DEF TypeOK
  <2>3. LockInv' /\ LateInv'
    BY <1>0, <1>2, <2>1, EntryPlace, ModeType DEF TypeOK, LockInv, LateInv, Critical
  <2>4. BacklogInv' /\ UniqueInv'
    BY <1>2, <2>1, ClosesOwn DEF TypeOK, UniqueInv, Open
  <2>5. SockInv' /\ RefusedInv'
    BY <1>2, <2>1, ClosesOwn, EntryPlace, ModeType DEF TypeOK, SockInv, RefusedInv, Open, Stale
  <2> QED BY <2>2, <2>3, <2>4, <2>5
<1> QED BY <1>1, <1>2 DEF Interrupted
-----------------------------------------------------------------------------
(* OS_Accept, the application, and the signals. *)

\* Steps that move the worker and leave every connection and every socket alone.
LEMMA MoveKeeps ==
    ASSUME IInv, NEW w \in Workers, Start(w) \/ Block(w) \/ TestShutdown(w) \/ AcquireLock(w)
    PROVE  IInv'
<1> USE DEF IInv
<1>1. UNCHANGED <<mode, conn, good, backlog, sock>>
  BY DEF Start, Block, TestShutdown, AcquireLock, net
<1>2. TypeOK'
  BY DEF TypeOK, Start, Block, TestShutdown, AcquireLock, Goes, net, Places, InAccept, Critical
<1>3. LockInv' /\ LateInv'
  BY ModeType DEF TypeOK, LockInv, LateInv, Start, Block, TestShutdown, AcquireLock, Goes, Critical
<1>4. BacklogInv' /\ UniqueInv'
  BY <1>1 DEF BacklogInv, UniqueInv, Open
<1>5. SockInv'
  BY <1>1 DEF TypeOK, SockInv, Start, Block, TestShutdown, AcquireLock, Goes, Open
<1>6. RefusedInv'
  BY <1>1, ModeType DEF TypeOK, RefusedInv, Start, Block, TestShutdown, AcquireLock, Goes, Stale
<1> QED BY <1>2, <1>3, <1>4, <1>5, <1>6

\* A call forgets what the variable held; a failed accept() leaves -1 in it.
LEMMA ForgetKeeps ==
    ASSUME IInv, NEW w \in Workers, Call(w) \/ AcceptFails(w) PROVE IInv'
<1> USE DEF IInv
<1>1. /\ UNCHANGED <<mode, conn, good, backlog>> /\ sock' = [sock EXCEPT ![w] = None]
      /\ pc[w] \in {"free", "blocked"}
  BY DEF Call, AcceptFails, net
<1>2. TypeOK'
  BY EntryPlace DEF TypeOK, Call, AcceptFails, Goes, net, Places, InAccept, Critical
<1>3. LockInv' /\ LateInv'
  BY EntryPlace, ModeType DEF TypeOK, LockInv, LateInv, Call, AcceptFails, Goes, Critical
<1>4. BacklogInv' /\ UniqueInv'
  BY <1>1 DEF TypeOK, BacklogInv, UniqueInv, Open
<1>5. SockInv'
  BY <1>1, EntryPlace DEF TypeOK, SockInv, Call, AcceptFails, Goes, Open
<1>6. RefusedInv'
  BY <1>1, EntryPlace, ModeType DEF TypeOK, RefusedInv, Call, AcceptFails, Goes, Stale
<1> QED BY <1>2, <1>3, <1>4, <1>5, <1>6

\* The connection that has waited longest leaves the backlog; the others stay in it.
LEMMA TailKeeps ==
    ASSUME TypeOK, BacklogInv, backlog # <<>>, NEW s, backlog' = Tail(backlog),
           conn' = [conn EXCEPT ![Head(backlog)] = s]
    PROVE  /\ Head(backlog) \in Conns /\ conn[Head(backlog)] = "queued"
           /\ backlog' \in Seq(Conns) /\ BacklogInv'
<1>1. Head(backlog) \in Conns /\ Head(backlog) = backlog[1] /\ Len(backlog) > 0
  BY DEF TypeOK
<1>2. /\ backlog' \in Seq(Conns) /\ Len(backlog') = Len(backlog) - 1
      /\ \A i \in 1..Len(backlog') : backlog'[i] = backlog[i + 1]
  BY DEF TypeOK
<1>3. ASSUME NEW i \in 1..Len(backlog')
      PROVE  /\ i + 1 \in 1..Len(backlog) /\ backlog'[i] = backlog[i + 1]
             /\ backlog'[i] # Head(backlog)
  BY <1>1, <1>2 DEF TypeOK, BacklogInv
<1>4. BacklogInv'
  BY <1>1, <1>2, <1>3 DEF TypeOK, BacklogInv
<1> QED BY <1>1, <1>2, <1>4 DEF TypeOK, BacklogInv

LEMMA AcceptsKeeps ==
    ASSUME IInv, NEW w \in Workers, Accepts(w) \/ AcceptAborted(w) PROVE IInv'
<1> USE DEF IInv
<1> DEFINE c == Head(backlog)
           s == IF Accepts(w) THEN "held" ELSE "closed"
           k == IF Accepts(w) THEN c ELSE None
<1>1. /\ pc[w] = "blocked" /\ UNCHANGED <<mode, good, shutdownPending, lock, signals, deaths, spawns>>
      /\ conn' = [conn EXCEPT ![c] = s] /\ sock' = [sock EXCEPT ![w] = k]
      /\ Accepts(w) => /\ pc' = [pc EXCEPT ![w] = "judge"]
                       /\ late' = [late EXCEPT ![w] = IF shutdownPending[w] THEN @ + 1 ELSE @]
      /\ ~Accepts(w) => /\ pc' = [pc EXCEPT ![w] = IF shutdownPending[w] THEN "giveup" ELSE "test"]
                        /\ late' = late
  BY DEF Accepts, AcceptAborted, Goes
<1>2. c \in Conns /\ conn[c] = "queued" /\ backlog' \in Seq(Conns) /\ BacklogInv'
  BY TailKeeps DEF Accepts, AcceptAborted
<1>3. \A v \in Workers : sock[v] # c
  BY <1>2 DEF SockInv
<1> HIDE DEF c
<1>4. TypeOK'
  <2>1. CASE Accepts(w)
    <3>1. /\ conn' = [conn EXCEPT ![c] = "held"] /\ sock' = [sock EXCEPT ![w] = c]
          /\ pc' = [pc EXCEPT ![w] = "judge"] /\ c # None
      BY <1>1, <1>2, <2>1
    <3>2. late' \in [Workers -> Nat]
      BY <1>1, <2>1 DEF TypeOK
    <3> QED BY <1>1, <1>2, <3>1, <3>2 DEF TypeOK, Places, InAccept, Critical
  <2>2. CASE ~Accepts(w)
    BY <1>1, <1>2, <2>2 DEF TypeOK, Places, InAccept, Critical
  <2> QED BY <2>1, <2>2
<1>5. LockInv' /\ LateInv'
  BY <1>1, ModeType DEF TypeOK, LockInv, LateInv, Critical
<1>6. SockInv'
  BY <1>1, <1>2, <1>3 DEF TypeOK, SockInv, Open
<1>7. RefusedInv'
  BY <1>1, <1>2, <1>3, ModeType DEF TypeOK, RefusedInv, Stale
<1>8. UniqueInv'
  BY <1>1, <1>2, <1>3 DEF TypeOK, UniqueInv, Open
<1> QED BY <1>2, <1>4, <1>5, <1>6, <1>7, <1>8
LEMMA JudgeKeeps == ASSUME IInv, NEW w \in Workers, Judge(w) PROVE IInv'
<1> USE DEF IInv
<1>1. /\ pc[w] = "judge" /\ sock[w] # None /\ sock' = sock
      /\ UNCHANGED <<mode, good, backlog, shutdownPending, lock, late, signals, deaths, spawns>>
  BY DEF Judge, TypeOK
<1>2. CASE ~mode.inet \/ good[sock[w]]
  <2>1. conn' = conn /\ pc' = [pc EXCEPT ![w] = "release"]
    BY <1>2 DEF Judge, Goes
  <2>2. TypeOK'
    BY <1>1, <2>1 DEF TypeOK, Places, InAccept, Critical
  <2>3. LockInv' /\ LateInv'
    BY <1>1, <2>1, ModeType DEF TypeOK, LockInv, LateInv, Critical
  <2>4. BacklogInv' /\ SockInv' /\ UniqueInv'
    BY <1>1, <2>1 DEF TypeOK, BacklogInv, SockInv, UniqueInv, Open
  <2>5. RefusedInv'
    BY <1>1, <1>2, <2>1, ModeType DEF TypeOK, RefusedInv, SockInv, Stale, Open
  <2> QED BY <2>2, <2>3, <2>4, <2>5
<1>3. CASE mode.inet /\ ~good[sock[w]]
  <2>1. Closes(w) /\ pc' = [pc EXCEPT ![w] = "test"]
    BY <1>3 DEF Judge, Goes
  <2>2. TypeOK'
    BY <1>1, <2>1, ClosesOwn DEF TypeOK, Places, InAccept, Critical
  <2>3. LockInv' /\ LateInv'
    BY <1>1, <2>1, ModeType DEF TypeOK, LockInv, LateInv, Critical
  <2>4. BacklogInv' /\ SockInv' /\ UniqueInv'
    BY <1>1, <2>1, ClosesOwn DEF TypeOK, SockInv, UniqueInv, Open
  <2>5. RefusedInv'
    BY <1>1, <1>3, <2>1, ClosesOwn DEF TypeOK, RefusedInv, Stale
  <2> QED BY <2>2, <2>3, <2>4, <2>5
<1> QED BY <1>2, <1>3, ModeType

\* OS_Accept returns a connection that the worker holds and nobody else does.
LEMMA ReturnsKeeps ==
    ASSUME IInv, NEW w \in Workers, Returns(w), Open(w),
           \/ pc[w] = "release" /\ Unlocks(w)
           \/ pc[w] = "select" /\ lock' = lock,
           UNCHANGED <<mode, good, backlog, sock, shutdownPending, late, signals, deaths, spawns>>
    PROVE  IInv'
<1> USE DEF IInv
<1>1. /\ conn' = [conn EXCEPT ![sock[w]] = "served"] /\ pc' = [pc EXCEPT ![w] = "serve"]
      /\ sock[w] \in Conns /\ sock[w] # None
  BY DEF Returns, Goes, Open, TypeOK
<1>2. TypeOK'
  BY <1>1 DEF TypeOK, Unlocks, Places
<1>3. LockInv' /\ LateInv'
  BY <1>1, ModeType DEF TypeOK, LockInv, LateInv, Unlocks, Critical
<1>4. BacklogInv'
  BY <1>1, OwnOnly
<1>5. SockInv' /\ RefusedInv' /\ UniqueInv'
  BY <1>1, OwnOnly DEF TypeOK, SockInv, RefusedInv, UniqueInv, Open, Stale
<1> QED BY <1>2, <1>3, <1>4, <1>5

LEMMA ReleaseKeeps ==
    ASSUME IInv, NEW w \in Workers, ReleaseLock(w) \/ ReleaseFails(w) PROVE IInv'
<1> USE DEF IInv
<1>1. CASE ReleaseLock(w) /\ pc[w] = "release" /\ mode.inet
  <2>1. Open(w)
    BY <1>1 DEF RefusedInv, TypeOK, Open
  <2> QED BY <1>1, <2>1, ReturnsKeeps DEF ReleaseLock
<1>2. CASE ~(pc[w] = "release" /\ mode.inet) \/ ReleaseFails(w)
  <2>1. /\ UNCHANGED <<mode, conn, good, backlog, sock, shutdownPending, late,
                       signals, deaths, spawns>>
        /\ pc[w] \in {"release", "giveup"}
    BY <1>2 DEF ReleaseLock, ReleaseFails, net
  <2>2. \/ /\ pc' = [pc EXCEPT ![w] = "leaving"]
           /\ Unlocks(w) \/ lock' = lock
        \/ /\ pc' = [pc EXCEPT ![w] = "select"] /\ pc[w] = "release" /\ ~mode.inet
           /\ Unlocks(w)
    BY <1>2, ModeType DEF ReleaseLock, ReleaseFails, Goes
  <2>3. TypeOK'
    BY <2>1, <2>2 DEF TypeOK, Unlocks, Places, InAccept, Critical
  <2>4. LockInv'
    <3>1. CASE Unlocks(w)
      BY <2>1, <2>2, <3>1 DEF TypeOK, LockInv, Unlocks, Critical
    <3>2. CASE pc' = [pc EXCEPT ![w] = "leaving"] /\ lock' = lock
      BY <2>1, <3>2 DEF TypeOK, LockInv, Critical
    <3> QED BY <2>2, <3>1, <3>2
  <2>7. LateInv'
    BY <2>1, <2>2 DEF TypeOK, LateInv
  <2>5. BacklogInv' /\ SockInv' /\ UniqueInv'
    BY <2>1, <2>2 DEF TypeOK, BacklogInv, SockInv, UniqueInv, Open
  <2>6. RefusedInv'
    BY <2>1, <2>2, ModeType DEF TypeOK, RefusedInv, Stale
  <2> QED BY <2>3, <2>4, <2>5, <2>6, <2>7
<1> QED BY <1>1, <1>2, ModeType

\* A client that sent nothing is closed, and so is a request that was finished.
LEMMA CloseKeeps ==
    ASSUME IInv, NEW w \in Workers, Closes(w),
           \/ pc[w] = "select" /\ Goes(w, Entry)
           \/ pc[w] = "serve" /\ Goes(w, "free"),
           UNCHANGED <<mode, good, backlog, sock, shutdownPending, lock, late,
                       signals, deaths, spawns>>
    PROVE  IInv'
<1> USE DEF IInv
<1>1. PICK to \in {"lock", "test", "free"} :
         /\ pc' = [pc EXCEPT ![w] = to] /\ pc[w] \in {"select", "serve"}
         /\ to = "free" <=> pc[w] = "serve"
         /\ to # "free" => to = Entry
  BY EntryPlace DEF Goes
<1>2. TypeOK'
  BY <1>1, ClosesOwn DEF TypeOK, Places, InAccept, Critical
<1>3. LockInv' /\ LateInv'
  BY <1>1, EntryPlace, ModeType DEF TypeOK, LockInv, LateInv, Critical
<1>4. BacklogInv' /\ SockInv' /\ UniqueInv'
  BY <1>1, ClosesOwn DEF TypeOK, SockInv, UniqueInv, Open
<1>5. RefusedInv'
  BY <1>1, ClosesOwn, ModeType DEF TypeOK, RefusedInv, Stale
<1> QED BY <1>2, <1>3, <1>4, <1>5

LEMMA KeepsUnixKeeps == ASSUME IInv, NEW w \in Workers, KeepsUnix(w) PROVE IInv'
<1>1. CASE Open(w) /\ good[sock[w]]
  BY <1>1, ReturnsKeeps DEF KeepsUnix
<1>2. CASE ~(Open(w) /\ good[sock[w]])
  BY <1>2, CloseKeeps DEF KeepsUnix
<1> QED BY <1>1, <1>2

LEMMA LifeKeeps ==
    ASSUME IInv, NEW w \in Workers, Finish(w) \/ Exit(w) \/ Kill(w) \/ Spawn(w) PROVE IInv'
<1> USE DEF IInv
<1>1. CASE Finish(w)
  BY <1>1, CloseKeeps DEF Finish
<1>2. CASE Exit(w)
  BY <1>2, DiesKeeps DEF Exit, TypeOK
<1>3. CASE Kill(w)
  BY <1>3, DiesKeeps DEF Kill, TypeOK
<1>4. CASE Spawn(w)
  <2>1. /\ UNCHANGED <<mode, conn, good, backlog, sock, lock, signals, deaths>>
        /\ pc[w] = "exited" /\ pc' = [pc EXCEPT ![w] = "new"]
        /\ shutdownPending' = [shutdownPending EXCEPT ![w] = FALSE]
        /\ late' = [late EXCEPT ![w] = 0] /\ spawns' \in 0..MaxDeaths
    BY <1>4 DEF Spawn, Goes, net, TypeOK
  <2>2. TypeOK'
    BY <2>1 DEF TypeOK, Places
  <2>3. LockInv' /\ LateInv'
    BY <2>1, ModeType DEF TypeOK, LockInv, LateInv, Critical
  <2>4. BacklogInv' /\ SockInv' /\ RefusedInv' /\ UniqueInv'
    BY <2>1, ModeType DEF TypeOK, BacklogInv, SockInv, RefusedInv, UniqueInv, Open, Stale
  <2> QED BY <2>2, <2>3, <2>4
<1> QED BY <1>1, <1>2, <1>3, <1>4

LEMMA SignalKeeps ==
    ASSUME IInv, NEW w \in Workers, Terminate(w) \/ OtherSignal(w) PROVE IInv'
<1> USE DEF IInv
<1>0. signals' \in 0..MaxSignals /\ UNCHANGED <<mode, good, backlog, late, deaths, spawns>>
  <2>1. signals < MaxSignals /\ signals' = signals + 1
    BY DEF Terminate, OtherSignal
  <2>2. signals' \in 0..MaxSignals
    BY <2>1 DEF TypeOK
  <2> QED BY <2>2 DEF Terminate, OtherSignal
<1>1. CASE OtherSignal(w)
  <2> DEFINE ends == mode.failOnIntr \/ shutdownPending[w]
  <2>1. ends \in BOOLEAN /\ Interrupted(w, ends) /\ UNCHANGED <<lock, shutdownPending>>
    BY <1>1, ModeType DEF OtherSignal, TypeOK
  <2> HIDE DEF ends
  <2> QED BY <1>0, <2>1, InterruptedKeeps
<1>2. CASE Terminate(w) /\ pc[w] = "new"
  BY <1>0, <1>2, DiesKeeps DEF Terminate, TypeOK
<1>3. CASE Terminate(w) /\ pc[w] # "new"
  <2>1. shutdownPending' = [shutdownPending EXCEPT ![w] = TRUE] /\ lock' = lock
    BY <1>3 DEF Terminate
  <2>2. CASE Interrupted(w, TRUE)
    BY <1>0, <2>1, <2>2, InterruptedKeeps
  <2>3. CASE UNCHANGED <<pc, conn, sock>>
    <3>1. TypeOK'
      BY <1>0, <2>1, <2>3 DEF TypeOK
    <3>2. LockInv' /\ LateInv'
      BY <1>0, <2>1, <2>3 DEF TypeOK, LockInv, LateInv
    <3>3. BacklogInv' /\ SockInv' /\ RefusedInv' /\ UniqueInv'
      BY <1>0, <2>3 DEF BacklogInv, SockInv, RefusedInv, UniqueInv, Open, Stale
    <3> QED BY <3>1, <3>2, <3>3
  <2> QED BY <1>3, <2>2, <2>3 DEF Terminate
<1> QED BY <1>1, <1>2, <1>3

LEMMA NextInv == IInv /\ [Next]_vars => IInv'
<1> SUFFICES ASSUME IInv, [Next]_vars PROVE IInv'
  OBVIOUS
<1>1. CASE UNCHANGED vars
  BY <1>1 DEF vars, net, IInv, TypeOK, LockInv, LateInv, BacklogInv, SockInv, RefusedInv,
     UniqueInv, Open, Stale
<1>2. CASE \E c \in Conns : Connect(c)
  BY <1>2, ConnectKeeps
<1>3. ASSUME NEW w \in Workers,
             \/ Worker(w) \/ AcceptAborted(w) \/ AcceptFails(w) \/ ReleaseFails(w)
             \/ Kill(w) \/ Spawn(w) \/ Terminate(w) \/ OtherSignal(w)
      PROVE  IInv'
  BY <1>3, MoveKeeps, ForgetKeeps, AcceptsKeeps, JudgeKeeps, ReleaseKeeps, KeepsUnixKeeps,
     LifeKeeps, SignalKeeps DEF Worker, Accept
<1> QED BY <1>1, <1>2, <1>3 DEF Next

LEMMA Invariance == Spec => []IInv
  BY InitInv, NextInv, PTL DEF Spec

\* Types, and the lock: no two workers are between AcquireLock and ReleaseLock, and no
\* worker that has left or died keeps the lock.
THEOREM LockHeldInside == Spec => []LockedInside
<1>1. IInv => LockedInside
  BY DEF IInv, LockInv, LockedInside
<1> QED BY <1>1, Invariance, PTL

\* After it was told to stop, a worker takes one connection at most.
THEOREM OneMoreAtMost == Spec => []OneAfterShutdown
<1>1. IInv => OneAfterShutdown
  BY DEF IInv, LateInv, OneAfterShutdown
<1> QED BY <1>1, Invariance, PTL
-----------------------------------------------------------------------------
(* The pool implements SharedListener. *)

\* Owner says which worker has a connection open, and there is one at most.
Has(w, c) == sock[w] = c /\ Open(w)

Owners ==
    /\ Owner \in [Conns -> Workers \cup {None}]
    /\ \A c \in Conns, w \in Workers : Owner[c] = w <=> Has(w, c)

LEMMA OwnersNow == IInv => Owners
<1> SUFFICES ASSUME IInv PROVE Owners
  OBVIOUS
<1>1. \A v, w \in Workers, c \in Conns : Has(v, c) /\ Has(w, c) => v = w
  BY DEF IInv, UniqueInv, Has
<1>2. ASSUME NEW c \in Conns
      PROVE  /\ Owner[c] \in Workers \cup {None}
             /\ \A w \in Workers : Owner[c] = w <=> Has(w, c)
  <2>1. CASE \E w \in Workers : Has(w, c)
    <3>1. Owner[c] = CHOOSE w \in Workers : sock[w] = c /\ Open(w)
      BY <2>1 DEF Owner, Has
    <3>2. Owner[c] \in Workers /\ Has(Owner[c], c)
      BY <2>1, <3>1 DEF Has
    <3> QED BY <1>1, <3>2
  <2>2. CASE ~\E w \in Workers : Has(w, c)
    BY <2>2 DEF Owner, Has
  <2> QED BY <2>1, <2>2
<1> QED BY <1>2 DEF Owners, Owner

LEMMA OwnersThen == IInv' => Owners'
  BY OwnersNow, PTL

\* If one connection at most changes hands, Owner changes there at most.
LEMMA OwnerChanges ==
    ASSUME Owners, Owners', NEW c \in Conns, NEW o \in Workers \cup {None},
           \A d \in Conns \ {c}, w \in Workers : Has(w, d)' <=> Has(w, d),
           \A w \in Workers : Has(w, c)' <=> w = o
    PROVE  Owner' = [Owner EXCEPT ![c] = o]
<1>1. \A d \in Conns \ {c} : Owner'[d] = Owner[d]
  BY DEF Owners
<1>2. Owner'[c] = o
  BY DEF Owners
<1> QED BY <1>1, <1>2 DEF Owners

LEMMA OwnerStays ==
    ASSUME Owners, Owners', \A d \in Conns, w \in Workers : Has(w, d)' <=> Has(w, d)
    PROVE  Owner' = Owner
<1>1. \A d \in Conns : Owner'[d] = Owner[d]
  BY DEF Owners
<1> QED BY <1>1 DEF Owners

\* What a step of a worker does that the web server could notice: nothing ...
Quiet ==
    /\ UNCHANGED <<conn, good>>
    /\ \A w \in Workers : /\ Open(w) => sock'[w] = sock[w]
                          /\ sock'[w] \in {sock[w], None}

\* ... or its connection is closed ...
ClosesOpen(w) ==
    /\ Open(w)
    /\ conn' = [conn EXCEPT ![sock[w]] = "closed"] /\ good' = good
    /\ sock' \in {sock, [sock EXCEPT ![w] = None]}

\* ... or handed to the application ...
HandsOver(w) ==
    /\ Open(w) /\ conn[sock[w]] = "held" /\ good[sock[w]]
    /\ conn' = [conn EXCEPT ![sock[w]] = "served"] /\ good' = good
    /\ sock' = sock

\* ... or one is taken from the backlog, or found to be gone.
TakesNext(w) ==
    /\ backlog # <<>> /\ ~Open(w) /\ good' = good
    /\ \/ /\ conn' = [conn EXCEPT ![Head(backlog)] = "held"]
          /\ sock' = [sock EXCEPT ![w] = Head(backlog)]
       \/ /\ conn' = [conn EXCEPT ![Head(backlog)] = "closed"]
          /\ sock' = [sock EXCEPT ![w] = None]

\* close() of what is open, or of what is not.
LEMMA ClosesSeen ==
    ASSUME IInv, NEW w \in Workers, Closes(w), UNCHANGED <<good, sock>>
    PROVE  Quiet \/ ClosesOpen(w)
<1>1. CASE Open(w)
  BY <1>1 DEF Closes, ClosesOpen, Open
<1>2. CASE ~Open(w)
  <2>1. sock[w] # None => sock[w] \in Conns /\ conn[sock[w]] = "closed"
    BY <1>2 DEF IInv, TypeOK, SockInv, Open
  <2>2. conn' = conn
    BY <2>1 DEF Closes, IInv, TypeOK
  <2> QED BY <2>2 DEF Quiet
<1> QED BY <1>1, <1>2

LEMMA DiesSeen ==
    ASSUME IInv, NEW w \in Workers, Dies(w), good' = good
    PROVE  Quiet \/ ClosesOpen(w)
<1>1. CASE Open(w)
  BY <1>1 DEF Dies, ClosesOpen
<1>2. CASE ~Open(w)
  BY <1>2 DEF Dies, Quiet, IInv, TypeOK
<1> QED BY <1>1, <1>2

LEMMA InterruptedSeen ==
    ASSUME IInv, NEW w \in Workers, NEW ends, Interrupted(w, ends), good' = good
    PROVE  Quiet \/ ClosesOpen(w)
<1>1. CASE pc[w] \in {"lock", "blocked"}
  <2>1. ~Open(w)
    BY <1>1 DEF IInv, SockInv
  <2> QED BY <1>1, <2>1 DEF Interrupted, Quiet, IInv, TypeOK
<1>2. CASE pc[w] = "select"
  BY <1>2, ClosesSeen DEF Interrupted
<1> QED BY <1>1, <1>2 DEF Interrupted

LEMMA WorkerSeen ==
    ASSUME IInv, NEW w \in Workers,
           \/ Worker(w) \/ AcceptAborted(w) \/ AcceptFails(w) \/ ReleaseFails(w)
           \/ Kill(w) \/ Spawn(w) \/ Terminate(w) \/ OtherSignal(w)
    PROVE  Quiet \/ ClosesOpen(w) \/ HandsOver(w) \/ TakesNext(w)
<1>1. CASE \/ Start(w) \/ Block(w) \/ TestShutdown(w) \/ AcquireLock(w) \/ ReleaseFails(w)
           \/ Spawn(w)
  BY <1>1 DEF Start, Block, TestShutdown, AcquireLock, ReleaseFails, Spawn, net, Quiet
<1>2. CASE Call(w) \/ AcceptFails(w)
  <2>1. ~Open(w)
    BY <1>2 DEF Call, AcceptFails, IInv, SockInv
  <2> QED BY <1>2, <2>1 DEF Call, AcceptFails, net, Quiet, IInv, TypeOK
<1>3. CASE Accepts(w) \/ AcceptAborted(w)
  <2>1. ~Open(w)
    BY <1>3 DEF Accepts, AcceptAborted, IInv, SockInv
  <2> QED BY <1>3, <2>1 DEF Accepts, AcceptAborted, TakesNext
<1>4. CASE Judge(w)
  BY <1>4, ClosesSeen DEF Judge, Quiet
<1>5. CASE ReleaseLock(w)
  <2>1. CASE pc[w] = "release" /\ mode.inet
    <3>1. conn[sock[w]] = "held" /\ good[sock[w]] /\ sock[w] # None
      BY <2>1 DEF IInv, RefusedInv, TypeOK
    <3> QED BY <1>5, <2>1, <3>1 DEF ReleaseLock, Returns, HandsOver, Open
  <2>2. CASE ~(pc[w] = "release" /\ mode.inet)
    BY <1>5, <2>2 DEF ReleaseLock, Quiet
  <2> QED BY <2>1, <2>2
<1>6. CASE KeepsUnix(w)
  <2>1. CASE Open(w) /\ good[sock[w]]
    <3>1. pc[w] = "select" /\ conn[sock[w]] = "held"
      BY <1>6, <2>1 DEF KeepsUnix, IInv, SockInv
    <3> QED BY <1>6, <2>1, <3>1 DEF KeepsUnix, Returns, HandsOver
  <2>2. CASE ~(Open(w) /\ good[sock[w]])
    BY <1>6, <2>2, ClosesSeen DEF KeepsUnix
  <2> QED BY <2>1, <2>2
<1>7. CASE Finish(w)
  BY <1>7, ClosesSeen DEF Finish
<1>8. CASE Exit(w) \/ Kill(w)
  BY <1>8, DiesSeen DEF Exit, Kill
<1>9. CASE Terminate(w)
  <2>1. good' = good
    BY <1>9 DEF Terminate
  <2>2. Dies(w) \/ Interrupted(w, TRUE) \/ UNCHANGED <<conn, sock>>
    BY <1>9 DEF Terminate
  <2> QED BY <2>1, <2>2, DiesSeen, InterruptedSeen DEF Quiet
<1>10. CASE OtherSignal(w)
  BY <1>10, InterruptedSeen DEF OtherSignal
<1> QED BY <1>1, <1>2, <1>3, <1>4, <1>5, <1>6, <1>7, <1>8, <1>9, <1>10 DEF Worker, Accept
\* Each of these is a step of SharedListener or none.
LEMMA QuietStep ==
    ASSUME IInv, Owners, Owners', Quiet PROVE UNCHANGED Listener!vars
<1>1. \A c \in Conns, w \in Workers : Has(w, c)' <=> Has(w, c)
  BY DEF Quiet, Has, Open, IInv, TypeOK
<1> QED BY <1>1, OwnerStays DEF Quiet, Listener!vars

LEMMA ClosesStep ==
    ASSUME IInv, Owners, Owners', NEW w \in Workers, ClosesOpen(w) PROVE Listener!Next
<1>1. PICK c \in Conns : c = sock[w] /\ conn[c] \in {"held", "served"}
  BY DEF ClosesOpen, Open, IInv, TypeOK
<1>2. \A v \in Workers : Has(v, c)' <=> v = None
  BY <1>1 DEF ClosesOpen, Has, Open, IInv, TypeOK
<1>3. \A d \in Conns \ {c}, v \in Workers : Has(v, d)' <=> Has(v, d)
  BY <1>1 DEF ClosesOpen, Has, Open, IInv, TypeOK
<1>4. Owner' = [Owner EXCEPT ![c] = None]
  BY <1>1, <1>2, <1>3, OwnerChanges
<1> QED BY <1>1, <1>4 DEF ClosesOpen, Listener!Next, Listener!Close

LEMMA HandsStep ==
    ASSUME IInv, Owners, Owners', NEW w \in Workers, HandsOver(w) PROVE Listener!Next
<1>1. sock[w] \in Conns
  BY DEF HandsOver, Open, IInv, TypeOK
<1>2. \A c \in Conns, v \in Workers : Has(v, c)' <=> Has(v, c)
  BY <1>1 DEF HandsOver, Has, Open, IInv, TypeOK
<1>3. Owner' = Owner
  BY <1>2, OwnerStays
<1> QED BY <1>1, <1>3 DEF HandsOver, Listener!Next, Listener!Hand

LEMMA TakesStep ==
    ASSUME IInv, Owners, Owners', NEW w \in Workers, TakesNext(w) PROVE Listener!Next
<1>1. PICK c \in Conns : c = Head(backlog) /\ conn[c] = "queued"
  <2>1. backlog # <<>> /\ backlog \in Seq(Conns)
    BY DEF TakesNext, IInv, TypeOK
  <2>2. /\ Head(backlog) = backlog[1] /\ 1 \in 1..Len(backlog)
        /\ Head(backlog) \in Conns
    BY <2>1
  <2> QED BY <2>2 DEF IInv, BacklogInv
<1>2. \A v \in Workers : sock[v] # c
  BY <1>1 DEF IInv, SockInv
<1>3. \A d \in Conns \ {c}, v \in Workers : Has(v, d)' <=> Has(v, d)
  BY <1>1, <1>2 DEF TakesNext, Has, Open, IInv, TypeOK
<1>4. CASE conn' = [conn EXCEPT ![c] = "held"] /\ sock' = [sock EXCEPT ![w] = c]
  <2>1. \A v \in Workers : Has(v, c)' <=> v = w
    BY <1>1, <1>2, <1>4 DEF Has, Open, IInv, TypeOK
  <2>2. Owner' = [Owner EXCEPT ![c] = w]
    BY <1>1, <1>3, <2>1, OwnerChanges
  <2>3. \A d \in Conns : Owner[d] # w
    BY DEF TakesNext, Owners, Has
  <2> QED BY <1>1, <1>4, <2>2, <2>3 DEF TakesNext, Listener!Next, Listener!Take
<1>5. CASE conn' = [conn EXCEPT ![c] = "closed"] /\ sock' = [sock EXCEPT ![w] = None]
  <2>1. \A v \in Workers : ~Has(v, c)' /\ ~Has(v, c)
    BY <1>1, <1>2, <1>5 DEF Has, Open, IInv, TypeOK
  <2>2. Owner' = Owner
    BY <1>3, <2>1, OwnerStays
  <2> QED BY <1>1, <1>5, <2>2 DEF TakesNext, Listener!Next, Listener!Abort
<1> QED BY <1>1, <1>4, <1>5 DEF TakesNext

LEMMA ConnectStep ==
    ASSUME IInv, Owners, Owners', NEW c \in Conns, Connect(c) PROVE Listener!Next
<1>1. \A d \in Conns, v \in Workers : Has(v, d)' <=> Has(v, d)
  BY DEF Connect, Has, Open, IInv, TypeOK, SockInv
<1>2. Owner' = Owner
  BY <1>1, OwnerStays
<1> QED BY <1>2 DEF Connect, Listener!Next, Listener!Connect

LEMMA ListenerStep ==
    ASSUME IInv, IInv', [Next]_vars PROVE [Listener!Next]_(Listener!vars)
<1>0. Owners /\ Owners'
  BY OwnersNow, OwnersThen
<1>1. CASE UNCHANGED vars
  <2>1. Quiet
    BY <1>1 DEF vars, net, Quiet
  <2> QED BY <1>0, <2>1, QuietStep
<1>2. CASE \E c \in Conns : Connect(c)
  BY <1>0, <1>2, ConnectStep
<1>3. ASSUME NEW w \in Workers,
             \/ Worker(w) \/ AcceptAborted(w) \/ AcceptFails(w) \/ ReleaseFails(w)
             \/ Kill(w) \/ Spawn(w) \/ Terminate(w) \/ OtherSignal(w)
      PROVE  [Listener!Next]_(Listener!vars)
  BY <1>0, <1>3, WorkerSeen, QuietStep, ClosesStep, HandsStep, TakesStep
<1> QED BY <1>1, <1>2, <1>3 DEF Next

\* The pool keeps the promise of SharedListener: a connection is taken by one worker at
\* most, a worker has one at a time, and what OS_Accept hands to the application is open,
\* its client accepted.
THEOREM Implements == Spec => ImplementsListener
<1>1. Init => Listener!Init
  <2> SUFFICES ASSUME Init PROVE Listener!Init
    OBVIOUS
  <2>1. Owner = [c \in Conns |-> None]
    BY DEF Init, Owner, Open
  <2> QED BY <2>1 DEF Init, Listener!Init
<1>2. IInv /\ IInv' /\ [Next]_vars => [Listener!Next]_(Listener!vars)
  BY ListenerStep
<1> QED BY <1>1, <1>2, Invariance, PTL DEF Spec, ImplementsListener, Listener!Spec
=============================================================================
