------------------------------ MODULE OsAsync ------------------------------
(***************************************************************************)
(* The asynchronous input and output of os_unix.c: a table with two        *)
(* entries for each descriptor, the sets given to select(), and the events *)
(* that select() has reported and OS_DoIo has not dispatched yet.  The     *)
(* callbacks run within OS_DoIo and may start and close anything.          *)
(*                                                                         *)
(* An operation <<k, fd>> is a table entry.  The sets are C sets of the    *)
(* same name, reads and writes together, without FdSet in their names.     *)
(*                                                                         *)
(* A definition introduced by "Mutant:" is not part of the model: it is    *)
(* what the next one would be with a plausible bug.                        *)
(***************************************************************************)
EXTENDS Integers, FiniteSets

CONSTANTS
    MaxDescriptor,  \* the descriptors are 0..MaxDescriptor, 0 is STDIN_FILENO
    FirstSize,      \* asyncIoTableSize at first: 16
    MaxCalls        \* calls within one callback, a bound

ASSUME AsyncAssumption ==
    MaxDescriptor \in Nat /\ FirstSize \in Nat \ {0} /\ MaxCalls \in Nat

Fds   == 0..MaxDescriptor
Kinds == {"rd", "wr"}
Ops   == Kinds \X Fds

VARIABLES
    libInitialized, asyncIoInUse, asyncIoTableSize,
    inUse,          \* the table entries in use
    set,            \* readFdSet, writeFdSet
    post,           \* readFdSetPost, writeFdSetPost
    numPosted,      \* numRdPosted, numWrPosted
    maxFd,
    pc, at,         \* where OS_DoIo is, the entry its loop is at
    calls,          \* made by the callback
    \* ---- history
    ready,          \* the operations that were reported since they were started
    cancelled,      \* descriptors, not closed since, whose read OS_CloseRead has taken from
                    \* the table with its event posted
    clobbered       \* a descriptor was closed while an event of it was posted

history == <<ready, cancelled, clobbered>>

lib  == <<libInitialized, asyncIoInUse, asyncIoTableSize>>
vars == <<lib, inUse, set, post, numPosted, maxFd, pc, at, calls, history>>

Index(op) == 2 * op[2] + (IF op[1] = "rd" THEN 0 ELSE 1)

TypeOK ==
    /\ libInitialized \in BOOLEAN /\ asyncIoInUse \in BOOLEAN
    /\ asyncIoTableSize \in Nat
    /\ inUse \subseteq Ops /\ set \subseteq Ops /\ post \subseteq Ops /\ ready \subseteq Ops
    /\ numPosted \in [Kinds -> Nat]
    /\ maxFd \in -1..MaxDescriptor
    /\ pc \in {"app", "select", "loop", "callback", "exited"}
    /\ at \in 0..2 * MaxDescriptor + 2
    /\ calls \in 0..MaxCalls
    /\ cancelled \subseteq Fds
    /\ clobbered \in BOOLEAN

Init ==
    /\ libInitialized = FALSE /\ asyncIoInUse = FALSE /\ asyncIoTableSize = FirstSize
    /\ inUse = {} /\ set = {} /\ post = {}
    /\ numPosted = [k \in Kinds |-> 0]
    /\ maxFd = -1
    /\ pc = "app" /\ at = 0 /\ calls = 0
    /\ ready = {} /\ cancelled = {} /\ clobbered = FALSE

-----------------------------------------------------------------------------
LibInit ==
    /\ pc = "app" /\ ~libInitialized
    /\ libInitialized' = TRUE
    /\ inUse' = {} /\ set' = {} /\ post' = {} /\ ready' = {} /\ cancelled' = {}
    /\ UNCHANGED <<asyncIoInUse, asyncIoTableSize, numPosted, maxFd, pc, at, calls, clobbered>>

\* The table is freed; the flag, the sizes and the counts stay as they are.
LibShutdown ==
    /\ pc = "app" /\ libInitialized
    /\ libInitialized' = FALSE
    /\ inUse' = {} /\ ready' = {}
    /\ UNCHANGED <<asyncIoInUse, asyncIoTableSize, set, post, numPosted, maxFd, pc, at, calls,
                   cancelled, clobbered>>

\* The application calls the library between two OS_DoIo, or from a callback.
Calling ==
    /\ libInitialized
    /\ \/ pc = "app" /\ UNCHANGED calls
       \/ pc = "callback" /\ calls < MaxCalls /\ calls' = calls + 1

\* asyncIoTableSize after n calls of GrowAsyncTable.
Enlarged[n \in Nat] == IF n = 0 THEN asyncIoTableSize ELSE 2 * Enlarged[n - 1]

\* GrowAsyncTable, as often as it takes to have the entry i.
Grown(i) == Enlarged[CHOOSE n \in 0..i :
                        Enlarged[n] > i /\ \A m \in 0..n - 1 : Enlarged[m] <= i]

\* OS_AsyncRead, OS_AsyncWrite; the ASSERT is a duty of the caller.  For STDIN
\* OS_AsyncReadStdin does the same, and its entry is always there.
Async(op) ==
    /\ Calling
    /\ op \notin inUse
    /\ asyncIoInUse' = TRUE
    /\ maxFd' = IF op[2] > maxFd THEN op[2] ELSE maxFd
    /\ asyncIoTableSize' = Grown(Index(op))
    /\ inUse' = inUse \cup {op}
    /\ set' = set \cup {op}
    /\ ready' = ready \ {op}
    /\ UNCHANGED <<libInitialized, post, numPosted, pc, at, cancelled, clobbered>>

Both(fd) == Kinds \X {fd}

\* What the history notes of a close of fd: its events go with it.
Closed(fd) ==
    /\ ready' = ready \ Both(fd)
    /\ cancelled' = IF asyncIoInUse THEN cancelled \ {fd} ELSE cancelled
    /\ clobbered' = (clobbered \/ post \cap Both(fd) # {})

\* Mutant: the posted events are not cleared.
CloseKeepsPosted(fd) ==
    /\ Calling
    /\ \A op \in Both(fd) : Index(op) < asyncIoTableSize
    /\ IF ~asyncIoInUse THEN UNCHANGED <<inUse, set, maxFd>>
       ELSE /\ inUse' = inUse \ Both(fd)
            /\ set' = set \ Both(fd)
            /\ maxFd' = IF maxFd = fd THEN maxFd - 1 ELSE maxFd
    /\ Closed(fd)
    /\ UNCHANGED <<lib, post, numPosted, pc, at>>

\* Mutant: every close lowers maxFd.
CloseLowersMax(fd) ==
    /\ Calling
    /\ \A op \in Both(fd) : Index(op) < asyncIoTableSize
    /\ inUse' = inUse \ Both(fd)
    /\ set' = set \ Both(fd)
    /\ post' = post \ Both(fd)
    /\ maxFd' = IF maxFd >= fd THEN fd - 1 ELSE maxFd
    /\ Closed(fd)
    /\ UNCHANGED <<lib, numPosted, pc, at>>

\* OS_Close: the counts are not lowered with the posted events.  A descriptor whose
\* entries the table does not have (undefined behaviour) is not closed here.
Close(fd) ==
    /\ Calling
    /\ \A op \in Both(fd) : Index(op) < asyncIoTableSize
    /\ IF ~asyncIoInUse THEN UNCHANGED <<inUse, set, post, maxFd>>
       ELSE /\ inUse' = inUse \ Both(fd)
            /\ set' = set \ Both(fd)
            /\ post' = post \ Both(fd)
            /\ maxFd' = IF maxFd = fd THEN maxFd - 1 ELSE maxFd
    /\ Closed(fd)
    /\ UNCHANGED <<lib, numPosted, pc, at>>

\* OS_CloseRead leaves the posted event in place.
CloseRead(fd) ==
    /\ Calling
    /\ <<"rd", fd>> \in inUse
    /\ inUse' = inUse \ {<<"rd", fd>>}
    /\ set' = set \ {<<"rd", fd>>}
    /\ ready' = ready \ {<<"rd", fd>>}
    /\ IF <<"rd", fd>> \in post
       THEN cancelled' = cancelled \cup {fd} /\ clobbered' = TRUE
       ELSE UNCHANGED <<cancelled, clobbered>>
    /\ UNCHANGED <<lib, post, numPosted, maxFd, pc, at>>

-----------------------------------------------------------------------------
(* OS_DoIo *)

NothingPosted == \A k \in Kinds : numPosted[k] = 0

DoIo ==
    /\ pc = "app" /\ libInitialized
    /\ asyncIoInUse' = TRUE
    /\ pc' = IF NothingPosted THEN "select" ELSE "loop"
    /\ at' = 0
    /\ UNCHANGED <<libInitialized, asyncIoTableSize, inUse, set, post, numPosted, maxFd,
                   calls, history>>

Watched == {op \in set : op[2] <= maxFd}
OfKind(S, k) == {op \in S : op[1] = k}

\* select() reports S, or nothing within the time it is given.
Select(S) ==
    /\ pc = "select"
    /\ set' = set \ S
    /\ post' = post \cup S
    /\ ready' = ready \cup S
    /\ numPosted' = [k \in Kinds |-> numPosted[k] + Cardinality(OfKind(S, k))]
    /\ pc' = IF S = {} THEN "app" ELSE "loop"
    /\ UNCHANGED <<lib, inUse, maxFd, at, calls, cancelled, clobbered>>

\* select() fails, and OS_DoIo ends the process.
SelectFails ==
    /\ pc = "select"
    /\ pc' = "exited"
    /\ UNCHANGED <<lib, inUse, set, post, numPosted, maxFd, at, calls, history>>

Entry == CHOOSE op \in Ops : Index(op) = at
InLoop == pc = "loop" /\ (at % 2 = 1 \/ at <= 2 * maxFd)

\* The reads of descriptors that OS_CloseRead has left an event of.
Stale == {"rd"} \X cancelled

\* Mutant: the entry is still in use during the callback, and after.
DispatchKeeps ==
    /\ InLoop
    /\ Entry \in post \cap inUse
    /\ numPosted' = [numPosted EXCEPT ![Entry[1]] = @ - 1]
    /\ post' = post \ {Entry}
    /\ pc' = "callback" /\ at' = at + 1 /\ calls' = 0
    /\ UNCHANGED <<lib, inUse, set, maxFd, history>>

\* The read or write, and the callback.
Dispatch ==
    /\ InLoop
    /\ Entry \in post \cap inUse
    /\ numPosted' = [numPosted EXCEPT ![Entry[1]] = @ - 1]
    /\ post' = post \ {Entry}
    /\ inUse' = inUse \ {Entry}
    /\ pc' = "callback" /\ at' = at + 1 /\ calls' = 0
    /\ UNCHANGED <<lib, set, maxFd, history>>

Pass ==
    /\ InLoop
    /\ Entry \notin post \cap inUse
    /\ at' = at + 1
    /\ UNCHANGED <<lib, inUse, set, post, numPosted, maxFd, pc, calls, history>>

CallbackReturns ==
    /\ pc = "callback"
    /\ pc' = "loop" /\ calls' = 0
    /\ UNCHANGED <<lib, inUse, set, post, numPosted, maxFd, at, history>>

DoIoReturns ==
    /\ pc = "loop" /\ ~InLoop
    /\ pc' = "app" /\ at' = 0
    /\ UNCHANGED <<lib, inUse, set, post, numPosted, maxFd, calls, history>>

-----------------------------------------------------------------------------
Next ==
    \/ LibInit \/ LibShutdown
    \/ \E op \in Ops : Async(op)
    \/ \E fd \in Fds : Close(fd) \/ CloseRead(fd)
    \/ DoIo \/ SelectFails \/ \E S \in SUBSET Watched : Select(S)
    \/ Dispatch \/ Pass \/ CallbackReturns \/ DoIoReturns

\* The application calls OS_DoIo again and again, callbacks return, and an operation
\* that could be reported again and again is.
Spec ==
    /\ Init /\ [][Next]_vars
    /\ WF_vars(DoIo) /\ WF_vars(Dispatch \/ Pass \/ CallbackReturns \/ DoIoReturns)
    /\ WF_vars(\E S \in SUBSET Watched : Select(S))
    /\ \A op \in Ops : SF_vars(\E S \in SUBSET Watched : op \in S /\ Select(S))

-----------------------------------------------------------------------------
(* Properties *)

\* Every operation in use is waited for or posted, in reach of the loops (maxFd) and
\* of the table, and nothing else is; callbacks that start and close in the middle of a
\* round included.  Only the reads of a descriptor that OS_CloseRead has left an event of
\* may be in a set without being in use, or in both.  (Types first.)
TableMatchesSets ==
    /\ TypeOK
    /\ libInitialized =>
        /\ inUse \subseteq set \cup post
        /\ (set \cup post) \ inUse \subseteq Stale
        /\ set \cap post \subseteq Stale
        /\ \A op \in inUse : op[2] <= maxFd /\ Index(op) < asyncIoTableSize

\* A callback runs only for an operation that select() has reported since the operation
\* was started, not for one started in the same round on the same descriptor, whatever
\* was closed in between; but for the reads of a descriptor that OS_CloseRead has left an
\* event of, which get that one.
DispatchedWasReady ==
    [][Dispatch => Entry \in ready \cup Stale]_vars

\* An operation is called back unless it is closed, the process ends, or a descriptor was
\* closed while an event of it was posted: the counts then keep OS_DoIo from select().
CalledBack ==
    \A op \in Ops : op \in inUse ~> op \notin inUse \/ clobbered \/ pc = "exited"
=============================================================================
