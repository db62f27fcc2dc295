------------------------------ MODULE OsWin32 ------------------------------
(***************************************************************************)
(* The OS layer on Windows (os_win32.c), in its two uses: a "server" is a  *)
(* FastCGI application that takes connections from a named pipe or socket  *)
(* it has inherited, next to other processes and to a thread of its own    *)
(* that waits for the shutdown event; a "client" (cgi-fcgi) connects to    *)
(* one and reads and writes through the I/O completion port, its standard  *)
(* input through a thread of its own.                                      *)
(*                                                                         *)
(* The handles that the library returns are entries of fdTable.            *)
(*                                                                         *)
(* A definition introduced by "Mutant:" is not part of the model: it is    *)
(* what the next one would be with a plausible bug.                        *)
(***************************************************************************)
EXTENDS Integers, Sequences, FiniteSets

CONSTANTS
    OpenMax,        \* WIN32_OPEN_MAX: 128
    MaxClients,     \* clients of a server, a bound
    Requests        \* the OVERLAPPED_REQUESTs a client can have at a time, a bound

ASSUME Win32Assumption ==
    OpenMax \in Nat /\ OpenMax > 3 /\ MaxClients \in Nat

Slots  == 0..OpenMax - 1
Stdio  == 0..2
NoSlot == -1

VARIABLES
    role, listenType,   \* how the process was started
    fdTable,            \* the type of each entry
    pc,                 \* the main thread
    \* ---- a server
    ipcFd,              \* what the application has of OS_Accept
    acceptMutex,        \* who has it; "none": there is no such mutex
    shutdownPending,
    pipe,               \* the client's end of the pipe
    queue,              \* clients of the socket, whether their address is allowed
    came,               \* clients so far
    left,               \* history: entries whose OS_IpcClose returned -1
    \* ---- a client
    allocated,          \* the requests in use
    stdinPort,          \* requests posted to hStdinCompPort
    kernel,             \* requests the system works on
    ioPort,             \* requests in hIoCompPort, completed
    stdinThread         \* whether it runs

server == <<ipcFd, acceptMutex, shutdownPending, pipe, queue, came, left>>
client == <<allocated, stdinPort, kernel, ioPort, stdinThread>>
vars   == <<role, listenType, fdTable, pc, server, client>>

ListenTypes == {"FD_UNUSED", "FD_PIPE_SYNC", "FD_SOCKET_SYNC"}
Types == ListenTypes \cup {"FD_PIPE_ASYNC", "FD_SOCKET_ASYNC"}
Async == {"FD_PIPE_ASYNC", "FD_SOCKET_ASYNC"}

TypeOK ==
    /\ role \in {"server", "client"} /\ listenType \in ListenTypes
    /\ fdTable \in [Slots -> Types]
    /\ pc \in {"app", "mutex", "locked", "accept", "doio", "callback", "exited"}
    /\ ipcFd \in Slots \cup {NoSlot}
    /\ acceptMutex \in {"none", "free", "main", "other"}
    /\ shutdownPending \in BOOLEAN
    /\ pipe \in {"idle", "connected", "broken"}
    /\ queue \in Seq(BOOLEAN)
    /\ came \in 0..MaxClients
    /\ left \subseteq Slots
    /\ allocated \subseteq Requests
    /\ stdinPort \subseteq Requests /\ kernel \subseteq Requests /\ ioPort \subseteq Requests
    /\ stdinThread \in BOOLEAN

\* OS_LibInit: for a server without, for a client with the standard handles; the
\* thread for standard input runs if there is CONTENT_LENGTH.
Init ==
    /\ \/ role = "server" /\ listenType \in ListenTypes \ {"FD_UNUSED"} /\ stdinThread = FALSE
       \/ role = "client" /\ listenType = "FD_UNUSED" /\ stdinThread \in BOOLEAN
    /\ fdTable = [s \in Slots |-> IF role = "client" /\ s \in Stdio THEN "FD_PIPE_SYNC"
                                  ELSE "FD_UNUSED"]
    /\ pc = "app"
    /\ ipcFd = NoSlot /\ acceptMutex \in {"none", "free"} /\ shutdownPending = FALSE
    /\ pipe = "idle" /\ queue = <<>> /\ came = 0 /\ left = {}
    /\ allocated = {}
    /\ stdinPort = {} /\ kernel = {} /\ ioPort = {}

-----------------------------------------------------------------------------
(* The table of descriptors *)

Unused == {s \in Slots : fdTable[s] = "FD_UNUSED"}

\* Where Win32NewDescriptor puts a new handle: at the entry of the handle's own
\* number, or else at the first unused one but 0.
NewEntries ==
    LET free == Unused \ {0}
    IN  IF free = {} THEN {NoSlot} ELSE free

Win32NewDescriptor(type, s) == fdTable' = [fdTable EXCEPT ![s] = type]

Win32FreeDescriptor(s) == fdTable' = [fdTable EXCEPT ![s] = "FD_UNUSED"]

-----------------------------------------------------------------------------
(* A server's surroundings: its clients, the other processes that share the *)
(* listener, the thread that waits for the shutdown event.                  *)

Connects ==
    /\ role = "server"
    /\ came < MaxClients
    /\ came' = came + 1
    /\ \/ /\ listenType = "FD_PIPE_SYNC" /\ pipe = "idle"
          /\ pipe' = "connected"
          /\ UNCHANGED queue
       \/ /\ listenType = "FD_SOCKET_SYNC"
          /\ \E allowed \in BOOLEAN : queue' = Append(queue, allowed)
          /\ UNCHANGED pipe
    /\ UNCHANGED <<role, listenType, fdTable, pc, ipcFd, acceptMutex, shutdownPending, left, client>>

\* The web server closes its end of the pipe before it has read everything.
Leaves ==
    /\ pipe = "connected"
    /\ pipe' = "broken"
    /\ UNCHANGED <<role, listenType, fdTable, pc, ipcFd, acceptMutex, shutdownPending, queue, came,
                   left, client>>

\* Another process, which keeps the mutex until a client has come, or it has been told
\* to stop; when it ends with the mutex the next wait is WAIT_ABANDONED.
OtherTakes ==
    /\ acceptMutex = "free" /\ role = "server"
    /\ acceptMutex' = "other"
    /\ UNCHANGED <<role, listenType, fdTable, pc, ipcFd, shutdownPending, pipe, queue, came,
                   left, client>>

OtherReleases ==
    /\ acceptMutex = "other"
    /\ acceptMutex' = "free"
    /\ queue' \in {queue} \cup (IF queue = <<>> THEN {} ELSE {Tail(queue)})
    /\ UNCHANGED <<role, listenType, fdTable, pc, ipcFd, shutdownPending, pipe, came, left, client>>

Ended(mutex) ==
    /\ pc' = "exited"
    /\ acceptMutex' = IF mutex = "main" THEN "free" ELSE mutex

\* ShutdownRequestThread; exit(0) if the listener is a pipe.  raise(SIGTERM) is taken
\* to have a handler.
ShutdownEvent ==
    /\ role = "server" /\ ~shutdownPending /\ pc # "exited"
    /\ shutdownPending' = TRUE
    /\ IF listenType = "FD_PIPE_SYNC" THEN Ended(acceptMutex)
       ELSE UNCHANGED <<pc, acceptMutex>>
    /\ UNCHANGED <<role, listenType, fdTable, ipcFd, pipe, queue, came, left, client>>

-----------------------------------------------------------------------------
(* OS_Accept *)

Unlocked == IF acceptMutex = "main" THEN "free" ELSE acceptMutex

\* OS_Accept returns s; the caller exits when it is -1.
Accepted(s) ==
    /\ ipcFd' = s
    /\ acceptMutex' = Unlocked
    /\ pc' = IF s = NoSlot THEN "exited" ELSE "app"

AcceptCall ==
    /\ role = "server" /\ pc = "app" /\ ipcFd = NoSlot
    /\ pc' = IF shutdownPending THEN "exited" ELSE "mutex"
    /\ UNCHANGED <<role, listenType, fdTable, server, client>>

WaitForMutex ==
    /\ pc = "mutex"
    /\ acceptMutex \in {"none", "free"}
    /\ acceptMutex' = IF acceptMutex = "free" THEN "main" ELSE "none"
    /\ pc' = "locked"
    /\ UNCHANGED <<role, listenType, fdTable, ipcFd, shutdownPending, pipe, queue, came, left,
                   client>>

\* Mutant: the mutex is not released when the process is shut down.
KeepsMutex ==
    /\ pc = "locked"
    /\ IF shutdownPending THEN pc' = "exited" ELSE pc' = "accept"
    /\ UNCHANGED <<role, listenType, fdTable, server, client>>

TestShutdown ==
    /\ pc = "locked"
    /\ IF shutdownPending THEN Accepted(NoSlot)
       ELSE pc' = "accept" /\ UNCHANGED <<ipcFd, acceptMutex>>
    /\ UNCHANGED <<role, listenType, fdTable, shutdownPending, pipe, queue, came, left, client>>

\* acceptNamedPipe.  ConnectNamedPipe waits for a client; its errors, among them the
\* one for a pipe that was not disconnected, are only printed.
AcceptNamedPipe ==
    /\ pc = "accept" /\ listenType = "FD_PIPE_SYNC"
    /\ pipe # "idle"
    /\ \E s \in NewEntries :
          /\ Accepted(s)
          /\ IF s = NoSlot THEN pipe' = "idle" /\ UNCHANGED fdTable
             ELSE Win32NewDescriptor("FD_PIPE_SYNC", s) /\ UNCHANGED pipe
    /\ UNCHANGED <<role, listenType, shutdownPending, queue, came, left, client>>

\* Mutant: acceptSocket does not look at shutdownPending when its wait is over.
SelectGoesOn ==
    /\ pc = "accept" /\ listenType = "FD_SOCKET_SYNC"
    /\ queue = <<>> /\ shutdownPending
    /\ UNCHANGED vars

\* acceptSocket: select() has waited a second for nothing.
SelectTimesOut ==
    /\ pc = "accept" /\ listenType = "FD_SOCKET_SYNC"
    /\ queue = <<>> /\ shutdownPending
    /\ Accepted(NoSlot)
    /\ UNCHANGED <<role, listenType, fdTable, shutdownPending, pipe, queue, came, left, client>>

\* WSAAccept asks isAddrOKCallback; a refused client is WSAECONNREFUSED, and the loop
\* goes on without a look at shutdownPending.
AcceptSocket ==
    /\ pc = "accept" /\ listenType = "FD_SOCKET_SYNC"
    /\ queue # <<>>
    /\ queue' = Tail(queue)
    /\ IF ~Head(queue) THEN UNCHANGED <<fdTable, ipcFd, acceptMutex, pc>>
       ELSE \E s \in NewEntries :
               /\ Accepted(s)
               /\ IF s = NoSlot THEN UNCHANGED fdTable
                  ELSE Win32NewDescriptor("FD_SOCKET_SYNC", s)
    /\ UNCHANGED <<role, listenType, shutdownPending, pipe, came, left, client>>

AcceptFails ==
    /\ pc \in {"mutex", "accept"}
    /\ pc = "accept" => listenType = "FD_SOCKET_SYNC"
    /\ Accepted(NoSlot)
    /\ UNCHANGED <<role, listenType, fdTable, shutdownPending, pipe, queue, came, left, client>>

\* FlushFileBuffers fails when the client has gone, DisconnectNamedPipe for reasons of the
\* system: OS_IpcClose returns -1, the pipe is not disconnected nor the entry freed.
IpcCloseFails ==
    /\ listenType = "FD_PIPE_SYNC"
    /\ left' = left \cup {ipcFd}
    /\ UNCHANGED <<fdTable, pipe>>

\* Mutant: the pipe is disconnected, but its entry is not freed.
IpcCloseKeeps ==
    /\ role = "server" /\ pc = "app" /\ ipcFd # NoSlot
    /\ ipcFd' = NoSlot
    /\ \/ IpcCloseFails
       \/ /\ pipe # "broken"
          /\ pipe' = "idle"
          /\ UNCHANGED <<fdTable, left>>
    /\ UNCHANGED <<role, listenType, pc, acceptMutex, shutdownPending, queue, came, client>>

\* OS_IpcClose; FCGX_Free does not look at what it returns.
IpcClose ==
    /\ role = "server" /\ pc = "app" /\ ipcFd # NoSlot
    /\ ipcFd' = NoSlot
    /\ \/ IpcCloseFails
       \/ /\ pipe # "broken"
          /\ Win32FreeDescriptor(ipcFd)
          /\ pipe' = "idle"
          /\ UNCHANGED left
    /\ UNCHANGED <<role, listenType, pc, acceptMutex, shutdownPending, queue, came, client>>

-----------------------------------------------------------------------------
(* A client *)

\* Between two OS_DoIo, or in a callback.
Calling == role = "client" /\ pc \in {"app", "callback"}

\* OS_FcgiConnect and a pipe, which is opened for overlapped I/O.
ConnectPipe ==
    /\ Calling
    /\ \E s \in NewEntries \ {NoSlot} : Win32NewDescriptor("FD_PIPE_ASYNC", s)
    /\ UNCHANGED <<role, listenType, pc, server, client>>

\* OS_FcgiConnect and a socket: connect() returns 0 for success, which is taken for the
\* failure, so that the socket is kept when it is not connected.
ConnectSocket ==
    /\ Calling
    /\ \E s \in NewEntries \ {NoSlot} : Win32NewDescriptor("FD_SOCKET_SYNC", s)
    /\ UNCHANGED <<role, listenType, pc, server, client>>

\* OS_SetFlags(O_NONBLOCK)
SetFlags(s) ==
    /\ Calling
    /\ fdTable[s] = "FD_SOCKET_SYNC"
    /\ fdTable' = [fdTable EXCEPT ![s] = "FD_SOCKET_ASYNC"]
    /\ UNCHANGED <<role, listenType, pc, server, client>>

\* OS_Close: closesocket(), but nothing for the handle of a pipe, goes with the entry.
Close(s) ==
    /\ Calling
    /\ s \notin Stdio /\ fdTable[s] # "FD_UNUSED"
    /\ Win32FreeDescriptor(s)
    /\ UNCHANGED <<role, listenType, pc, server, client>>

Starts(r) ==
    /\ Calling
    /\ r \notin allocated
    /\ allocated' = allocated \cup {r}

\* Mutant: ERROR_IO_PENDING is posted like any other error.
AsyncPostsPending(r, s) ==
    /\ fdTable[s] \in Async
    /\ Starts(r)
    /\ kernel' = kernel \cup {r}
    /\ ioPort' = ioPort \cup {r}
    /\ UNCHANGED <<role, listenType, fdTable, pc, server, stdinPort, stdinThread>>

\* OS_AsyncRead, OS_AsyncWrite.  The system takes the request and completes it, at
\* once or later, or refuses it; then the completion is posted here, and the callback
\* comes although -1 is returned.
AsyncIo(r, s) ==
    /\ fdTable[s] \in Async
    /\ Starts(r)
    /\ \/ kernel' = kernel \cup {r} /\ UNCHANGED ioPort
       \/ ioPort' = ioPort \cup {r} /\ UNCHANGED kernel
    /\ UNCHANGED <<role, listenType, fdTable, pc, server, stdinPort, stdinThread>>

AsyncReadStdin(r) ==
    /\ Starts(r)
    /\ stdinPort' = stdinPort \cup {r}
    /\ UNCHANGED <<role, listenType, fdTable, pc, server, kernel, ioPort, stdinThread>>

\* StdinThread: a read is posted to the port of the others, unless it fails (the end
\* of a pipe is a failure): then the thread ends, and the request with it.
StdinThread(r) ==
    /\ stdinThread /\ r \in stdinPort
    /\ stdinPort' = stdinPort \ {r}
    /\ \/ ioPort' = ioPort \cup {r} /\ UNCHANGED stdinThread
       \/ stdinThread' = FALSE /\ UNCHANGED ioPort
    /\ UNCHANGED <<role, listenType, fdTable, pc, server, allocated, kernel>>

\* The request is done, or aborted because its socket was closed.
KernelCompletes(r) ==
    /\ r \in kernel
    /\ kernel' = kernel \ {r}
    /\ ioPort' = ioPort \cup {r}
    /\ UNCHANGED <<role, listenType, fdTable, pc, server, allocated, stdinPort, stdinThread>>

DoIo ==
    /\ role = "client" /\ pc = "app"
    /\ pc' = "doio"
    /\ UNCHANGED <<role, listenType, fdTable, server, client>>

\* "Call callback if descriptor still valid": instance is compared, which no statement
\* ever changes, so that the comparison is always true.
Completion(r) ==
    /\ pc = "doio" /\ r \in ioPort
    /\ ioPort' = ioPort \ {r}
    /\ allocated' = allocated \ {r}
    /\ pc' = "callback"
    /\ UNCHANGED <<role, listenType, fdTable, server, stdinPort, kernel, stdinThread>>

\* The loop ends when its time is over.
CallbackReturns ==
    /\ pc = "callback"
    /\ pc' \in {"doio", "app"}
    /\ UNCHANGED <<role, listenType, fdTable, server, client>>

DoIoTimesOut ==
    /\ pc = "doio" /\ ioPort = {}
    /\ pc' = "app"
    /\ UNCHANGED <<role, listenType, fdTable, server, client>>

-----------------------------------------------------------------------------
ServerSteps ==
    \/ AcceptCall \/ WaitForMutex \/ TestShutdown \/ AcceptNamedPipe \/ SelectTimesOut
    \/ AcceptSocket \/ IpcClose

ClientSteps ==
    \/ DoIo \/ DoIoTimesOut \/ CallbackReturns
    \/ \E r \in Requests : Completion(r)

Next ==
    \/ Connects \/ Leaves \/ OtherTakes \/ OtherReleases \/ ShutdownEvent \/ AcceptFails
    \/ ServerSteps \/ ClientSteps
    \/ ConnectPipe \/ ConnectSocket
    \/ \E s \in Slots : SetFlags(s) \/ Close(s)
    \/ \E r \in Requests : \/ \E s \in Slots : AsyncIo(r, s)
                           \/ AsyncReadStdin(r) \/ StdinThread(r) \/ KernelCompletes(r)

\* The main thread of a server runs, its application finishes its requests, and the
\* system gives the mutex to those that wait for it in turn.  Other processes owe nothing:
\* the one that has the mutex may wait for a client for ever.
Spec ==
    /\ Init /\ [][Next]_vars
    /\ WF_vars(ServerSteps) /\ SF_vars(WaitForMutex)

-----------------------------------------------------------------------------
(* Properties *)

\* The accept mutex is held within OS_Accept only, whichever way it is left: shutdown
\* before, in and after the wait, errors, and the end of the process.
MutexGivenBack == acceptMutex = "main" => pc \in {"locked", "accept"}

\* The entries in use are the connection that the application has and those that an
\* OS_IpcClose of a pipe has left, for good, and none is given to a connection twice.
\* (Types first: a full table is not written past its end.)
EntriesAccounted ==
    /\ TypeOK
    /\ role = "server" => /\ Slots \ Unused = left \cup ({ipcFd} \ {NoSlot})
                          /\ ipcFd \notin left
                          /\ left # {} => listenType = "FD_PIPE_SYNC"

\* A process that is told to stop does, whether it is in OS_Accept or its application, if
\* the others are idle or let go of the accept mutex again and again.  One that waits for
\* a client with the mutex keeps this one from its look at the shutdown flag for ever.
ShutdownStops ==
    []<>(acceptMutex # "other") => (shutdownPending ~> pc = "exited")

\* Each request has one place, and none that is freed has any: two completions of a
\* request would be two callbacks and two free() of it.  A request gets lost with the
\* thread for standard input only.
OnePlace ==
    /\ stdinPort \cap kernel = {} /\ stdinPort \cap ioPort = {} /\ kernel \cap ioPort = {}
    /\ stdinPort \cup kernel \cup ioPort \subseteq allocated
    /\ stdinThread => allocated \subseteq stdinPort \cup kernel \cup ioPort

=============================================================================
