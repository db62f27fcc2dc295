---------------------------- MODULE OsWin32Proofs ----------------------------
(***************************************************************************)
(* OsWin32 for a table of any size, any number of clients and any set of   *)
(* requests: the accept mutex is held within OS_Accept only, the table     *)
(* holds what the application has, and a request has one place.            *)
(***************************************************************************)
EXTENDS OsWin32, TLAPS

\* In OS_Accept the application has no connection.
IpcInv == pc \in {"mutex", "locked", "accept"} => ipcFd = NoSlot

\* What EntriesAccounted says beside the types.
KeptInv ==
    role = "server" => /\ \A s \in Slots : fdTable[s] # "FD_UNUSED" <=> s \in left \/ s = ipcFd
                       /\ ipcFd \notin left
                       /\ left # {} => listenType = "FD_PIPE_SYNC"

IInv == TypeOK /\ MutexGivenBack /\ IpcInv /\ KeptInv /\ OnePlace

-----------------------------------------------------------------------------
(* The parts of TypeOK. *)

TableType ==
    /\ role \in {"server", "client"} /\ listenType \in ListenTypes
    /\ fdTable \in [Slots -> Types]
    /\ pc \in {"app", "mutex", "locked", "accept", "doio", "callback", "exited"}

ServerType ==
    /\ ipcFd \in Slots \cup {NoSlot}
    /\ acceptMutex \in {"none", "free", "main", "other"}
    /\ shutdownPending \in BOOLEAN
    /\ pipe \in {"idle", "connected", "broken"}
    /\ queue \in Seq(BOOLEAN)
    /\ came \in 0..MaxClients
    /\ left \subseteq Slots

ClientType ==
    /\ allocated \subseteq Requests
    /\ stdinPort \subseteq Requests /\ kernel \subseteq Requests /\ ioPort \subseteq Requests
    /\ stdinThread \in BOOLEAN

LEMMA TypeParts ==
    /\ TypeOK <=> TableType /\ ServerType /\ ClientType
    /\ TypeOK' <=> TableType' /\ ServerType' /\ ClientType'
  BY DEF TypeOK, TableType, ServerType, ClientType

\* The state of a client does not matter to a server, nor the other way round.
ServerPart == ServerType /\ MutexGivenBack /\ IpcInv /\ KeptInv
ClientPart == ClientType /\ OnePlace

LEMMA InvParts ==
    /\ IInv <=> TableType /\ ServerPart /\ ClientPart
    /\ IInv' <=> TableType' /\ ServerPart' /\ ClientPart'
  BY TypeParts DEF IInv, ServerPart, ClientPart

LEMMA ClientStays == ClientPart /\ UNCHANGED client => ClientPart'
  BY DEF ClientPart, ClientType, OnePlace, client

\* A new handle gets an entry that was not in use.
LEMMA NewEntry ==
    ASSUME NEW s \in NewEntries
    PROVE  s = NoSlot \/ (s \in Slots /\ fdTable[s] = "FD_UNUSED")
  BY DEF NewEntries, Unused

LEMMA NoSlotIsNone == NoSlot \notin Slots
  BY Win32Assumption DEF NoSlot, Slots

-----------------------------------------------------------------------------
LEMMA InitInv == Init => IInv
<1> SUFFICES ASSUME Init PROVE IInv
  OBVIOUS
<1>1. TableType
  BY DEF Init, TableType, ListenTypes, Types
<1>2. ServerType
  <2>1. queue \in Seq(BOOLEAN) /\ came \in 0..MaxClients
    BY Win32Assumption DEF Init
  <2> QED BY <2>1 DEF Init, ServerType
<1>3. MutexGivenBack /\ IpcInv /\ KeptInv
  BY NoSlotIsNone DEF Init, MutexGivenBack, IpcInv, KeptInv
<1>4. ClientPart
  BY DEF Init, ClientPart, ClientType, OnePlace
<1> QED BY <1>1, <1>2, <1>3, <1>4, InvParts DEF ServerPart

-----------------------------------------------------------------------------
(* The surroundings of a server *)

LEMMA SurroundingsKeep ==
    ASSUME IInv, Connects \/ Leaves \/ OtherTakes \/ OtherReleases \/ ShutdownEvent
    PROVE  IInv'
<1> USE InvParts
<1>1. ClientPart'
  BY ClientStays DEF Connects, Leaves, OtherTakes, OtherReleases, ShutdownEvent
<1>2. TableType'
  BY DEF Connects, Leaves, OtherTakes, OtherReleases, ShutdownEvent, Ended, TableType
<1>3. UNCHANGED <<role, listenType, fdTable, ipcFd, left>>
  BY DEF Connects, Leaves, OtherTakes, OtherReleases, ShutdownEvent
<1>4. CASE Connects
  <2>1. UNCHANGED <<pc, acceptMutex, shutdownPending>>
    BY <1>4 DEF Connects
  <2>2. came' \in 0..MaxClients
    BY <1>4, Win32Assumption DEF Connects, ServerPart, ServerType
  <2>3. queue' \in Seq(BOOLEAN)
    BY <1>4 DEF Connects, ServerPart, ServerType
  <2>4. pipe' = pipe \/ (pipe = "idle" /\ pipe' = "connected")
    BY <1>4 DEF Connects
  <2> QED BY <1>1, <1>2, <1>3, <2>1, <2>2, <2>3, <2>4
          DEF ServerPart, ServerType, MutexGivenBack, IpcInv, KeptInv
<1>5. CASE Leaves
  BY <1>1, <1>2, <1>3, <1>5 DEF Leaves, ServerPart, ServerType, MutexGivenBack, IpcInv, KeptInv
<1>6. CASE OtherTakes
  BY <1>1, <1>2, <1>3, <1>6 DEF OtherTakes, ServerPart, ServerType, MutexGivenBack, IpcInv, KeptInv
<1>7. CASE OtherReleases
  <2>1. queue' \in Seq(BOOLEAN)
    BY <1>7 DEF OtherReleases, ServerPart, ServerType
  <2> QED BY <1>1, <1>2, <1>3, <1>7, <2>1
          DEF OtherReleases, ServerPart, ServerType, MutexGivenBack, IpcInv, KeptInv
<1>8. CASE ShutdownEvent
  BY <1>1, <1>2, <1>3, <1>8
     DEF ShutdownEvent, Ended, ServerPart, ServerType, MutexGivenBack, IpcInv, KeptInv
<1> QED BY <1>4, <1>5, <1>6, <1>7, <1>8

-----------------------------------------------------------------------------
(* OS_Accept and OS_IpcClose *)

\* A return from OS_Accept gives the mutex back, whichever it is.
LEMMA AcceptedKeeps ==
    ASSUME IInv, NEW s \in Slots \cup {NoSlot}, Accepted(s), pc \in {"mutex", "locked", "accept"},
           UNCHANGED <<role, listenType, left>>, s \in NewEntries \cup {NoSlot},
           IF s = NoSlot THEN UNCHANGED fdTable
           ELSE \E t \in ListenTypes \ {"FD_UNUSED"} : Win32NewDescriptor(t, s)
    PROVE  /\ pc' \in {"app", "exited"} /\ ipcFd' \in Slots \cup {NoSlot}
           /\ acceptMutex' \in {"none", "free", "other"}
           /\ fdTable' \in [Slots -> Types]
           /\ MutexGivenBack' /\ IpcInv' /\ KeptInv'
<1> USE InvParts DEF TableType, ServerPart, ServerType
<1>1. /\ ipcFd' = s /\ ipcFd = NoSlot
      /\ pc' = IF s = NoSlot THEN "exited" ELSE "app"
      /\ acceptMutex' \in {"none", "free", "other"}
  BY DEF Accepted, Unlocked, IpcInv
<1>2. fdTable' \in [Slots -> Types]
  BY DEF Win32NewDescriptor, Types
<1>3. MutexGivenBack' /\ IpcInv'
  BY <1>1 DEF MutexGivenBack, IpcInv
<1>4. KeptInv'
  <2>1. \A t \in Slots : t # NoSlot
    BY NoSlotIsNone
  <2>2. CASE s = NoSlot
    BY <1>1, <2>1, <2>2 DEF KeptInv
  <2>3. CASE s # NoSlot
    <3>1. s \in Slots /\ fdTable[s] = "FD_UNUSED"
      BY <2>3, NewEntry
    <3>2. /\ fdTable'[s] # "FD_UNUSED"
          /\ \A t \in Slots : t # s => fdTable'[t] = fdTable[t]
      BY <2>3, <3>1 DEF Win32NewDescriptor
    <3> QED BY <1>1, <2>1, <3>1, <3>2 DEF KeptInv
  <2> QED BY <2>2, <2>3
<1> QED BY <1>1, <1>2, <1>3, <1>4

LEMMA AcceptKeeps ==
    ASSUME IInv, AcceptCall \/ WaitForMutex \/ TestShutdown
    PROVE  IInv'
<1> USE InvParts
<1>1. ClientPart'
  BY ClientStays DEF AcceptCall, WaitForMutex, TestShutdown
<1>2. CASE AcceptCall
  BY <1>1, <1>2 DEF AcceptCall, server, TableType, ServerPart, ServerType, MutexGivenBack, IpcInv,
     KeptInv
<1>3. CASE WaitForMutex
  BY <1>1, <1>3 DEF WaitForMutex, TableType, ServerPart, ServerType, MutexGivenBack, IpcInv, KeptInv
<1>4. CASE TestShutdown /\ ~shutdownPending
  BY <1>1, <1>4 DEF TestShutdown, TableType, ServerPart, ServerType, MutexGivenBack, IpcInv, KeptInv
<1>5. CASE TestShutdown /\ shutdownPending
  <2>1. /\ Accepted(NoSlot) /\ pc = "locked"
        /\ UNCHANGED <<role, listenType, fdTable, shutdownPending, pipe, queue, came, left>>
    BY <1>5 DEF TestShutdown
  <2>2. /\ pc' \in {"app", "exited"} /\ ipcFd' \in Slots \cup {NoSlot}
        /\ acceptMutex' \in {"none", "free", "other"}
        /\ MutexGivenBack' /\ IpcInv' /\ KeptInv'
    BY <2>1, AcceptedKeeps
  <2> QED BY <1>1, <2>1, <2>2 DEF TableType, ServerPart, ServerType
<1> QED BY <1>2, <1>3, <1>4, <1>5

LEMMA AcceptReturnsKeep ==
    ASSUME IInv, AcceptNamedPipe \/ SelectTimesOut \/ AcceptSocket \/ AcceptFails
    PROVE  IInv'
<1> USE InvParts
<1>1. ClientPart'
  BY ClientStays DEF AcceptNamedPipe, SelectTimesOut, AcceptSocket, AcceptFails
<1>2. pc \in {"mutex", "accept"} /\ UNCHANGED <<role, listenType, shutdownPending, came, left>>
  BY DEF AcceptNamedPipe, SelectTimesOut, AcceptSocket, AcceptFails
<1>3. pipe' \in {"idle", "connected", "broken"}
  BY DEF AcceptNamedPipe, SelectTimesOut, AcceptSocket, AcceptFails, ServerPart, ServerType
<1>4. queue' \in Seq(BOOLEAN)
  <2>1. queue \in Seq(BOOLEAN)
    BY DEF ServerPart, ServerType
  <2>2. UNCHANGED queue \/ (queue # <<>> /\ queue' = Tail(queue))
    BY DEF AcceptNamedPipe, SelectTimesOut, AcceptSocket, AcceptFails
  <2>3. CASE queue # <<>> /\ queue' = Tail(queue)
    BY <2>1, <2>3
  <2> QED BY <2>1, <2>2, <2>3
\* a refused client, and the loop goes on
<1>5. CASE UNCHANGED <<fdTable, ipcFd, acceptMutex, pc, pipe>>
  BY <1>1, <1>2, <1>3, <1>4, <1>5
     DEF TableType, ServerPart, ServerType, MutexGivenBack, IpcInv, KeptInv
<1>6. CASE \E s \in NewEntries \cup {NoSlot} :
              /\ Accepted(s)
              /\ IF s = NoSlot THEN UNCHANGED fdTable
                 ELSE \E t \in ListenTypes \ {"FD_UNUSED"} : Win32NewDescriptor(t, s)
  <2>1. PICK s \in NewEntries \cup {NoSlot} :
              /\ Accepted(s)
              /\ IF s = NoSlot THEN UNCHANGED fdTable
                 ELSE \E t \in ListenTypes \ {"FD_UNUSED"} : Win32NewDescriptor(t, s)
    BY <1>6
  <2>2. s \in Slots \cup {NoSlot}
    BY NewEntry
  <2>3. /\ pc' \in {"app", "exited"} /\ ipcFd' \in Slots \cup {NoSlot}
        /\ acceptMutex' \in {"none", "free", "other"}
        /\ fdTable' \in [Slots -> Types]
        /\ MutexGivenBack' /\ IpcInv' /\ KeptInv'
    BY <1>2, <2>1, <2>2, AcceptedKeeps
  <2> QED BY <1>1, <1>2, <1>3, <1>4, <2>3 DEF TableType, ServerPart, ServerType
<1>7. \/ UNCHANGED <<fdTable, ipcFd, acceptMutex, pc, pipe>>
      \/ \E s \in NewEntries \cup {NoSlot} :
              /\ Accepted(s)
              /\ IF s = NoSlot THEN UNCHANGED fdTable
                 ELSE \E t \in ListenTypes \ {"FD_UNUSED"} : Win32NewDescriptor(t, s)
  <2>1. CASE AcceptNamedPipe
    BY <2>1 DEF AcceptNamedPipe, ListenTypes
  <2>2. CASE SelectTimesOut \/ AcceptFails
    BY <2>2 DEF SelectTimesOut, AcceptFails
  <2>3. CASE AcceptSocket
    BY <2>3 DEF AcceptSocket, ListenTypes
  <2> QED BY <2>1, <2>2, <2>3
<1> QED BY <1>5, <1>6, <1>7

\* Either the entry is freed, or it is left in the table of a server on a pipe.
LEMMA IpcCloseInv == ASSUME IInv, IpcClose PROVE IInv'
<1> USE InvParts
<1>1. /\ role = "server" /\ pc = "app" /\ ipcFd # NoSlot /\ ipcFd' = NoSlot
      /\ UNCHANGED <<role, listenType, pc, acceptMutex, shutdownPending, queue, came>>
  BY DEF IpcClose
<1>2. ClientPart'
  BY ClientStays DEF IpcClose
<1>3. ipcFd \in Slots /\ \A s \in Slots : s # NoSlot
  BY <1>1, NoSlotIsNone DEF ServerPart, ServerType
<1>4. CASE IpcCloseFails
  <2>1. left' = left \cup {ipcFd} /\ UNCHANGED <<fdTable, pipe>> /\ listenType = "FD_PIPE_SYNC"
    BY <1>4 DEF IpcCloseFails
  <2>2. KeptInv'
    BY <1>1, <1>3, <2>1, NoSlotIsNone DEF ServerPart, ServerType, KeptInv
  <2> QED BY <1>1, <1>2, <1>3, <2>1, <2>2
          DEF TableType, ServerPart, ServerType, MutexGivenBack, IpcInv
<1>5. CASE Win32FreeDescriptor(ipcFd) /\ pipe' = "idle" /\ UNCHANGED left
  <2>1. fdTable' = [fdTable EXCEPT ![ipcFd] = "FD_UNUSED"] /\ pipe' = "idle"
    BY <1>5 DEF Win32FreeDescriptor
  <2>2. fdTable' \in [Slots -> Types]
    BY <2>1 DEF TableType, Types, ListenTypes
  <2>3. KeptInv'
    <3>1. fdTable'[ipcFd] = "FD_UNUSED" /\ \A s \in Slots : s # ipcFd => fdTable'[s] = fdTable[s]
      BY <1>3, <2>1 DEF TableType
    <3>2. NoSlot \notin left
      BY NoSlotIsNone DEF ServerPart, ServerType
    <3> QED BY <1>1, <1>3, <1>5, <3>1, <3>2 DEF ServerPart, KeptInv
  <2> QED BY <1>1, <1>2, <1>5, <2>1, <2>2, <2>3
          DEF TableType, ServerPart, ServerType, MutexGivenBack, IpcInv
<1> QED BY <1>4, <1>5 DEF IpcClose

-----------------------------------------------------------------------------
(* A client *)

\* What a client's step leaves of a server.
LEMMA ServerStays ==
    ASSUME IInv, UNCHANGED <<server, role, listenType>>,
           \/ role = "client" /\ pc' \in {"app", "doio", "callback"} /\ acceptMutex # "main"
           \/ UNCHANGED <<pc, fdTable>>
           \/ pc \in {"doio", "callback"} /\ pc' \in {"app", "doio", "callback"} /\ UNCHANGED fdTable
    PROVE  ServerPart'
  BY InvParts DEF ServerPart, ServerType, MutexGivenBack, IpcInv, KeptInv, server

LEMMA TableKeeps ==
    ASSUME IInv, \/ ConnectPipe \/ ConnectSocket
                 \/ \E s \in Slots : SetFlags(s) \/ Close(s)
    PROVE  IInv'
<1> USE InvParts
<1>1. /\ Calling /\ UNCHANGED <<role, listenType, pc, server, client>>
  BY DEF ConnectPipe, ConnectSocket, SetFlags, Close
<1>2. fdTable' \in [Slots -> Types]
  <2>1. CASE ConnectPipe \/ ConnectSocket
    BY <2>1 DEF ConnectPipe, ConnectSocket, Win32NewDescriptor, TableType, Types, ListenTypes
  <2>2. CASE \E s \in Slots : SetFlags(s) \/ Close(s)
    BY <2>2 DEF SetFlags, Close, Win32FreeDescriptor, TableType, Types, ListenTypes
  <2> QED BY <2>1, <2>2
<1>3. ServerPart'
  <2>1. role = "client" /\ pc' \in {"app", "callback"} /\ acceptMutex # "main"
    BY <1>1 DEF Calling, ServerPart, MutexGivenBack
  <2> QED BY <1>1, <2>1, ServerStays
<1> QED BY <1>1, <1>2, <1>3, ClientStays DEF TableType

LEMMA LoopKeeps ==
    ASSUME IInv, DoIo \/ DoIoTimesOut \/ CallbackReturns
    PROVE  IInv'
<1> USE InvParts
<1>1. /\ UNCHANGED <<role, listenType, fdTable, server, client>>
      /\ pc \in {"app", "doio", "callback"} /\ pc' \in {"app", "doio", "callback"}
      /\ pc = "app" => role = "client"
  BY DEF DoIo, DoIoTimesOut, CallbackReturns
<1>2. acceptMutex # "main"
  BY <1>1 DEF ServerPart, MutexGivenBack
<1>3. ServerPart'
  BY <1>1, <1>2, ServerStays
<1> QED BY <1>1, <1>3, ClientStays DEF TableType

\* A request that starts or that goes from one place to another.
LEMMA RequestKeeps ==
    ASSUME IInv, NEW r \in Requests,
           \/ \E s \in Slots : AsyncIo(r, s)
           \/ AsyncReadStdin(r) \/ StdinThread(r) \/ KernelCompletes(r)
    PROVE  IInv'
<1> USE InvParts
<1>1. UNCHANGED <<role, listenType, fdTable, pc, server>>
  BY DEF AsyncIo, AsyncReadStdin, StdinThread, KernelCompletes
<1>2. ServerPart'
  BY <1>1, ServerStays
<1>3. ClientType' /\ OnePlace'
  <2>1. CASE \E s \in Slots : AsyncIo(r, s)
    BY <2>1 DEF AsyncIo, Starts, ClientPart, ClientType, OnePlace
  <2>2. CASE AsyncReadStdin(r)
    BY <2>2 DEF AsyncReadStdin, Starts, ClientPart, ClientType, OnePlace
  <2>3. CASE StdinThread(r)
    BY <2>3 DEF StdinThread, ClientPart, ClientType, OnePlace
  <2>4. CASE KernelCompletes(r)
    BY <2>4 DEF KernelCompletes, ClientPart, ClientType, OnePlace
  <2> QED BY <2>1, <2>2, <2>3, <2>4
<1> QED BY <1>1, <1>2, <1>3 DEF TableType, ClientPart

LEMMA CompletionKeeps == ASSUME IInv, NEW r \in Requests, Completion(r) PROVE IInv'
<1> USE InvParts
<1>1. /\ UNCHANGED <<role, listenType, fdTable, server>>
      /\ pc = "doio" /\ pc' = "callback"
  BY DEF Completion
<1>2. ServerPart'
  BY <1>1, ServerStays
<1>3. ClientType' /\ OnePlace'
  BY DEF Completion, ClientPart, ClientType, OnePlace
<1> QED BY <1>1, <1>2, <1>3 DEF TableType, ClientPart

-----------------------------------------------------------------------------
LEMMA NextInv == IInv /\ [Next]_vars => IInv'
<1> SUFFICES ASSUME IInv, [Next]_vars PROVE IInv'
  OBVIOUS
<1>1. CASE UNCHANGED vars
  <2>1. UNCHANGED <<role, listenType, fdTable, pc, server, client>>
    BY <1>1 DEF vars
  <2> QED BY <2>1, InvParts, ServerStays, ClientStays DEF TableType
<1>2. CASE Connects \/ Leaves \/ OtherTakes \/ OtherReleases \/ ShutdownEvent
  BY <1>2, SurroundingsKeep
<1>3. CASE ServerSteps \/ AcceptFails
  BY <1>3, AcceptKeeps, AcceptReturnsKeep, IpcCloseInv DEF ServerSteps
<1>4. CASE ClientSteps
  BY <1>4, LoopKeeps, CompletionKeeps DEF ClientSteps
<1>5. CASE ConnectPipe \/ ConnectSocket \/ \E s \in Slots : SetFlags(s) \/ Close(s)
  BY <1>5, TableKeeps
<1>6. CASE \E r \in Requests : \/ \E s \in Slots : AsyncIo(r, s)
                               \/ AsyncReadStdin(r) \/ StdinThread(r) \/ KernelCompletes(r)
  BY <1>6, RequestKeeps
<1> QED BY <1>1, <1>2, <1>3, <1>4, <1>5, <1>6 DEF Next

LEMMA Invariance == Spec => []IInv
  BY InitInv, NextInv, PTL DEF Spec

-----------------------------------------------------------------------------
\* Whatever way OS_Accept is left, by a shutdown before, in or after the wait, by an
\* error or with a connection, the accept mutex is given back.
THEOREM MutexIsGivenBack == Spec => []MutexGivenBack
<1>1. IInv => MutexGivenBack
  BY DEF IInv
<1> QED BY <1>1, Invariance, PTL

\* Types, the table never written outside its entries, and no entry in use by a server
\* but its connection and those that an OS_IpcClose of a pipe returned -1 for.
THEOREM EntriesAreAccounted == Spec => []EntriesAccounted
<1>1. IInv => EntriesAccounted
  <2> SUFFICES ASSUME IInv PROVE EntriesAccounted
    OBVIOUS
  <2>1. TypeOK /\ KeptInv /\ ipcFd \in Slots \cup {NoSlot} /\ left \subseteq Slots
    BY DEF IInv, TypeOK
  <2>2. role = "server" => Slots \ Unused = left \cup ({ipcFd} \ {NoSlot})
    BY <2>1, NoSlotIsNone DEF KeptInv, Unused
  <2> QED BY <2>1, <2>2 DEF EntriesAccounted, KeptInv
<1> QED BY <1>1, Invariance, PTL

\* A request is in one place at most, so that its callback comes and it is freed once,
\* and in one at least while it is allocated and the thread for standard input runs.
THEOREM OnePlaceAtATime == Spec => []OnePlace
<1>1. IInv => OnePlace
  BY DEF IInv
<1> QED BY <1>1, Invariance, PTL
=============================================================================
