# Harbour_FastCGI in TLA+

`Harbour_FastCGI` lets a program written in Harbour answer HTTP requests through
FastCGI.  This directory holds TLA+ models of its request handling, the TLC
configurations that check them on small instances, and TLAPS proofs of the
properties that matter most, for every value of the constants.

## 1. The system

A web server (Apache with `mod_fcgid`) starts several *worker* processes and
hands each of them one request at a time over a connection.  A worker is a
Harbour program whose main loop is

    oFcgi := MyFcgi():New()
    do while oFcgi:Wait()
       if !oFcgi:SkipRequest ; oFcgi:OnRequest() ; endif
    enddo

and consists of four layers, each called by the one before it:

| layer | file | state it keeps | operations |
|---|---|---|---|
| application | e.g. `Examples/echo/echo.prg` | its own | `OnFirstRequest`, `OnRequest`, `OnShutdown`, `OnError` |
| class `hb_Fcgi` | `hb_fcgi/hb_fcgi.prg` | `RequestCount`, `MaxRequestToProcess`, `ProcessingRequest`, `SkipRequest`, `ResponseHeader`, `OutputBuffer`, `ContentType`, the inputs read lazily with their `Loaded...` flags, `aTrace` | `Wait`, `Finish`, `WriteOutput`, the `Get...` readers, `Print`, `SetHeaderValue`, `Redirect`, `ShutDownFastCGIEXEAfterResponse` |
| C glue | `hb_fcgi/hb_fcgi_c.c` | `g_in`, `g_out`, `g_err`, `g_envp`: the pointers `FCGX_Accept` returned last | `hb_Fcgx_Wait`, `hb_Fcgx_Finish`, `hb_Fcgx_Print`, `hb_Fcgi_Get_Request_Variables`, ... |
| FCGX library | `fcgi-2.4.1/libfcgi/fcgiapp.c`, `os_unix.c` | `the_request` (streams, parameters, connection), stream buffers, fd sets, `shutdownPending` | `FCGX_Accept`, `FCGX_Finish`, `FCGX_PutStr`, `FCGX_FClose`, `FCGX_GetStr`, `OS_Accept`, `OS_AsyncRead`, ... |

Beside the workers runs `FCGITaskManager`, a program of the administrator: it
writes and deletes the file `<exe>.kill` that workers look for at every request,
switches `.htaccess` between the site and a maintenance page, and lists and
ends the processes.  The layers share state in three ways: plain calls, the
retained pointers of the C glue, and files (kill marker, configuration).

### What makes each part correct, and what is hard about it

*Request life (`Wait`, `Finish`, `OnError`).*  A request is finished from five
places (the application, the next `Wait`, `OnError`, the kill check, the
library's own `FCGX_Accept`).  It must get its header block once, while its
streams exist, with its own data only, although one object serves all requests;
the count that limits a worker's life is raised and lowered in three places; the
hooks must run in their order on every way through `Wait`.

*Output streams.*  Two streams share one connection; each cuts what it is given
into records that fit its buffer with header and padding; the last one to close
ends the request; a write can fail half-way at any record.

*Input streams and parameters.*  Records arrive cut anywhere; the reader changes
its type in the middle of a connection that may be kept for the next request.

*Accept and shutdown.*  Workers take a lock around `accept`; signals ask a
worker to stop while it waits; a connection may be refused after it was accepted.

*Asynchronous I/O.*  One table of pending reads and writes and the fd sets that
mirror it.

*Task manager.*  Timed steps against workers that only look at a request.

*The OS layer on Windows.*  The same interface on other means: a table of descriptors, a
mutex around the accept, a thread that waits for the shutdown event, I/O completion
ports and a thread for the standard input of `cgi-fcgi`.

*Pure algorithms.*  String replacement in two passes that must agree, lengths of one and
four bytes, arrays that are grown or sized by hand, addresses read from text.

The full list of hazards, each at its line, is `PROJECT.json` under "hazards".

## 2. The modules

| module | models | state and actions |
|---|---|---|
| `RequestProtocol` | the abstract promise of a worker: requests are taken one after the other, each is answered at most once or lost, a stopped worker takes nothing | `fate`, `taken`, `running`; `Take`, `Reject`, `Settle`, `Stop` |
| `HbFcgi` | one worker: the class `hb_Fcgi`, the C glue, and `FCGX_Accept`/`FCGX_Finish` as seen by their callers | the fields of the class and the library's `the_request`, under their names in the source; one action per part of `Wait` between two points where something may happen, one per exported method the application can call |
| `MCHbFcgi` | instances of `HbFcgi` for TLC | |
| `HbFcgiProofs` | theorems about `HbFcgi` | |
| `FcgxWriter` | the two output streams of one request | buffer, `wrNext`, flags of each `FCGX_Stream`, what reached the connection; `FCGX_PutStr` and `FCGX_FClose` step by step |
| `MCFcgxWriter` | an instance of `FcgxWriter` for TLC | |
| `FcgxWriterProofs` | theorems about `FcgxWriter`: the buffers, and what reaches the connection | |
| `FcgxReader` | `FCGX_Accept_r` and the input stream of one connection after the other | the web server's records, `rdNext`, `stop`, `buffStop` and the `FCGX_StreamData` of the reader; `FillBuffProc`, `ProcessHeader`, `ReadParams`, `FCGX_GetStr` step by step |
| `FcgxReaderProofs` | theorems about `FcgxReader` | |
| `SharedListener` | the abstract promise of a pool of workers on one listening socket: a connection has one worker, a worker one connection; it is handed over, if its client is one to serve, or closed, and never comes back | `conn`, `good`, `owner`; `Connect`, `Abort`, `Take`, `Hand`, `Close` |
| `OsAccept` | `OS_Accept` of `os_unix.c` in every worker process of one application, the lock, the signals, and the life of the processes | `pc`, the C variable `socket`, `shutdownPending` of each worker, the lock, the backlog; one action per step of the loop, per failing system call, per signal; `Kill`, `Spawn` |
| `OsAcceptProofs` | theorems about `OsAccept`, the refinement of `SharedListener` among them | |
| `OsAsync` | the asynchronous I/O of `os_unix.c` | the table, `readFdSet`/`writeFdSet`, the posted sets and counts, `maxFd`; `OS_LibInit`, `OS_LibShutdown`, `OS_AsyncRead`/`Write`/`ReadStdin`, `OS_Close`, `OS_CloseRead`, `OS_DoIo` cut at `select`, at each table entry and at each callback |
| `OsAsyncProofs` | theorems about `OsAsync` | |
| `OsWin32` | `os_win32.c` as a server's and as a client's OS layer | `fdTable`, the accept mutex, the pipe or socket listener; the requests by the place they are in (port of the stdin thread, the system, completion port) |
| `OsWin32Proofs` | theorems about `OsWin32` | |
| `TaskManager` | `FCGITaskManager`, both platforms, against Apache and the workers | `.htaccess`, the `.kill` files, each worker's version and state, each manager's place; one action per file operation |
| `TaskManagerProofs` | theorems about `TaskManager` | |
| `Loops` | the `while` and the `for` of the three modules that follow | operators: the state a loop ends in |
| `ElStrings` | `el_StrTran`, `el_StrReplace` | operators |
| `FcgxParams` | name-value pairs of `fcgiapp.c`: decoding, the array, `FCGX_GetParam`, the answer to `FCGI_GET_VALUES` | operators |
| `OsAddress` | where a listener listens and a client connects to for one bind path, which clients are let in, on both systems | operators |
| `Algorithms` | one call of one of these operators | `call`, `result`; one action per function |
| `AlgorithmsProofs` | theorems about `Algorithms`: what the functions return for every input | |
| `MCFcgxReader`, `MCOsAccept`, `MCOsAsync`, `MCOsWin32`, `MCTaskManager`, `MCAlgorithms` | instances for TLC | |

### HbFcgi

Requests are numbered in the order `FCGX_Accept` meets them, and *data is
represented by the number of the request it came with*: `cache[f]` is the set of
requests whose data the field `f` of the object holds, `response[r].data` the set
of those whose data the web server received in the answer to `r`.  What a field
literally contains does not matter to any property, where it came from does.

`Wait` is cut at the points that matter: `WaitFinish` (line 193 of
`hb_fcgi.prg`), `CheckLimit` (197), `AcceptReturns`/`AcceptRejects`/`AcceptFails`
(`FCGX_Accept`), `BeginRequest`/`BeginDown` (the kill check and the count),
`ReadSettings` (the environment, and which hook is due), then the hooks,
`SkipResource` or `CallOnRequest`.  Each `On...` method is any sequence of calls
of the exported methods, ended by `Return` or by a run-time error (`UserError`,
which is `OnError`).  The kill marker is written and deleted by another process
at any time, so at every request both `BeginRequest` and `BeginDown` are
enabled.

Reading through `g_envp` when its array has been freed is undefined in C: the
read finds the old strings or not (`EnvData`), or ends the process (`EnvFault`).
`FCGX_Finish` completes the answer, or loses it when a write fails.

### FcgxWriter

Bytes are counted and not spelled out: a buffer is a sequence of blocks (room
for a header, header, content with the number of its first byte, padding,
end-of-stream record, `FCGI_END_REQUEST`).  `write_it_all` succeeds or fails,
with or without part of the buffer having reached the connection ("cut").
`FCGX_PutChar` is `FCGX_PutStr` with one byte.

### FcgxReader

A byte is its number on the connection.  The buffer holds consecutive bytes, so
`rdNext`, `stop` and `buffStop` are such numbers too; what `FillBuffProc` takes for
a header is one exactly if the web server began a record there, and what was
delivered (`got`) can be compared with the content the web server sent.
`FillBuffProc` is a loop; its variable `fill` says where in the loop it is, and
`inner` what `ProcessHeader` reads, through a call of `FCGX_GetStr` and so of
`FillBuffProc` again, out of a begin record or `FCGI_GET_VALUES`.  `OS_Read`
(`FillRead`) returns any number of the bytes that have arrived.  Accepting a
connection itself is one step (`AcceptConnection`), the subject of `OsAccept`.

The web server is external.  It begins requests, sends `FCGI_PARAMS` and `FCGI_STDIN` cut into
records of any of `Shapes`, pads the records without content by any of `Pads`, puts other records
in between (`Extras`: management records with and without content, records of a request it does
not have, empty ones too, a second request), aborts the request it waits for (`ServerAbort`), and
may close the connection at any time.  All of this the protocol allows, and not all of it the
library gets right: `odd` remembers which of four kinds the server has sent on this connection
(`Oddities`).  Two are misread (`Misread`: an empty record of another request, a management record
of unknown type with content); two make the library give up a good request (padding on a begin
record or on the end of a stream, an abort).  Section 4 has the lines.  `NothingLost` and
`ParamsWhole` say what the first two do: the content of the unknown record (`Unasked`) is
delivered with that of the stream, the first content behind the empty one (`SkippedOver`) is not,
and nothing else goes wrong; with the other two they hold as if nothing odd was there.
`ClosedForLeftovers` is about connections with none of the four.

What the server is taken not to do: send a new request on a connection before the answer to the
last; send records of other requests while it waits for nothing; try a second request on a
connection that is to be kept; begin content or padding with the byte `FCGI_VERSION_1`, which a
reader that has lost the record boundaries would take for a header (the hazard of
`fcgiapp.c:1898` again).  The pairs are of one length.  `ReaderAssumption` says of the records no
more than the protocol does: a begin record has an id and a body of its length, and
`FCGI_GET_VALUES` whole pairs.

### SharedListener and OsAccept

Each worker is a process with its own `pc` and its own `socket`; `sock[w]` keeps the
connection whose descriptor the C variable holds, also when the connection has been
closed (`Stale`), which is what the code does and where it goes wrong (section 4).  A
system call that a signal interrupts, returns with an error, or finds its client gone is
an action; so is the window between the test of `shutdownPending` and `accept()`.  `mode`
is the build and the program: TCP or local listener, lock or none, failing or not on an
interrupted `accept`, and a handler with `SA_RESTART` of the program's own, which the
repository's shutdown notes describe.  A process may be killed anywhere and another be started
in its place; the kernel closes its sockets and drops its locks (external).  `good` says
whether the client's address is allowed (TCP) or it sends something within two seconds
(local socket).  `Owner` maps this state to `SharedListener`.  `AcceptConnection` of
`FcgxReader` and `AcceptReturns`/`AcceptFails` of `HbFcgi` are abstractions of it.

### OsAsync

`OS_DoIo` returns to its caller, waits in `select` (whose failure ends the process), and visits
the table entry by entry; in each callback the application may start and close any operations. Two
ways of closing leave something behind.  `OS_Close` of a descriptor with an event posted clears
the bit and leaves `numRdPosted`/`numWrPosted` as they are: from then on `OS_DoIo` does not ask
`select` any more.  `OS_CloseRead` does not even clear the bit, so that a read started afterwards
gets the event of the one that was cancelled.  Three histories keep the two apart: `ready`, the
operations reported since they were started; `cancelled`, the descriptors that `OS_CloseRead` has
left an event of, whose reads (`Stale`) are all that `DispatchedWasReady` and `TableMatchesSets`
exempt; and `clobbered`, that one or the other has happened, which ends the promise of
`CalledBack`.  No part of the repository closes a descriptor in these ways (`cgi-fcgi.c` does so
only as it exits); the hazard is there for another user of the library.

### OsWin32

`role` says what the library is used for.  A server has the listener and the mutex it inherited;
other processes with the same mutex, clients and the shutdown thread are around it.  Another
process keeps the mutex until a client comes or it is told to stop, and owes neither.
`OS_IpcClose` returns -1 when `FlushFileBuffers` fails, as it does when the client has gone, or
`DisconnectNamedPipe`, as it may at any time; the pipe is then still connected and the entry of
the table in use (`left`): from then on each accept takes another entry for a connection without a
client, until the table is full and the process ends.  A client starts overlapped requests; each
`OVERLAPPED_REQUEST` is in one place until it is freed.  What `OS_FcgiConnect` returns over TCP/IP
is a socket that is not connected, which changes nothing in the table.

### TaskManager

Apache gives a request for a version to an idle worker or starts one (`Given`), the
worker looks for its marker once (`CheckMarker`), and may have been given the request
before the site changed (`taken`).  A manager's steps are the writes and deletes of the
program in their order; writing a file empties it first (`Open`).  The pauses are no steps: whatever
may happen in half a second may also happen in no time.  Listing the processes and
calling them exists on Windows; on Linux the same code is disabled.  Two managers may
run at the same time, and one may be ended between any two steps.

### ElStrings, FcgxParams, OsAddress and Algorithms

The functions are written after the loops of the code and compared with definitions that
say what they are for: `Replaced` and `Substituted` search for the leftmost occurrence,
`Stream` encodes what `ReadParams` decodes.  The width of an `int` and of a `short` is
kept (`AsInt`, `Short`, `Htons`).

A loop of the code is its state as a record, one round of it as an operator
(`CountRound`, `CopyRound`, `FillRound`, `ReadPair`), and the state it ends in:
`While(body, s)` follows the function `body` from `s` to a state that it leaves alone,
`For(n, body, s)` applies `body[1]` to `body[n]`.  `Loops` defines both by recursive
functions, so that what a loop computes can be proved.

In `OsAddress` an address is a number and `InetAddr` (external) the texts that `inet_addr()` reads as
one: a list may name a client in a notation other than that of `inet_ntoa()` (`Ntoa`), which is
what Windows looks for.  A bind path is opened with any of the calls failing (`Failures`),
and each error return ends as the code has it: an exit, or -1.  The host of a listener
on Windows is compared with `LOCALHOST` over nine characters, so that `localhost2` passes; the
test of `connect()` in `os_win32.c` is the inverted one.

### Definitions introduced by "Mutant:"

Beside a definition there may be a variant of it, introduced by a comment
starting with "Mutant:".  It is not used by any specification.  Each one is a
plausible bug, and `PROJECT.json` says which property fails when the definition is
replaced by it: the evidence that the property looks at what it is about.

## 3. The runs

| run | instance | what it shows |
|---|---|---|
| `hbfcgi` | 2 requests, 2 calls per `On...` method, limits {0, 1}, 5 flows of data; 3.7 million states | no data of one request in the answer to another, whole answers, the accounting of `RequestCount`, the limit, the kill marker, the order of the hooks, what an error leaves of an answer, and that the worker implements `RequestProtocol` |
| `hbfcgi_live` | 3 requests, 1 call, limits {0, 2}, no flows; 96 thousand states | every request taken is settled; a worker that was told to stop does |
| `hbfcgi_env` | 2 requests | violated: `Wait` reads the environment after it was freed |
| `writer` | buffers of 32 and 24 bytes, calls of 16 and 41 bytes, 48 bytes per stream; 300 thousand states | buffers not overrun; records framed, `END_REQUEST` last and the response complete; content in order; what is still sent after a failed write; every call returns |
| `reader` | one connection of up to 6 records, of content and padding 1+2 or 3+0, reads of 1 or 4 bytes, and once an extra record of six kinds, padding of a record without content, or an abort; 2.3 million states | the application gets the content of its request and nothing else, an end of file is the end of `FCGI_STDIN`, parameters are whole unless an error is set, but for what a misread record adds or takes away; a request that was sent is handed over; a kept connection on which nothing odd was sent is closed only for what was left unread |
| `reader_params` | 8 records without padding or extras | violated: a connection lost between two parameters is the end of the parameters |
| `accept` | 2 workers, 2 connections, 2 signals, 1 process killed and 1 started, 4 modes | the lock is exclusive and nobody dead has it; a worker told to stop takes one more connection at most; a waiting connection is taken; the pool implements `SharedListener` |
| `accept_spin` | the same | violated: a worker told to stop may go round in `OS_Accept` for ever |
| `async` | 2 descriptors, a table for one of them at first, 2 calls in a callback | sets, `maxFd` and table agree whatever callbacks do; an event is dispatched to the operation it was reported for, but for reads after an `OS_CloseRead` that left one; operations are called back as long as no close met a posted event |
| `win32` | a table of 5 entries, 4 clients, 2 requests | the mutex is given back on every way out; every entry of the table is that of the connection or one a failed close has left; a request is in one place until it is freed; a process told to stop does, if nobody keeps the mutex for ever |
| `taskmanager` | 3 versions of which 2 are installed, 2 workers, 2 managers, 1 crash, both platforms | what a request may reach at each moment of each command; the last manager that runs alone repairs what others left; processes found idle are ended; no old version begins to serve once the site has left it |
| `algorithms` | one call each, 303 thousand inputs | the functions against their reference definitions; what is written for parameters fits what was allocated |

*Bounds.*  Two requests are what it takes for data to pass from one to the next;
two calls in each `On...` method are enough to read something and keep it, or to
finish a request and then go on printing, and a hook, the handler and the hook of
the next request make a history of up to eight calls.  The limits 0 (none) and 1,
with reloads between requests, meet the boundary of `RequestCount`.  The inputs
read at first use are treated alike by the code, one stands for the five.  The
flows name every place that keeps data between calls: a lazy input, the
environment, the trace, the header, the content type, the page.  For the writer,
32 and 24 bytes are the smallest buffers `NewStream` makes (24 when `malloc`
returns an unaligned block, which the code pays for with 8 bytes); 16 fills one of
them exactly and leaves room in the other, 41 needs several records of which the
last is padded.  Larger buffers are the subject of the proof.

In `FcgxReader` headers and the body of a begin record have 2 bytes instead of 8: enough to be cut
in the middle, which is all the code's loops can notice.  Reads of at most 3 bytes cut records of
3 and 4 at every place; padding of 2 can be cut too; pairs of 2 are cut by records of 1 and 3. Six
records are a whole request with a stream record on each side and one extra, or two short requests
on one connection; padding of a record without content and an abort count as an extra, too
(`MaxExtras`). `reader_params` has more records of one shape, and a buffer that holds them.
`Window`, the bytes in flight, only keeps the web server from running ahead of a reader that does
not look that far.

`OsAccept`: two workers contend for the lock, two connections let one be taken or refused
while the other waits; two signals are one before and one in the window, or a signal
each; one death with the lock held and one new process show that the lock comes back.
The four modes have each value of each switch.  `OsAsync`: two descriptors are needed for
a callback to close the other one and start on it again ahead of the loop, and for the
table to grow.  `OsWin32`: besides the three standard handles two entries, so that one is
left over when the other leaks and the table gets full with the third of four clients.
`TaskManager`: one version to leave, one to go to, one that is not there; two managers
overlap in every way two can.  `Algorithms`: texts of up to four and six characters hold every
partial match of three characters; a byte has four values, so that lengths of four bytes
and the end of an `int` (127) are within reach; ports on both sides of 2^15 and 2^16;
lists of up to five characters let one address occur within another, and a second notation of
the client's address is among their pieces.

*Deadlock* is not checked (`CHECK_DEADLOCK FALSE`): a worker waiting for a request
that never comes, and one that has ended, stop legitimately, as do a task manager whose
command is done, a call that has returned, and a process whose `select()` has failed.

*Fairness.* `HbFcgi` assumes weak fairness of `Wait \/ Return` only: the operating system runs the
process, and the application's methods return.  Nothing is assumed of `Accept` (no one owes the
worker another request), nor of any call the application may make.  `FcgxWriter` assumes it of the
steps inside a call: the writes are blocking ones that succeed or fail.  `FcgxReader` assumes it
of `Library`: the process runs, and bytes that have been sent arrive.  Nothing is assumed of the
web server, and no fairness of the application's calling anything. `OsAccept` assumes it of
`Worker(w)` for each process: it runs, and the application returns from each request.  `fcntl`
grants a lock to some process that waits, not to each: the fairness of one worker's `AcquireLock`
is weak, and another may be preferred for ever, so `QueuedIsTaken` is about the connection and not
about the worker.  `OsAsync`: `OS_DoIo` is called again and again, its callbacks return, and an
operation that can be reported again and again is.  `OsWin32`: the server's thread runs, and a
mutex that is free again and again goes round among those that wait (strong fairness of
`WaitForMutex`).  Nothing is assumed of the other processes: the one that has the mutex may wait
for a client for ever, so that `ShutdownStops` has the hypothesis that again and again no other
has it: without it the property is false.  After a shutdown a stream of refused clients could keep
`acceptSocket` from its test for ever, which the bound on clients leaves out.  `TaskManager` has
no liveness properties and no fairness.

## 4. What the code does that its text does not say

Three runs end in a violation, each of a sentence the repository states:

* `hbfcgi_env`: `Wait` always reads `RequestSettings` from the environment (280-301),
  also after the kill check or a failed accept; `fcgiapp.c:2015` says the array
  has been freed by then.  For the same reason `GetEnvironment` in `OnShutdown`
  reads freed memory.
* `reader_params`: `ReadParams` does not ask whether the end it met is one, so "No errors
  occurred" (`fcgiapp.c:2279`) is not so: a connection lost between two pairs gives
  a request with part of its parameters.  The error stays in the stream's
  `FCGI_errno`, which `hb_Fcgi` does not look at.
* `accept_spin`: once `OS_Accept` has closed a client and `shutdownPending` is set, the inner loop
  is left with the number of the closed descriptor in `socket`, which is neither negative
  nor open: the outer loop tests and closes it for ever, instead of "-1 if the operation
  fails, otherwise ... a valid IPC fd" (`os_unix.c:1163`).  The other half of that
  sentence holds: what is returned is open (`ImplementsListener`).

Other differences between text and code are stated by properties that hold, as the code
has them:

* `ChangeLog.md:44` says missing resource files are not counted; they are while
  `OnFirstRequest` runs, and the later decrement makes it run again (`CountAccounting`, `HookOrder`).
* A header value that is not a string makes `WriteOutput` fail inside `OnError` also, and
  the request goes unanswered (`ErrorIsAnswered`).
* After a failed write "writes have no effect", but for `FCGX_FClose`, which sends the
  rest of the buffer once more (`SilentAfterError`).
* "The application does not close the connection" (`fcgi-spec.html:704`), but when
  `FCGI_STDIN` was not read to its end, whose rest the next `FCGX_Accept` takes for a
  protocol error (`ClosedForLeftovers`).
* `skip` is set for a record of another request also when it has no content (`fcgiapp.c:1766`),
  and cleared only where content was skipped, so that the content of the next record is dropped
  without an error; "the value of a stream is independent of how many records it contains"
  (`fcgi-spec.html:476`).  An application that refuses a second request gets such records: the
  ends of that request's streams.  A management record of unknown type is answered and not read
  (1527), so that its content is delivered to the reader of a stream (`NothingLost`,
  `ParamsWhole`).
* `SetReaderType` and the reader of the next request forget the padding of the record just read
  (`fcgiapp.c:1898`), which is then met as a header, where padding is "ignored"
  (`fcgi-spec.html:408`); and `FCGI_ABORT_REQUEST` is no case of `ProcessHeader` (1644) and so a
  protocol error.  Either closes a connection that "the application does not close"
  (`fcgi-spec.html:703`): `ClosedForLeftovers` holds for connections without them.
* An event posted for a read that `OS_CloseRead` cancels goes to the next read of the descriptor
  (`os_unix.c:822`; `Stale` in `DispatchedWasReady`), and one that `OS_Close` clears stays in the
  counts (754), so that `OS_DoIo` asks `select()` never again, where it should "if there were no
  completed events from a prior call" (868; `clobbered` in `CalledBack`).
* On Windows `OS_Accept` waits for the mutex without a limit (`os_win32.c:1784`), so that the shutdown
  flag, which it means to "periodically" look at (1779), is looked at by the one process that has the
  mutex and by no other (the hypothesis of `ShutdownStops`).
* `OS_IpcClose` returns -1 before the entry is freed (`os_win32.c:1848`, 1850), where its comment
  has "IPC connection is closed" (`left` in `EntriesAccounted`).
* `OS_FcgiConnect` of Windows takes the 0 of `connect()` for its failure (`os_win32.c:875`): over
  TCP/IP it closes the connection and returns -1, or returns a socket without one, where it should
  return "a valid handle if connection succeeds" (822; `AgreeOnEndpoint`).
* A worker told to stop in the window before `accept()` serves one more connection, as
  `os_unix.c` admits (`OneAfterShutdown`).

And what a reader of the code may want to know:

* On Windows the `instance` of a descriptor is compared (`os_win32.c:1533`) and never changed; the
  thread for standard input ends without a word at the end of a pipe (262).
* `isAddrOK` looks at the first place only where the address occurs, so that a listed
  client may be refused; so is one that is listed as `10.0.0.01` or `127.1`, whom Unix admits; an
  empty list refuses everybody, on Unix it admits everybody.
* The port of a bind path is a `short`: 65536 is taken for no port, and the path for a
  local socket, whose file is unlinked before anything else is checked.
* `el_StrTran` with a count of 0 returns an empty string; without regard to case,
  occurrences that are passed over are overwritten by the text looked for.  `el_StrReplace`
  ignores the flag for case in the table it uses above 1024 characters.
* On Linux idle workers of an old version stay until Apache ends them, since the calls
  that would make them look at their marker are disabled.  Two task managers at the same time may
  restore each other's temporary `.htaccess`; the next that runs alone repairs it unless it
  is a KILL, which restores what it finds.

## 5. What is proved

The theorems hold for all values of the constants that meet the named assumption of
the module: any number of requests, workers, connections, versions, descriptors or records, and
any bound on calls, crashes and signals.  TLC evaluates each assumption for the instances of
section 3.

| assumption | what it says beside types, and why the code justifies it |
|---|---|
| `HbFcgiAssumption` | types of the constants: the lazy inputs are those of the class, a flow goes from a source to a sink, limits and bounds are natural numbers |
| `WriterAssumption` | buffer sizes are multiples of 8 between 24 and 65536, the values `NewStream` makes |
| `ReaderAssumption` | headers and bodies have at least a byte and pairs at least two; records that are cut into `Shapes` have content; a begin record has an id and a body of its length, `FCGI_GET_VALUES` whole pairs (`fcgi-spec.html`, 4.1 and 5.1) |
| `AcceptAssumption` | `None` is no worker and no connection; a mode has the four switches; the bounds are natural numbers |
| `AsyncAssumption` | the first size of the table is not 0 (`os_unix.c` starts with 16) |
| `Win32Assumption` | the table is longer than the three standard handles (`WIN32_OPEN_MAX` is 128) |
| `AlgorithmsAssumption` | a byte has an even number of values; a name or value is no longer than the 31 bits of a length (`fcgi-spec.html`, 3.4); a path without a colon has no port; what `inet_ntoa()` writes of an address is not empty, has no separator in it (digits and dots) and is read by `inet_addr()` as that address |
| `ManagerAssumption` | those installed are versions; `None`, `"down"` and `"none"` are not; `None` is no worker and no manager; the platforms are Linux and Windows; the bound is a natural number |

Each proof has the same form: an inductive invariant `IInv` that TLC has checked on the
instances before, one lemma or step for each action that keeps it, and the property from
`IInv`, or for an action property from `IInv` and the step.

`HbFcgiProofs`

| theorem | property |
|---|---|
| `TypeCorrect` | `TypeOK`; `RequestCount` is never negative |
| `NoLeak` | `NoCrossRequestData` |
| `WholeAnswers` | `OneFullResponse` |
| `StreamsLive` | `StreamLive`: the request being processed has its streams and its environment |
| `HooksInOrder` | `HookOrder` |
| `KilledWorkerAnswers` | `KillAnswersDown` |
| `CountIsRight` | `CountAccounting` |
| `LimitIsKept` | `StopsAtLimit` |
| `ErrorsAnswered` | `ErrorIsAnswered` |
| `Implements` | `ImplementsProtocol`: every step of the worker is a step of `RequestProtocol` or a stutter |

None of the properties is inductive by itself.  The inductive invariant `IInv`
adds: where the process can be with which of the library's objects allocated
(a request that is held is the one met last and has its parameters; at "accept"
nothing is held); where `RequestCount` is positive, so that the decrement for a
resource file cannot make it negative; that an open request has no header block
yet, and one already settled is never written again; and that every field of the
object, and the memory `g_envp` points at, holds nothing but data of the request
met last.  The last part is why no leak is possible although freed memory is
read: the object is cleared between `FCGX_Accept` and the first use, and `g_envp`
is always the array of the request met last.  `HookInv` (after the first request
some `OnFirstRequest` has run, and `OnShutdown` holds nothing) and `KillInv` (a
request that met the marker was answered with an empty header, and the worker is on
its way out) are proved on top of it, step by step, and so is `LimitInv`: `Wait` judges a
request once and after it was met, so that each page and each skipped resource is counted
once; and a worker asked to stop gets no further than the next look at the limit.

For the refinement, `NetStep` says what of a step the web server can notice:
nothing, unless the process ends, which it does holding no request (`NetQuiet`);
or the request held is settled (`NetSettle`); or another one is met while none
is held (`NetMeets`).  `ProtocolStep` maps these to `Stop`, `Settle`, `Take` and
`Reject`; that no request is held comes from the part of `IInv` by which the open
request is the one whose streams exist.

`TypeOK` and `StreamLive` of `HbFcgi` are parts of `IInv` and hold for every instance by
these proofs; the runs leave them out.

`FcgxWriterProofs`

| theorem | property |
|---|---|
| `TypeCorrect` | `TypeOK`: `wrNext` never passes the end of the buffer, padding included; `nWriters` stays between 0 and 2 |
| `ResponseIsWhole` | `ResponseWellFormed`: records framed and aligned, `FCGI_END_REQUEST` last, a closed response complete |
| `ContentInOrder` | `InOrder` |
| `FailedIsSilent` | `SilentAfterError` |

The invariant of `TypeCorrect` adds that a stream not in raw mode has its 8 bytes of header in the
buffer, so that content is at most a multiple of 8 and its padding fits; that raw
mode belongs to the stream being closed or closed already; that `nWriters` counts the
streams whose close records are still to come; and how much of a close record can
be left.

The invariant `RInv` follows the content through the three places it can be in.  A buffer
that has not failed has one of three shapes (`Whole`): room for a header and one block of content
behind it, or that block framed, or the records of a close.  What is on the wire is well
framed (`WireInv`), and the first byte in the buffer is the one after the last on the
wire.  `EndInv` says how much of `FCGI_END_REQUEST` the wire and the active buffer end with; it
needs `LastInv`, that this record is written for the last writer only, and `UnitInv`, that what is
written in raw mode comes in units of 8 bytes, so that a record is never cut
within its header by a full buffer.

`FcgxReaderProofs`

| theorem | property |
|---|---|
| `ReadsWhatWasSent` | `odd = {} => NothingLost` |
| `ParamsAreWhole` | `odd = {} => ParamsWhole` |
| `KeptUnlessLeftovers` | `ClosedForLeftovers`, an action property |

The first two are proved for connections on which the web server has sent none of the `Oddities`;
the property itself has `odd = {}` in the third.  What `NothingLost` and `ParamsWhole` say of the
other connections is true in the `reader` run, and not proved: a reader that has lost the
boundaries of the records is right for another reason, that what it takes for a header is none.

The inductive invariant is accordingly `PlainInv`: types and `ControlInv` always, `IInv` while
`odd = {}`; and `LeftPlain`, `LeftInv` while `odd = {}`.  A step that makes `odd` not empty has
only the first to keep, and none makes it empty but the one that ends a connection.

`NothingLost` says nothing of how the library knows where it is.  `IInv` does, in six parts.
`WebInv` is about the web server alone: its records tile the connection, the request it waits
for has its begin record at `began` and one end of each stream behind it.  `ControlInv`
relates the flags of the reader to the call in progress.  `PlaceInv` is the heart: a live
reader is within some record, with `contentLen` and `paddingLen` bytes of it to come and with the
right to deliver them (`Within`), or between records at a place where one begins
(`Boundary`); the second is not known for a reader that starts on a kept connection, which is the
defect that `ClosedForLeftovers` states.  `BeforeInv` says why such a reader cannot find the wrong
request: ahead of it there is no begin record but the active one, and no
other record with its `requestId` but `FCGI_STDIN`.  `BegunInv` says that a request begun is the
active one.  `StreamInv` is `DeliveredIsContent` with its strengthening: what was delivered is
*all* the content below `rdNext` while no error is set, an end was met where it is,
and the end of `FCGI_PARAMS` is ahead of the reader until the parameters are handed over
and behind it afterwards.  That end is why a record of `FCGI_STDIN` cannot end the parameters and
one of `FCGI_PARAMS` cannot disturb the reading of `FCGI_STDIN`.

For `KeptUnlessLeftovers`, `LeftInv` is proved on top of it: a request fails at the end of the
connection only; what `ProcessHeader` reads, and what `ReadParams` has got, lacks a whole number of
pairs (`ValuesInv`, `WantInv`), so that neither stops within one; and where
`FCGX_Accept_r` stops without a request there is no header, or one of
`FCGI_STDIN` of an earlier request, which begins before the one that is waited for (`MetInv`).

`OsAcceptProofs`

| theorem | property |
|---|---|
| `LockHeldInside` | `LockedInside` |
| `OneMoreAtMost` | `OneAfterShutdown` |
| `Implements` | `ImplementsListener`: every step of the pool is a step of `SharedListener` or a stutter |

The lock is inductive by itself.  `LateInv` adds that a worker that may still take a connection has
taken none since the signal.  For the refinement one has to know what the C variable
`socket` can hold at each place, closed descriptors included (`SockInv`), that two workers never
have the same open connection (`UniqueInv`), that only untaken connections wait
(`BacklogInv`), and `RefusedInv`: the number of a closed connection is tested again
by the outer loop, and only because its client is one that was refused is it never handed over.

`OsAsyncProofs`

| theorem | property |
|---|---|
| `TableAndSetsAgree` | `TableMatchesSets` |
| `OnlyReportedIsCalled` | `DispatchedWasReady` |

`IInv` consists of `TypeOK`, the property itself (`SetsInv`), that what is posted was reported but
for `Stale` (`ReadyInv`), that the counts are never too small (`CountInv`: a count of 0 ends the
visit of the table, and an operation left behind would be called back late), and that nothing is
in use before the first start (`UseInv`).  How far the table grows is the recursive function
`Enlarged`; that it reaches the operation asked for is shown by induction over sets of numbers, as
the provers cannot instantiate a predicate.

`OsWin32Proofs`

| theorem | property |
|---|---|
| `MutexIsGivenBack` | `MutexGivenBack` |
| `EntriesAreAccounted` | `EntriesAccounted` |
| `OnePlaceAtATime` | `OnePlace` |

The three are inductive together with `IpcInv`, that in `OS_Accept` the application
has no connection: the entry that a connection is given was unused, and so none of those left.

`TaskManagerProofs`

| theorem | property |
|---|---|
| `OneVersionIsReachable` | `OneVersionReachable` |
| `AloneSuffices` | `AloneIsEnough` |
| `IdleProcessesEnd` | `IdleAreEnded` |
| `NoOldServiceEver` | `NoOldService`, an action property |

`SiteInv` says what the site and the markers are at each step of a manager that runs alone
(`MarkedBy`, `ConfiguredBy`); it needs nothing of what earlier managers left, which is why one that
runs alone repairs it.  `AloneInv` makes the one that began last the only one.  `CalmInv` is the
site as long as managers run one after the other: versions that can be reached have a
marker or are the one the site leads to.  `CallInv` says that there are calls enough: from the
processes still to be ended to the calls still to be made there is an injection.

`AlgorithmsProofs`

| theorem | property |
|---|---|
| `OccurrencesAreReplaced` | `StrTranReplaces` |
| `SourcesAreSubstituted` | `StrReplaceSubstitutes` |
| `ParametersAreThose` | `ParamsAreThose` |
| `NothingOverruns` | `WritesFit` |
| `ListenersAreReached` | `AgreeOnEndpoint` |
| `OnlyListedAreLetIn` | `OnlyListedClients` |

A call is one step, so that the work is in the functions: for every text, list or address,
what a loop returns is what the reference definition says.  A loop is proved as in Hoare's
logic.  `ForRule` asks for the set of states of each round, `WhileRule` for an invariant set
that `body` keeps and for a number that a round makes less.  Both rest on `SetInduction`:
a *set* of numbers with 0 and every successor is `Nat`, which needs no predicate as a
parameter.  That there are functions which meet the recursive equations is proved, too
(`RoundsExist`, `EndExists`).

* `el_StrTran`.  After a partial match of `nS` characters the search goes on at the place behind
  where it began, so that a round is about the place `nT - nS`: below it everything is decided, and
  between the two there are the first `nS` characters looked for.  `Ahead` is the number of
  occurrences from a place on.  The first pass keeps "found so far, and those ahead of
  `nT - nS`, are all"; where it stops early there is no room for another, or the count is
  used up.  The second keeps "the result so far, followed by what `Replaced` makes of the
  rest, is what is to be returned", with `nFound` and `nReplaced` deciding which of those ahead are
  chosen.  What decreases is `Rank`, the place `nT - nS` first and the partial match second.
* `el_StrReplace`.  `Key` finds the same source with the table and without it
  (`FirstKey` is a lower bound of the keys that fit).  The two passes go through the same
  places; the length of what the second copies is what the first has added up.
* `ReadParams`.  The place between two rounds is the end of the `j`-th pair, and `j`
  pairs are read.  The next length is decoded from what `LengthBytes` wrote if all of
  it is before the cut, and if it is not, `ReadPair` returns -1.
* Parameters in memory: after `n` calls of `PutParam` the array is longer than `n`; the width of an
  `int` is a division with remainder; the answer to `FCGI_GET_VALUES` is the sum over the three
  names it knows.
* Addresses: `Short` keeps 16 bits (`Htons` undoes it); up to five digits are the same number for both
  systems; a piece of a list is what is between two neighbouring separators, which is where
  the address was found.

Two of the properties were found to say too much when their proof was tried, and now say what the
code does.  Windows reads five characters of a port: of `"000080"` it reads 8, and Unix 80
(`PortsKept`).  A name with the sign `=` in it cannot be told from a shorter name and the begin
of its value (`FirstIsFound`).  Both inputs are in the `algorithms` run now.

*Only model-checked.* Liveness: `EveryRequestSettles`, `StopsWhenAsked`, `CallReturns`,
`WholeRequestProceeds`, `QueuedIsTaken`, `CalledBack`, `ShutdownStops`.  The prover knows neither
`ENABLED` nor fairness.  The three runs that end in a violation are TLC's as well, and so is what
`NothingLost` and `ParamsWhole` say of connections with one of the `Oddities`.

Every other property of a passing run is stated by a theorem.

## 6. Not modelled

* An application that catches its own run-time errors; `LoadWebsiteStaticFileInfo` and
  `GetStaticFileLink`; `SaveInputFileContent`.
* `MaxRequestPerFCGIProcess` is taken to be a natural number, which is what `Val()`
  makes of the files shipped.
* Debug view, UDP and clipboard output, logging: pure output.
* Reading the inputs (`LoadInput`, cookies, query string, the URI codec, the multipart
  splitting, `LoadAppConfig`): Harbour code without state of its own; `HbFcgi` keeps of it what is
  cached, and where from.
* `FCGX_UnGetChar`, `FCGX_GetLine`, `FCGX_StartFilterData`, which `hb_Fcgi` does not use.
* `FCGX_VFPrintF` (formatting), `fcgi_stdio.c` and `fcgio.cpp` (wrappers), `cgi-fcgi.c`,
  `OS_SpawnChild` and the inheritance of handles; `incbin.h`, `vscode_debugger.prg` (third
  party), build files, images.
* What section 2 says a web server is taken not to do, under `FcgxReader`.

## 7. Plan

Done: the modules of section 2 and the proofs of section 5.  What is left:

1. The facts a liveness argument rests on, as safety: a state in which a caller waits and no
   step of the library is possible has the reason the text gives for it.
2. The URI codec and the multipart splitting as operators in the manner of `ElStrings`, with
   `Loops` and the rules of `AlgorithmsProofs`.
