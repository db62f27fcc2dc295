----------------------------- MODULE FcgxReader -----------------------------
(***************************************************************************)
(* The input side of the FCGX library (fcgiapp.c): FCGX_Accept_r takes a   *)
(* connection, or goes on with one that was kept, reads records that the   *)
(* network has cut anywhere (FillBuffProc, ProcessHeader), collects the    *)
(* parameters (ReadParams), and hands FCGI_STDIN to the application        *)
(* (FCGX_GetStr) until it calls FCGX_Finish.                               *)
(*                                                                         *)
(* A byte is its number on the connection.  The buffer always holds a      *)
(* stretch of consecutive ones, so that rdNext, stop and buffStop are such *)
(* numbers too, and what the library takes for a header is one if a record *)
(* starts there.                                                           *)
(*                                                                         *)
(* A definition introduced by "Mutant:" is not part of the model: it is    *)
(* what the next one would be with a plausible bug.                        *)
(***************************************************************************)
EXTENDS Integers, Sequences, FiniteSets

CONSTANTS
    HEADER, BODY,   \* sizeof(FCGI_Header), sizeof(FCGI_BeginRequestBody): 8 and 8
    Pair,           \* bytes of one name-value pair
    BuffLen,        \* bytes one OS_Read asks for
    Ids,            \* request ids the web server uses
    Shapes,         \* <<content, padding>> of a record that is not empty
    Pads,           \* padding of FCGI_BEGIN_REQUEST and of an empty stream record
    Extras,         \* other records it sends: [type, id, len, pad], id 0 = management
    Reads,          \* what the application asks FCGX_GetStr for
    Window,         \* bytes the connection holds: the web server is never further ahead
    MaxRecords,     \* records on one connection, a bound
    MaxExtras,      \* of Extras, Pads and aborts on one connection, a bound
    MaxConns        \* connections, a bound

StreamTypes == {"params", "stdin"}
Types == StreamTypes \cup {"begin", "abort", "values", "unknown"}

ASSUME ReaderAssumption ==
    /\ HEADER \in Nat \ {0} /\ BODY \in Nat \ {0}
    /\ Pair \in Nat \ {0, 1}
    /\ BuffLen \in Nat \ {0}
    /\ Ids \subseteq Nat \ {0}
    /\ Shapes \subseteq (Nat \ {0}) \X Nat
    /\ Pads \subseteq Nat
    /\ Extras \subseteq [type : Types, id : Nat, len : Nat, pad : Nat]
    /\ \A x \in Extras :   \* as the protocol has them
          /\ x.type = "begin" => x.id # 0 /\ x.len = BODY
          /\ x.id = 0 /\ x.type = "values" => x.len % Pair = 0
    /\ Reads \subseteq Nat \ {0}
    /\ Window \in Nat \ {0}
    /\ MaxRecords \in Nat /\ MaxExtras \in Nat /\ MaxConns \in Nat

VARIABLES
    \* ---- the web server
    sent, total,    \* records and bytes sent on this connection
    active, began,  \* id of the request it waits for (0: none), where it begins
    stage,          \* what it sends next of that request
    eof,            \* it has closed the connection on its side
    extras, conns,  \* of Extras on this connection, connections so far
    odd,            \* history: what it has sent that the library does not cope with
    \* ---- the FCGX_Request
    ipcFd,          \* whether a connection is open
    requestId, isBeginProcessed, keepConnection,
    \* ---- the FCGX_Stream in
    rdNext, stop, buffStop, isClosed, failed,   \* failed: FCGI_errno is set
    type, eorStop, skip, contentLen, paddingLen,
    \* ---- the calls in progress
    pc,             \* what FCGX_Accept_r or the application is at
    fill, headerLen,\* where FillBuffProc is, bytes of the header it has
    inner,          \* what ProcessHeader reads out of a record
    want, inWant,   \* bytes FCGX_GetStr lacks, outside and inside of ProcessHeader
    got             \* bytes delivered of each stream of the request

srv   == <<sent, total, active, began, stage, eof, extras, conns, odd>>
req   == <<requestId, isBeginProcessed, keepConnection>>
lens  == <<contentLen, paddingLen>>
vars  == <<srv, ipcFd, req, rdNext, stop, buffStop, isClosed, failed, type, eorStop,
           skip, lens, pc, fill, headerLen, inner, want, inWant, got>>

\* Records that the protocol allows and the library reads otherwise: an empty one of
\* another request ("skipped"), a management record of unknown type with content
\* ("unread"), padding of FCGI_BEGIN_REQUEST or of an end of stream ("padded"), and
\* FCGI_ABORT_REQUEST ("aborted").
Oddities == {"skipped", "unread", "padded", "aborted"}

Records == [start : Nat, type : Types, id : Nat, len : Nat, pad : Nat,
            keep : BOOLEAN]

TypeOK ==
    /\ sent \in Seq(Records) /\ total \in Nat
    /\ active \in Ids \cup {0} /\ began \in Nat
    /\ stage \in {"begin", "params", "stdin", "all", "aborted"}
    /\ eof \in BOOLEAN /\ extras \in 0..MaxExtras /\ conns \in 0..MaxConns
    /\ odd \in SUBSET Oddities
    /\ ipcFd \in BOOLEAN
    /\ requestId \in Nat
    /\ isBeginProcessed \in BOOLEAN /\ keepConnection \in BOOLEAN
    /\ rdNext \in Nat /\ stop \in Nat /\ buffStop \in Nat
    /\ rdNext <= buffStop /\ buffStop <= total
    /\ stop <= buffStop
    /\ isClosed \in BOOLEAN /\ failed \in BOOLEAN
    /\ type \in StreamTypes \cup {"none"}
    /\ eorStop \in BOOLEAN /\ skip \in BOOLEAN
    /\ contentLen \in Nat /\ paddingLen \in Nat
    /\ pc \in {"accept", "begin", "params", "app", "get"}
    /\ fill \in {"off", "read", "next", "process"}
    /\ headerLen \in 0..HEADER - 1
    /\ inner \in {"none", "body", "values"}
    /\ want \in Nat /\ inWant \in Nat
    /\ got \in [StreamTypes -> SUBSET Nat]

Init ==
    /\ sent = <<>> /\ total = 0
    /\ active = 0 /\ began = 0 /\ stage = "begin" /\ eof = FALSE
    /\ extras = 0 /\ conns = 0 /\ odd = {}
    /\ ipcFd = FALSE
    /\ requestId = 0 /\ isBeginProcessed = FALSE /\ keepConnection = FALSE
    /\ rdNext = 0 /\ stop = 0 /\ buffStop = 0
    /\ isClosed = FALSE /\ failed = FALSE
    /\ type = "none" /\ eorStop = FALSE /\ skip = FALSE
    /\ contentLen = 0 /\ paddingLen = 0
    /\ pc = "accept" /\ fill = "off" /\ headerLen = 0
    /\ inner = "none" /\ want = 0 /\ inWant = 0
    /\ got = [t \in StreamTypes |-> {}]

Sent == {sent[i] : i \in 1..Len(sent)}

RecordsOf(t, id) == {r \in Sent : r.type = t /\ r.id = id /\ r.start >= began}

\* The content bytes of one stream of the request that begins at began.
Content(t, id) ==
    UNION {r.start + HEADER .. r.start + HEADER + r.len - 1 : r \in RecordsOf(t, id)}

Ended(t, id) == \E r \in RecordsOf(t, id) : r.len = 0

-----------------------------------------------------------------------------
(* The web server: one request after the other on a connection, each        *)
(* answered before the next one begins.                                     *)

OddityOf(t, id, n, p) == {o \in Oddities :
    \/ o = "skipped" /\ t # "begin" /\ id \notin {0, active} /\ n = 0
    \/ o = "unread" /\ t # "values" /\ id = 0 /\ n > 0
    \/ o = "padded" /\ id # 0 /\ p > 0 /\ (t = "begin" \/ n = 0)
    \/ o = "aborted" /\ t = "abort"}

Send(t, id, n, p, k) ==
    /\ ipcFd /\ ~eof
    /\ Len(sent) < MaxRecords
    /\ total < buffStop + Window
    /\ sent' = Append(sent, [start |-> total, type |-> t, id |-> id, len |-> n,
                             pad |-> p, keep |-> k])
    /\ total' = total + HEADER + n + p
    /\ odd' = odd \cup OddityOf(t, id, n, p)
    /\ UNCHANGED <<eof, conns>>

\* A bound: what is seldom sent is counted.
Seldom(it) ==
    /\ extras' = extras + (IF it THEN 1 ELSE 0)
    /\ extras' <= MaxExtras

ServerBegin ==
    /\ active = 0
    /\ \E id \in Ids, p \in Pads, k \in BOOLEAN :
          Seldom(p > 0) /\ Send("begin", id, BODY, p, k) /\ active' = id
    /\ began' = total
    /\ stage' = "params"

ServerStream(t) ==
    /\ active # 0
    /\ stage = t
    /\ \E s \in Shapes : Send(t, active, s[1], s[2], FALSE)
    /\ UNCHANGED <<active, began, stage, extras>>

\* A stream ends with an empty record; the pairs of FCGI_PARAMS are whole.
ServerEnd(t) ==
    /\ active # 0
    /\ stage = t
    /\ t = "params" => Cardinality(Content(t, active)) % Pair = 0
    /\ \E p \in Pads : Seldom(p > 0) /\ Send(t, active, 0, p, FALSE)
    /\ stage' = IF t = "params" THEN "stdin" ELSE "all"
    /\ UNCHANGED <<active, began>>

\* The client is gone: no more of its request is sent.
ServerAbort ==
    /\ active # 0
    /\ stage # "aborted"
    /\ Seldom(TRUE)
    /\ Send("abort", active, 0, 0, FALSE)
    /\ stage' = "aborted"
    /\ UNCHANGED <<active, began>>

\* A management record, or one of a request that is not active.  A second request
\* is tried on a connection that the first one ends only: elsewhere it could
\* become the next one.
ServerExtra ==
    /\ Seldom(TRUE)
    /\ \E x \in Extras :
          /\ x.id # active
          /\ active = 0 => x.id = 0
          /\ x.type = "begin" => \A r \in RecordsOf("begin", active) : ~r.keep
          /\ Send(x.type, x.id, x.len, x.pad, FALSE)
    /\ UNCHANGED <<active, began, stage>>

ServerCloses ==
    /\ ipcFd /\ ~eof
    /\ eof' = TRUE
    /\ UNCHANGED <<sent, total, active, began, stage, extras, conns, odd>>

Server ==
    /\ \/ ServerBegin \/ ServerAbort \/ ServerExtra \/ ServerCloses
       \/ \E t \in StreamTypes : ServerStream(t) \/ ServerEnd(t)
    /\ UNCHANGED <<ipcFd, req, rdNext, stop, buffStop, isClosed, failed, type, eorStop,
                   skip, lens, pc, fill, headerLen, inner, want, inWant, got>>

-----------------------------------------------------------------------------
(* FillBuffProc *)

Least(m, n) == IF m < n THEN m ELSE n
Unread == buffStop - rdNext

\* SetError, and FillBuffProc returns.
SetError ==
    /\ failed' = TRUE
    /\ isClosed' = TRUE
    /\ fill' = "off"

\* The top of the loop: an empty buffer is filled with whatever has arrived.
FillRead ==
    /\ fill = "read"
    /\ IF Unread > 0 THEN UNCHANGED buffStop
       ELSE \E n \in 1..Least(BuffLen, total - buffStop) : buffStop' = buffStop + n
    /\ fill' = "next"
    /\ UNCHANGED <<srv, ipcFd, req, rdNext, stop, isClosed, failed, type, eorStop,
                   skip, lens, pc, headerLen, inner, want, inWant, got>>

\* Mutant: the error is taken for the end of the stream.
FillReadFailsSilently ==
    /\ fill = "read"
    /\ Unread = 0
    /\ eof
    /\ isClosed' = TRUE
    /\ fill' = "off"
    /\ UNCHANGED <<srv, ipcFd, req, rdNext, stop, buffStop, failed, type, eorStop,
                   skip, lens, pc, headerLen, inner, want, inWant, got>>

\* OS_Read returns 0, or -1 when the connection was reset.
FillReadFails ==
    /\ fill = "read"
    /\ Unread = 0
    /\ eof
    /\ SetError
    /\ UNCHANGED <<srv, ipcFd, req, rdNext, stop, buffStop, type, eorStop,
                   skip, lens, pc, headerLen, inner, want, inWant, got>>

\* Content is delivered, as far as it is in the buffer.
FillDeliver ==
    /\ fill = "next"
    /\ contentLen > 0 /\ ~skip
    /\ LET n == Least(contentLen, Unread)
       IN  contentLen' = contentLen - n /\ stop' = rdNext + n
    /\ fill' = "off"
    /\ UNCHANGED <<srv, ipcFd, req, rdNext, buffStop, isClosed, failed, type, eorStop,
                   skip, paddingLen, pc, headerLen, inner, want, inWant, got>>

FillSkip ==
    /\ fill = "next"
    /\ contentLen > 0 /\ skip
    /\ LET n == Least(contentLen, Unread)
       IN  contentLen' = contentLen - n /\ rdNext' = rdNext + n
    /\ skip' = (contentLen' > 0)
    /\ fill' = IF contentLen' > 0 THEN "read" ELSE "next"
    /\ UNCHANGED <<srv, ipcFd, req, stop, buffStop, isClosed, failed, type, eorStop,
                   paddingLen, pc, headerLen, inner, want, inWant, got>>

FillPadding ==
    /\ fill = "next"
    /\ contentLen = 0 /\ paddingLen > 0
    /\ LET n == Least(paddingLen, Unread)
       IN  paddingLen' = paddingLen - n /\ rdNext' = rdNext + n
    /\ fill' = IF paddingLen' > 0 THEN "read" ELSE "next"
    /\ UNCHANGED <<srv, ipcFd, req, stop, buffStop, isClosed, failed, type, eorStop,
                   skip, contentLen, pc, headerLen, inner, want, inWant, got>>

\* Inside of ProcessHeader the record's end is the end of the stream.
FillEndOfRecord ==
    /\ fill = "next"
    /\ contentLen = 0 /\ paddingLen = 0 /\ eorStop
    /\ stop' = rdNext
    /\ isClosed' = TRUE
    /\ fill' = "off"
    /\ UNCHANGED <<srv, ipcFd, req, rdNext, buffStop, failed, type, eorStop,
                   skip, lens, pc, headerLen, inner, want, inWant, got>>

FillHeader ==
    /\ fill = "next"
    /\ contentLen = 0 /\ paddingLen = 0 /\ ~eorStop
    /\ LET n == Least(HEADER - headerLen, Unread)
       IN  /\ rdNext' = rdNext + n
           /\ headerLen' = (headerLen + n) % HEADER
           /\ IF headerLen + n < HEADER
              THEN fill' = "read" /\ UNCHANGED <<stop, eorStop>>
              ELSE fill' = "process" /\ stop' = rdNext' /\ eorStop' = TRUE
    /\ UNCHANGED <<srv, ipcFd, req, buffStop, isClosed, failed, type, skip, lens,
                   pc, inner, want, inWant, got>>

-----------------------------------------------------------------------------
(* ProcessHeader *)

\* The record whose header has just been read, if it was one.
HeaderRead == {r \in Sent : r.start + HEADER = rdNext}

\* ProcessHeader has returned, and FillBuffProc goes on, or fails.
Loops ==
    /\ eorStop' = FALSE
    /\ isClosed' = FALSE
    /\ fill' = "read"
    /\ inner' = "none"
    /\ UNCHANGED <<failed, inWant>>

Fails ==
    /\ eorStop' = FALSE
    /\ SetError
    /\ inner' = "none"
    /\ UNCHANGED inWant

\* An answer to the web server has been written, unless it is gone.
Answered == Loops \/ (eof /\ Fails)

\* The content of the record is read by FCGX_GetStr, up to the record's end.
ReadContent(what, n) ==
    /\ inner' = what
    /\ inWant' = n
    /\ fill' = "off"
    /\ UNCHANGED <<eorStop, isClosed, failed>>

\* FCGX_UNSUPPORTED_VERSION: content and padding are taken not to begin with
\* the byte FCGI_VERSION_1.
NoHeader ==
    /\ HeaderRead = {}
    /\ Fails
    /\ UNCHANGED <<requestId, skip, stop, lens>>

Header(h) == contentLen' = h.len /\ paddingLen' = h.pad

BeginRecord(h) ==
    /\ h.type = "begin"
    /\ ~isBeginProcessed
    /\ IF h.id # 0 /\ h.len = BODY
       THEN requestId' = h.id /\ ReadContent("body", BODY)
       ELSE UNCHANGED requestId /\ Fails
    /\ UNCHANGED <<skip, stop>>

\* A second request on the connection is refused with FCGI_CANT_MPX_CONN.
BeginRefused(h) ==
    /\ h.type = "begin"
    /\ isBeginProcessed
    /\ IF h.id # 0 /\ h.len = BODY
       THEN skip' = TRUE /\ Answered
       ELSE UNCHANGED skip /\ Fails
    /\ UNCHANGED <<requestId, stop>>

ManagementRecord(h) ==
    /\ h.type # "begin"
    /\ h.id = 0
    /\ IF h.type = "values" THEN ReadContent("values", Pair) ELSE Answered
    /\ UNCHANGED <<requestId, skip, stop>>

\* Mutant: the content of another request's record is not skipped.
OtherRequestNotSkipped(h) ==
    /\ h.type # "begin"
    /\ h.id \notin {0, requestId}
    /\ Loops
    /\ UNCHANGED <<requestId, skip, stop>>

OtherRequest(h) ==
    /\ h.type # "begin"
    /\ h.id \notin {0, requestId}
    /\ skip' = TRUE
    /\ Loops
    /\ UNCHANGED <<requestId, stop>>

\* FCGX_PROTOCOL_ERROR: a record of another stream than the one being read.
WrongType(h) ==
    /\ h.type # "begin"
    /\ h.id = requestId /\ h.id # 0
    /\ h.type # type
    /\ Fails
    /\ UNCHANGED <<requestId, skip, stop>>

\* A record of the stream; an empty one ends it.
StreamRecord(h) ==
    /\ h.id = requestId /\ h.id # 0
    /\ h.type = type
    /\ IF h.len > 0 THEN Loops /\ UNCHANGED stop
       ELSE /\ stop' = rdNext
            /\ isClosed' = TRUE
            /\ eorStop' = FALSE
            /\ fill' = "off"
            /\ UNCHANGED <<failed, inner, inWant>>
    /\ UNCHANGED <<requestId, skip>>

ProcessHeader ==
    /\ fill = "process"
    /\ \/ NoHeader
       \/ \E h \in HeaderRead :
             /\ Header(h)
             /\ \/ BeginRecord(h) \/ BeginRefused(h) \/ ManagementRecord(h)
                \/ OtherRequest(h) \/ WrongType(h) \/ StreamRecord(h)
    /\ UNCHANGED <<srv, ipcFd, isBeginProcessed, keepConnection, rdNext, buffStop, type,
                   pc, headerLen, want, got>>

-----------------------------------------------------------------------------
(* FCGX_GetStr, called by ProcessHeader: ProcessBeginRecord, and ReadParams *)
(* for the pairs of FCGI_GET_VALUES.                                        *)

InnerTake ==
    /\ inner # "none" /\ fill = "off"
    /\ rdNext < stop
    /\ LET n == Least(inWant, stop - rdNext)
       IN  /\ rdNext' = rdNext + n
           /\ inWant' = IF inner = "values" /\ n = inWant THEN Pair ELSE inWant - n
    /\ UNCHANGED <<srv, ipcFd, req, stop, buffStop, isClosed, failed, type, eorStop,
                   skip, lens, pc, fill, headerLen, inner, want, got>>

InnerFill ==
    /\ inner # "none" /\ fill = "off"
    /\ rdNext = stop /\ ~isClosed
    /\ inWant > 0
    /\ fill' = "read"
    /\ UNCHANGED <<srv, ipcFd, req, rdNext, stop, buffStop, isClosed, failed, type,
                   eorStop, skip, lens, pc, headerLen, inner, want, inWant, got>>

\* BEGIN_RECORD: FillBuffProc returns; the flags of the body are known now.
BodyRead ==
    /\ inner = "body" /\ fill = "off"
    /\ inWant = 0
    /\ \E r \in Sent : r.start + HEADER + r.len = rdNext /\ keepConnection' = r.keep
    /\ isBeginProcessed' = TRUE
    /\ inner' = "none"
    /\ eorStop' = FALSE
    /\ isClosed' = FALSE
    /\ UNCHANGED <<srv, ipcFd, requestId, rdNext, stop, buffStop, failed, type, skip,
                   lens, pc, fill, headerLen, want, inWant, got>>

\* The content came to an end before the body did, or the pairs did, or when no
\* pair was left.
InnerEof ==
    /\ inner # "none" /\ fill = "off"
    /\ inWant > 0
    /\ rdNext >= stop /\ isClosed
    /\ IF inner = "values" /\ inWant = Pair /\ ~failed /\ contentLen = 0
       THEN Answered ELSE Fails
    /\ UNCHANGED <<srv, ipcFd, req, rdNext, stop, buffStop, type, skip, lens,
                   pc, headerLen, want, got>>

-----------------------------------------------------------------------------
(* FCGX_Accept_r, and the application *)

AcceptConnection ==
    /\ pc = "accept" /\ ~ipcFd
    /\ conns < MaxConns
    /\ conns' = conns + 1
    /\ ipcFd' = TRUE
    /\ sent' = <<>> /\ total' = 0
    /\ active' = 0 /\ began' = 0 /\ stage' = "begin" /\ eof' = FALSE
    /\ extras' = 0 /\ odd' = {}
    /\ rdNext' = 0 /\ stop' = 0 /\ buffStop' = 0
    /\ UNCHANGED <<req, isClosed, failed, type, eorStop, skip, lens, pc, fill,
                   headerLen, inner, want, inWant, got>>

\* A new reader with an empty buffer: what the last one had not delivered of a
\* kept connection is gone with it.
NewReader ==
    /\ pc = "accept" /\ ipcFd
    /\ rdNext' = buffStop /\ stop' = buffStop
    /\ isClosed' = FALSE /\ failed' = FALSE
    /\ type' = "none" /\ eorStop' = FALSE /\ skip' = FALSE
    /\ contentLen' = 0 /\ paddingLen' = 0 /\ headerLen' = 0
    /\ isBeginProcessed' = FALSE
    /\ pc' = "begin" /\ fill' = "read"
    /\ UNCHANGED <<srv, ipcFd, requestId, keepConnection, buffStop, inner, want,
                   inWant, got>>

Returned(where) == pc = where /\ fill = "off" /\ inner = "none"

SetReaderType(t) ==
    /\ type' = t
    /\ eorStop' = FALSE /\ skip' = FALSE
    /\ contentLen' = 0 /\ paddingLen' = 0
    /\ stop' = rdNext
    /\ isClosed' = FALSE

\* TryAgain: the connection is closed, and the next one waited for.
TryAgain ==
    /\ ipcFd' = FALSE
    /\ pc' = "accept"
    /\ UNCHANGED <<type, eorStop, skip, lens, stop, isClosed, want>>

BeginReturns ==
    /\ Returned("begin")
    /\ IF isBeginProcessed
       THEN /\ SetReaderType("params")
            /\ pc' = "params" /\ want' = Pair
            /\ got' = [t \in StreamTypes |-> {}]
            /\ UNCHANGED ipcFd
       ELSE TryAgain /\ UNCHANGED got
    /\ UNCHANGED <<srv, req, rdNext, buffStop, failed, fill, headerLen, inner, inWant>>

\* FCGX_GetStr copies what is there.  ReadParams goes on with the next pair.
GetStr ==
    /\ fill = "off" /\ inner = "none"
    /\ pc \in {"params", "get"}
    /\ rdNext < stop
    /\ LET n == Least(want, stop - rdNext)
       IN  /\ rdNext' = rdNext + n
           /\ got' = [got EXCEPT ![type] = @ \cup (rdNext .. rdNext + n - 1)]
           /\ want' = IF n < want THEN want - n ELSE IF pc = "get" THEN 0 ELSE Pair
           /\ pc' = IF n = want /\ pc = "get" THEN "app" ELSE pc
    /\ UNCHANGED <<srv, ipcFd, req, stop, buffStop, isClosed, failed, type, eorStop,
                   skip, lens, fill, headerLen, inner, inWant>>

\* Mutant: FCGX_GetStr does not look at isClosed.
GetStrFillClosed ==
    /\ fill = "off" /\ inner = "none"
    /\ pc \in {"params", "get"}
    /\ rdNext = stop
    /\ fill' = "read"
    /\ UNCHANGED <<srv, ipcFd, req, rdNext, stop, buffStop, isClosed, failed, type,
                   eorStop, skip, lens, pc, headerLen, inner, want, inWant, got>>

GetStrFill ==
    /\ fill = "off" /\ inner = "none"
    /\ pc \in {"params", "get"}
    /\ rdNext = stop /\ ~isClosed
    /\ fill' = "read"
    /\ UNCHANGED <<srv, ipcFd, req, rdNext, stop, buffStop, isClosed, failed, type,
                   eorStop, skip, lens, pc, headerLen, inner, want, inWant, got>>

\* ReadParams stops where it expects a pair and there is none, whether at the
\* end of the stream or after an error; within a pair it is FCGX_PARAMS_ERROR.
ParamsEof ==
    /\ Returned("params")
    /\ rdNext >= stop /\ isClosed
    /\ IF want = Pair
       THEN SetReaderType("stdin") /\ pc' = "app" /\ want' = 0 /\ UNCHANGED <<ipcFd, failed>>
       ELSE TryAgain /\ failed' = TRUE
    /\ UNCHANGED <<srv, req, rdNext, buffStop, fill, headerLen, inner, inWant, got>>

GetEof ==
    /\ Returned("get")
    /\ rdNext >= stop /\ isClosed
    /\ pc' = "app" /\ want' = 0
    /\ UNCHANGED <<srv, ipcFd, req, rdNext, stop, buffStop, isClosed, failed, type,
                   eorStop, skip, lens, fill, headerLen, inner, inWant, got>>

\* The application calls FCGX_GetStr(n); at end of file it gets nothing.
AppGet ==
    /\ pc = "app" /\ ~isClosed
    /\ pc' = "get"
    /\ want' \in Reads
    /\ UNCHANGED <<srv, ipcFd, req, rdNext, stop, buffStop, isClosed, failed, type,
                   eorStop, skip, lens, fill, headerLen, inner, inWant, got>>

\* Mutant: keepConnection is not looked at.
AppFinishCloses ==
    /\ pc = "app"
    /\ ipcFd' = FALSE
    /\ pc' = "accept"
    /\ active' = 0 /\ stage' = "begin"
    /\ UNCHANGED <<sent, total, began, eof, extras, conns, odd, req, rdNext, stop, buffStop, isClosed,
                   failed, type, eorStop, skip, lens, fill, headerLen, inner, want,
                   inWant, got>>

\* FCGX_Finish: END_REQUEST is sent, which fails when the web server is gone; the
\* connection is kept if the web server asked for it and nothing failed.
AppFinish ==
    /\ pc = "app"
    /\ ipcFd' \in {keepConnection /\ ~failed} \cup (IF eof THEN {FALSE} ELSE {})
    /\ pc' = "accept"
    /\ active' = 0 /\ stage' = "begin"
    /\ UNCHANGED <<sent, total, began, eof, extras, conns, odd, req, rdNext, stop, buffStop, isClosed,
                   failed, type, eorStop, skip, lens, fill, headerLen, inner, want,
                   inWant, got>>

-----------------------------------------------------------------------------
Library ==
    \/ FillRead \/ FillReadFails \/ FillDeliver \/ FillSkip \/ FillPadding
    \/ FillEndOfRecord \/ FillHeader \/ ProcessHeader
    \/ InnerTake \/ InnerFill \/ BodyRead \/ InnerEof
    \/ NewReader \/ BeginReturns \/ GetStr \/ GetStrFill \/ ParamsEof \/ GetEof

Next == Server \/ Library \/ AcceptConnection \/ AppGet \/ AppFinish

\* The process runs, and bytes that were sent arrive; neither the web server nor
\* the application owes anything.
Spec == Init /\ [][Next]_vars /\ WF_vars(Library)

-----------------------------------------------------------------------------
(* Properties *)

Handed == pc \in {"app", "get"}

\* What is delivered of a stream is its content: nothing else (no header, padding,
\* other stream, other request), and nothing left out.  "the value of a stream is
\* independent of how many records it contains"
DeliveredIsContent ==
    pc \in {"params", "app", "get"} => \A t \in StreamTypes :
        /\ got[t] \subseteq Content(t, requestId)
        /\ \A g \in got[t], c \in Content(t, requestId) : c < g => c \in got[t]

\* An end of file without an error is the end of FCGI_STDIN, not of the network.
EofIsEnd ==
    pc = "app" /\ isClosed /\ ~failed =>
        Ended("stdin", requestId) /\ got["stdin"] = Content("stdin", requestId)

\* The records that are misread: one whose content is not taken off the stream it comes
\* in, and one without content after which the next content is taken for its own.
Misread == odd \cap {"skipped", "unread"} # {}

Bytes(S) == UNION {r.start + HEADER .. r.start + HEADER + r.len - 1 : r \in S}

\* The content of management records of unknown type.
Unasked == Bytes({r \in Sent : r.id = 0 /\ r.type # "values"})

\* The content of the first record that has any behind an empty one of another request.
SkippedOver ==
    Bytes({r \in Sent : \E e \in Sent :
               /\ e.id \notin {0, requestId} /\ e.len = 0 /\ e.start < r.start
               /\ \A m \in Sent : e.start < m.start /\ m.start < r.start => m.len = 0})

\* What a misread record does to a stream: more than its content is delivered of one of
\* unknown type only, less only where a record is skipped over.
ReadButFor(t, whole) ==
    /\ got[t] \subseteq Content(t, requestId) \cup Unasked
    /\ \A c \in Content(t, requestId) \ SkippedOver :
          (whole \/ \E g \in got[t] : c < g) => c \in got[t]

\* However the network cuts the records, and whatever else comes between them, the
\* application reads what the web server sent it, up to its end; but with the two kinds
\* of records that are misread it gets the content of one and misses the content behind
\* the other, without an error, and nothing else goes wrong.  (Types first.)
NothingLost ==
    /\ TypeOK
    /\ ~Misread => DeliveredIsContent /\ EofIsEnd
    /\ Misread =>
          /\ pc \in {"params", "app", "get"} => \A t \in StreamTypes : ReadButFor(t, FALSE)
          /\ pc = "app" /\ isClosed /\ ~failed =>
                Ended("stdin", requestId) /\ ReadButFor("stdin", TRUE)

\* A request that reaches the application without an error code is the one that is active
\* and has all its parameters; but for those skipped over, or made of content that is not
\* its own, where a record is misread.
ParamsWhole ==
    Handed /\ ~failed =>
        /\ requestId = active
        /\ Ended("params", requestId)
        /\ IF Misread THEN ReadButFor("params", TRUE)
           ELSE got["params"] = Content("params", requestId)

\* A request that has been sent as a whole is handed to the application, or its
\* connection closed; and a read of FCGI_STDIN returns.
WholeRequestProceeds == stage = "all" ~> pc = "app" \/ ~ipcFd

\* "Finished reading the environment.  No errors occurred": a request that reaches
\* the application has all its parameters.
AcceptedWhole == Handed => Ended("params", requestId)

\* A connection that the web server keeps open, has asked to be kept, and on which it
\* sends nothing odd, is closed only because of what the last request left unread: what
\* the next FCGX_Accept takes for a header is FCGI_STDIN of that request, or lies within
\* a record whose beginning went with the last reader's buffer.  The request the web
\* server waits for meanwhile begins behind it.
ClosedForLeftovers ==
    [][ipcFd /\ ~ipcFd' /\ ~eof /\ keepConnection /\ odd = {} =>
           /\ active # 0 => rdNext < began + HEADER
           /\ \A i \in 1..Len(sent) :
                 sent[i].start + HEADER = rdNext => sent[i].type = "stdin"]_vars

=============================================================================
