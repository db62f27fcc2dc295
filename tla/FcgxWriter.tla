----------------------------- MODULE FcgxWriter -----------------------------
(***************************************************************************)
(* The two output streams of one FastCGI request, out (FCGI_STDOUT) and    *)
(* err (FCGI_STDERR), as fcgiapp.c writes them: FCGX_PutStr fills a        *)
(* buffer, EmptyBuffProc wraps it in a record, pads it to 8 bytes and      *)
(* sends it, FCGX_FClose adds the end-of-stream record and, for the last   *)
(* of the two writers, FCGI_END_REQUEST.  Any write may fail half-way.     *)
(*                                                                         *)
(* Bytes are counted, not spelled out: a buffer, and the wire, is a        *)
(* sequence of blocks [kind, of, size, val], where val is the contentLength *)
(* of a "head", the number of the first byte of a "data" block, and how    *)
(* much of the record came before for "eof" and "end".                     *)
(*                                                                         *)
(* A definition introduced by "Mutant:" is not part of the model: it is    *)
(* what the next one would be with a plausible bug.                        *)
(***************************************************************************)
EXTENDS Integers, Sequences

CONSTANTS Cap,      \* Cap[s]: bytes in the buffer of stream s
          Sizes,    \* lengths the application passes to FCGX_PutStr
          MaxBytes  \* bytes written to one stream in a request, a bound

Streams == {"out", "err"}

HEADER == 8         \* sizeof(FCGI_Header)

AlignInt8(n) == ((n + 7) \div 8) * 8

\* NewStream: the buffer length asked for, clamped and aligned; 8 bytes less
\* when malloc does not align.
BuffLens(asked) ==
    LET clamped == IF asked < 32 THEN 32 ELSE IF asked > 65536 THEN 65536 ELSE asked
    IN  {AlignInt8(clamped), AlignInt8(clamped) - 8}

ASSUME WriterAssumption ==
    /\ \A s \in Streams :
          /\ Cap[s] \in Nat /\ Cap[s] % 8 = 0
          /\ 24 <= Cap[s] /\ Cap[s] <= 65536
    /\ Sizes \subseteq Nat \ {0}
    /\ MaxBytes \in Nat

VARIABLES
    wire,       \* the blocks that reached the connection
    buf,        \* the blocks between buff and wrNext
    wrNext,     \* offset of wrNext in the buffer
    isClosed, wasFCloseCalled, failed,   \* failed: FCGI_errno is set
    isAnythingWritten, rawWrite,
    nWriters,
    pc, act,    \* what the call in progress does, and on which stream
    item, left, \* what FCGX_PutStr is copying, and how much is left of it
    written     \* content bytes copied into the buffer, per stream

flags == <<isClosed, wasFCloseCalled, failed, isAnythingWritten, rawWrite>>
vars  == <<wire, buf, wrNext, flags, nWriters, pc, act, item, left,
          written>>

Kinds  == {"gap", "head", "data", "pad", "eof", "end", "cut"}
Blocks == [kind : Kinds, of : Streams, size : Nat, val : Nat]

Block(k, s, n, v) == [kind |-> k, of |-> s, size |-> n, val |-> v]

\* Content bytes that follow content bytes lengthen their block.
Extended(b, x) ==
    IF b # <<>> /\ b[Len(b)].kind = "data" /\ x.kind = "data"
    THEN [b EXCEPT ![Len(b)] = Block("data", @.of, @.size + x.size, @.val)]
    ELSE Append(b, x)

Gap(s) == <<Block("gap", s, HEADER, 0)>>    \* room for the header

TypeOK ==
    /\ wire \in Seq(Blocks)
    /\ buf \in [Streams -> Seq(Blocks)]
    /\ \A s \in Streams : wrNext[s] \in 0..Cap[s]
    /\ wrNext \in [Streams -> Nat]
    /\ isClosed \in [Streams -> BOOLEAN]
    /\ wasFCloseCalled \in [Streams -> BOOLEAN]
    /\ failed \in [Streams -> BOOLEAN]
    /\ isAnythingWritten \in [Streams -> BOOLEAN]
    /\ rawWrite \in [Streams -> BOOLEAN]
    /\ nWriters \in 0..2
    /\ pc \in {"idle", "put", "full", "trailer", "send"}
    /\ act \in Streams
    /\ item \in {"data", "eof", "end"}
    /\ left \in Nat
    /\ written \in [Streams -> Nat]

Init ==
    /\ wire = <<>>
    /\ buf = [s \in Streams |-> Gap(s)]
    /\ wrNext = [s \in Streams |-> HEADER]
    /\ isClosed = [s \in Streams |-> FALSE]
    /\ wasFCloseCalled = [s \in Streams |-> FALSE]
    /\ failed = [s \in Streams |-> FALSE]
    /\ isAnythingWritten = [s \in Streams |-> FALSE]
    /\ rawWrite = [s \in Streams |-> FALSE]
    /\ nWriters = 2
    /\ pc = "idle" /\ act = "out" /\ item = "data" /\ left = 0
    /\ written = [s \in Streams |-> 0]

-----------------------------------------------------------------------------
(* EmptyBuffProc *)

ContentLen(s) == wrNext[s] - HEADER

Padding(s) == AlignInt8(ContentLen(s)) - ContentLen(s)

\* The buffer with its header filled in and its content padded; the room for
\* the header is given back when there is no content.
Encapsulated(s) ==
    IF rawWrite[s] THEN buf[s]
    ELSE IF ContentLen(s) > 0
         THEN <<Block("head", s, HEADER, ContentLen(s))>> \o Tail(buf[s])
              \o (IF Padding(s) > 0 THEN <<Block("pad", s, Padding(s), 0)>> ELSE <<>>)
         ELSE <<>>

EncapsulatedLen(s) ==
    IF rawWrite[s] THEN wrNext[s]
    ELSE IF ContentLen(s) > 0 THEN HEADER + AlignInt8(ContentLen(s)) ELSE 0

\* Mutant: the buffer is not made empty again.
WriteBufferKept(s, b, n) ==
    \/ /\ wire' = wire \o b
       /\ UNCHANGED <<buf, wrNext, failed>>
    \/ /\ b # <<>>
       /\ \E c \in {<<>>, <<Block("cut", s, 0, 0)>>} : wire' = wire \o c
       /\ buf' = [buf EXCEPT ![s] = b]
       /\ wrNext' = [wrNext EXCEPT ![s] = n]
       /\ failed' = [failed EXCEPT ![s] = TRUE]

\* write_it_all succeeds, or fails at the first byte or later: a "cut" on the
\* wire stands for the part of the buffer that got through.  SetError closes
\* the stream and the buffer stays as it is.
WriteBuffer(s, b, n) ==
    \/ /\ wire' = wire \o b
       /\ buf' = [buf EXCEPT ![s] = IF rawWrite'[s] THEN <<>> ELSE Gap(s)]
       /\ wrNext' = [wrNext EXCEPT ![s] = IF rawWrite'[s] THEN 0 ELSE HEADER]
       /\ UNCHANGED failed
    \/ /\ b # <<>>
       /\ \E c \in {<<>>, <<Block("cut", s, 0, 0)>>} : wire' = wire \o c
       /\ buf' = [buf EXCEPT ![s] = b]
       /\ wrNext' = [wrNext EXCEPT ![s] = n]
       /\ failed' = [failed EXCEPT ![s] = TRUE]

\* Mutant: a failed write leaves the stream open.
EmptyBuffProcOpen(s) ==
    /\ UNCHANGED <<rawWrite, wasFCloseCalled, isClosed>>
    /\ WriteBuffer(s, Encapsulated(s), EncapsulatedLen(s))
    /\ isAnythingWritten' =
           [isAnythingWritten EXCEPT ![s] = @ \/ Encapsulated(s) # <<>>]

\* EmptyBuffProc(stream, FALSE).
EmptyBuffProc(s) ==
    /\ UNCHANGED <<rawWrite, wasFCloseCalled>>
    /\ WriteBuffer(s, Encapsulated(s), EncapsulatedLen(s))
    /\ isAnythingWritten' =
           [isAnythingWritten EXCEPT ![s] = @ \/ Encapsulated(s) # <<>>]
    /\ isClosed' = [isClosed EXCEPT ![s] = @ \/ failed'[s]]

-----------------------------------------------------------------------------
(* FCGX_PutStr: the loop, also run by WriteCloseRecords for its two records *)

\* Mutant: stop is one byte past the buffer.
RoomPlusOne(s) == IF wasFCloseCalled[s] THEN 0 ELSE Cap[s] + 1 - wrNext[s]

\* stop - wrNext; FCGX_FClose sets stop to wrNext.
Room(s) == IF wasFCloseCalled[s] THEN 0 ELSE Cap[s] - wrNext[s]

Least(m, n) == IF m < n THEN m ELSE n

\* Bytes of the item already copied: content bytes are numbered from 0.
Progress == CASE item = "data" -> written[act]
              [] item = "eof"  -> HEADER - left
              [] item = "end"  -> 2 * HEADER - left

\* Where the call goes on once the item is copied, or given up.
AfterItem == CASE item = "data" -> "idle"
               [] item = "eof"  -> "trailer"
               [] item = "end"  -> "send"

PutStr(s, n) ==
    /\ pc = "idle"
    /\ written[s] + n <= MaxBytes
    /\ pc' = "put" /\ act' = s /\ item' = "data" /\ left' = n
    /\ UNCHANGED <<wire, buf, wrNext, flags, nWriters, written>>

\* memcpy of what fits.
PutCopy ==
    /\ pc = "put"
    /\ LET m == Least(left, Room(act))
       IN  /\ buf' = IF m = 0 THEN buf
                     ELSE [buf EXCEPT ![act] =
                             Extended(@, Block(item, act, m, Progress))]
           /\ wrNext' = [wrNext EXCEPT ![act] = @ + m]
           /\ written' = IF item = "data"
                         THEN [written EXCEPT ![act] = @ + m] ELSE written
           /\ left' = left - m
           /\ pc' = IF left = m THEN AfterItem ELSE "full"
    /\ UNCHANGED <<wire, flags, nWriters, act, item>>

\* The buffer is full: a closed stream gives up (-1), an open one empties it.
PutFull ==
    /\ pc = "full"
    /\ ~isClosed[act]
    /\ EmptyBuffProc(act)
    /\ pc' = "put"
    /\ UNCHANGED <<nWriters, act, item, left, written>>

\* Mutant: a closed stream is tried again.
PutTriesAgain ==
    /\ pc = "full"
    /\ isClosed[act]
    /\ pc' = "put"
    /\ UNCHANGED <<wire, buf, wrNext, flags, nWriters, act, item, left, written>>

PutGivesUp ==
    /\ pc = "full"
    /\ isClosed[act]
    /\ pc' = AfterItem
    /\ left' = 0
    /\ UNCHANGED <<wire, buf, wrNext, flags, nWriters, act, item, written>>

FFlush(s) ==
    /\ pc = "idle"
    /\ ~isClosed[s]
    /\ EmptyBuffProc(s)
    /\ act' = s
    /\ UNCHANGED <<nWriters, pc, item, left, written>>

-----------------------------------------------------------------------------
(* FCGX_FClose: EmptyBuffProc(stream, TRUE) with WriteCloseRecords inside *)

\* The buffered content becomes a record; from here on the stream writes raw.
\* A stderr that never carried anything gets no end-of-stream record.
FClose(s) ==
    /\ pc = "idle"
    /\ ~wasFCloseCalled[s]
    /\ buf' = [buf EXCEPT ![s] = Encapsulated(s)]
    /\ wrNext' = [wrNext EXCEPT ![s] = EncapsulatedLen(s)]
    /\ rawWrite' = [rawWrite EXCEPT ![s] = TRUE]
    /\ act' = s
    /\ IF s = "err" /\ EncapsulatedLen(s) = 0 /\ ~isAnythingWritten[s]
       THEN pc' = "trailer" /\ UNCHANGED <<item, left>>
       ELSE pc' = "put" /\ item' = "eof" /\ left' = HEADER
    /\ UNCHANGED <<wire, isClosed, wasFCloseCalled, failed, isAnythingWritten,
                   nWriters, written>>

\* Mutant: the first of the writers to close ends the request.
CloseTrailerFirst ==
    /\ pc = "trailer"
    /\ IF nWriters = 2
       THEN pc' = "put" /\ item' = "end" /\ left' = 2 * HEADER
       ELSE pc' = "send" /\ UNCHANGED <<item, left>>
    /\ nWriters' = nWriters - 1
    /\ UNCHANGED <<wire, buf, wrNext, flags, act, written>>

\* The last of the writers to close ends the request.
CloseTrailer ==
    /\ pc = "trailer"
    /\ IF nWriters = 1
       THEN pc' = "put" /\ item' = "end" /\ left' = 2 * HEADER
       ELSE pc' = "send" /\ UNCHANGED <<item, left>>
    /\ nWriters' = nWriters - 1
    /\ UNCHANGED <<wire, buf, wrNext, flags, act, written>>

CloseSend ==
    /\ pc = "send"
    /\ UNCHANGED rawWrite
    /\ WriteBuffer(act, buf[act], wrNext[act])
    /\ isAnythingWritten' =
           [isAnythingWritten EXCEPT ![act] = @ \/ buf[act] # <<>>]
    /\ wasFCloseCalled' = [wasFCloseCalled EXCEPT ![act] = TRUE]
    /\ isClosed' = [isClosed EXCEPT ![act] = TRUE]
    /\ pc' = "idle"
    /\ UNCHANGED <<nWriters, act, item, left, written>>

-----------------------------------------------------------------------------
Call == \/ \E s \in Streams, n \in Sizes : PutStr(s, n)
        \/ \E s \in Streams : FFlush(s) \/ FClose(s)

Step == PutCopy \/ PutFull \/ PutGivesUp \/ CloseTrailer \/ CloseSend

Next == Call \/ Step

\* A call in progress goes on: writes are blocking, but they return.
Spec == Init /\ [][Next]_vars /\ WF_vars(Step)

-----------------------------------------------------------------------------
(* Properties *)

Intact == \A s \in Streams : ~failed[s]

\* The header h gives the length of the content, in the 16 bits MakeHeader has for it;
\* the content d and the padding p of its record.
Fits(h) == 0 < h.val /\ h.val < 65536
Padded(h) == h.val % 8 # 0
IsContent(d, h) == d.kind = "data" /\ d.of = h.of /\ d.size = h.val
IsPadding(p, h) == p.kind = "pad" /\ p.of = h.of /\ p.size = AlignInt8(h.val) - h.val

FramedAt(w, i) ==
    /\ w[i].kind \notin {"gap", "cut"}
    /\ w[i].kind = "head" =>
          /\ Fits(w[i])
          /\ i + 1 <= Len(w) /\ IsContent(w[i + 1], w[i])
          /\ Padded(w[i]) => i + 2 <= Len(w) /\ IsPadding(w[i + 2], w[i])
    /\ w[i].kind = "data" => i > 1 /\ w[i - 1].kind = "head"
    /\ w[i].kind = "pad"  => i > 1 /\ w[i - 1].kind = "data"

WellFramed(w) == \A i \in 1..Len(w) : FramedAt(w, i)

\* As long as no write failed, what is on the wire is a sequence of whole records.
Framed == Intact => WellFramed(wire)

IsOf(b, s) == b.kind = "data" /\ b.of = s

\* n is the number of the content byte of s that follows the first i blocks of b.
NextByte(b, s, i, n) ==
    \/ n = 0 /\ \A j \in 1..i : ~IsOf(b[j], s)
    \/ \E j \in 1..i : /\ IsOf(b[j], s) /\ n = b[j].val + b[j].size
                       /\ \A k \in j + 1..i : ~IsOf(b[k], s)

\* Every byte the application wrote to a stream that has not failed is on the
\* wire or in the buffer, once and in order, however the writes were cut into
\* records and whatever the other stream did in between.
InOrder == \A s \in Streams : ~failed[s] =>
    LET b == wire \o buf[s]
    IN  /\ \A i \in 1..Len(b) : IsOf(b[i], s) => NextByte(b, s, i - 1, b[i].val)
        /\ NextByte(b, s, Len(b), written[s])

Positions(k) == {i \in 1..Len(wire) : wire[i].kind = k}

\* FCGI_END_REQUEST is the last thing on the wire, after the end-of-stream
\* record of out and of an err that carried something, and no content follows
\* the end of its stream.
EndRequestLast == Intact =>
    /\ \A i \in Positions("end") :
          /\ \A j \in i..Len(wire) : wire[j].kind = "end"
          /\ \E j \in 1..i : wire[j].kind = "eof" /\ wire[j].of = "out"
          /\ written["err"] > 0 =>
                \E j \in 1..i : wire[j].kind = "eof" /\ wire[j].of = "err"
    /\ \A i \in Positions("eof"), j \in Positions("head") :
          j > i => wire[j].of # wire[i].of

\* When both streams have been closed and no write failed, all content and one
\* whole FCGI_END_REQUEST have been sent.
CompleteWhenClosed ==
    Intact /\ (\A s \in Streams : wasFCloseCalled[s]) =>
        /\ nWriters = 0
        /\ \A s \in Streams : buf[s] = <<>>
        /\ {wire[i].val : i \in Positions("end")} \in {{0}, {0, 8}}
        /\ wire[Len(wire)].val + wire[Len(wire)].size = 2 * HEADER

\* What the web server receives for a request, as long as no write fails, is a
\* response: whole records, FCGI_END_REQUEST after the ends of both streams, and at
\* the end all of it.
ResponseWellFormed == Framed /\ EndRequestLast /\ CompleteWhenClosed

\* Every call returns, the failing ones too.
CallReturns == pc # "idle" ~> pc = "idle"

\* After a write has failed nothing more is sent for the stream, except once, by the
\* FCGX_FClose that tries the whole of the buffer again.
SilentAfterError ==
    [][wire' # wire /\ failed[act'] => pc = "send" /\ ~wasFCloseCalled[act]]_vars
=============================================================================
