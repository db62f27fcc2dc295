-------------------------- MODULE FcgxWriterProofs --------------------------
(***************************************************************************)
(* FcgxWriter for every buffer size NewStream can choose and every length  *)
(* written.  The buffers are never overrun, not by padding either, and the *)
(* writers are counted down to zero and no further.  What is put on the    *)
(* wire is whole records, the content in order, the ends of the streams    *)
(* and FCGI_END_REQUEST behind them, and nothing for a stream that has     *)
(* failed.                                                                 *)
(***************************************************************************)
EXTENDS FcgxWriter, SequenceTheorems, TLAPS

\* The close of a stream is under way, in WriteCloseRecords or just after it.
InItem == pc \in {"put", "full"}
Closing == pc \in {"trailer", "send"} \/ (InItem /\ item # "data")

\* A stream that is not in raw mode has the room for its header in the buffer.
GapInv == \A s \in Streams : ~rawWrite[s] => wrNext[s] >= HEADER /\ buf[s] # <<>>

\* Raw mode starts with FCGX_FClose and lasts.
RawInv ==
    /\ \A s \in Streams : wasFCloseCalled[s] => rawWrite[s]
    /\ \A s \in Streams : rawWrite[s] /\ ~wasFCloseCalled[s] => s = act /\ Closing
    /\ Closing => rawWrite[act] /\ ~wasFCloseCalled[act]

\* nWriters counts the streams whose WriteCloseRecords has not come to its end.
Undone(s) == IF rawWrite[s] THEN 0 ELSE 1
CountInv ==
    nWriters = Undone("out") + Undone("err")
               + (IF pc = "trailer" \/ (InItem /\ item = "eof") THEN 1 ELSE 0)

\* What is left of a record WriteCloseRecords writes.
LeftInv ==
    /\ item = "eof" => left <= HEADER
    /\ item = "end" => left <= 2 * HEADER

IInv == TypeOK /\ GapInv /\ RawInv /\ CountInv /\ LeftInv

-----------------------------------------------------------------------------
(* The parts of TypeOK. *)

BufType ==
    /\ wire \in Seq(Blocks)
    /\ buf \in [Streams -> Seq(Blocks)]

PtrType ==
    /\ \A s \in Streams : wrNext[s] \in 0..Cap[s]
    /\ wrNext \in [Streams -> Nat]

FlagType ==
    /\ isClosed \in [Streams -> BOOLEAN]
    /\ wasFCloseCalled \in [Streams -> BOOLEAN]
    /\ failed \in [Streams -> BOOLEAN]
    /\ isAnythingWritten \in [Streams -> BOOLEAN]
    /\ rawWrite \in [Streams -> BOOLEAN]

CallType ==
    /\ nWriters \in 0..2
    /\ pc \in {"idle", "put", "full", "trailer", "send"}
    /\ act \in Streams
    /\ item \in {"data", "eof", "end"}
    /\ left \in Nat
    /\ written \in [Streams -> Nat]

LEMMA TypeParts ==
    /\ TypeOK <=> BufType /\ PtrType /\ FlagType /\ CallType
    /\ TypeOK' <=> BufType' /\ PtrType' /\ FlagType' /\ CallType'
  BY DEF TypeOK, BufType, PtrType, FlagType, CallType

USE DEF HEADER

-----------------------------------------------------------------------------
(* What the operators return. *)

LEMMA CapType ==
    ASSUME NEW s \in Streams
    PROVE  Cap[s] \in Nat /\ Cap[s] >= 24 /\ Cap[s] % 8 = 0
  BY WriterAssumption

\* Where a close is under way, and where it is not.
LEMMA ClosingAt ==
    /\ pc = "idle" => ~Closing
    /\ pc \in {"trailer", "send"} => Closing
    /\ InItem /\ item # "data" => Closing
    /\ pc' = "idle" => ~Closing'
    /\ pc' \in {"trailer", "send"} => Closing'
    /\ pc' = "put" /\ item' # "data" => Closing'
  BY DEF Closing, InItem

LEMMA UndoneType == \A s \in Streams : Undone(s) \in {0, 1}
  BY DEF Undone

LEMMA BlockType ==
    ASSUME NEW k \in Kinds, NEW s \in Streams, NEW n \in Nat, NEW v \in Nat
    PROVE  Block(k, s, n, v) \in Blocks
  BY DEF Block, Blocks

LEMMA GapType ==
    ASSUME NEW s \in Streams
    PROVE  Gap(s) \in Seq(Blocks) /\ Gap(s) # <<>>
<1>1. Block("gap", s, HEADER, 0) \in Blocks
  BY BlockType DEF Kinds
<1> QED BY <1>1 DEF Gap

\* The padded length of n bytes of content.
LEMMA Aligned ==
    ASSUME NEW n \in Nat
    PROVE  /\ AlignInt8(n) \in Nat
           /\ AlignInt8(n) >= n
           /\ \A m \in Nat : m % 8 = 0 /\ m >= n => m >= AlignInt8(n)
  BY DEF AlignInt8

LEMMA ExtendedType ==
    ASSUME NEW b \in Seq(Blocks), NEW x \in Blocks
    PROVE  Extended(b, x) \in Seq(Blocks) /\ Extended(b, x) # <<>>
<1>1. CASE b # <<>> /\ b[Len(b)].kind = "data" /\ x.kind = "data"
  <2>1. Len(b) \in 1..Len(b) /\ b[Len(b)] \in Blocks
    BY <1>1
  <2> DEFINE y == Block("data", b[Len(b)].of, b[Len(b)].size + x.size, b[Len(b)].val)
  <2>2. y \in Blocks
    <3>1. /\ b[Len(b)].of \in Streams /\ b[Len(b)].val \in Nat
          /\ b[Len(b)].size + x.size \in Nat /\ "data" \in Kinds
      BY <2>1 DEF Blocks, Kinds
    <3> QED BY <3>1, BlockType
  <2>3. Extended(b, x) = [b EXCEPT ![Len(b)] = y]
    BY <1>1 DEF Extended
  <2> HIDE DEF y
  <2> QED BY <1>1, <2>1, <2>2, <2>3, ExceptSeq
<1>2. CASE ~(b # <<>> /\ b[Len(b)].kind = "data" /\ x.kind = "data")
  BY <1>2 DEF Extended
<1> QED BY <1>1, <1>2

\* A wrapped buffer fits the buffer: the comment of EmptyBuffProc, "padding
\* can't overflow the buffer because the buffer is a multiple of 8 bytes".
LEMMA EncapsulatedFits ==
    ASSUME IInv, NEW s \in Streams
    PROVE  /\ Encapsulated(s) \in Seq(Blocks)
           /\ EncapsulatedLen(s) \in 0..Cap[s]
           /\ ~rawWrite[s] /\ Encapsulated(s) # <<>> => EncapsulatedLen(s) >= HEADER
<1> USE TypeParts DEF IInv
<1>1. CASE rawWrite[s]
  BY <1>1 DEF Encapsulated, EncapsulatedLen, BufType, PtrType
<1>2. CASE ~rawWrite[s] /\ ContentLen(s) <= 0
  <2>1. ~(ContentLen(s) > 0)
    BY <1>2 DEF ContentLen, PtrType
  <2>2. Encapsulated(s) = <<>> /\ EncapsulatedLen(s) = 0
    BY ONLY <1>2, <2>1, Zenon DEF Encapsulated, EncapsulatedLen
  <2> QED BY <2>2, CapType
<1>3. CASE ~rawWrite[s] /\ ContentLen(s) > 0
  <2> DEFINE n == ContentLen(s)
  <2>1. n \in Nat /\ wrNext[s] = n + 8 /\ wrNext[s] <= Cap[s] /\ Cap[s] \in Nat
        /\ buf[s] \in Seq(Blocks) /\ buf[s] # <<>>
    BY <1>3, CapType DEF ContentLen, PtrType, BufType, GapInv
  <2>2. Cap[s] - 8 \in Nat /\ (Cap[s] - 8) % 8 = 0 /\ Cap[s] - 8 >= n
    BY <2>1, CapType
  <2>3. AlignInt8(n) \in Nat /\ AlignInt8(n) >= n /\ Cap[s] - 8 >= AlignInt8(n)
    BY <2>1, <2>2, Aligned
  <2>4. EncapsulatedLen(s) = HEADER + AlignInt8(n)
    BY <1>3 DEF EncapsulatedLen
  <2>5. EncapsulatedLen(s) \in 0..Cap[s] /\ EncapsulatedLen(s) >= HEADER
    BY <2>1, <2>3, <2>4
  <2>6. Block("head", s, HEADER, n) \in Blocks
    BY <2>1, BlockType DEF Kinds
  <2>7. Padding(s) \in Nat
    BY <2>1, <2>3 DEF Padding
  <2>8. Block("pad", s, Padding(s), 0) \in Blocks
    BY <2>7, BlockType DEF Kinds
  <2>9. Tail(buf[s]) \in Seq(Blocks)
    BY <2>1
  <2> DEFINE h == Block("head", s, HEADER, n)
             p == IF Padding(s) > 0 THEN <<Block("pad", s, Padding(s), 0)>> ELSE <<>>
  <2>10. <<h>> \in Seq(Blocks) /\ p \in Seq(Blocks)
    BY <2>6, <2>8
  <2>11. Encapsulated(s) = <<h>> \o Tail(buf[s]) \o p
    <3>1. ~rawWrite[s] /\ (ContentLen(s) > 0) = TRUE
      BY <1>3
    <3> QED BY ONLY <3>1, Zenon DEF Encapsulated
  <2> HIDE DEF h, p
  <2>12. Encapsulated(s) \in Seq(Blocks)
    BY <2>9, <2>10, <2>11
  <2> QED BY <2>5, <2>12
<1> QED BY <1>1, <1>2, <1>3 DEF ContentLen, PtrType

\* Sending a buffer, or failing to, leaves it in order.
LEMMA WriteBufferKeeps ==
    ASSUME IInv, NEW s \in Streams, NEW b \in Seq(Blocks), NEW n \in 0..Cap[s],
           rawWrite' = rawWrite, ~rawWrite[s] /\ b # <<>> => n >= HEADER,
           WriteBuffer(s, b, n)
    PROVE  BufType' /\ PtrType' /\ failed' \in [Streams -> BOOLEAN] /\ GapInv'
<1> USE TypeParts DEF IInv
<1> DEFINE gap == IF rawWrite[s] THEN <<>> ELSE Gap(s)
           ptr == IF rawWrite[s] THEN 0 ELSE HEADER
<1>1. gap \in Seq(Blocks) /\ (~rawWrite[s] => gap # <<>>)
  BY GapType
<1>2. ptr \in 0..Cap[s] /\ (~rawWrite[s] => ptr >= HEADER)
  BY CapType
<1>3. Block("cut", s, 0, 0) \in Blocks
  BY BlockType DEF Kinds
<1>4. \/ /\ wire' = wire \o b
         /\ buf' = [buf EXCEPT ![s] = gap]
         /\ wrNext' = [wrNext EXCEPT ![s] = ptr]
         /\ UNCHANGED failed
      \/ /\ b # <<>>
         /\ \E c \in {<<>>, <<Block("cut", s, 0, 0)>>} : wire' = wire \o c
         /\ buf' = [buf EXCEPT ![s] = b]
         /\ wrNext' = [wrNext EXCEPT ![s] = n]
         /\ failed' = [failed EXCEPT ![s] = TRUE]
  BY DEF WriteBuffer
<1> HIDE DEF gap, ptr
<1>5. wire' \in Seq(Blocks)
  <2>1. wire' = wire \o b \/ wire' = wire \o <<>> \/ wire' = wire \o <<Block("cut", s, 0, 0)>>
    BY <1>4
  <2>2. <<Block("cut", s, 0, 0)>> \in Seq(Blocks) /\ <<>> \in Seq(Blocks)
    BY <1>3
  <2>3. wire \in Seq(Blocks)
    BY DEF BufType
  <2>4. CASE wire' = wire \o b
    BY <2>3, <2>4
  <2>5. CASE wire' = wire \o <<>>
    BY <2>3, <2>5
  <2>6. CASE wire' = wire \o <<Block("cut", s, 0, 0)>>
    BY <2>2, <2>3, <2>6
  <2> QED BY <2>1, <2>4, <2>5, <2>6
<1>6. PICK x \in Seq(Blocks), k \in 0..Cap[s] :
          /\ buf' = [buf EXCEPT ![s] = x]
          /\ wrNext' = [wrNext EXCEPT ![s] = k]
          /\ ~rawWrite[s] => k >= HEADER /\ x # <<>>
  BY <1>1, <1>2, <1>4
<1>7. buf' \in [Streams -> Seq(Blocks)]
  BY <1>6 DEF BufType
<1>8. wrNext' \in [Streams -> Nat] /\ \A t \in Streams : wrNext'[t] \in 0..Cap[t]
  BY <1>6, CapType DEF PtrType
<1>9. GapInv'
  BY <1>6 DEF GapInv, BufType, PtrType
<1>10. failed' \in [Streams -> BOOLEAN]
  <2>1. failed' = failed \/ failed' = [failed EXCEPT ![s] = TRUE]
    BY <1>4
  <2> QED BY <2>1 DEF FlagType
<1> QED BY <1>5, <1>7, <1>8, <1>9, <1>10 DEF BufType, PtrType

LEMMA EmptyBuffKeeps ==
    ASSUME IInv, NEW s \in Streams, EmptyBuffProc(s)
    PROVE  /\ BufType' /\ PtrType' /\ FlagType' /\ GapInv'
           /\ UNCHANGED <<rawWrite, wasFCloseCalled>>
<1> USE TypeParts DEF IInv
<1>1. UNCHANGED <<rawWrite, wasFCloseCalled>>
  BY DEF EmptyBuffProc
<1>2. BufType' /\ PtrType' /\ failed' \in [Streams -> BOOLEAN] /\ GapInv'
  BY <1>1, EncapsulatedFits, WriteBufferKeeps DEF EmptyBuffProc
<1>3. isAnythingWritten' \in [Streams -> BOOLEAN]
  BY DEF EmptyBuffProc, FlagType
<1>4. isClosed' \in [Streams -> BOOLEAN]
  BY <1>2 DEF EmptyBuffProc, FlagType
<1> QED BY <1>1, <1>2, <1>3, <1>4 DEF FlagType

-----------------------------------------------------------------------------
LEMMA InitInv == Init => IInv
<1> SUFFICES ASSUME Init PROVE IInv
  OBVIOUS
<1>1. BufType
  BY GapType DEF Init, BufType
<1>2. PtrType /\ GapInv
  BY GapType, CapType DEF Init, PtrType, GapInv
<1>3. FlagType /\ CallType
  BY DEF Init, FlagType, CallType, Streams
<1>4. RawInv /\ CountInv /\ LeftInv
  BY DEF Init, RawInv, CountInv, LeftInv, Closing, InItem, Undone, Streams
<1> QED BY <1>1, <1>2, <1>3, <1>4, TypeParts DEF IInv

\* A step of the loop of FCGX_PutStr copies what fits.
LEMMA PutCopyKeeps == ASSUME IInv, PutCopy PROVE IInv'
<1> USE TypeParts DEF IInv
<1> DEFINE m == Least(left, Room(act))
<1>1. /\ pc = "put" /\ act \in Streams /\ left \in Nat
      /\ UNCHANGED <<wire, flags, nWriters, act, item>>
      /\ left' = left - m
      /\ pc' = IF left = m THEN AfterItem ELSE "full"
      /\ wrNext' = [wrNext EXCEPT ![act] = @ + m]
      /\ written' = IF item = "data" THEN [written EXCEPT ![act] = @ + m] ELSE written
      /\ buf' = IF m = 0 THEN buf
                ELSE [buf EXCEPT ![act] = Extended(@, Block(item, act, m, Progress))]
  BY DEF PutCopy, CallType
<1>2. m \in Nat /\ m <= left /\ wrNext[act] + m <= Cap[act] /\ wrNext[act] \in Nat
      /\ Cap[act] \in Nat
  <2>1. wrNext[act] \in Nat /\ wrNext[act] <= Cap[act] /\ Cap[act] \in Nat
    BY <1>1, CapType DEF PtrType
  <2>2. Room(act) \in Nat /\ wrNext[act] + Room(act) <= Cap[act]
    BY <2>1 DEF Room
  <2>3. m \in Nat /\ m <= left /\ m <= Room(act)
    BY <1>1, <2>2 DEF Least
  <2> HIDE DEF m
  <2> QED BY <2>1, <2>2, <2>3
<1> HIDE DEF m
<1>3. UNCHANGED <<isClosed, wasFCloseCalled, failed, isAnythingWritten, rawWrite>>
  BY <1>1 DEF flags
<1>4. Progress \in Nat
  BY <1>1 DEF Progress, LeftInv, CallType
<1>5. Block(item, act, m, Progress) \in Blocks
  BY <1>1, <1>2, <1>4, BlockType DEF CallType, Kinds
<1>6. /\ Extended(buf[act], Block(item, act, m, Progress)) \in Seq(Blocks)
      /\ Extended(buf[act], Block(item, act, m, Progress)) # <<>>
  BY <1>1, <1>5, ExtendedType DEF BufType
<1>7. BufType' /\ PtrType'
  BY <1>1, <1>2, <1>6 DEF BufType, PtrType
<1>8. GapInv'
  BY <1>1, <1>2, <1>3, <1>6 DEF GapInv, BufType, PtrType
<1>9. FlagType'
  BY <1>3 DEF FlagType
<1>10. CallType' /\ LeftInv'
  BY <1>1, <1>2 DEF CallType, LeftInv, AfterItem
<1>11. RawInv' /\ CountInv'
  BY <1>1, <1>3 DEF RawInv, CountInv, Closing, InItem, Undone, AfterItem, CallType
<1> QED BY <1>7, <1>8, <1>9, <1>10, <1>11

\* Emptying a buffer, in the loop or by FCGX_FFlush.
LEMMA EmptyKeeps ==
    ASSUME IInv, NEW s \in Streams, EmptyBuffProc(s), UNCHANGED <<nWriters, item, left, written>>,
           \/ pc = "full" /\ pc' = "put" /\ act' = act
           \/ pc = "idle" /\ pc' = "idle" /\ act' = s
    PROVE  IInv'
<1> USE TypeParts DEF IInv
<1>1. /\ BufType' /\ PtrType' /\ FlagType' /\ GapInv'
      /\ UNCHANGED <<rawWrite, wasFCloseCalled>>
  BY EmptyBuffKeeps
<1>2. CallType' /\ LeftInv'
  BY DEF CallType, LeftInv
<1>3. RawInv' /\ CountInv'
  BY <1>1 DEF RawInv, CountInv, Closing, InItem, Undone
<1> QED BY <1>1, <1>2, <1>3

\* FCGX_FClose wraps the buffer and goes raw.
LEMMA FCloseKeeps == ASSUME IInv, NEW s \in Streams, FClose(s) PROVE IInv'
<1> USE TypeParts DEF IInv
<1>1. /\ pc = "idle" /\ ~wasFCloseCalled[s] /\ act' = s
      /\ buf' = [buf EXCEPT ![s] = Encapsulated(s)]
      /\ wrNext' = [wrNext EXCEPT ![s] = EncapsulatedLen(s)]
      /\ rawWrite' = [rawWrite EXCEPT ![s] = TRUE]
      /\ \/ pc' = "trailer" /\ UNCHANGED <<item, left>>
         \/ pc' = "put" /\ item' = "eof" /\ left' = HEADER
      /\ UNCHANGED <<wire, isClosed, wasFCloseCalled, failed, isAnythingWritten,
                      nWriters, written>>
  BY DEF FClose
<1>2. ~rawWrite[s]
  BY <1>1 DEF RawInv, Closing, InItem
<1>3. BufType' /\ PtrType'
  BY <1>1, EncapsulatedFits DEF BufType, PtrType
<1>4. GapInv'
  BY <1>1 DEF GapInv, FlagType, BufType, PtrType
<1>5. FlagType'
  BY <1>1 DEF FlagType
<1>6. CallType' /\ LeftInv'
  BY <1>1 DEF CallType, LeftInv
<1>7. RawInv'
  <2>1. /\ rawWrite'[s] /\ ~wasFCloseCalled'[s]
        /\ \A t \in Streams : t # s => rawWrite'[t] = rawWrite[t]
        /\ \A t \in Streams : wasFCloseCalled'[t] = wasFCloseCalled[t]
    BY <1>1 DEF FlagType
  <2>2. Closing' /\ ~Closing
    <3>1. pc = "idle" /\ (pc' = "trailer" \/ (pc' = "put" /\ item' # "data"))
      BY <1>1
    <3> QED BY ONLY <3>1, ClosingAt
  <2>3. \A t \in Streams : wasFCloseCalled'[t] => rawWrite'[t]
    BY <2>1 DEF RawInv
  <2>4. \A t \in Streams : rawWrite'[t] /\ ~wasFCloseCalled'[t] => t = act' /\ Closing'
    BY <1>1, <2>1, <2>2 DEF RawInv
  <2> QED BY <1>1, <2>1, <2>3, <2>4 DEF RawInv
<1>8. CountInv'
  <2>1. /\ rawWrite'[s] = TRUE
        /\ \A t \in Streams : t # s => rawWrite'[t] = rawWrite[t]
    BY <1>1 DEF FlagType
  <2>2. Undone(s) = 1 /\ Undone(s)' = 0 /\ \A t \in Streams : t # s => Undone(t)' = Undone(t)
    BY <1>2, <2>1 DEF Undone
  <2>3. nWriters = Undone("out") + Undone("err")
    <3> DEFINE k == IF pc = "trailer" \/ (InItem /\ item = "eof") THEN 1 ELSE 0
    <3>1. k = 0
      BY <1>1 DEF InItem
    <3>2. nWriters = Undone("out") + Undone("err") + k
      BY DEF CountInv
    <3> HIDE DEF k
    <3> QED BY <3>1, <3>2, UndoneType DEF Streams
  <2>4. nWriters = Undone("out")' + Undone("err")' + 1
    BY <2>2, <2>3, UndoneType DEF Streams
  <2>5. pc' = "trailer" \/ (InItem' /\ item' = "eof")
    BY <1>1 DEF InItem
  <2>6. (IF pc' = "trailer" \/ (InItem' /\ item' = "eof") THEN 1 ELSE 0) = 1
    BY <2>5
  <2>7. nWriters' = nWriters
    BY <1>1
  <2> QED BY <2>4, <2>6, <2>7 DEF CountInv
<1> QED BY <1>3, <1>4, <1>5, <1>6, <1>7, <1>8

\* The end of WriteCloseRecords: one writer less.
LEMMA CloseTrailerKeeps == ASSUME IInv, CloseTrailer PROVE IInv'
<1> USE TypeParts DEF IInv
<1>1. /\ pc = "trailer" /\ nWriters' = nWriters - 1
      /\ \/ pc' = "put" /\ item' = "end" /\ left' = 2 * HEADER
         \/ pc' = "send" /\ UNCHANGED <<item, left>>
      /\ UNCHANGED <<wire, buf, wrNext, flags, act, written>>
  BY DEF CloseTrailer
<1>2. UNCHANGED <<isClosed, wasFCloseCalled, failed, isAnythingWritten, rawWrite>>
  BY <1>1 DEF flags
<1>3. BufType' /\ PtrType' /\ GapInv' /\ FlagType'
  BY <1>1, <1>2 DEF BufType, PtrType, GapInv, FlagType
<1>4. nWriters \in 1..2 /\ nWriters = Undone("out") + Undone("err") + 1
  <2> DEFINE k == IF pc = "trailer" \/ (InItem /\ item = "eof") THEN 1 ELSE 0
  <2>0. k = 1
    BY <1>1
  <2> HIDE DEF k
  <2>1. nWriters = Undone("out") + Undone("err") + 1
    BY <2>0 DEF CountInv, k
  <2> QED BY <2>1, UndoneType DEF CallType, Streams
<1>5. CallType' /\ LeftInv'
  BY <1>1, <1>4 DEF CallType, LeftInv
<1>6. RawInv'
  <2>1. Closing
    BY <1>1, ClosingAt
  <2>2. Closing'
    <3>1. pc' = "send" \/ (pc' = "put" /\ item' # "data")
      BY <1>1
    <3> QED BY ONLY <3>1, ClosingAt
  <2>3. act' = act /\ rawWrite' = rawWrite /\ wasFCloseCalled' = wasFCloseCalled
    BY <1>1, <1>2
  <2> QED BY <2>1, <2>2, <2>3 DEF RawInv
<1>7. CountInv'
  <2>1. Undone("out")' = Undone("out") /\ Undone("err")' = Undone("err")
    BY <1>2 DEF Undone
  <2>2. nWriters' = Undone("out")' + Undone("err")' + 0
    BY <1>1, <1>4, <2>1, UndoneType DEF Streams
  <2> QED BY <1>1, <2>2 DEF CountInv, InItem
<1> QED BY <1>3, <1>5, <1>6, <1>7

\* The raw buffer is sent and the stream is closed.
LEMMA CloseSendKeeps == ASSUME IInv, CloseSend PROVE IInv'
<1> USE TypeParts DEF IInv
<1>1. /\ pc = "send" /\ pc' = "idle" /\ act \in Streams
      /\ UNCHANGED <<rawWrite, nWriters, act, item, left, written>>
      /\ WriteBuffer(act, buf[act], wrNext[act])
      /\ wasFCloseCalled' = [wasFCloseCalled EXCEPT ![act] = TRUE]
  BY DEF CloseSend, CallType
<1>2. BufType' /\ PtrType' /\ failed' \in [Streams -> BOOLEAN] /\ GapInv'
  <2>1. buf[act] \in Seq(Blocks) /\ wrNext[act] \in 0..Cap[act]
        /\ (~rawWrite[act] => wrNext[act] >= HEADER)
    BY <1>1 DEF BufType, PtrType, GapInv
  <2> QED BY <1>1, <2>1, WriteBufferKeeps
<1>3. isAnythingWritten' \in [Streams -> BOOLEAN]
  <2> DEFINE e == isAnythingWritten[act] \/ buf[act] # <<>>
  <2>1. isAnythingWritten' = [isAnythingWritten EXCEPT ![act] = e]
    BY DEF CloseSend
  <2>2. e \in BOOLEAN
    OBVIOUS
  <2> HIDE DEF e
  <2> QED BY <2>1, <2>2 DEF FlagType
<1>4. /\ isClosed' = [isClosed EXCEPT ![act] = TRUE]
      /\ isClosed' \in [Streams -> BOOLEAN]
  BY DEF CloseSend, FlagType
<1>5. wasFCloseCalled' \in [Streams -> BOOLEAN] /\ rawWrite' \in [Streams -> BOOLEAN]
  BY <1>1 DEF FlagType
<1>6. CallType' /\ LeftInv'
  BY <1>1 DEF CallType, LeftInv
<1>7. RawInv'
  <2>1. /\ wasFCloseCalled'[act]
        /\ \A t \in Streams : t # act => wasFCloseCalled'[t] = wasFCloseCalled[t]
    BY <1>1 DEF FlagType
  <2>2. rawWrite[act] /\ ~Closing'
    BY <1>1, ClosingAt DEF RawInv
  <2> QED BY <1>1, <2>1, <2>2 DEF RawInv
<1>8. CountInv'
  BY <1>1 DEF CountInv, Undone, InItem
<1> QED BY <1>2, <1>3, <1>4, <1>5, <1>6, <1>7, <1>8 DEF FlagType

LEMMA NextInv == IInv /\ [Next]_vars => IInv'
<1> SUFFICES ASSUME IInv, [Next]_vars PROVE IInv'
  OBVIOUS
<1> USE TypeParts
<1>1. CASE UNCHANGED vars
  BY <1>1 DEF vars, flags, IInv, BufType, PtrType, FlagType, CallType, GapInv, RawInv,
     CountInv, LeftInv, Closing, InItem, Undone
<1>2. ASSUME NEW s \in Streams, NEW n \in Sizes, PutStr(s, n) PROVE IInv'
  <2>1. /\ pc = "idle" /\ pc' = "put" /\ act' = s /\ item' = "data" /\ left' = n
        /\ n \in Nat
        /\ UNCHANGED <<wire, buf, wrNext, flags, nWriters, written>>
    BY <1>2, WriterAssumption DEF PutStr
  <2>2. UNCHANGED <<isClosed, wasFCloseCalled, failed, isAnythingWritten, rawWrite>>
    BY <2>1 DEF flags
  <2>3. BufType' /\ PtrType' /\ GapInv' /\ FlagType' /\ CallType' /\ LeftInv'
    BY <2>1, <2>2 DEF IInv, BufType, PtrType, GapInv, FlagType, CallType, LeftInv
  <2>4. RawInv' /\ CountInv'
    BY <2>1, <2>2 DEF IInv, RawInv, CountInv, Closing, InItem, Undone
  <2> QED BY <2>3, <2>4 DEF IInv
<1>3. ASSUME NEW s \in Streams, FFlush(s) PROVE IInv'
  BY <1>3, EmptyKeeps DEF FFlush
<1>4. CASE PutFull
  <2>1. act \in Streams
    BY DEF IInv, CallType
  <2> QED BY <1>4, <2>1, EmptyKeeps DEF PutFull
<1>5. CASE PutGivesUp
  <2>1. /\ pc = "full" /\ pc' = AfterItem /\ left' = 0
        /\ UNCHANGED <<wire, buf, wrNext, flags, nWriters, act, item, written>>
    BY <1>5 DEF PutGivesUp
  <2>2. UNCHANGED <<isClosed, wasFCloseCalled, failed, isAnythingWritten, rawWrite>>
    BY <2>1 DEF flags
  <2>3. BufType' /\ PtrType' /\ GapInv' /\ FlagType' /\ CallType' /\ LeftInv'
    BY <2>1, <2>2 DEF IInv, BufType, PtrType, GapInv, FlagType, CallType, LeftInv, AfterItem
  <2>4. RawInv' /\ CountInv'
    BY <2>1, <2>2 DEF IInv, RawInv, CountInv, Closing, InItem, Undone, AfterItem, CallType
  <2> QED BY <2>3, <2>4 DEF IInv
<1> QED BY <1>1, <1>2, <1>3, <1>4, <1>5, PutCopyKeeps, FCloseKeeps, CloseTrailerKeeps,
           CloseSendKeeps DEF Next, Call, Step

LEMMA Invariance == Spec => []IInv
  BY InitInv, NextInv, PTL DEF Spec

-----------------------------------------------------------------------------
\* Types, and with them the bounds of the buffers: wrNext never passes the end
\* of a buffer, when content is copied, when it is padded, and when the closing
\* records follow; nWriters stays between 0 and 2.
THEOREM TypeCorrect == Spec => []TypeOK
<1>1. IInv => TypeOK
  BY DEF IInv
<1> QED BY <1>1, Invariance, PTL

-----------------------------------------------------------------------------
(* What is put on the wire *)

\* A stream is closed once it failed or FCGX_FClose is over.
ClosedInv == \A s \in Streams : isClosed[s] <=> failed[s] \/ wasFCloseCalled[s]

\* A raw buffer is filled in units of 8 bytes, and so are the records of a close.
UnitInv ==
    /\ \A s \in Streams : rawWrite[s] => wrNext[s] % 8 = 0
    /\ item # "data" => left % 8 = 0
    /\ InItem => left > 0

\* FCGI_END_REQUEST is written for the last of the writers.
LastInv == InItem /\ item = "end" => nWriters = 0

-----------------------------------------------------------------------------
(* The buffer of a stream that has not failed *)

AllOf(w, s) == \A i \in 1..Len(w) : w[i].of = s

\* The room for the header, and behind it the content as one block.
Filling(s) ==
    /\ buf[s][1].kind = "gap"
    /\ \/ Len(buf[s]) = 1 /\ wrNext[s] = HEADER
       \/ /\ Len(buf[s]) = 2 /\ wrNext[s] > HEADER
          /\ buf[s][2].kind = "data" /\ buf[s][2].size = wrNext[s] - HEADER

HeadFirst(w) == \A i \in 1..Len(w) : w[i].kind = "head" => i = 1

\* One record at the most, and then the records of the close.
Sealed(s) ==
    /\ WellFramed(buf[s])
    /\ HeadFirst(buf[s])
    /\ wasFCloseCalled[s] => buf[s] = <<>>

BufOf(s) == IF rawWrite[s] THEN Sealed(s) ELSE Filling(s)

-----------------------------------------------------------------------------
(* Its content *)

Ordered(w, s) == \A i \in 1..Len(w) : IsOf(w[i], s) => NextByte(w, s, i - 1, w[i].val)

\* The content of b, if there is any, is one block of the bytes from r up to n.
Holds(b, s, r, n) ==
    \/ n = r /\ \A i \in 1..Len(b) : ~IsOf(b[i], s)
    \/ /\ Len(b) >= 2 /\ IsOf(b[2], s) /\ b[2].val = r /\ n = r + b[2].size
       /\ \A i \in 1..Len(b) : i # 2 => ~IsOf(b[i], s)

OrderOf(s) == \E r \in Nat :
    Ordered(wire, s) /\ NextByte(wire, s, Len(wire), r) /\ Holds(buf[s], s, r, written[s])

\* Nothing of a stream was sent as long as isAnythingWritten is not set.
WroteOf(s) == ~rawWrite[s] /\ ~isAnythingWritten[s] => written[s] = ContentLen(s)

-----------------------------------------------------------------------------
(* Its end *)

Has(w, k, s) == \E i \in 1..Len(w) : w[i].kind = k /\ w[i].of = s

\* The end-of-stream record of s is still to be written.
EofAhead(s) == ~rawWrite[s] \/ (s = act /\ InItem /\ item = "eof")

EofOf(s) ==
    IF EofAhead(s)
    THEN ~Has(wire, "eof", s) /\ ~Has(buf[s], "eof", s)
    ELSE (s = "err" /\ written[s] = 0) \/ Has(wire, "eof", s) \/ Has(buf[s], "eof", s)

\* No content of s after its end.
EofFirst(w, s) == \A i, j \in 1..Len(w) :
    j > i /\ w[i].kind = "eof" /\ w[i].of = s => ~(w[j].kind = "head" /\ w[j].of = s)

AfterEofOf(s) ==
    /\ EofFirst(wire, s)
    /\ Has(wire, "eof", s) => ~Has(buf[s], "head", s)

Whole(s) == BufOf(s) /\ OrderOf(s) /\ WroteOf(s) /\ EofOf(s) /\ AfterEofOf(s)

StreamInv(s) == AllOf(buf[s], s) /\ (~failed[s] => Whole(s))

-----------------------------------------------------------------------------
(* The wire, as long as neither stream has failed *)

WireInv == Intact => WellFramed(wire)

NoEnd(w) == \A i \in 1..Len(w) : w[i].kind # "end"

IsEnd(b, n, v) == b.kind = "end" /\ b.size = n /\ b.val = v

\* w ends with the first n bytes of FCGI_END_REQUEST and the header after it.
EndsWith(w, n) ==
    \/ n = 0 /\ NoEnd(w)
    \/ /\ n \in {8, 16} /\ Len(w) >= 1 /\ IsEnd(w[Len(w)], n, 0)
       /\ \A i \in 1..Len(w) - 1 : w[i].kind # "end"
    \/ /\ n = 16 /\ Len(w) >= 2 /\ IsEnd(w[Len(w)], 8, 8) /\ IsEnd(w[Len(w) - 1], 8, 0)
       /\ \A i \in 1..Len(w) - 2 : w[i].kind # "end"

EndBytes == IF InItem /\ item = "end" THEN 2 * HEADER - left ELSE 2 * HEADER

EndInv == Intact =>
    IF nWriters > 0 THEN NoEnd(wire) /\ \A s \in Streams : NoEnd(buf[s])
    ELSE EndsWith(wire \o buf[act], EndBytes)

RInv ==
    /\ ClosedInv /\ UnitInv /\ LastInv
    /\ \A s \in Streams : StreamInv(s)
    /\ WireInv /\ EndInv

USE DEF HEADER

-----------------------------------------------------------------------------
(* Sequences of blocks, one after the other *)

LEMMA Places ==
    ASSUME NEW w \in Seq(Blocks), NEW b \in Seq(Blocks)
    PROVE  /\ w \o b \in Seq(Blocks) /\ Len(w) \in Nat /\ Len(b) \in Nat
           /\ Len(w \o b) = Len(w) + Len(b)
           /\ \A i \in 1..Len(w) : (w \o b)[i] = w[i]
           /\ \A i \in 1..Len(b) : (w \o b)[Len(w) + i] = b[i]
           /\ \A i \in 1..Len(w \o b) : i \in 1..Len(w) \/ (i > Len(w) /\ i - Len(w) \in 1..Len(b)
                                                          /\ (w \o b)[i] = b[i - Len(w)])
  BY ConcatProperties

\* Whether a block is framed is a matter of its neighbours.
LEMMA FramedThere ==
    ASSUME NEW w, NEW c, NEW i \in Nat, NEW k \in Nat, FramedAt(w, i), c[k] = w[i],
           i + 1 <= Len(w) => k + 1 <= Len(c) /\ c[k + 1] = w[i + 1],
           i + 2 <= Len(w) => k + 2 <= Len(c) /\ c[k + 2] = w[i + 2],
           i > 1 => k > 1 /\ c[k - 1] = w[i - 1]
    PROVE  FramedAt(c, k)
  BY DEF FramedAt

LEMMA FramedConcat ==
    ASSUME NEW w \in Seq(Blocks), NEW b \in Seq(Blocks), WellFramed(w), WellFramed(b)
    PROVE  WellFramed(w \o b)
<1> DEFINE c == w \o b
           n == Len(w)
<1>1. /\ c \in Seq(Blocks) /\ n \in Nat /\ Len(b) \in Nat /\ Len(c) = n + Len(b)
      /\ \A i \in 1..n : c[i] = w[i]
      /\ \A i \in 1..Len(b) : c[n + i] = b[i]
  BY Places
<1> SUFFICES ASSUME NEW i \in 1..Len(c)
             PROVE  FramedAt(c, i)
  BY DEF WellFramed
<1>2. n = Len(w)
  OBVIOUS
<1> HIDE DEF c, n
<1>3. CASE i \in 1..n
  <2>1. /\ i \in Nat /\ c[i] = w[i]
        /\ i + 1 <= Len(w) => i + 1 <= Len(c) /\ c[i + 1] = w[i + 1]
        /\ i + 2 <= Len(w) => i + 2 <= Len(c) /\ c[i + 2] = w[i + 2]
        /\ i > 1 => c[i - 1] = w[i - 1]
    BY <1>1, <1>2, <1>3
  <2>2. FramedAt(w, i)
    BY <1>2, <1>3 DEF WellFramed
  <2> QED BY <2>1, <2>2, FramedThere, ZenonT(30)
<1>4. CASE i \notin 1..n
  <2>1. PICK k \in 1..Len(b) : i = n + k
    <3>1. i - n \in 1..Len(b) /\ i = n + (i - n)
      BY <1>1, <1>4
    <3> QED BY <3>1
  <2>2. /\ c[i] = b[k] /\ FramedAt(b, k) /\ i \in Nat /\ k \in Nat
    BY <1>1, <2>1 DEF WellFramed
  <2>3. k + 1 <= Len(b) => i + 1 <= Len(c) /\ c[i + 1] = b[k + 1]
    <3>1. k + 1 <= Len(b) => k + 1 \in 1..Len(b) /\ n + (k + 1) = i + 1
      BY <1>1, <2>1
    <3> QED BY <1>1, <2>1, <3>1
  <2>4. k + 2 <= Len(b) => i + 2 <= Len(c) /\ c[i + 2] = b[k + 2]
    <3>1. k + 2 <= Len(b) => k + 2 \in 1..Len(b) /\ n + (k + 2) = i + 2
      BY <1>1, <2>1
    <3> QED BY <1>1, <2>1, <3>1
  <2>5. k > 1 => i > 1 /\ c[i - 1] = b[k - 1]
    <3>1. k > 1 => k - 1 \in 1..Len(b) /\ n + (k - 1) = i - 1
      BY <1>1, <2>1
    <3> QED BY <1>1, <2>1, <3>1
  <2> QED BY <2>2, <2>3, <2>4, <2>5, FramedThere, ZenonT(30)
<1> QED BY <1>3, <1>4

\* Content that follows in the buffer follows on the wire, once it is sent.
LEMMA Sent ==
    ASSUME NEW w \in Seq(Blocks), NEW b \in Seq(Blocks), NEW s \in Streams, NEW r \in Nat, NEW n,
           Ordered(w, s), NextByte(w, s, Len(w), r), Holds(b, s, r, n)
    PROVE  Ordered(w \o b, s) /\ NextByte(w \o b, s, Len(w \o b), n)
<1> DEFINE c == w \o b
           l == Len(w)
<1>1. /\ c \in Seq(Blocks) /\ l \in Nat /\ Len(b) \in Nat /\ Len(c) = l + Len(b)
      /\ \A i \in 1..l : c[i] = w[i]
      /\ \A i \in 1..Len(b) : c[l + i] = b[i]
      /\ \A i \in 1..Len(c) : i \in 1..l \/ (i > l /\ i - l \in 1..Len(b) /\ c[i] = b[i - l])
  BY Places
<1>2. \A i \in 1..l : IsOf(c[i], s) => NextByte(c, s, i - 1, c[i].val)
  <2>1. \A i \in 1..l : \A x : NextByte(w, s, i - 1, x) => NextByte(c, s, i - 1, x)
    BY <1>1 DEF NextByte
  <2> QED BY <1>1, <2>1 DEF Ordered
<1>3. NextByte(c, s, l, r)
  BY <1>1 DEF NextByte
<1> HIDE DEF c, l
<1>4. CASE n = r /\ \A i \in 1..Len(b) : ~IsOf(b[i], s)
  <2>1. ASSUME NEW i \in 1..Len(c), i > l PROVE ~IsOf(c[i], s)
    <3>1. i - l \in 1..Len(b) /\ c[i] = b[i - l]
      BY <1>1, <2>1
    <3> QED BY <1>4, <3>1
  <2>2. Ordered(c, s)
    BY <1>1, <1>2, <2>1 DEF Ordered
  <2>3. NextByte(c, s, Len(c), n)
    BY <1>1, <1>3, <1>4, <2>1 DEF NextByte
  <2> QED BY <2>2, <2>3 DEF c
<1>5. CASE /\ Len(b) >= 2 /\ IsOf(b[2], s) /\ b[2].val = r /\ n = r + b[2].size
           /\ \A i \in 1..Len(b) : i # 2 => ~IsOf(b[i], s)
  <2>1. /\ l + 2 \in 1..Len(c) /\ c[l + 2] = b[2] /\ IsOf(c[l + 2], s)
        /\ c[l + 2].val = r /\ n = c[l + 2].val + c[l + 2].size
    BY <1>1, <1>5
  <2>2. \A i \in 1..Len(c) : i > l /\ i # l + 2 => ~IsOf(c[i], s)
    <3> SUFFICES ASSUME NEW i \in 1..Len(c), i > l, i # l + 2 PROVE ~IsOf(c[i], s)
      OBVIOUS
    <3>1. i - l \in 1..Len(b) /\ c[i] = b[i - l]
      BY <1>1
    <3>2. i - l # 2
      BY <1>1
    <3> QED BY <1>5, <3>1, <3>2
  <2>3. NextByte(c, s, l + 1, r)
    <3>1. ~IsOf(c[l + 1], s)
      BY <1>1, <1>5, <2>1, <2>2
    <3>2. \A j \in 1..l + 1 : j \in 1..l \/ j = l + 1
      BY <1>1
    <3>3. CASE r = 0 /\ \A j \in 1..l : ~IsOf(c[j], s)
      BY <3>1, <3>2, <3>3 DEF NextByte
    <3>4. CASE \E j \in 1..l : /\ IsOf(c[j], s) /\ r = c[j].val + c[j].size
                              /\ \A k \in j + 1..l : ~IsOf(c[k], s)
      <4>1. PICK j \in 1..l : /\ IsOf(c[j], s) /\ r = c[j].val + c[j].size
                              /\ \A k \in j + 1..l : ~IsOf(c[k], s)
        BY <3>4
      <4>2. j \in 1..l + 1 /\ \A k \in j + 1..l + 1 : k \in j + 1..l \/ k = l + 1
        BY <1>1
      <4> QED BY <3>1, <4>1, <4>2 DEF NextByte
    <3> QED BY <1>3, <3>3, <3>4 DEF NextByte
  <2>4. \A i \in 1..Len(c) : i > l /\ IsOf(c[i], s) => NextByte(c, s, i - 1, c[i].val)
    <3>1. (l + 2) - 1 = l + 1
      BY <1>1
    <3> QED BY <2>1, <2>2, <2>3, <3>1
  <2>5. Ordered(c, s)
    BY <1>1, <1>2, <2>4 DEF Ordered
  <2>6. ASSUME NEW k \in (l + 2) + 1..Len(c) PROVE ~IsOf(c[k], s)
    <3>1. l \in Nat /\ Len(c) \in Nat
      BY <1>1
    <3>2. k \in 1..Len(c) /\ k > l /\ k # l + 2
      BY <3>1
    <3> QED BY <2>2, <3>2
  <2>7. NextByte(c, s, Len(c), n)
    BY <2>1, <2>6 DEF NextByte
  <2> QED BY <2>5, <2>7 DEF c
<1> QED BY <1>4, <1>5 DEF Holds

LEMMA HasConcat ==
    ASSUME NEW w \in Seq(Blocks), NEW b \in Seq(Blocks), NEW k, NEW s
    PROVE  Has(w \o b, k, s) <=> Has(w, k, s) \/ Has(b, k, s)
<1>1. /\ Len(w) \in Nat /\ Len(b) \in Nat
      /\ Len(w \o b) = Len(w) + Len(b)
      /\ \A i \in 1..Len(w) : (w \o b)[i] = w[i]
      /\ \A i \in 1..Len(b) : (w \o b)[Len(w) + i] = b[i]
      /\ \A i \in 1..Len(w \o b) : i \in 1..Len(w) \/ (i > Len(w) /\ i - Len(w) \in 1..Len(b)
                                                          /\ (w \o b)[i] = b[i - Len(w)])
  BY Places
<1>2. \A i \in 1..Len(b) : Len(w) + i \in 1..Len(w \o b)
  BY <1>1
<1> QED BY <1>1, <1>2 DEF Has

LEMMA NoEndConcat ==
    ASSUME NEW w \in Seq(Blocks), NEW b \in Seq(Blocks), NoEnd(w), NoEnd(b)
    PROVE  NoEnd(w \o b)
<1>1. /\ \A i \in 1..Len(w) : (w \o b)[i] = w[i]
      /\ \A i \in 1..Len(w \o b) : i \in 1..Len(w) \/ (i > Len(w) /\ i - Len(w) \in 1..Len(b)
                                                          /\ (w \o b)[i] = b[i - Len(w)])
  BY Places
<1> QED BY <1>1 DEF NoEnd

\* FCGI_END_REQUEST written on, in one piece or in two.
LEMMA EndsFurther ==
    ASSUME NEW w \in Seq(Blocks), NEW n \in {0, 8}, NEW m \in {8, 16}, n + m <= 16,
           EndsWith(w, n), NEW x \in Blocks, IsEnd(x, m, n)
    PROVE  EndsWith(Append(w, x), n + m)
<1> DEFINE c == Append(w, x)
<1>1. /\ Len(w) \in Nat /\ Len(c) = Len(w) + 1 /\ c[Len(c)] = x
      /\ \A i \in 1..Len(w) : c[i] = w[i]
  BY AppendProperties
<1> HIDE DEF c
<1>2. CASE n = 0
  <2>1. \A i \in 1..Len(c) - 1 : c[i].kind # "end"
    BY <1>1, <1>2 DEF EndsWith, NoEnd
  <2>2. n + m \in {8, 16} /\ IsEnd(x, n + m, 0)
    BY <1>2
  <2> QED BY <1>1, <2>1, <2>2 DEF EndsWith, c
<1>3. CASE n = 8
  <2>1. m = 8 /\ n + m = 16
    BY <1>3
  <2>2. Len(w) >= 1 /\ IsEnd(w[Len(w)], 8, 0) /\ \A i \in 1..Len(w) - 1 : w[i].kind # "end"
    BY <1>3 DEF EndsWith
  <2>3. /\ Len(c) >= 2 /\ IsEnd(c[Len(c)], 8, 8) /\ IsEnd(c[Len(c) - 1], 8, 0)
        /\ \A i \in 1..Len(c) - 2 : c[i].kind # "end"
    BY <1>1, <1>3, <2>1, <2>2
  <2> QED BY <2>1, <2>3 DEF EndsWith, c
<1> QED BY <1>2, <1>3

LEMMA AllOfConcat ==
    ASSUME NEW w \in Seq(Blocks), NEW b \in Seq(Blocks), NEW s, AllOf(w, s), AllOf(b, s)
    PROVE  AllOf(w \o b, s)
<1>1. /\ \A i \in 1..Len(w) : (w \o b)[i] = w[i]
      /\ \A i \in 1..Len(w \o b) : i \in 1..Len(w) \/ (i > Len(w) /\ i - Len(w) \in 1..Len(b)
                                                          /\ (w \o b)[i] = b[i - Len(w)])
  BY Places
<1> QED BY <1>1 DEF AllOf

-----------------------------------------------------------------------------
(* The buffer, wrapped *)

Pad(s) == IF Padding(s) > 0 THEN <<Block("pad", s, Padding(s), 0)>> ELSE <<>>
Wrap(s) == <<Block("head", s, HEADER, ContentLen(s))>> \o Tail(buf[s]) \o Pad(s)
WrapLen(s) == HEADER + AlignInt8(ContentLen(s))

\* What Encapsulated is, in its three cases.
LEMMA Raw ==
    ASSUME NEW s, rawWrite[s]
    PROVE  Encapsulated(s) = buf[s] /\ EncapsulatedLen(s) = wrNext[s]
  BY Zenon DEF Encapsulated, EncapsulatedLen

LEMMA Empty ==
    ASSUME NEW s, ~rawWrite[s], ~(ContentLen(s) > 0)
    PROVE  Encapsulated(s) = <<>> /\ EncapsulatedLen(s) = 0
  BY Zenon DEF Encapsulated, EncapsulatedLen

LEMMA Wrapped ==
    ASSUME NEW s, ~rawWrite[s], ContentLen(s) > 0
    PROVE  Encapsulated(s) = Wrap(s) /\ EncapsulatedLen(s) = WrapLen(s)
  BY Zenon DEF Encapsulated, EncapsulatedLen, Wrap, WrapLen, Pad

LEMMA ContentType ==
    ASSUME IInv, NEW s \in Streams
    PROVE  /\ wrNext[s] \in Nat /\ buf[s] \in Seq(Blocks)
           /\ ~rawWrite[s] => /\ ContentLen(s) \in Nat /\ ContentLen(s) <= 65535 /\ buf[s] # <<>>
                              /\ ContentLen(s) = wrNext[s] - HEADER
<1>1. BufType /\ PtrType /\ GapInv
  BY TypeParts DEF IInv
<1>2. wrNext[s] \in 0..Cap[s] /\ wrNext[s] \in Nat /\ Cap[s] \in Nat /\ Cap[s] <= 65536
  BY <1>1, WriterAssumption DEF PtrType
<1>3. buf[s] \in Seq(Blocks) /\ (~rawWrite[s] => wrNext[s] >= HEADER /\ buf[s] # <<>>)
  BY <1>1, Zenon DEF GapInv, BufType
<1>4. ContentLen(s) = wrNext[s] - HEADER
  BY Zenon DEF ContentLen
<1>5. ~rawWrite[s] => ContentLen(s) \in Nat /\ ContentLen(s) <= 65535
  BY <1>2, <1>3, <1>4
<1> QED BY <1>2, <1>3, <1>4, <1>5

\* The blocks before and behind the content.
LEMMA Wrappers ==
    ASSUME IInv, NEW s \in Streams, ~rawWrite[s], ContentLen(s) > 0,
           NEW h, h = Block("head", s, HEADER, ContentLen(s)),
           NEW p, p = Block("pad", s, Padding(s), 0)
    PROVE  /\ h \in Blocks /\ h.kind = "head" /\ h.of = s /\ h.val = ContentLen(s)
           /\ Fits(h) /\ (Padded(h) <=> Padding(s) > 0)
           /\ p \in Blocks /\ p.kind = "pad" /\ p.of = s /\ IsPadding(p, h)
<1>1. ContentLen(s) \in Nat /\ ContentLen(s) <= 65535
  BY ContentType
<1>2. Padding(s) \in Nat /\ (Padding(s) > 0 <=> ContentLen(s) % 8 # 0)
  BY <1>1 DEF Padding, AlignInt8
<1>3. h \in Blocks /\ p \in Blocks
  BY <1>1, <1>2, BlockType DEF Kinds
<1>4. /\ h.kind = "head" /\ h.of = s /\ h.val = ContentLen(s)
      /\ p.kind = "pad" /\ p.of = s /\ p.size = Padding(s)
  BY DEF Block
<1>5. Fits(h)
  <2>1. 0 < ContentLen(s) /\ ContentLen(s) < 65536
    BY <1>1
  <2>2. h.val = ContentLen(s)
    BY <1>4
  <2> QED BY ONLY <1>1, <2>1, <2>2 DEF Fits
<1>6. Padded(h) <=> Padding(s) > 0
  BY <1>2, <1>4 DEF Padded
<1>7. IsPadding(p, h)
  BY <1>4 DEF IsPadding, Padding
<1> QED BY <1>3, <1>4, <1>5, <1>6, <1>7

\* Wrapped or not, failed or not, a buffer holds blocks of its stream.
LEMMA WrappedOf ==
    ASSUME IInv, NEW s \in Streams, AllOf(buf[s], s)
    PROVE  AllOf(Encapsulated(s), s)
<1>0. buf[s] \in Seq(Blocks) /\ AllOf(buf[s], s)
  BY ContentType
<1>1. CASE rawWrite[s]
  BY <1>0, <1>1, Raw, Zenon
<1>2. CASE ~rawWrite[s] /\ ~(ContentLen(s) > 0)
  <2>1. Encapsulated(s) = <<>>
    BY <1>2, Empty, Zenon
  <2> QED BY <2>1 DEF AllOf
<1>3. CASE ~rawWrite[s] /\ ContentLen(s) > 0
  <2>1. PICK h, p : h = Block("head", s, HEADER, ContentLen(s)) /\ p = Block("pad", s, Padding(s), 0)
    BY Zenon
  <2>2. h \in Blocks /\ h.of = s /\ p \in Blocks /\ p.of = s
    BY <1>3, <2>1, Wrappers
  <2>3. <<h>> \in Seq(Blocks) /\ AllOf(<<h>>, s)
    BY <2>2 DEF AllOf
  <2>4. Pad(s) \in Seq(Blocks) /\ AllOf(Pad(s), s)
    <3>1. <<p>> \in Seq(Blocks) /\ AllOf(<<p>>, s) /\ <<>> \in Seq(Blocks) /\ AllOf(<<>>, s)
      BY <2>2 DEF AllOf
    <3>2. Pad(s) = <<p>> \/ Pad(s) = <<>>
      BY <2>1, Zenon DEF Pad
    <3> QED BY <3>1, <3>2, Zenon
  <2>5. Tail(buf[s]) \in Seq(Blocks) /\ AllOf(Tail(buf[s]), s)
    <3>0. buf[s] # <<>>
      BY <1>3, ContentType
    <3>1. /\ Tail(buf[s]) \in Seq(Blocks)
          /\ Len(Tail(buf[s])) = Len(buf[s]) - 1
          /\ \A i \in 1..Len(Tail(buf[s])) : Tail(buf[s])[i] = buf[s][i + 1]
      BY <1>0, <3>0, HeadTailProperties
    <3>2. \A i \in 1..Len(Tail(buf[s])) : i + 1 \in 1..Len(buf[s])
      BY <1>0, <3>1
    <3> QED BY <1>0, <3>1, <3>2 DEF AllOf
  <2>6. <<h>> \o Tail(buf[s]) \in Seq(Blocks) /\ AllOf(<<h>> \o Tail(buf[s]), s)
    BY <2>3, <2>5, AllOfConcat, ConcatProperties
  <2>7. AllOf((<<h>> \o Tail(buf[s])) \o Pad(s), s)
    BY <2>4, <2>6, AllOfConcat
  <2>8. Encapsulated(s) = (<<h>> \o Tail(buf[s])) \o Pad(s)
    BY <1>3, <2>1, Wrapped, Zenon DEF Wrap
  <2> QED BY <2>7, <2>8, Zenon
<1> QED BY <1>1, <1>2, <1>3

LEMMA Two ==
    ASSUME NEW h \in Blocks, NEW d \in Blocks
    PROVE  <<h>> \o <<d>> = <<h, d>> /\ <<h, d>> \in Seq(Blocks)
<1>1. <<h>> \in Seq(Blocks) /\ <<d>> \in Seq(Blocks) /\ <<h, d>> \in Seq(Blocks)
      /\ Len(<<h>>) = 1 /\ Len(<<d>>) = 1 /\ Len(<<h, d>>) = 2
      /\ <<h>>[1] = h /\ <<d>>[1] = d /\ <<h, d>>[1] = h /\ <<h, d>>[2] = d
  OBVIOUS
<1>2. /\ <<h>> \o <<d>> \in Seq(Blocks) /\ Len(<<h>> \o <<d>>) = 2
      /\ (<<h>> \o <<d>>)[1] = h /\ (<<h>> \o <<d>>)[2] = d
  BY <1>1, ConcatProperties
<1>3. \A i \in 1..Len(<<h>> \o <<d>>) : (<<h>> \o <<d>>)[i] = <<h, d>>[i]
  <2>1. \A i \in 1..2 : i = 1 \/ i = 2
    OBVIOUS
  <2> QED BY <1>1, <1>2, <2>1
<1> QED BY <1>1, <1>2, <1>3, SeqEqual

\* A record, with padding and without.
LEMMA PaddedRecord ==
    ASSUME NEW h, NEW d, NEW p, h.kind = "head", d.kind = "data", p.kind = "pad",
           Fits(h), IsContent(d, h), IsPadding(p, h)
    PROVE  LET e == <<h, d, p>>
           IN  /\ WellFramed(e) /\ HeadFirst(e) /\ e # <<>> /\ Len(e) >= 2 /\ e[2] = d
               /\ \A i \in 1..Len(e) : e[i].kind \in {"head", "data", "pad"}
               /\ \A i \in 1..Len(e) : i # 2 => e[i].kind # "data"
<1> DEFINE e == <<h, d, p>>
<1>1. Len(e) = 3 /\ e[1] = h /\ e[2] = d /\ e[3] = p /\ e # <<>>
  OBVIOUS
<1> HIDE DEF e
<1>2. \A i \in 1..Len(e) : i = 1 \/ i = 2 \/ i = 3
  BY <1>1
<1>3. FramedAt(e, 1) /\ FramedAt(e, 2) /\ FramedAt(e, 3)
  BY <1>1 DEF FramedAt
<1> QED BY <1>1, <1>2, <1>3 DEF WellFramed, HeadFirst, e

LEMMA PlainRecord ==
    ASSUME NEW h, NEW d, h.kind = "head", d.kind = "data",
           Fits(h), IsContent(d, h), ~Padded(h)
    PROVE  LET e == <<h, d>>
           IN  /\ WellFramed(e) /\ HeadFirst(e) /\ e # <<>> /\ Len(e) >= 2 /\ e[2] = d
               /\ \A i \in 1..Len(e) : e[i].kind \in {"head", "data", "pad"}
               /\ \A i \in 1..Len(e) : i # 2 => e[i].kind # "data"
<1> DEFINE e == <<h, d>>
<1>1. Len(e) = 2 /\ e[1] = h /\ e[2] = d /\ e # <<>>
  OBVIOUS
<1> HIDE DEF e
<1>2. \A i \in 1..Len(e) : i = 1 \/ i = 2
  BY <1>1
<1>3. FramedAt(e, 1) /\ FramedAt(e, 2)
  BY <1>1 DEF FramedAt
<1> QED BY <1>1, <1>2, <1>3 DEF WellFramed, HeadFirst, e

\* What is wrapped is one record, of the content there is.
LEMMA WrappedRecord ==
    ASSUME IInv, NEW s \in Streams, AllOf(buf[s], s), ~rawWrite[s], Filling(s),
           NEW e, e = Encapsulated(s)
    PROVE  /\ WellFramed(e) /\ HeadFirst(e)
           /\ \A i \in 1..Len(e) : e[i].kind \in {"head", "data", "pad"}
           /\ \A r, n : Holds(buf[s], s, r, n) => Holds(e, s, r, n)
           /\ EncapsulatedLen(s) % 8 = 0
           /\ e = <<>> <=> ContentLen(s) = 0
<1>0. /\ buf[s] \in Seq(Blocks) /\ ContentLen(s) \in Nat /\ wrNext[s] \in Nat
      /\ ContentLen(s) = wrNext[s] - HEADER /\ AllOf(buf[s], s)
  BY ContentType
<1>1. CASE ContentLen(s) = 0
  <2>1. e = <<>> /\ EncapsulatedLen(s) = 0
    <3>1. ~(ContentLen(s) > 0)
      BY <1>1
    <3> QED BY <3>1, Empty, Zenon
  <2>2. Len(buf[s]) = 1 /\ buf[s][1].kind = "gap"
    BY <1>0, <1>1 DEF Filling
  <2>3. \A r, n : Holds(buf[s], s, r, n) => n = r
    BY <2>2 DEF Holds, IsOf
  <2>4. \A r, n : n = r => Holds(<<>>, s, r, n)
    BY DEF Holds
  <2>5. WellFramed(<<>>) /\ HeadFirst(<<>>)
    BY DEF WellFramed, HeadFirst
  <2> QED BY <1>1, <2>1, <2>3, <2>4, <2>5
<1>2. CASE ContentLen(s) > 0
  <2>0. PICK h, p, d : /\ h = Block("head", s, HEADER, ContentLen(s))
                       /\ p = Block("pad", s, Padding(s), 0)
                       /\ d = buf[s][2]
    BY Zenon
  <2>1. Len(buf[s]) = 2 /\ buf[s][1].kind = "gap" /\ d.kind = "data" /\ d.size = ContentLen(s)
        /\ d \in Blocks /\ d.of = s
    BY <1>0, <1>2, <2>0 DEF Filling, AllOf
  <2>2. /\ h \in Blocks /\ h.kind = "head" /\ h.of = s /\ h.val = ContentLen(s)
        /\ Fits(h) /\ (Padded(h) <=> Padding(s) > 0)
        /\ p \in Blocks /\ p.kind = "pad" /\ p.of = s /\ IsPadding(p, h)
    BY <1>2, <2>0, Wrappers
  <2>3. e = <<h>> \o Tail(buf[s]) \o Pad(s) /\ EncapsulatedLen(s) = WrapLen(s)
    BY <1>2, <2>0, Wrapped, Zenon DEF Wrap
  <2>4. IsContent(d, h)
    BY <2>1, <2>2 DEF IsContent
  <2>5. Tail(buf[s]) = <<d>>
    <3>1. /\ Tail(buf[s]) \in Seq(Blocks) /\ Len(Tail(buf[s])) = 1
          /\ Tail(buf[s])[1] = buf[s][2]
      BY <1>0, <2>1, HeadTailProperties
    <3>2. <<d>> \in Seq(Blocks) /\ Len(<<d>>) = 1 /\ <<d>>[1] = d
      BY <2>1
    <3>3. \A i \in 1..Len(Tail(buf[s])) : Tail(buf[s])[i] = <<d>>[i]
      BY <2>0, <3>1, <3>2
    <3> QED BY <3>1, <3>2, <3>3, SeqEqual
  <2>6. WrapLen(s) % 8 = 0
    BY <1>0 DEF WrapLen, AlignInt8
  <2>7. \/ e = <<h, d, p>>
        \/ e = <<h, d>> /\ ~Padded(h)
    <3>1. CASE Padded(h)
      <4>1. Pad(s) = <<p>>
        BY <2>0, <2>2, <3>1, Zenon DEF Pad
      <4>2. e = <<h>> \o <<d>> \o <<p>>
        BY <2>3, <2>5, <4>1, Zenon
      <4> QED BY <2>1, <2>2, <4>2
    <3>2. CASE ~Padded(h)
      <4>1. Pad(s) = <<>>
        BY <2>2, <3>2, Zenon DEF Pad
      <4>2. e = <<h>> \o <<d>> \o <<>>
        BY <2>3, <2>5, <4>1, Zenon
      <4>3. <<h>> \o <<d>> = <<h, d>> /\ <<h, d>> \in Seq(Blocks)
        BY <2>1, <2>2, Two
      <4>4. <<h, d>> \o <<>> = <<h, d>>
        BY <4>3, ConcatEmptySeq
      <4> QED BY <3>2, <4>2, <4>3, <4>4, Zenon
    <3> QED BY <3>1, <3>2
  <2>8. /\ WellFramed(e) /\ HeadFirst(e) /\ e # <<>> /\ Len(e) >= 2 /\ e[2] = d
        /\ \A i \in 1..Len(e) : e[i].kind \in {"head", "data", "pad"}
        /\ \A i \in 1..Len(e) : i # 2 => e[i].kind # "data"
    <3>1. CASE e = <<h, d, p>>
      BY <2>1, <2>2, <2>4, <3>1, PaddedRecord
    <3>2. CASE e = <<h, d>> /\ ~Padded(h)
      BY <2>1, <2>2, <2>4, <3>2, PlainRecord
    <3> QED BY <2>7, <3>1, <3>2
  <2>9. ASSUME NEW r, NEW n, Holds(buf[s], s, r, n)
        PROVE  Holds(e, s, r, n)
    <3>1. IsOf(d, s)
      BY <2>1 DEF IsOf
    <3>2. d.val = r /\ n = r + d.size
      BY <2>0, <2>1, <2>9, <3>1 DEF Holds
    <3>3. \A i \in 1..Len(e) : i # 2 => ~IsOf(e[i], s)
      BY <2>8 DEF IsOf
    <3>4. e[2] = d /\ Len(e) >= 2
      BY <2>8
    <3> QED BY <3>1, <3>2, <3>3, <3>4, Zenon DEF Holds
  <2> QED BY <1>2, <2>3, <2>6, <2>8, <2>9
<1> QED BY <1>0, <1>1, <1>2
-----------------------------------------------------------------------------
(* What does not concern a stream *)

LEMMA Unconcerned ==
    ASSUME NEW t \in Streams, NEW x \in Seq(Blocks), \A i \in 1..Len(x) : x[i].of # t,
           wire \in Seq(Blocks), Whole(t),
           wire' = wire \o x, buf'[t] = buf[t], wrNext'[t] = wrNext[t],
           wasFCloseCalled'[t] = wasFCloseCalled[t], rawWrite'[t] = rawWrite[t],
           isAnythingWritten'[t] = isAnythingWritten[t], written'[t] = written[t],
           EofAhead(t)' <=> EofAhead(t)
    PROVE  Whole(t)'
<1>1. BufOf(t)'
  BY DEF Whole, BufOf, Sealed, Filling
<1>2. OrderOf(t)'
  <2>1. PICK r \in Nat : /\ Ordered(wire, t) /\ NextByte(wire, t, Len(wire), r)
                         /\ Holds(buf[t], t, r, written[t])
    BY DEF Whole, OrderOf
  <2>2. Holds(x, t, r, r)
    BY DEF Holds, IsOf
  <2>3. Ordered(wire', t) /\ NextByte(wire', t, Len(wire'), r)
    BY <2>1, <2>2, Sent
  <2>4. Holds(buf'[t], t, r, written'[t])
    BY <2>1
  <2> QED BY <2>3, <2>4 DEF OrderOf
<1>3. WroteOf(t)'
  BY DEF Whole, WroteOf, ContentLen
<1>4. ASSUME NEW k PROVE Has(wire', k, t) <=> Has(wire, k, t)
  <2>1. ~Has(x, k, t)
    BY DEF Has
  <2> QED BY <2>1, HasConcat
<1>5. EofOf(t)'
  <2>1. Has(wire', "eof", t) <=> Has(wire, "eof", t)
    BY <1>4
  <2> QED BY <2>1 DEF Whole, EofOf
<1>6. AfterEofOf(t)'
  <2>1. /\ \A i \in 1..Len(wire) : wire'[i] = wire[i]
        /\ \A i \in 1..Len(wire') : i \in 1..Len(wire) \/ (i - Len(wire) \in 1..Len(x)
                                                          /\ wire'[i] = x[i - Len(wire)])
    BY Places
  <2>2. EofFirst(wire, t) /\ (Has(wire', "eof", t) => ~Has(buf[t], "head", t))
    BY <1>4 DEF Whole, AfterEofOf
  <2>3. \A i \in 1..Len(wire') : wire'[i].of = t => i \in 1..Len(wire) /\ wire'[i] = wire[i]
    BY <2>1
  <2>4. ASSUME NEW i \in 1..Len(wire'), NEW j \in 1..Len(wire'), j > i,
               wire'[i].kind = "eof", wire'[i].of = t, wire'[j].kind = "head", wire'[j].of = t
        PROVE  FALSE
    <3>1. i \in 1..Len(wire) /\ wire[i] = wire'[i] /\ j \in 1..Len(wire) /\ wire[j] = wire'[j]
      BY <2>3, <2>4
    <3> QED BY <2>2, <2>4, <3>1 DEF EofFirst
  <2>5. EofFirst(wire', t)
    BY <2>4 DEF EofFirst
  <2> QED BY <2>2, <2>5 DEF AfterEofOf
<1> QED BY <1>1, <1>2, <1>3, <1>5, <1>6 DEF Whole

\* A step that sends nothing and copies nothing.
LEMMA Aside ==
    ASSUME IInv, NEW t \in Streams, StreamInv(t),
           UNCHANGED <<wire, buf, wrNext, flags, written>>,
           ~failed[t] => (EofAhead(t)' <=> EofAhead(t))
    PROVE  StreamInv(t)'
<1>1. UNCHANGED <<isClosed, wasFCloseCalled, failed, isAnythingWritten, rawWrite>>
  BY DEF flags
<1>2. wire \in Seq(Blocks)
  BY TypeParts DEF IInv, BufType
<1>3. CASE ~failed[t]
  <2>1. wire' = wire \o <<>>
    BY <1>2, ConcatEmptySeq
  <2>2. <<>> \in Seq(Blocks) /\ \A i \in 1..Len(<<>>) : <<>>[i].of # t
    OBVIOUS
  <2>3. Whole(t)
    BY <1>3 DEF StreamInv
  <2>4. Whole(t)'
    BY <1>1, <1>2, <1>3, <2>1, <2>2, <2>3, Unconcerned
  <2> QED BY <2>4 DEF StreamInv
<1>4. CASE failed[t]
  BY <1>1, <1>4 DEF StreamInv
<1> QED BY <1>3, <1>4

\* A step of one stream, as the other sees it.
LEMMA OtherStream ==
    ASSUME IInv, NEW s \in Streams, NEW t \in Streams, t # s, StreamInv(t),
           NEW x \in Seq(Blocks), AllOf(x, s), wire' = wire \o x,
           buf'[t] = buf[t], wrNext'[t] = wrNext[t], failed'[t] = failed[t],
           wasFCloseCalled'[t] = wasFCloseCalled[t], rawWrite'[t] = rawWrite[t],
           isAnythingWritten'[t] = isAnythingWritten[t], written'[t] = written[t],
           EofAhead(t)' <=> EofAhead(t)
    PROVE  StreamInv(t)'
<1>1. wire \in Seq(Blocks)
  BY TypeParts DEF IInv, BufType
<1>2. \A i \in 1..Len(x) : x[i].of # t
  BY DEF AllOf
<1>3. ~failed[t] => Whole(t)'
  BY <1>1, <1>2, Unconcerned DEF StreamInv
<1> QED BY <1>3 DEF StreamInv

-----------------------------------------------------------------------------
(* Emptying a buffer *)

\* What EmptyBuffProc has in common with the end of FCGX_FClose.
Empties(s) ==
    /\ UNCHANGED <<rawWrite, written>>
    /\ WriteBuffer(s, Encapsulated(s), EncapsulatedLen(s))
    /\ isAnythingWritten' = [isAnythingWritten EXCEPT ![s] = @ \/ Encapsulated(s) # <<>>]
    /\ \A t \in Streams : t # s => wasFCloseCalled'[t] = wasFCloseCalled[t]
    /\ \A t \in Streams : EofAhead(t)' <=> EofAhead(t)

\* The buffer is sent, or kept.
Sends(s, x) ==
    /\ x = Encapsulated(s) /\ failed' = failed
    /\ buf'[s] = (IF rawWrite[s] THEN <<>> ELSE Gap(s))
    /\ wrNext'[s] = (IF rawWrite[s] THEN 0 ELSE HEADER)

Keeps(s) == failed'[s] /\ buf'[s] = Encapsulated(s) /\ wrNext'[s] = EncapsulatedLen(s)

LEMMA Effect ==
    ASSUME IInv, NEW s \in Streams, AllOf(buf[s], s), Empties(s)
    PROVE  /\ \E x \in Seq(Blocks) : AllOf(x, s) /\ wire' = wire \o x /\ (Sends(s, x) \/ Keeps(s))
           /\ \A t \in Streams : t # s => /\ buf'[t] = buf[t] /\ wrNext'[t] = wrNext[t]
                                         /\ failed'[t] = failed[t]
                                         /\ wasFCloseCalled'[t] = wasFCloseCalled[t]
                                         /\ rawWrite'[t] = rawWrite[t]
                                         /\ isAnythingWritten'[t] = isAnythingWritten[t]
                                         /\ written'[t] = written[t]
<1> DEFINE e == Encapsulated(s)
           n == EncapsulatedLen(s)
<1>1. BufType /\ PtrType /\ FlagType
  BY TypeParts DEF IInv
<1>2. e \in Seq(Blocks) /\ AllOf(e, s)
  BY EncapsulatedFits, WrappedOf
<1>3. UNCHANGED <<rawWrite, written>> /\ WriteBuffer(s, e, n)
      /\ (\A t \in Streams : t # s => isAnythingWritten'[t] = isAnythingWritten[t])
      /\ (\A t \in Streams : t # s => wasFCloseCalled'[t] = wasFCloseCalled[t])
  BY <1>1 DEF Empties, FlagType
<1>4. \/ /\ wire' = wire \o e
         /\ buf' = [buf EXCEPT ![s] = IF rawWrite[s] THEN <<>> ELSE Gap(s)]
         /\ wrNext' = [wrNext EXCEPT ![s] = IF rawWrite[s] THEN 0 ELSE HEADER]
         /\ UNCHANGED failed
      \/ /\ wire' = wire \o <<>> \/ wire' = wire \o <<Block("cut", s, 0, 0)>>
         /\ buf' = [buf EXCEPT ![s] = e]
         /\ wrNext' = [wrNext EXCEPT ![s] = n]
         /\ failed' = [failed EXCEPT ![s] = TRUE]
  BY <1>3 DEF WriteBuffer
<1>5. <<>> \in Seq(Blocks) /\ AllOf(<<>>, s)
  BY DEF AllOf
<1>6. <<Block("cut", s, 0, 0)>> \in Seq(Blocks) /\ AllOf(<<Block("cut", s, 0, 0)>>, s)
  <2>1. PICK c : c = Block("cut", s, 0, 0)
    OBVIOUS
  <2>2. c \in Blocks
    BY <2>1, BlockType DEF Kinds
  <2>3. c.of = s
    BY <2>1 DEF Block
  <2> QED BY <2>1, <2>2, <2>3 DEF AllOf
<1> HIDE DEF e, n
<1>7. CASE /\ wire' = wire \o e
           /\ buf' = [buf EXCEPT ![s] = IF rawWrite[s] THEN <<>> ELSE Gap(s)]
           /\ wrNext' = [wrNext EXCEPT ![s] = IF rawWrite[s] THEN 0 ELSE HEADER]
           /\ UNCHANGED failed
  <2>1. Sends(s, e)
    BY <1>1, <1>7 DEF Sends, BufType, PtrType, e
  <2>2. \A t \in Streams : t # s => buf'[t] = buf[t] /\ wrNext'[t] = wrNext[t] /\ failed'[t] = failed[t]
    BY <1>1, <1>7 DEF BufType, PtrType
  <2> QED BY <1>2, <1>3, <1>7, <2>1, <2>2
<1>8. CASE /\ wire' = wire \o <<>> \/ wire' = wire \o <<Block("cut", s, 0, 0)>>
           /\ buf' = [buf EXCEPT ![s] = e]
           /\ wrNext' = [wrNext EXCEPT ![s] = n]
           /\ failed' = [failed EXCEPT ![s] = TRUE]
  <2>1. Keeps(s)
    BY <1>1, <1>8 DEF Keeps, BufType, PtrType, FlagType, e, n
  <2>2. \A t \in Streams : t # s => buf'[t] = buf[t] /\ wrNext'[t] = wrNext[t] /\ failed'[t] = failed[t]
    BY <1>1, <1>8 DEF BufType, PtrType, FlagType
  <2> QED BY <1>3, <1>5, <1>6, <1>8, <2>1, <2>2
<1> QED BY <1>4, <1>7, <1>8

\* What is sent of a stream that has not failed.
Sound(s, e) ==
    /\ WellFramed(e) /\ HeadFirst(e)
    /\ \A r, n : Holds(buf[s], s, r, n) => Holds(e, s, r, n)
    /\ rawWrite[s] => e = buf[s]
    /\ ~rawWrite[s] => /\ \A i \in 1..Len(e) : e[i].kind \in {"head", "data", "pad"}
                       /\ e = <<>> => ContentLen(s) = 0

LEMMA SoundBuffer ==
    ASSUME IInv, NEW s \in Streams, AllOf(buf[s], s), BufOf(s)
    PROVE  Sound(s, Encapsulated(s))
<1>1. CASE rawWrite[s]
  <2>1. Encapsulated(s) = buf[s]
    BY <1>1, Raw
  <2>2. WellFramed(buf[s]) /\ HeadFirst(buf[s])
    BY <1>1 DEF BufOf, Sealed
  <2> QED BY ONLY <1>1, <2>1, <2>2, Zenon DEF Sound
<1>2. CASE ~rawWrite[s]
  <2>1. Filling(s)
    BY <1>2 DEF BufOf
  <2>2. PICK e : e = Encapsulated(s)
    OBVIOUS
  <2>3. /\ WellFramed(e) /\ HeadFirst(e)
        /\ \A i \in 1..Len(e) : e[i].kind \in {"head", "data", "pad"}
        /\ \A r, n : Holds(buf[s], s, r, n) => Holds(e, s, r, n)
        /\ e = <<>> => ContentLen(s) = 0
    BY <1>2, <2>1, <2>2, WrappedRecord
  <2>4. Sound(s, e)
    BY ONLY <1>2, <2>3, Zenon DEF Sound
  <2> QED BY <2>2, <2>4
<1> QED BY <1>1, <1>2

\* The buffer that was sent starts anew.
LEMMA Anew ==
    ASSUME NEW s \in Streams, NEW x, rawWrite' = rawWrite, Sends(s, x)
    PROVE  /\ AllOf(buf'[s], s)
           /\ \A k : k # "gap" => ~Has(buf'[s], k, s)
           /\ \A n : Holds(buf'[s], s, n, n)
           /\ NoEnd(buf'[s])
           /\ BufOf(s)'
<1>1. CASE rawWrite[s]
  <2>1. buf'[s] = <<>>
    BY <1>1 DEF Sends
  <2>2. Sealed(s)'
    BY <2>1 DEF Sealed, WellFramed, HeadFirst
  <2> QED BY <1>1, <2>1, <2>2 DEF AllOf, Has, Holds, NoEnd, BufOf
<1>2. CASE ~rawWrite[s]
  <2>1. PICK g : g = Block("gap", s, HEADER, 0)
    OBVIOUS
  <2>2. g.kind = "gap" /\ g.of = s
    BY <2>1 DEF Block
  <2>3. buf'[s] = <<g>> /\ wrNext'[s] = HEADER
    BY <1>2, <2>1, Zenon DEF Sends, Gap
  <2>4. Len(buf'[s]) = 1 /\ buf'[s][1] = g
    BY <2>3
  <2>5. Filling(s)'
    BY <2>2, <2>3, <2>4 DEF Filling
  <2>6. BufOf(s)'
    BY <1>2, <2>5 DEF BufOf
  <2> QED BY <2>2, <2>4, <2>6 DEF AllOf, Has, Holds, NoEnd, IsOf
<1> QED BY <1>1, <1>2

LEMMA SentWhole ==
    ASSUME IInv, NEW s \in Streams, AllOf(buf[s], s), Empties(s), Whole(s),
           wire' = wire \o Encapsulated(s), Sends(s, Encapsulated(s))
    PROVE  Whole(s)'
<1> DEFINE e == Encapsulated(s)
<1>1. wire \in Seq(Blocks) /\ e \in Seq(Blocks) /\ wire' = wire \o e
  BY EncapsulatedFits, TypeParts DEF IInv, BufType
<1>2. Sound(s, e)
  BY SoundBuffer DEF Whole
<1>3. rawWrite' = rawWrite /\ written' = written /\ (EofAhead(s)' <=> EofAhead(s))
  BY DEF Empties
<1>4. /\ \A k : k # "gap" => ~Has(buf'[s], k, s)
      /\ \A n : Holds(buf'[s], s, n, n)
      /\ BufOf(s)'
  BY <1>3, Anew
<1>5. isAnythingWritten'[s] = (isAnythingWritten[s] \/ e # <<>>)
  <2>1. isAnythingWritten \in [Streams -> BOOLEAN]
    BY TypeParts DEF IInv, FlagType
  <2> QED BY <2>1 DEF Empties
<1>6. ASSUME NEW k PROVE Has(wire', k, s) <=> Has(wire, k, s) \/ Has(e, k, s)
  BY <1>1, HasConcat
<1> HIDE DEF e
<1>7. OrderOf(s)'
  <2>1. PICK r \in Nat : /\ Ordered(wire, s) /\ NextByte(wire, s, Len(wire), r)
                         /\ Holds(buf[s], s, r, written[s])
    BY DEF Whole, OrderOf
  <2>2. Holds(e, s, r, written[s])
    BY <1>2, <2>1 DEF Sound
  <2>3. Ordered(wire', s) /\ NextByte(wire', s, Len(wire'), written[s])
    BY <1>1, <2>1, <2>2, Sent
  <2>4. written[s] \in Nat
    BY TypeParts DEF IInv, CallType
  <2> QED BY <1>3, <1>4, <2>3, <2>4 DEF OrderOf
<1>8. WroteOf(s)'
  <2>1. SUFFICES ASSUME ~rawWrite[s], ~isAnythingWritten[s], e = <<>>
                 PROVE  written[s] = wrNext'[s] - HEADER
    BY <1>3, <1>5 DEF WroteOf, ContentLen
  <2>2. ContentLen(s) = 0 /\ written[s] = ContentLen(s)
    BY <1>2, <2>1 DEF Sound, Whole, WroteOf
  <2>3. wrNext'[s] = HEADER
    BY <2>1 DEF Sends
  <2> QED BY <2>2, <2>3
<1>9. ~rawWrite[s] => ~Has(e, "eof", s)
  BY <1>2 DEF Sound, Has
<1>10. EofOf(s)'
  <2>1. CASE EofAhead(s)
    <3>1. ~Has(wire, "eof", s) /\ ~Has(buf[s], "eof", s)
      BY <2>1 DEF Whole, EofOf
    <3>2. ~Has(e, "eof", s)
      BY <1>2, <1>9, <3>1 DEF Sound
    <3> QED BY <1>3, <1>4, <1>6, <2>1, <3>1, <3>2 DEF EofOf
  <2>2. CASE ~EofAhead(s)
    <3>1. e = buf[s]
      BY <1>2, <2>2 DEF Sound, EofAhead
    <3> QED BY <1>3, <1>6, <2>2, <3>1 DEF Whole, EofOf
  <2> QED BY <2>1, <2>2
<1>11. Has(wire, "eof", s) => ~Has(e, "head", s)
  <2>1. CASE rawWrite[s]
    BY <1>2, <2>1 DEF Sound, Whole, AfterEofOf
  <2>2. CASE ~rawWrite[s]
    BY <2>2 DEF Whole, EofOf, EofAhead
  <2> QED BY <2>1, <2>2
<1>12. EofFirst(wire', s)
  <2>1. /\ Len(wire) \in Nat /\ Len(e) \in Nat
        /\ \A i \in 1..Len(wire) : wire'[i] = wire[i]
        /\ \A i \in 1..Len(wire') : i \in 1..Len(wire) \/ (i > Len(wire) /\ i - Len(wire) \in 1..Len(e)
                                                          /\ wire'[i] = e[i - Len(wire)])
    BY <1>1, Places
  <2>2. SUFFICES ASSUME NEW i \in 1..Len(wire'), NEW j \in 1..Len(wire'), j > i,
                        wire'[i].kind = "eof", wire'[i].of = s, wire'[j].kind = "head", wire'[j].of = s
                 PROVE  FALSE
    BY DEF EofFirst
  <2>3. CASE i \in 1..Len(wire) /\ j \in 1..Len(wire)
    <3>1. wire[i] = wire'[i] /\ wire[j] = wire'[j]
      BY <2>1, <2>3
    <3> QED BY <2>2, <2>3, <3>1 DEF Whole, AfterEofOf, EofFirst
  <2>4. CASE i \in 1..Len(wire) /\ j \notin 1..Len(wire)
    <3>1. Has(wire, "eof", s)
      <4>1. wire[i] = wire'[i]
        BY <2>1, <2>4
      <4> QED BY <2>2, <2>4, <4>1 DEF Has
    <3>2. Has(e, "head", s)
      <4>1. j - Len(wire) \in 1..Len(e) /\ wire'[j] = e[j - Len(wire)]
        BY <2>1, <2>4
      <4> QED BY <2>2, <4>1 DEF Has
    <3> QED BY <1>11, <3>1, <3>2
  <2>5. CASE i \notin 1..Len(wire)
    <3>1. j - Len(wire) \in 1..Len(e) /\ wire'[j] = e[j - Len(wire)] /\ j - Len(wire) # 1
      BY <2>1, <2>2, <2>5
    <3>2. e[j - Len(wire)].kind = "head"
      BY <2>2, <3>1
    <3> QED BY <1>2, <3>1, <3>2 DEF Sound, HeadFirst
  <2> QED BY <2>3, <2>4, <2>5
<1> QED BY <1>4, <1>7, <1>8, <1>10, <1>12 DEF Whole, AfterEofOf

LEMMA EmptiesStreams ==
    ASSUME IInv, NEW s \in Streams, \A t \in Streams : StreamInv(t), Empties(s)
    PROVE  \A t \in Streams : StreamInv(t)'
<1>1. AllOf(buf[s], s)
  BY DEF StreamInv
<1>2. PICK x \in Seq(Blocks) : AllOf(x, s) /\ wire' = wire \o x /\ (Sends(s, x) \/ Keeps(s))
  BY <1>1, Effect
<1>3. ASSUME NEW t \in Streams, t # s PROVE StreamInv(t)'
  <2>1. /\ buf'[t] = buf[t] /\ wrNext'[t] = wrNext[t]
        /\ failed'[t] = failed[t]
        /\ wasFCloseCalled'[t] = wasFCloseCalled[t]
        /\ rawWrite'[t] = rawWrite[t]
        /\ isAnythingWritten'[t] = isAnythingWritten[t]
        /\ written'[t] = written[t]
    BY <1>1, <1>3, Effect
  <2>2. EofAhead(t)' <=> EofAhead(t)
    BY DEF Empties
  <2> QED BY <1>2, <1>3, <2>1, <2>2, OtherStream
<1>4. StreamInv(s)'
  <2>1. CASE Keeps(s)
    <3>1. AllOf(buf'[s], s)
      BY <1>1, <2>1, WrappedOf DEF Keeps
    <3> QED BY <2>1, <3>1 DEF Keeps, StreamInv
  <2>2. CASE Sends(s, x)
    <3>1. rawWrite' = rawWrite
      BY DEF Empties
    <3>2. AllOf(buf'[s], s)
      BY <2>2, <3>1, Anew
    <3>3. CASE ~failed[s]
      <4>1. x = Encapsulated(s) /\ Whole(s)
        BY <2>2, <3>3 DEF Sends, StreamInv
      <4>2. wire' = wire \o Encapsulated(s) /\ Sends(s, Encapsulated(s))
        BY <1>2, <2>2, <4>1
      <4>3. Whole(s)'
        BY <1>1, <4>1, <4>2, SentWhole
      <4> QED BY <3>2, <4>3 DEF StreamInv
    <3>4. CASE failed[s]
      BY <2>2, <3>2, <3>4 DEF StreamInv, Sends
    <3> QED BY <3>3, <3>4
  <2> QED BY <1>2, <2>1, <2>2
<1> QED BY <1>3, <1>4

\* What reaches the wire as long as neither stream has failed.
LEMMA EmptiesWire ==
    ASSUME IInv, NEW s \in Streams, RInv, Empties(s), nWriters' = nWriters,
           nWriters = 0 => s = act /\ act' = act /\ rawWrite[s] /\ EndBytes' = EndBytes
    PROVE  WireInv' /\ EndInv'
<1>0. SUFFICES ASSUME Intact'
               PROVE  WellFramed(wire') /\ EndInv'
  BY DEF WireInv, EndInv
<1>1. StreamInv(s) /\ AllOf(buf[s], s)
  BY DEF RInv, StreamInv
<1>2. PICK x \in Seq(Blocks) : wire' = wire \o x /\ (Sends(s, x) \/ Keeps(s))
  BY <1>1, Effect
<1>3. ~Keeps(s)
  BY <1>0 DEF Keeps, Intact
<1>4. Sends(s, x) /\ x = Encapsulated(s) /\ failed' = failed /\ rawWrite' = rawWrite
  BY <1>2, <1>3 DEF Sends, Empties
<1>5. Intact /\ ~failed[s]
  BY <1>0, <1>4 DEF Intact
<1>6. Sound(s, x)
  BY <1>1, <1>4, <1>5, SoundBuffer DEF StreamInv, Whole
<1>7. wire \in Seq(Blocks) /\ buf \in [Streams -> Seq(Blocks)]
  BY TypeParts DEF IInv, BufType
<1>8. WellFramed(wire')
  <2>1. WellFramed(wire) /\ WellFramed(x)
    BY <1>5, <1>6 DEF RInv, WireInv, Sound
  <2> QED BY <1>2, <1>7, <2>1, FramedConcat
<1>9. NoEnd(buf'[s]) /\ \A t \in Streams : t # s => buf'[t] = buf[t]
  BY <1>1, <1>4, Anew, Effect
<1>10. CASE nWriters > 0
  <2>1. NoEnd(wire) /\ \A t \in Streams : NoEnd(buf[t])
    BY <1>5, <1>10 DEF RInv, EndInv
  <2>2. NoEnd(x)
    <3>1. CASE rawWrite[s]
      BY <1>6, <2>1, <3>1 DEF Sound
    <3>2. CASE ~rawWrite[s]
      BY <1>6, <3>2 DEF Sound, NoEnd
    <3> QED BY <3>1, <3>2
  <2>3. NoEnd(wire')
    BY <1>2, <1>7, <2>1, <2>2, NoEndConcat
  <2>4. \A t \in Streams : NoEnd(buf'[t])
    BY <1>9, <2>1
  <2> QED BY <1>8, <1>10, <2>3, <2>4 DEF EndInv
<1>11. CASE ~(nWriters > 0)
  <2>1. nWriters = 0
    BY <1>11, TypeParts DEF IInv, CallType
  <2>2. EndsWith(wire \o buf[act], EndBytes)
    BY <1>5, <1>11 DEF RInv, EndInv
  <2>3. x = buf[act] /\ buf'[act'] = <<>>
    BY <1>4, <1>6, <2>1 DEF Sound, Sends
  <2>4. wire' \in Seq(Blocks) /\ wire' \o <<>> = wire'
    BY <1>2, <1>7, ConcatProperties, ConcatEmptySeq
  <2>5. EndsWith(wire' \o buf'[act'], EndBytes')
    BY <1>2, <2>1, <2>2, <2>3, <2>4
  <2> QED BY <1>8, <1>11, <2>5 DEF EndInv
<1> QED BY <1>10, <1>11

LEMMA AllRaw ==
    ASSUME IInv, nWriters = 0
    PROVE  /\ \A t \in Streams : rawWrite[t]
           /\ pc = "idle" => \A t \in Streams : wasFCloseCalled[t]
<1>1. \A t \in Streams : rawWrite[t]
  <2> DEFINE k == IF pc = "trailer" \/ (InItem /\ item = "eof") THEN 1 ELSE 0
  <2>1. nWriters = Undone("out") + Undone("err") + k /\ k \in {0, 1}
    BY DEF IInv, CountInv
  <2> HIDE DEF k
  <2>2. Undone("out") = 0 /\ Undone("err") = 0
    BY <2>1, UndoneType DEF Streams
  <2> QED BY <2>2 DEF Undone, Streams
<1>2. pc = "idle" => ~Closing
  BY ClosingAt
<1> QED BY <1>1, <1>2 DEF IInv, RawInv

LEMMA UnitAfter ==
    ASSUME IInv, RInv, NEW s \in Streams, Empties(s),
           UNCHANGED <<nWriters, item, left>>, InItem' => InItem
    PROVE  UnitInv' /\ LastInv'
<1>1. AllOf(buf[s], s) /\ rawWrite' = rawWrite
  BY DEF RInv, StreamInv, Empties
<1>2. PICK x \in Seq(Blocks) : Sends(s, x) \/ Keeps(s)
  BY <1>1, Effect
<1>3. ASSUME NEW t \in Streams, rawWrite[t] PROVE wrNext'[t] % 8 = 0
  <2>1. wrNext[t] % 8 = 0
    BY <1>3 DEF RInv, UnitInv
  <2>2. CASE t # s
    BY <1>1, <2>1, <2>2, Effect
  <2>3. CASE t = s /\ Sends(s, x)
    BY <1>3, <2>3 DEF Sends
  <2>4. CASE t = s /\ Keeps(s)
    BY <1>3, <2>1, <2>4, Raw DEF Keeps
  <2> QED BY <1>2, <2>2, <2>3, <2>4
<1> QED BY <1>1, <1>3 DEF RInv, UnitInv, LastInv

\* Emptying a buffer, in the loop or by FCGX_FFlush.
LEMMA EmptyResponse ==
    ASSUME IInv, RInv, NEW s \in Streams, EmptyBuffProc(s), ~isClosed[s],
           UNCHANGED <<nWriters, item, left, written>>,
           \/ pc = "full" /\ pc' = "put" /\ act' = act /\ act = s
           \/ pc = "idle" /\ pc' = "idle" /\ act' = s
    PROVE  RInv'
<1>1. UNCHANGED <<rawWrite, wasFCloseCalled>>
  BY DEF EmptyBuffProc
<1>2. (InItem' <=> InItem) /\ (InItem => act' = act)
  BY DEF InItem
<1>3. Empties(s)
  <2>1. \A t \in Streams : EofAhead(t)' <=> EofAhead(t)
    BY <1>1, <1>2 DEF EofAhead
  <2> QED BY <1>1, <2>1 DEF EmptyBuffProc, Empties
<1>4. nWriters = 0 => s = act /\ act' = act /\ rawWrite[s] /\ EndBytes' = EndBytes
  <2>1. SUFFICES ASSUME nWriters = 0
                 PROVE  s = act /\ act' = act /\ rawWrite[s] /\ EndBytes' = EndBytes
    OBVIOUS
  <2>2. rawWrite[s] /\ (pc = "idle" => wasFCloseCalled[s])
    BY <2>1, AllRaw
  <2>3. ~wasFCloseCalled[s]
    BY DEF RInv, ClosedInv
  <2> QED BY <1>2, <2>2, <2>3 DEF EndBytes
<1>5. UnitInv' /\ LastInv'
  BY <1>2, <1>3, UnitAfter
<1>6. \A t \in Streams : StreamInv(t)'
  BY <1>3, EmptiesStreams DEF RInv
<1>7. WireInv' /\ EndInv'
  BY <1>3, <1>4, EmptiesWire
<1>8. ClosedInv'
  <2>1. isClosed \in [Streams -> BOOLEAN] /\ isClosed' = [isClosed EXCEPT ![s] = @ \/ failed'[s]]
    BY TypeParts DEF IInv, FlagType, EmptyBuffProc
  <2>2. \A t \in Streams : t # s => failed'[t] = failed[t]
    BY <1>3, Effect DEF RInv, StreamInv
  <2>3. ~wasFCloseCalled[s]
    BY DEF RInv, ClosedInv
  <2> QED BY <1>1, <2>1, <2>2, <2>3 DEF RInv, ClosedInv
<1> QED BY <1>5, <1>6, <1>7, <1>8 DEF RInv

\* The raw buffer is sent and the stream is closed.
LEMMA CloseSendResponse == ASSUME IInv, RInv, CloseSend PROVE RInv'
<1>1. /\ pc = "send" /\ pc' = "idle" /\ act \in Streams
      /\ UNCHANGED <<rawWrite, nWriters, act, item, left, written>>
      /\ WriteBuffer(act, buf[act], wrNext[act])
      /\ isAnythingWritten' = [isAnythingWritten EXCEPT ![act] = @ \/ buf[act] # <<>>]
      /\ wasFCloseCalled' = [wasFCloseCalled EXCEPT ![act] = TRUE]
      /\ isClosed' = [isClosed EXCEPT ![act] = TRUE]
  BY TypeParts DEF CloseSend, IInv, CallType
<1>2. rawWrite[act]
  BY <1>1, ClosingAt DEF IInv, RawInv
<1>3. FlagType /\ ~InItem /\ ~InItem'
  BY <1>1, TypeParts DEF IInv, InItem
<1>4. wasFCloseCalled'[act] /\ \A t \in Streams : t # act => wasFCloseCalled'[t] = wasFCloseCalled[t]
  BY <1>1, <1>3 DEF FlagType
<1>5. Empties(act)
  <2>1. Encapsulated(act) = buf[act] /\ EncapsulatedLen(act) = wrNext[act]
    BY <1>2, Raw
  <2>2. \A t \in Streams : EofAhead(t)' <=> EofAhead(t)
    BY <1>1, <1>3 DEF EofAhead
  <2> QED BY <1>1, <1>4, <2>1, <2>2 DEF Empties
<1>6. UnitInv' /\ LastInv'
  BY <1>1, <1>3, <1>5, UnitAfter
<1>7. \A t \in Streams : StreamInv(t)'
  BY <1>1, <1>5, EmptiesStreams DEF RInv
<1>8. WireInv' /\ EndInv'
  <2>1. EndBytes' = EndBytes
    BY <1>3 DEF EndBytes
  <2> QED BY <1>1, <1>2, <1>5, <2>1, EmptiesWire
<1>9. ClosedInv'
  <2>1. \A t \in Streams : t # act => failed'[t] = failed[t]
    BY <1>1, <1>5, Effect DEF RInv, StreamInv
  <2>2. isClosed'[act] /\ \A t \in Streams : t # act => isClosed'[t] = isClosed[t]
    BY <1>1, <1>3 DEF FlagType
  <2> QED BY <1>1, <1>4, <2>1, <2>2 DEF RInv, ClosedInv
<1> QED BY <1>6, <1>7, <1>8, <1>9 DEF RInv

-----------------------------------------------------------------------------
(* The other steps *)

LEMMA InitResponse == Init => RInv
<1> SUFFICES ASSUME Init PROVE RInv
  OBVIOUS
<1>1. ClosedInv /\ UnitInv /\ LastInv
  BY DEF Init, ClosedInv, UnitInv, LastInv, InItem
<1>2. ASSUME NEW s \in Streams
      PROVE  StreamInv(s) /\ NoEnd(buf[s])
  <2>1. PICK g : g = Block("gap", s, HEADER, 0)
    OBVIOUS
  <2>2. g.kind = "gap" /\ g.of = s
    BY <2>1 DEF Block
  <2>3. buf[s] = <<g>> /\ wrNext[s] = HEADER /\ wire = <<>> /\ written[s] = 0 /\ ~rawWrite[s]
    BY <2>1 DEF Init, Gap
  <2>4. Len(buf[s]) = 1 /\ buf[s][1] = g
    BY <2>3
  <2>5. BufOf(s)
    BY <2>2, <2>3, <2>4 DEF BufOf, Filling
  <2>6. OrderOf(s)
    <3>1. Ordered(wire, s) /\ NextByte(wire, s, Len(wire), 0)
      BY <2>3 DEF Ordered, NextByte
    <3>2. Holds(buf[s], s, 0, written[s])
      BY <2>2, <2>3, <2>4 DEF Holds, IsOf
    <3> QED BY <3>1, <3>2 DEF OrderOf
  <2>7. WroteOf(s)
    BY <2>3 DEF WroteOf, ContentLen
  <2>8. EofOf(s)
    BY <2>2, <2>3, <2>4 DEF EofOf, EofAhead, Has
  <2>9. AfterEofOf(s)
    BY <2>2, <2>3, <2>4 DEF AfterEofOf, EofFirst, Has
  <2> QED BY <2>2, <2>4, <2>5, <2>6, <2>7, <2>8, <2>9 DEF StreamInv, Whole, AllOf, NoEnd
<1>3. WireInv
  BY DEF Init, WireInv, WellFramed
<1>4. EndInv
  BY <1>2 DEF Init, EndInv, NoEnd
<1> QED BY <1>1, <1>2, <1>3, <1>4 DEF RInv

LEMMA PutStrResponse ==
    ASSUME IInv, RInv, NEW s \in Streams, NEW n \in Sizes, PutStr(s, n)
    PROVE  RInv'
<1>1. /\ pc = "idle" /\ pc' = "put" /\ act' = s /\ item' = "data" /\ left' = n
      /\ n \in Nat /\ n > 0
      /\ UNCHANGED <<wire, buf, wrNext, flags, nWriters, written>>
  BY WriterAssumption DEF PutStr
<1>2. UNCHANGED <<isClosed, wasFCloseCalled, failed, isAnythingWritten, rawWrite>>
  BY <1>1 DEF flags
<1>3. ~InItem /\ item' # "eof" /\ item' # "end"
  BY <1>1 DEF InItem
<1>4. ClosedInv' /\ UnitInv' /\ LastInv' /\ WireInv'
  BY <1>1, <1>2 DEF RInv, ClosedInv, UnitInv, LastInv, WireInv, Intact
<1>5. ASSUME NEW t \in Streams PROVE StreamInv(t)'
  <2>1. EofAhead(t)' <=> EofAhead(t)
    BY <1>2, <1>3 DEF EofAhead
  <2> QED BY <1>1, <2>1, Aside DEF RInv
<1>6. EndInv'
  <2>1. CASE nWriters > 0
    BY <1>1, <1>2, <2>1 DEF RInv, EndInv, Intact
  <2>2. CASE ~(nWriters > 0)
    <3>1. SUFFICES ASSUME Intact
                   PROVE  EndsWith(wire \o buf[s], 2 * HEADER)
      BY <1>1, <1>2, <1>3, <2>2 DEF EndInv, Intact, EndBytes
    <3>2. EndsWith(wire \o buf[act], 2 * HEADER)
      BY <1>3, <2>2, <3>1 DEF RInv, EndInv, EndBytes
    <3>3. ASSUME NEW t \in Streams PROVE buf[t] = <<>>
      <4>1. nWriters = 0
        BY <2>2, TypeParts DEF IInv, CallType
      <4>2. rawWrite[t] /\ wasFCloseCalled[t] /\ ~failed[t]
        BY <1>1, <3>1, <4>1, AllRaw DEF Intact
      <4> QED BY <4>2 DEF RInv, StreamInv, Whole, BufOf, Sealed
    <3>4. act \in Streams
      BY TypeParts DEF IInv, CallType
    <3> QED BY <3>2, <3>3, <3>4
  <2> QED BY <2>1, <2>2
<1> QED BY <1>4, <1>5, <1>6 DEF RInv

LEMMA PutGivesUpResponse == ASSUME IInv, RInv, PutGivesUp PROVE RInv'
<1>1. /\ pc = "full" /\ isClosed[act] /\ pc' = AfterItem /\ left' = 0 /\ act \in Streams
      /\ UNCHANGED <<wire, buf, wrNext, flags, nWriters, act, item, written>>
  BY TypeParts DEF PutGivesUp, IInv, CallType
<1>2. UNCHANGED <<isClosed, wasFCloseCalled, failed, isAnythingWritten, rawWrite>>
  BY <1>1 DEF flags
<1>3. InItem /\ ~InItem' /\ item \in {"data", "eof", "end"}
  BY <1>1, TypeParts DEF InItem, AfterItem, IInv, CallType
<1>4. item # "data" => failed[act]
  <2>1. item # "data" => ~wasFCloseCalled[act]
    BY <1>3, ClosingAt DEF IInv, RawInv
  <2> QED BY <1>1, <2>1 DEF RInv, ClosedInv
<1>5. ClosedInv' /\ UnitInv' /\ LastInv' /\ WireInv'
  BY <1>1, <1>2, <1>3 DEF RInv, ClosedInv, UnitInv, LastInv, WireInv, Intact
<1>6. ASSUME NEW t \in Streams PROVE StreamInv(t)'
  <2>1. ~failed[t] => (EofAhead(t)' <=> EofAhead(t))
    BY <1>1, <1>2, <1>3, <1>4 DEF EofAhead
  <2> QED BY <1>1, <2>1, Aside DEF RInv
<1>7. EndInv'
  <2>1. CASE item = "data"
    <3>1. EndBytes' = EndBytes
      BY <1>1, <2>1 DEF EndBytes
    <3> QED BY <1>1, <1>2, <3>1 DEF RInv, EndInv, Intact
  <2>2. CASE item # "data"
    BY <1>1, <1>2, <1>4, <2>2 DEF EndInv, Intact
  <2> QED BY <2>1, <2>2
<1> QED BY <1>5, <1>6, <1>7 DEF RInv

\* The last of the writers goes on with FCGI_END_REQUEST.
LEMMA CloseTrailerResponse == ASSUME IInv, RInv, CloseTrailer PROVE RInv'
<1>1. /\ pc = "trailer" /\ nWriters' = nWriters - 1 /\ act \in Streams
      /\ \/ nWriters = 1 /\ pc' = "put" /\ item' = "end" /\ left' = 16
         \/ nWriters # 1 /\ pc' = "send" /\ UNCHANGED <<item, left>>
      /\ UNCHANGED <<wire, buf, wrNext, flags, act, written>>
  BY TypeParts DEF CloseTrailer, IInv, CallType
<1>2. UNCHANGED <<isClosed, wasFCloseCalled, failed, isAnythingWritten, rawWrite>>
  BY <1>1 DEF flags
<1>3. ~InItem /\ (InItem' => item' = "end" /\ nWriters = 1 /\ left' = 16)
  BY <1>1 DEF InItem
<1>4. nWriters \in {1, 2}
  <2> DEFINE k == IF pc = "trailer" \/ (InItem /\ item = "eof") THEN 1 ELSE 0
  <2>1. nWriters = Undone("out") + Undone("err") + k /\ k = 1
    BY <1>1 DEF IInv, CountInv
  <2> HIDE DEF k
  <2> QED BY <2>1, UndoneType, TypeParts DEF IInv, CallType, Streams
<1>5. ClosedInv' /\ WireInv'
  BY <1>1, <1>2 DEF RInv, ClosedInv, WireInv, Intact
<1>6. UnitInv' /\ LastInv'
  BY <1>1, <1>2, <1>3, <1>4 DEF RInv, UnitInv, LastInv
<1>7. ASSUME NEW t \in Streams PROVE StreamInv(t)'
  <2>1. EofAhead(t)' <=> EofAhead(t)
    BY <1>2, <1>3 DEF EofAhead
  <2> QED BY <1>1, <2>1, Aside DEF RInv
<1>8. EndInv'
  <2>1. SUFFICES ASSUME Intact
                 PROVE  EndInv'
    BY <1>2 DEF EndInv, Intact
  <2>2. NoEnd(wire) /\ \A t \in Streams : NoEnd(buf[t])
    BY <1>4, <2>1 DEF RInv, EndInv
  <2>3. CASE nWriters = 2
    BY <1>1, <2>2, <2>3 DEF EndInv
  <2>4. CASE nWriters = 1
    <3>1. NoEnd(wire \o buf[act])
      <4>1. wire \in Seq(Blocks) /\ buf[act] \in Seq(Blocks)
        BY <1>1, TypeParts DEF IInv, BufType
      <4> QED BY <1>1, <2>2, <4>1, NoEndConcat
    <3>2. EndBytes' = 0 /\ nWriters' = 0
      BY <1>1, <2>4 DEF EndBytes, InItem
    <3>3. EndsWith(wire \o buf[act], 0)
      BY <3>1 DEF EndsWith
    <3> QED BY <1>1, <3>2, <3>3 DEF EndInv
  <2> QED BY <1>4, <2>3, <2>4
<1> QED BY <1>5, <1>6, <1>7, <1>8 DEF RInv

LEMMA WrapUnits ==
    ASSUME IInv, NEW s \in Streams, ~rawWrite[s]
    PROVE  /\ EncapsulatedLen(s) % 8 = 0
           /\ EncapsulatedLen(s) = 0 => ContentLen(s) = 0
<1>1. ContentLen(s) \in Nat
  BY ContentType
<1>2. CASE ContentLen(s) > 0
  <2>1. EncapsulatedLen(s) = WrapLen(s)
    BY <1>2, Wrapped
  <2>2. AlignInt8(ContentLen(s)) \in Nat /\ AlignInt8(ContentLen(s)) % 8 = 0
    BY <1>1 DEF AlignInt8
  <2> QED BY <2>1, <2>2 DEF WrapLen
<1>3. CASE ~(ContentLen(s) > 0)
  <2>1. EncapsulatedLen(s) = 0
    BY <1>3, Empty
  <2> QED BY <1>1, <1>3, <2>1
<1> QED BY <1>2, <1>3

\* FCGX_FClose wraps the buffer: the content stays, its end is to come.
LEMMA FCloseOwn ==
    ASSUME IInv, NEW s \in Streams, AllOf(buf[s], s), Whole(s), ~rawWrite[s], ~wasFCloseCalled[s],
           UNCHANGED <<wire, written, wasFCloseCalled>>,
           buf'[s] = Encapsulated(s), rawWrite'[s],
           \/ EofAhead(s)'
           \/ s = "err" /\ EncapsulatedLen(s) = 0 /\ ~isAnythingWritten[s]
    PROVE  Whole(s)' /\ NoEnd(buf'[s])
<1> DEFINE e == Encapsulated(s)
<1>1. Sound(s, e)
  BY SoundBuffer DEF Whole
<1>2. buf'[s] = e
  OBVIOUS
<1> HIDE DEF e
<1>3. ~Has(wire, "eof", s) /\ ~Has(e, "eof", s) /\ NoEnd(e)
  BY <1>1 DEF Whole, EofOf, EofAhead, Sound, Has, NoEnd
<1>4. BufOf(s)'
  BY <1>1, <1>2 DEF BufOf, Sealed, Sound
<1>5. OrderOf(s)'
  <2>1. PICK r \in Nat : /\ Ordered(wire, s) /\ NextByte(wire, s, Len(wire), r)
                         /\ Holds(buf[s], s, r, written[s])
    BY DEF Whole, OrderOf
  <2>2. Holds(e, s, r, written[s])
    BY <1>1, <2>1 DEF Sound
  <2> QED BY <1>2, <2>1, <2>2 DEF OrderOf
<1>6. WroteOf(s)'
  BY DEF WroteOf
<1>7. EofOf(s)'
  <2>1. CASE EofAhead(s)'
    BY <1>2, <1>3, <2>1 DEF EofOf
  <2>2. CASE s = "err" /\ EncapsulatedLen(s) = 0 /\ ~isAnythingWritten[s] /\ ~EofAhead(s)'
    <3>1. ContentLen(s) = 0
      BY <2>2, WrapUnits
    <3>2. written[s] = 0
      BY <2>2, <3>1 DEF Whole, WroteOf
    <3> QED BY <2>2, <3>2 DEF EofOf
  <2> QED BY <2>1, <2>2
<1>8. AfterEofOf(s)'
  BY <1>3 DEF Whole, AfterEofOf
<1> QED BY <1>2, <1>3, <1>4, <1>5, <1>6, <1>7, <1>8 DEF Whole

LEMMA FCloseResponse == ASSUME IInv, RInv, NEW s \in Streams, FClose(s) PROVE RInv'
<1>1. /\ pc = "idle" /\ ~wasFCloseCalled[s] /\ act' = s
      /\ buf' = [buf EXCEPT ![s] = Encapsulated(s)]
      /\ wrNext' = [wrNext EXCEPT ![s] = EncapsulatedLen(s)]
      /\ rawWrite' = [rawWrite EXCEPT ![s] = TRUE]
      /\ \/ /\ s = "err" /\ EncapsulatedLen(s) = 0 /\ ~isAnythingWritten[s]
            /\ pc' = "trailer" /\ UNCHANGED <<item, left>>
         \/ pc' = "put" /\ item' = "eof" /\ left' = 8
      /\ UNCHANGED <<wire, isClosed, wasFCloseCalled, failed, isAnythingWritten,
                      nWriters, written>>
  BY DEF FClose
<1>2. ~rawWrite[s]
  BY <1>1, ClosingAt DEF IInv, RawInv
<1>3. /\ buf'[s] = Encapsulated(s) /\ wrNext'[s] = EncapsulatedLen(s) /\ rawWrite'[s]
      /\ \A t \in Streams : t # s => buf'[t] = buf[t] /\ wrNext'[t] = wrNext[t] /\ rawWrite'[t] = rawWrite[t]
  BY <1>1, TypeParts DEF IInv, BufType, PtrType, FlagType
<1>4. ~InItem /\ (InItem' => item' = "eof" /\ left' = 8) /\ (pc' = "put" => InItem')
  BY <1>1 DEF InItem
<1>5. ClosedInv' /\ WireInv'
  BY <1>1 DEF RInv, ClosedInv, WireInv, Intact
<1>6. UnitInv' /\ LastInv'
  <2>1. ASSUME NEW t \in Streams, rawWrite'[t] PROVE wrNext'[t] % 8 = 0
    <3>1. CASE t = s
      BY <1>2, <1>3, <3>1, WrapUnits
    <3>2. CASE t # s
      BY <1>3, <2>1, <3>2 DEF RInv, UnitInv
    <3> QED BY <3>1, <3>2
  <2>2. item' # "data" => left' % 8 = 0
    BY <1>1 DEF RInv, UnitInv
  <2> QED BY <1>4, <2>1, <2>2 DEF UnitInv, LastInv
<1>7. ASSUME NEW t \in Streams, t # s PROVE StreamInv(t)'
  <2>1. EofAhead(t)' <=> EofAhead(t)
    BY <1>1, <1>3, <1>4, <1>7 DEF EofAhead
  <2>2. <<>> \in Seq(Blocks) /\ AllOf(<<>>, s)
    BY DEF AllOf
  <2>3. wire' = wire \o <<>>
    BY <1>1, TypeParts, ConcatEmptySeq DEF IInv, BufType
  <2> QED BY <1>1, <1>3, <1>7, <2>1, <2>2, <2>3, OtherStream DEF RInv
<1>8. AllOf(buf[s], s) /\ (~failed[s] => Whole(s))
  BY DEF RInv, StreamInv
<1>9. AllOf(buf'[s], s)
  BY <1>3, <1>8, WrappedOf
<1>10. \/ EofAhead(s)'
       \/ s = "err" /\ EncapsulatedLen(s) = 0 /\ ~isAnythingWritten[s]
  BY <1>1, <1>4 DEF EofAhead
<1>11. ~failed[s] => Whole(s)' /\ NoEnd(buf'[s])
  BY <1>1, <1>2, <1>3, <1>8, <1>10, FCloseOwn
<1>12. StreamInv(s)'
  BY <1>1, <1>9, <1>11 DEF StreamInv
<1>13. EndInv'
  <2>1. nWriters > 0
    <3>1. nWriters # 0
      BY <1>2, AllRaw
    <3> QED BY <3>1, TypeParts DEF IInv, CallType
  <2>2. Intact => NoEnd(wire) /\ \A t \in Streams : NoEnd(buf[t])
    BY <2>1 DEF RInv, EndInv
  <2>3. Intact => NoEnd(wire') /\ \A t \in Streams : NoEnd(buf'[t])
    BY <1>1, <1>3, <1>11, <2>2 DEF Intact
  <2> QED BY <1>1, <2>1, <2>3 DEF EndInv, Intact
<1> QED BY <1>5, <1>6, <1>7, <1>12, <1>13 DEF RInv

-----------------------------------------------------------------------------
(* Copying to a buffer *)

\* The two cases of Extended.
Added(b, x, c) ==
    /\ Len(c) = Len(b) + 1 /\ c[Len(c)] = x /\ c = Append(b, x)
    /\ \A i \in 1..Len(b) : c[i] = b[i]
    /\ x.kind = "data" => b = <<>> \/ b[Len(b)].kind # "data"

Longer(b, x, c) ==
    /\ x.kind = "data" /\ Len(b) >= 1 /\ b[Len(b)].kind = "data" /\ Len(c) = Len(b)
    /\ c[Len(b)].kind = "data" /\ c[Len(b)].of = b[Len(b)].of
    /\ c[Len(b)].val = b[Len(b)].val /\ c[Len(b)].size = b[Len(b)].size + x.size
    /\ \A i \in 1..Len(b) : i # Len(b) => c[i] = b[i]

LEMMA ExtendedCases ==
    ASSUME NEW b \in Seq(Blocks), NEW x \in Blocks, NEW c, c = Extended(b, x)
    PROVE  /\ c \in Seq(Blocks) /\ Len(b) \in Nat
           /\ Added(b, x, c) \/ Longer(b, x, c)
<1>1. c \in Seq(Blocks)
  BY ExtendedType
<1>2. CASE b # <<>> /\ b[Len(b)].kind = "data" /\ x.kind = "data"
  <2>1. Len(b) \in 1..Len(b) /\ b[Len(b)] \in Blocks /\ Len(b) >= 1
    BY <1>2
  <2>2. PICK y : y = Block("data", b[Len(b)].of, b[Len(b)].size + x.size, b[Len(b)].val)
    OBVIOUS
  <2>3. y \in Blocks
    <3>1. /\ b[Len(b)].of \in Streams /\ b[Len(b)].val \in Nat
          /\ b[Len(b)].size + x.size \in Nat /\ "data" \in Kinds
      BY <2>1 DEF Blocks, Kinds
    <3> QED BY <2>2, <3>1, BlockType
  <2>4. c = [b EXCEPT ![Len(b)] = y]
    BY <1>2, <2>2 DEF Extended
  <2>5. Len(c) = Len(b) /\ c[Len(b)] = y /\ \A i \in 1..Len(b) : i # Len(b) => c[i] = b[i]
    BY <2>1, <2>3, <2>4, ExceptSeq
  <2>6. /\ y.kind = "data" /\ y.of = b[Len(b)].of
        /\ y.val = b[Len(b)].val /\ y.size = b[Len(b)].size + x.size
    BY ONLY <2>2 DEF Block
  <2>7. Longer(b, x, c)
    BY ONLY <1>2, <2>1, <2>5, <2>6 DEF Longer
  <2> QED BY <1>1, <2>1, <2>7
<1>3. CASE ~(b # <<>> /\ b[Len(b)].kind = "data" /\ x.kind = "data")
  <2>1. c = Append(b, x)
    BY <1>3, Zenon DEF Extended
  <2>2. Len(c) = Len(b) + 1 /\ c[Len(c)] = x /\ \A i \in 1..Len(b) : c[i] = b[i]
    BY <2>1, AppendProperties
  <2>3. x.kind = "data" => b = <<>> \/ b[Len(b)].kind # "data"
    BY <1>3
  <2>4. Added(b, x, c)
    BY ONLY <2>1, <2>2, <2>3, Zenon DEF Added
  <2> QED BY <1>1, <2>4
<1> QED BY <1>2, <1>3

LEMMA ExtendedOf ==
    ASSUME NEW b \in Seq(Blocks), NEW x \in Blocks, NEW s, AllOf(b, s), x.of = s
    PROVE  AllOf(Extended(b, x), s)
<1>1. PICK c : c = Extended(b, x)
  OBVIOUS
<1>2. Len(b) \in Nat /\ (Added(b, x, c) \/ Longer(b, x, c))
  BY <1>1, ExtendedCases
<1>3. CASE Added(b, x, c)
  BY <1>1, <1>2, <1>3 DEF AllOf, Added
<1>4. CASE Longer(b, x, c)
  BY <1>1, <1>2, <1>4 DEF AllOf, Longer
<1> QED BY <1>2, <1>3, <1>4

\* Content is copied behind the header, or behind the content there is.
LEMMA CopyContent ==
    ASSUME NEW s \in Streams, NEW m \in Nat, m > 0, buf[s] \in Seq(Blocks), wrNext[s] \in Nat,
           AllOf(buf[s], s), Filling(s),
           NEW x \in Blocks, x.kind = "data", x.of = s, x.size = m, x.val = written[s],
           written[s] \in Nat,
           buf'[s] = Extended(buf[s], x), wrNext'[s] = wrNext[s] + m, written'[s] = written[s] + m
    PROVE  /\ Filling(s)'
           /\ \A i \in 1..Len(buf'[s]) : buf'[s][i].kind \in {"gap", "data"}
           /\ \A r \in Nat : Holds(buf[s], s, r, written[s]) => Holds(buf'[s], s, r, written'[s])
<1>1. PICK b, c : b = buf[s] /\ c = buf'[s]
  OBVIOUS
<1>2. b \in Seq(Blocks) /\ AllOf(b, s) /\ b[1].kind = "gap" /\ c = Extended(b, x)
      /\ (Added(b, x, c) \/ Longer(b, x, c))
  BY <1>1, ExtendedCases DEF Filling
<1>3. CASE Len(b) = 1 /\ wrNext[s] = HEADER
  <2>1. Added(b, x, c)
    <3>1. b[Len(b)].kind # "data"
      BY <1>2, <1>3
    <3> QED BY <1>2, <3>1 DEF Longer
  <2>2. Len(c) = 2 /\ c[1] = b[1] /\ c[2] = x
    BY <1>3, <2>1 DEF Added
  <2>3. \A i \in 1..Len(c) : i = 1 \/ i = 2
    BY <2>2
  <2>4. Filling(s)'
    BY <1>1, <1>2, <1>3, <2>2 DEF Filling
  <2>5. ASSUME NEW r \in Nat, Holds(b, s, r, written[s]) PROVE Holds(c, s, r, written'[s])
    <3>1. r = written[s]
      BY <1>3, <2>5 DEF Holds
    <3>2. \A i \in 1..Len(c) : i # 2 => ~IsOf(c[i], s)
      BY <1>2, <2>2, <2>3 DEF IsOf
    <3>3. IsOf(c[2], s) /\ c[2].val = r /\ written'[s] = r + c[2].size
      BY <2>2, <3>1 DEF IsOf
    <3> QED BY <2>2, <3>2, <3>3 DEF Holds
  <2>6. \A i \in 1..Len(c) : c[i].kind \in {"gap", "data"}
    BY <1>2, <2>2, <2>3
  <2> QED BY <1>1, <2>4, <2>5, <2>6
<1>4. CASE /\ Len(b) = 2 /\ wrNext[s] > HEADER
           /\ b[2].kind = "data" /\ b[2].size = wrNext[s] - HEADER
  <2>1. Len(c) = 2 /\ c[1] = b[1] /\ c[2].kind = "data" /\ c[2].of = b[2].of
        /\ c[2].val = b[2].val /\ c[2].size = b[2].size + x.size
    <3>1. b # <<>> /\ b[Len(b)].kind = "data"
      <4>1. Len(b) = 2 /\ b[2].kind = "data"
        BY <1>4
      <4>2. b # <<>>
        BY ONLY <4>1
      <4> QED BY ONLY <4>1, <4>2
    <3>2. Longer(b, x, c)
      BY <1>2, <3>1 DEF Added
    <3> QED BY <1>4, <3>2 DEF Longer
  <2>2. \A i \in 1..Len(c) : i = 1 \/ i = 2
    BY <2>1
  <2>3. Filling(s)'
    BY <1>1, <1>2, <1>4, <2>1 DEF Filling
  <2>4. b[2].of = s
    BY <1>2, <1>4 DEF AllOf
  <2>5. ASSUME NEW r \in Nat, Holds(b, s, r, written[s]) PROVE Holds(c, s, r, written'[s])
    <3>1. IsOf(b[2], s) /\ IsOf(c[2], s)
      BY <1>4, <2>1, <2>4 DEF IsOf
    <3>2. b[2].val = r /\ written[s] = r + b[2].size
      BY <1>4, <2>5, <3>1 DEF Holds
    <3>3. \A i \in 1..Len(c) : i # 2 => ~IsOf(c[i], s)
      BY <1>2, <2>1, <2>2 DEF IsOf
    <3>4. b[2].size \in Nat
      BY <1>2, <1>4 DEF Blocks
    <3>5. c[2].val = r /\ written'[s] = r + c[2].size
      BY <2>1, <3>2, <3>4
    <3> QED BY <2>1, <3>1, <3>3, <3>5 DEF Holds
  <2>6. \A i \in 1..Len(c) : c[i].kind \in {"gap", "data"}
    BY <1>2, <2>1, <2>2
  <2> QED BY <1>1, <2>3, <2>5, <2>6
<1> QED BY <1>1, <1>3, <1>4 DEF Filling

\* The content of an open stream grows.
LEMMA CopyContentWhole ==
    ASSUME NEW s \in Streams, NEW m \in Nat, m > 0, buf[s] \in Seq(Blocks), wrNext[s] \in Nat,
           AllOf(buf[s], s), Whole(s), ~rawWrite[s],
           NEW x \in Blocks, x.kind = "data", x.of = s, x.size = m, x.val = written[s],
           written[s] \in Nat,
           buf'[s] = Extended(buf[s], x), wrNext'[s] = wrNext[s] + m, written'[s] = written[s] + m,
           UNCHANGED <<wire, rawWrite, isAnythingWritten>>
    PROVE  Whole(s)' /\ NoEnd(buf'[s])
<1>1. Filling(s)
  BY DEF Whole, BufOf
<1>2. /\ Filling(s)'
      /\ \A i \in 1..Len(buf'[s]) : buf'[s][i].kind \in {"gap", "data"}
      /\ \A r \in Nat : Holds(buf[s], s, r, written[s]) => Holds(buf'[s], s, r, written'[s])
  BY <1>1, CopyContent
<1>3. ~Has(buf'[s], "eof", s) /\ NoEnd(buf'[s])
  BY <1>2 DEF Has, NoEnd
<1>4. BufOf(s)'
  BY <1>2 DEF BufOf
<1>5. OrderOf(s)'
  BY <1>2 DEF Whole, OrderOf
<1>6. WroteOf(s)'
  BY DEF Whole, WroteOf, ContentLen
<1>7. EofOf(s)' /\ AfterEofOf(s)'
  BY <1>3 DEF Whole, EofOf, EofAhead, AfterEofOf
<1> QED BY <1>3, <1>4, <1>5, <1>6, <1>7 DEF Whole

LEMMA AppendedRecord ==
    ASSUME NEW b \in Seq(Blocks), NEW x \in Blocks, x.kind \in {"eof", "end"},
           NEW c, c = Append(b, x)
    PROVE  /\ WellFramed(b) => WellFramed(c)
           /\ HeadFirst(b) => HeadFirst(c)
           /\ \A t, r, n : Holds(b, t, r, n) => Holds(c, t, r, n)
           /\ \A k : Has(c, k, x.of) <=> Has(b, k, x.of) \/ k = x.kind
           /\ NoEnd(b) /\ x.kind # "end" => NoEnd(c)
<1>1. /\ Len(b) \in Nat /\ Len(c) = Len(b) + 1 /\ c[Len(b) + 1] = x
      /\ \A i \in 1..Len(b) : c[i] = b[i]
  BY AppendProperties
<1>2. \A i \in 1..Len(c) : i \in 1..Len(b) \/ i = Len(b) + 1
  BY <1>1
<1>3. ASSUME WellFramed(b) PROVE WellFramed(c)
  <2>1. c = b \o <<x>>
    BY AppendIsConcat
  <2>2. <<x>> \in Seq(Blocks) /\ Len(<<x>>) = 1 /\ <<x>>[1] = x
    OBVIOUS
  <2>3. WellFramed(<<x>>)
    BY <2>2 DEF WellFramed, FramedAt
  <2> QED BY <1>3, <2>1, <2>2, <2>3, FramedConcat
<1>4. ASSUME HeadFirst(b) PROVE HeadFirst(c)
  BY <1>1, <1>2, <1>4 DEF HeadFirst
<1>5. ASSUME NEW t, NEW r, NEW n, Holds(b, t, r, n) PROVE Holds(c, t, r, n)
  <2>1. ~IsOf(x, t)
    BY DEF IsOf
  <2>2. CASE n = r /\ \A i \in 1..Len(b) : ~IsOf(b[i], t)
    BY <1>1, <1>2, <2>1, <2>2 DEF Holds
  <2>3. CASE /\ Len(b) >= 2 /\ IsOf(b[2], t) /\ b[2].val = r /\ n = r + b[2].size
             /\ \A i \in 1..Len(b) : i # 2 => ~IsOf(b[i], t)
    <3>1. Len(c) >= 2 /\ c[2] = b[2]
      BY <1>1, <2>3
    <3>2. \A i \in 1..Len(c) : i # 2 => ~IsOf(c[i], t)
      BY <1>1, <1>2, <2>1, <2>3
    <3> QED BY <2>3, <3>1, <3>2 DEF Holds
  <2> QED BY <1>5, <2>2, <2>3 DEF Holds
<1>6. ASSUME NEW k PROVE Has(c, k, x.of) <=> Has(b, k, x.of) \/ k = x.kind
  <2>1. Len(b) + 1 \in 1..Len(c) /\ \A i \in 1..Len(b) : i \in 1..Len(c)
    BY <1>1
  <2> QED BY <1>1, <1>2, <2>1 DEF Has
<1>7. ASSUME NoEnd(b), x.kind # "end" PROVE NoEnd(c)
  BY <1>1, <1>2, <1>7 DEF NoEnd
<1> QED BY <1>3, <1>4, <1>5, <1>6, <1>7

\* The records of a close follow what the stream holds.
LEMMA CopyRecord ==
    ASSUME NEW s \in Streams, buf[s] \in Seq(Blocks), Whole(s), rawWrite[s], ~wasFCloseCalled[s],
           NEW x \in Blocks, x.kind \in {"eof", "end"}, x.of = s, buf'[s] = Append(buf[s], x),
           UNCHANGED <<wire, rawWrite, wasFCloseCalled>>, written'[s] = written[s],
           ~EofAhead(s)', x.kind = "end" => ~EofAhead(s)
    PROVE  Whole(s)'
<1> DEFINE b == buf[s]
<1>1. /\ WellFramed(b) => WellFramed(buf'[s])
      /\ HeadFirst(b) => HeadFirst(buf'[s])
      /\ \A t, r, n : Holds(b, t, r, n) => Holds(buf'[s], t, r, n)
      /\ \A k : Has(buf'[s], k, s) <=> Has(b, k, s) \/ k = x.kind
  BY AppendedRecord
<1>2. BufOf(s)'
  BY <1>1 DEF Whole, BufOf, Sealed
<1>3. OrderOf(s)'
  BY <1>1 DEF Whole, OrderOf
<1>4. WroteOf(s)'
  BY DEF WroteOf
<1>5. EofOf(s)'
  <2>1. CASE x.kind = "eof"
    BY <1>1, <2>1 DEF EofOf
  <2>2. CASE x.kind = "end"
    BY <1>1, <2>2 DEF Whole, EofOf
  <2> QED BY <2>1, <2>2
<1>6. AfterEofOf(s)'
  BY <1>1 DEF Whole, AfterEofOf
<1> QED BY <1>2, <1>3, <1>4, <1>5, <1>6 DEF Whole

LEMMA AppendConcat ==
    ASSUME NEW w \in Seq(Blocks), NEW b \in Seq(Blocks), NEW x \in Blocks
    PROVE  w \o Append(b, x) = Append(w \o b, x) /\ w \o b \in Seq(Blocks)
<1>1. w \o b \in Seq(Blocks) /\ Append(b, x) \in Seq(Blocks) /\ <<x>> \in Seq(Blocks)
  BY ConcatProperties, AppendProperties
<1>2. Append(b, x) = b \o <<x>> /\ Append(w \o b, x) = (w \o b) \o <<x>>
  BY <1>1, AppendIsConcat
<1>3. PICK u \in Seq(Blocks) : u = <<x>>
  BY <1>1
<1>4. (w \o b) \o u = w \o (b \o u)
  BY ConcatAssociative
<1> QED BY ONLY <1>1, <1>2, <1>3, <1>4, Zenon

\* A copy to the buffer of s, which the call is about.
Copies(s, m, x) ==
    /\ s = act /\ pc = "put" /\ act' = act /\ item' = item /\ left' = left - m
    /\ pc' = (IF left = m THEN AfterItem ELSE "full")
    /\ buf'[s] = Extended(buf[s], x) /\ wrNext'[s] = wrNext[s] + m
    /\ written'[s] = (IF item = "data" THEN written[s] + m ELSE written[s])
    /\ UNCHANGED <<wire, isClosed, wasFCloseCalled, failed, isAnythingWritten, rawWrite, nWriters>>
    /\ \A t \in Streams : t # s => buf'[t] = buf[t] /\ wrNext'[t] = wrNext[t] /\ written'[t] = written[t]

\* What a copy has in common for content and for records.
LEMMA CopyAround ==
    ASSUME IInv, RInv, NEW s \in Streams, NEW m, NEW x \in Blocks, x.of = s, Copies(s, m, x),
           \A t \in Streams : t # s => (EofAhead(t)' <=> EofAhead(t)),
           ~failed[s] => Whole(s)'
    PROVE  /\ ClosedInv' /\ WireInv'
           /\ \A t \in Streams : StreamInv(t)'
<1>1. ClosedInv' /\ WireInv'
  BY DEF Copies, RInv, ClosedInv, WireInv, Intact
<1>2. buf \in [Streams -> Seq(Blocks)] /\ wire \in Seq(Blocks)
  BY TypeParts DEF IInv, BufType
<1>3. StreamInv(s)'
  <2>1. AllOf(buf'[s], s)
    BY <1>2, ExtendedOf DEF Copies, RInv, StreamInv
  <2> QED BY <2>1 DEF Copies, StreamInv
<1>4. ASSUME NEW t \in Streams, t # s PROVE StreamInv(t)'
  <2>1. <<>> \in Seq(Blocks) /\ AllOf(<<>>, s) /\ wire' = wire \o <<>>
    BY <1>2, ConcatEmptySeq DEF AllOf, Copies
  <2>2. /\ buf'[t] = buf[t] /\ wrNext'[t] = wrNext[t] /\ failed'[t] = failed[t]
        /\ wasFCloseCalled'[t] = wasFCloseCalled[t] /\ rawWrite'[t] = rawWrite[t]
        /\ isAnythingWritten'[t] = isAnythingWritten[t] /\ written'[t] = written[t]
    BY <1>4 DEF Copies
  <2> QED BY <1>4, <2>1, <2>2, OtherStream DEF RInv
<1> QED BY <1>1, <1>3, <1>4

\* Content, to a stream that is not being closed.
LEMMA CopyDataResponse ==
    ASSUME IInv, RInv, NEW s \in Streams, NEW m \in Nat, m > 0, m <= left, item = "data",
           ~wasFCloseCalled[s],
           NEW x \in Blocks, x.kind = "data", x.of = s, x.size = m, x.val = written[s], Copies(s, m, x)
    PROVE  RInv'
<1>1. FlagType /\ PtrType /\ BufType /\ CallType
  BY TypeParts DEF IInv
<1>2. ~Closing
  BY DEF Closing, InItem, Copies
<1>3. ~rawWrite[s]
  BY <1>2 DEF IInv, RawInv
<1>4. AllOf(buf[s], s) /\ (~failed[s] => Whole(s))
  BY DEF RInv, StreamInv
<1>5. ~failed[s] => Whole(s)' /\ NoEnd(buf'[s])
  BY <1>1, <1>3, <1>4, CopyContentWhole DEF Copies, BufType, PtrType, CallType
<1>6. \A t \in Streams : EofAhead(t)' <=> EofAhead(t)
  BY DEF EofAhead, Copies
<1>7. ClosedInv' /\ WireInv' /\ \A t \in Streams : StreamInv(t)'
  BY <1>5, <1>6, CopyAround
<1>8. UnitInv' /\ LastInv'
  <2>1. InItem' => left' > 0
    BY <1>1 DEF Copies, InItem, AfterItem, CallType
  <2>2. ASSUME NEW t \in Streams, rawWrite'[t] PROVE wrNext'[t] % 8 = 0
    <3>1. rawWrite[t] /\ t # s
      BY <1>3, <2>2 DEF Copies
    <3> QED BY <3>1 DEF Copies, RInv, UnitInv
  <2> QED BY <2>1, <2>2 DEF UnitInv, LastInv, Copies
<1>9. EndInv'
  <2>1. nWriters > 0
    BY <1>1, <1>3, AllRaw DEF CallType
  <2>2. Intact => NoEnd(wire) /\ \A t \in Streams : NoEnd(buf[t])
    BY <2>1 DEF RInv, EndInv
  <2>3. Intact' => \A t \in Streams : NoEnd(buf'[t])
    BY <1>5, <2>2 DEF Copies, Intact
  <2> QED BY <2>1, <2>2, <2>3 DEF Copies, Intact, EndInv
<1> QED BY <1>7, <1>8, <1>9 DEF RInv

\* The end-of-stream record, or FCGI_END_REQUEST in one piece or two.
LEMMA CopyRecordResponse ==
    ASSUME IInv, RInv, NEW s \in Streams, NEW m \in Nat, m > 0, m <= left, m % 8 = 0,
           item \in {"eof", "end"},
           NEW x \in Blocks, x.kind = item, x.of = s, x.size = m, x.val = Progress, Copies(s, m, x)
    PROVE  RInv'
<1>1. FlagType /\ PtrType /\ BufType /\ CallType
  BY TypeParts DEF IInv
<1>2. Closing /\ InItem
  BY DEF Closing, InItem, Copies
<1>3. rawWrite[s] /\ ~wasFCloseCalled[s]
  BY <1>2 DEF IInv, RawInv, Copies
<1>4. left \in Nat /\ left % 8 = 0 /\ (item = "eof" => left <= 8) /\ (item = "end" => left <= 16)
  BY <1>1 DEF RInv, UnitInv, IInv, LeftInv, CallType
<1>5. buf'[s] = Append(buf[s], x) /\ buf[s] \in Seq(Blocks)
  <2>1. x.kind # "data"
    OBVIOUS
  <2> QED BY <1>1, <2>1 DEF Copies, Extended, BufType
<1>6. item = "eof" => left = m /\ pc' = "trailer"
  BY <1>4 DEF Copies, AfterItem
<1>7. ~EofAhead(s)' /\ (x.kind = "end" => ~EofAhead(s))
  BY <1>3, <1>6 DEF EofAhead, InItem, Copies
<1>8. ~failed[s] => Whole(s)'
  BY <1>3, <1>5, <1>7, CopyRecord DEF Copies, RInv, StreamInv
<1>9. \A t \in Streams : t # s => (EofAhead(t)' <=> EofAhead(t))
  BY DEF EofAhead, Copies
<1>10. ClosedInv' /\ WireInv' /\ \A t \in Streams : StreamInv(t)'
  BY <1>8, <1>9, CopyAround
<1>11. UnitInv' /\ LastInv'
  <2>1. (InItem' => left' > 0) /\ left' % 8 = 0 /\ (InItem' => InItem)
    BY <1>2, <1>4 DEF Copies, InItem, AfterItem
  <2>2. ASSUME NEW t \in Streams, rawWrite'[t] PROVE wrNext'[t] % 8 = 0
    <3>1. rawWrite[t] /\ wrNext[t] % 8 = 0 /\ wrNext[t] \in Nat
      BY <1>1, <2>2 DEF Copies, RInv, UnitInv, PtrType
    <3>2. CASE t = s
      BY <3>1, <3>2 DEF Copies
    <3>3. CASE t # s
      BY <3>1, <3>3 DEF Copies
    <3> QED BY <3>2, <3>3
  <2> QED BY <2>1, <2>2 DEF UnitInv, LastInv, Copies, RInv
<1>12. EndInv'
  <2>1. CASE item = "eof"
    <3>1. nWriters > 0
      <4> DEFINE k == IF pc = "trailer" \/ (InItem /\ item = "eof") THEN 1 ELSE 0
      <4>1. nWriters = Undone("out") + Undone("err") + k /\ k = 1
        BY <1>2, <2>1 DEF IInv, CountInv
      <4> HIDE DEF k
      <4> QED BY <4>1, UndoneType DEF Streams
    <3>2. Intact => NoEnd(wire) /\ \A t \in Streams : NoEnd(buf[t])
      BY <3>1 DEF RInv, EndInv
    <3>3. NoEnd(buf[s]) => NoEnd(buf'[s])
      BY <1>5, <2>1, AppendedRecord
    <3>4. Intact' => \A t \in Streams : NoEnd(buf'[t])
      BY <3>2, <3>3 DEF Copies, Intact
    <3> QED BY <3>1, <3>2, <3>4 DEF Copies, Intact, EndInv
  <2>2. CASE item = "end"
    <3>1. nWriters = 0
      BY <1>2, <2>2 DEF RInv, LastInv
    <3>2. SUFFICES ASSUME Intact
                   PROVE  EndsWith(wire \o buf'[s], EndBytes')
      BY <3>1 DEF EndInv, Intact, Copies
    <3>3. left \in {8, 16} /\ m \in {8, 16}
      BY <1>4, <2>2
    <3>4. EndBytes = 16 - left /\ EndBytes' = (16 - left) + m
      BY <1>2, <2>2, <3>3 DEF EndBytes, Copies, InItem, AfterItem
    <3>5. EndsWith(wire \o buf[s], 16 - left)
      BY <3>1, <3>2, <3>4 DEF RInv, EndInv, Copies
    <3>6. wire \o buf'[s] = Append(wire \o buf[s], x) /\ wire \o buf[s] \in Seq(Blocks)
      <4>1. wire \in Seq(Blocks) /\ buf[s] \in Seq(Blocks)
        BY <1>1, <1>5 DEF BufType
      <4> QED BY <1>5, <4>1, AppendConcat
    <3>7. IsEnd(x, m, 16 - left)
      BY <2>2 DEF IsEnd, Progress
    <3>8. 16 - left \in {0, 8} /\ (16 - left) + m <= 16
      BY <3>3
    <3>9. EndsWith(Append(wire \o buf[s], x), (16 - left) + m)
      BY <3>3, <3>5, <3>6, <3>7, <3>8, EndsFurther
    <3> QED BY <3>4, <3>6, <3>9
  <2> QED BY <2>1, <2>2
<1> QED BY <1>10, <1>11, <1>12 DEF RInv

\* A step of the loop of FCGX_PutStr.
LEMMA PutCopyResponse == ASSUME IInv, RInv, PutCopy PROVE RInv'
<1>1. FlagType /\ PtrType /\ BufType /\ CallType
  BY TypeParts DEF IInv
<1>2. PICK m, x : m = Least(left, Room(act)) /\ x = Block(item, act, m, Progress)
  OBVIOUS
<1>3. /\ pc = "put" /\ act \in Streams /\ left \in Nat /\ item \in {"data", "eof", "end"}
      /\ UNCHANGED <<wire, flags, nWriters, act, item>>
      /\ left' = left - m
      /\ pc' = IF left = m THEN AfterItem ELSE "full"
      /\ wrNext' = [wrNext EXCEPT ![act] = @ + m]
      /\ written' = IF item = "data" THEN [written EXCEPT ![act] = @ + m] ELSE written
      /\ buf' = IF m = 0 THEN buf ELSE [buf EXCEPT ![act] = Extended(@, x)]
  BY <1>1, <1>2 DEF PutCopy, CallType
<1>4. UNCHANGED <<isClosed, wasFCloseCalled, failed, isAnythingWritten, rawWrite>>
  BY <1>3 DEF flags
<1>5. /\ m \in Nat /\ m <= left /\ (wasFCloseCalled[act] => m = 0)
      /\ m = left \/ m = Cap[act] - wrNext[act] \/ m = 0
  <2>1. wrNext[act] \in Nat /\ wrNext[act] <= Cap[act] /\ Cap[act] \in Nat
    BY <1>1, <1>3, CapType DEF PtrType
  <2>2. /\ Room(act) \in Nat /\ (wasFCloseCalled[act] => Room(act) = 0)
        /\ Room(act) = Cap[act] - wrNext[act] \/ Room(act) = 0
    BY <2>1 DEF Room
  <2> QED BY <1>2, <1>3, <2>2 DEF Least
<1>6. left > 0 /\ (item # "data" => left % 8 = 0) /\ (rawWrite[act] => wrNext[act] % 8 = 0)
  BY <1>3 DEF RInv, UnitInv, InItem
<1>7. CASE m = 0
  <2>1. UNCHANGED <<wire, buf, wrNext, flags, written, nWriters, act, item, left>> /\ pc' = "full"
    <3>1. wrNext' = wrNext
      BY <1>1, <1>3, <1>7 DEF PtrType
    <3>2. written' = written
      BY <1>1, <1>3, <1>7 DEF CallType
    <3> QED BY <1>3, <1>6, <1>7, <3>1, <3>2
  <2>2. InItem /\ InItem'
    BY <1>3, <2>1 DEF InItem
  <2>3. ClosedInv' /\ WireInv' /\ EndInv'
    <3>1. EndBytes' = EndBytes
      BY <2>1, <2>2 DEF EndBytes
    <3> QED BY <1>4, <2>1, <3>1 DEF RInv, ClosedInv, WireInv, EndInv, Intact
  <2>4. UnitInv' /\ LastInv'
    BY <1>4, <2>1, <2>2 DEF RInv, UnitInv, LastInv
  <2>5. ASSUME NEW t \in Streams PROVE StreamInv(t)'
    <3>1. EofAhead(t)' <=> EofAhead(t)
      BY <1>4, <2>1, <2>2 DEF EofAhead
    <3> QED BY <2>1, <3>1, Aside DEF RInv
  <2> QED BY <2>3, <2>4, <2>5 DEF RInv
<1>8. CASE m > 0
  <2>1. Progress \in Nat
    BY <1>1, <1>3 DEF Progress, IInv, LeftInv, CallType
  <2>2. x \in Blocks /\ x.kind = item /\ x.of = act /\ x.size = m /\ x.val = Progress
    <3>1. item \in Kinds
      BY <1>3 DEF Kinds
    <3>2. x \in Blocks
      BY <1>2, <1>3, <1>5, <2>1, <3>1, BlockType
    <3> QED BY <1>2, <3>2 DEF Block
  <2>3. Copies(act, m, x)
    <3>1. buf'[act] = Extended(buf[act], x) /\ \A t \in Streams : t # act => buf'[t] = buf[t]
      BY <1>1, <1>3, <1>8 DEF BufType
    <3>2. wrNext'[act] = wrNext[act] + m /\ \A t \in Streams : t # act => wrNext'[t] = wrNext[t]
      BY <1>1, <1>3 DEF PtrType
    <3>3. /\ written'[act] = (IF item = "data" THEN written[act] + m ELSE written[act])
          /\ \A t \in Streams : t # act => written'[t] = written[t]
      BY <1>1, <1>3 DEF CallType
    <3> QED BY <1>3, <1>4, <3>1, <3>2, <3>3 DEF Copies
  <2>4. CASE item = "data"
    <3>1. Progress = written[act] /\ ~wasFCloseCalled[act]
      BY <1>5, <1>8, <2>4 DEF Progress
    <3> QED BY <1>3, <1>5, <1>8, <2>2, <2>3, <2>4, <3>1, CopyDataResponse
  <2>5. CASE item # "data"
    <3>1. rawWrite[act]
      BY <1>3, <2>5, ClosingAt DEF InItem, IInv, RawInv
    <3>2. m % 8 = 0
      <4>1. wrNext[act] \in Nat /\ wrNext[act] <= Cap[act] /\ Cap[act] \in Nat /\ Cap[act] % 8 = 0
        BY <1>1, <1>3, CapType DEF PtrType
      <4>2. (Cap[act] - wrNext[act]) % 8 = 0
        BY <1>6, <3>1, <4>1
      <4> QED BY <1>5, <1>6, <1>8, <2>5, <4>2
    <3>3. item \in {"eof", "end"}
      BY <1>3, <2>5
    <3> QED BY <1>3, <1>5, <1>8, <2>2, <2>3, <3>2, <3>3, CopyRecordResponse
  <2> QED BY <2>4, <2>5
<1> QED BY <1>5, <1>7, <1>8

LEMMA NextResponse == IInv /\ RInv /\ [Next]_vars => RInv'
<1> SUFFICES ASSUME IInv, RInv, [Next]_vars PROVE RInv'
  OBVIOUS
<1>1. CASE UNCHANGED vars
  BY <1>1 DEF vars, flags, RInv, ClosedInv, UnitInv, LastInv, StreamInv, Whole, BufOf, Sealed, Filling,
     OrderOf, WroteOf, ContentLen, EofOf, EofAhead, AfterEofOf, WireInv, EndInv, EndBytes, Intact, InItem
<1>2. ASSUME NEW s \in Streams, NEW n \in Sizes, PutStr(s, n) PROVE RInv'
  BY <1>2, PutStrResponse
<1>3. ASSUME NEW s \in Streams, FFlush(s) PROVE RInv'
  BY <1>3, EmptyResponse DEF FFlush
<1>4. ASSUME NEW s \in Streams, FClose(s) PROVE RInv'
  BY <1>4, FCloseResponse
<1>5. CASE PutFull
  <2>1. act \in Streams
    BY TypeParts DEF IInv, CallType
  <2> QED BY <1>5, <2>1, EmptyResponse DEF PutFull
<1> QED BY <1>1, <1>2, <1>3, <1>4, <1>5, PutCopyResponse, PutGivesUpResponse, CloseTrailerResponse,
           CloseSendResponse DEF Next, Call, Step

LEMMA ResponseInvariance == Spec => [](IInv /\ RInv)
<1>1. Init => IInv /\ RInv
  BY InitInv, InitResponse
<1>2. IInv /\ RInv /\ [Next]_vars => (IInv /\ RInv)'
  BY NextInv, NextResponse
<1> QED BY <1>1, <1>2, PTL DEF Spec

-----------------------------------------------------------------------------
(* What the invariant says of a response *)

\* Behind the first block of FCGI_END_REQUEST there is nothing else.
LEMMA EndTail ==
    ASSUME NEW w \in Seq(Blocks), NEW n, EndsWith(w, n),
           NEW i \in 1..Len(w), w[i].kind = "end", NEW j \in i..Len(w)
    PROVE  w[j].kind = "end"
<1>1. Len(w) \in Nat
  OBVIOUS
<1>2. CASE NoEnd(w)
  BY <1>2 DEF NoEnd
<1>3. CASE /\ Len(w) >= 1 /\ IsEnd(w[Len(w)], n, 0)
           /\ \A k \in 1..Len(w) - 1 : w[k].kind # "end"
  <2>1. i = Len(w) /\ j = Len(w)
    BY <1>1, <1>3
  <2> QED BY <2>1
<1>4. CASE /\ Len(w) >= 2 /\ IsEnd(w[Len(w)], 8, 8) /\ IsEnd(w[Len(w) - 1], 8, 0)
           /\ \A k \in 1..Len(w) - 2 : w[k].kind # "end"
  <2>1. j = Len(w) \/ j = Len(w) - 1
    BY <1>1, <1>4
  <2> QED BY <1>4, <2>1 DEF IsEnd
<1> QED BY <1>2, <1>3, <1>4 DEF EndsWith

LEMMA EndFollows == IInv /\ RInv => EndRequestLast
<1> SUFFICES ASSUME IInv, RInv, Intact
             PROVE  EndRequestLast
  BY DEF EndRequestLast
<1> DEFINE c == wire \o buf[act]
<1>1. BufType /\ CallType /\ \A s \in Streams : Whole(s)
  BY TypeParts DEF IInv, RInv, StreamInv, Intact
<1>2. /\ c \in Seq(Blocks) /\ Len(wire) \in Nat /\ Len(c) = Len(wire) + Len(buf[act]) /\ Len(buf[act]) \in Nat
      /\ \A i \in 1..Len(wire) : c[i] = wire[i]
      /\ \A i \in 1..Len(buf[act]) : c[Len(wire) + i] = buf[act][i]
  BY <1>1, Places DEF BufType, CallType
<1>3. ASSUME NEW i \in 1..Len(wire), wire[i].kind = "end"
      PROVE  /\ \A j \in i..Len(wire) : wire[j].kind = "end"
             /\ \A s \in Streams : s = "out" \/ written["err"] > 0 =>
                   \E j \in 1..i : wire[j].kind = "eof" /\ wire[j].of = s
  <2>1. nWriters = 0 /\ EndsWith(c, EndBytes)
    <3>1. ~NoEnd(wire)
      BY <1>3 DEF NoEnd
    <3> QED BY <1>1, <3>1 DEF RInv, EndInv, CallType
  <2> HIDE DEF c
  <2>2. \A j \in i..Len(c) : c[j].kind = "end"
    BY <1>2, <1>3, <2>1, EndTail
  <2>3. \A j \in i..Len(wire) : wire[j].kind = "end"
    BY <1>2, <2>2
  <2>4. ASSUME NEW s \in Streams, s = "out" \/ written["err"] > 0
        PROVE  \E j \in 1..i : wire[j].kind = "eof" /\ wire[j].of = s
    <3>1. rawWrite[s] /\ ~EofAhead(s)
      <4>1. \A t \in Streams : rawWrite[t]
        BY <2>1, AllRaw
      <4>2. ~(InItem /\ item = "eof")
        <5> DEFINE k == IF pc = "trailer" \/ (InItem /\ item = "eof") THEN 1 ELSE 0
        <5>1. 0 = Undone("out") + Undone("err") + k /\ k \in {0, 1}
          BY <2>1 DEF IInv, CountInv
        <5>2. k = 0
          <6> HIDE DEF k
          <6> QED BY <5>1, UndoneType DEF Streams
        <5> QED BY <5>2
      <4> QED BY <4>1, <4>2 DEF EofAhead
    <3>2. Has(wire, "eof", s) \/ Has(buf[s], "eof", s)
      <4>1. ~(s = "err" /\ written[s] = 0)
        BY <2>4 DEF Streams
      <4> QED BY <1>1, <3>1, <4>1 DEF Whole, EofOf
    <3>3. ~Has(buf[s], "eof", s)
      <4>1. CASE s = act
        <5>1. ASSUME NEW k \in 1..Len(buf[act]) PROVE buf[act][k].kind = "end"
          <6>1. Len(wire) + k \in i..Len(c)
            BY <1>2
          <6> QED BY <1>2, <2>2, <6>1
        <5> QED BY <4>1, <5>1 DEF Has
      <4>2. CASE s # act
        <5>1. wasFCloseCalled[s]
          BY <3>1, <4>2 DEF IInv, RawInv
        <5>2. buf[s] = <<>>
          BY <1>1, <3>1, <5>1 DEF Whole, BufOf, Sealed
        <5> QED BY <5>2 DEF Has
      <4> QED BY <4>1, <4>2
    <3>4. PICK j \in 1..Len(wire) : wire[j].kind = "eof" /\ wire[j].of = s
      BY <3>2, <3>3 DEF Has
    <3>5. j \in 1..i
      BY <1>2, <2>3, <3>4
    <3> QED BY <3>4, <3>5
  <2> QED BY <2>3, <2>4
<1>4. ASSUME NEW i \in 1..Len(wire), wire[i].kind = "eof",
             NEW j \in 1..Len(wire), wire[j].kind = "head", j > i
      PROVE  wire[j].of # wire[i].of
  <2>1. wire[i] \in Blocks
    BY <1>1, ElementOfSeq DEF BufType
  <2>2. wire[i].of \in Streams
    BY <2>1 DEF Blocks
  <2> QED BY <1>1, <1>4, <2>2 DEF Whole, AfterEofOf, EofFirst
<1> QED BY <1>3, <1>4 DEF EndRequestLast, Positions, Streams

LEMMA AllIsSent == IInv /\ RInv => CompleteWhenClosed
<1> DEFINE sent == {wire[i].val : i \in Positions("end")}
<1> SUFFICES ASSUME IInv, RInv, Intact, \A s \in Streams : wasFCloseCalled[s]
             PROVE  /\ nWriters = 0
                    /\ \A s \in Streams : buf[s] = <<>>
                    /\ sent = {0} \/ sent = {0, 8}
                    /\ wire[Len(wire)].val + wire[Len(wire)].size = 2 * HEADER
  BY DEF CompleteWhenClosed
<1>1. BufType /\ CallType /\ \A s \in Streams : Whole(s) /\ rawWrite[s]
  BY TypeParts DEF IInv, RInv, StreamInv, Intact, RawInv
<1>2. ~Closing
  BY <1>1 DEF IInv, RawInv, CallType
<1>3. nWriters = 0
  <2> DEFINE k == IF pc = "trailer" \/ (InItem /\ item = "eof") THEN 1 ELSE 0
  <2>1. k = 0
    BY <1>2 DEF Closing
  <2>2. Undone("out") = 0 /\ Undone("err") = 0
    BY <1>1 DEF Undone, Streams
  <2>3. nWriters = Undone("out") + Undone("err") + k
    BY DEF IInv, CountInv
  <2> HIDE DEF k
  <2> QED BY <2>1, <2>2, <2>3
<1>4. \A s \in Streams : buf[s] = <<>>
  BY <1>1 DEF Whole, BufOf, Sealed
<1>5. EndsWith(wire, 16)
  <2>1. EndBytes = 16
    BY <1>2 DEF EndBytes, Closing
  <2>2. wire \o buf[act] = wire
    BY <1>1, <1>4, ConcatEmptySeq DEF BufType, CallType
  <2> QED BY <1>3, <2>1, <2>2 DEF RInv, EndInv
<1>6. Len(wire) \in Nat
  BY <1>1 DEF BufType
<1>7. CASE /\ Len(wire) >= 1 /\ IsEnd(wire[Len(wire)], 16, 0)
           /\ \A i \in 1..Len(wire) - 1 : wire[i].kind # "end"
  <2>1. wire[Len(wire)].val = 0 /\ wire[Len(wire)].size = 16 /\ wire[Len(wire)].kind = "end"
    BY <1>7 DEF IsEnd
  <2>2. Positions("end") = {Len(wire)}
    BY <1>6, <1>7, <2>1 DEF Positions
  <2>3. sent = {0}
    BY <2>1, <2>2
  <2> HIDE DEF sent
  <2> QED BY <1>3, <1>4, <2>1, <2>3
<1>8. CASE /\ Len(wire) >= 2 /\ IsEnd(wire[Len(wire)], 8, 8) /\ IsEnd(wire[Len(wire) - 1], 8, 0)
           /\ \A i \in 1..Len(wire) - 2 : wire[i].kind # "end"
  <2>1. /\ wire[Len(wire)].val = 8 /\ wire[Len(wire)].size = 8 /\ wire[Len(wire)].kind = "end"
        /\ wire[Len(wire) - 1].val = 0 /\ wire[Len(wire) - 1].kind = "end"
    BY <1>8 DEF IsEnd
  <2>2. Positions("end") = {Len(wire) - 1, Len(wire)}
    BY <1>6, <1>8, <2>1 DEF Positions
  <2>3. sent = {0, 8}
    BY <2>1, <2>2
  <2> HIDE DEF sent
  <2> QED BY <1>3, <1>4, <2>1, <2>3
<1> HIDE DEF sent
<1> QED BY <1>5, <1>7, <1>8 DEF EndsWith

\* As long as no write fails the web server receives a response: whole records with
\* a length of at most 16 bits and padding up to 8 bytes, no content after the end of
\* its stream, FCGI_END_REQUEST once, behind the ends of the streams, and, when both
\* streams are closed, all of it (EmptyBuffProc, WriteCloseRecords, FCGX_FClose).
THEOREM ResponseIsWhole == Spec => []ResponseWellFormed
<1>1. RInv => Framed
  BY DEF RInv, WireInv, Framed
<1>2. IInv /\ RInv => ResponseWellFormed
  BY <1>1, EndFollows, AllIsSent DEF ResponseWellFormed
<1> QED BY <1>2, ResponseInvariance, PTL

\* What the application wrote to a stream that has not failed is on the wire or in
\* the buffer, every byte once and in order, wherever FCGX_PutStr cut it and
\* EmptyBuffProc wrapped it.
THEOREM ContentInOrder == Spec => []InOrder
<1>1. IInv /\ RInv => InOrder
  <2> SUFFICES ASSUME IInv, RInv, NEW s \in Streams, ~failed[s]
               PROVE  LET b == wire \o buf[s]
                      IN  /\ \A i \in 1..Len(b) : IsOf(b[i], s) => NextByte(b, s, i - 1, b[i].val)
                          /\ NextByte(b, s, Len(b), written[s])
    BY DEF InOrder
  <2>1. PICK r \in Nat : /\ Ordered(wire, s) /\ NextByte(wire, s, Len(wire), r)
                         /\ Holds(buf[s], s, r, written[s])
    BY DEF RInv, StreamInv, Whole, OrderOf
  <2>2. wire \in Seq(Blocks) /\ buf[s] \in Seq(Blocks)
    BY TypeParts DEF IInv, BufType
  <2>3. Ordered(wire \o buf[s], s) /\ NextByte(wire \o buf[s], s, Len(wire \o buf[s]), written[s])
    BY <2>1, <2>2, Sent
  <2> QED BY <2>3 DEF Ordered
<1> QED BY <1>1, ResponseInvariance, PTL

\* After a write has failed a stream sends nothing, but for the FCGX_FClose that
\* tries the whole of its buffer once more (SetError, and the checks of isClosed).
THEOREM FailedIsSilent == Spec => SilentAfterError
<1> DEFINE A == wire' # wire /\ failed[act'] => pc = "send" /\ ~wasFCloseCalled[act]
<1>1. IInv /\ RInv /\ [Next]_vars => [A]_vars
  <2> SUFFICES ASSUME IInv, RInv, Next, wire' # wire, failed[act']
               PROVE  pc = "send" /\ ~wasFCloseCalled[act]
    OBVIOUS
  <2>1. act \in Streams
    BY TypeParts DEF IInv, CallType
  <2>2. CASE CloseSend
    <3>1. pc = "send"
      BY <2>2 DEF CloseSend
    <3> QED BY <3>1, ClosingAt DEF IInv, RawInv
  <2>3. ASSUME NEW s \in Streams, FFlush(s) PROVE FALSE
    BY <2>3 DEF FFlush, RInv, ClosedInv
  <2>4. CASE PutFull
    BY <2>1, <2>4 DEF PutFull, RInv, ClosedInv
  <2>5. CASE PutCopy \/ PutGivesUp \/ CloseTrailer
    BY <2>5 DEF PutCopy, PutGivesUp, CloseTrailer
  <2>6. ASSUME NEW s \in Streams, NEW n \in Sizes, PutStr(s, n) \/ FClose(s) PROVE FALSE
    BY <2>6 DEF PutStr, FClose
  <2>7. ASSUME NEW s \in Streams, FClose(s) PROVE FALSE
    BY <2>7 DEF FClose
  <2> QED BY <2>2, <2>3, <2>4, <2>5, <2>6, <2>7 DEF Next, Call, Step
<1> QED BY <1>1, ResponseInvariance, PTL DEF Spec, SilentAfterError
=============================================================================
