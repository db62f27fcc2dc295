-------------------------- MODULE FcgxReaderProofs --------------------------
(***************************************************************************)
(* FcgxReader for headers, bodies and pairs of any length, any shapes of   *)
(* records, any cut of the connection into reads and any number of         *)
(* records and connections: as long as the web server has sent nothing odd *)
(* on a connection, the application gets the content of its request and    *)
(* nothing else, whole parameters, and a kept connection is closed for     *)
(* what was left unread only.                                              *)
(***************************************************************************)
EXTENDS FcgxReader, FiniteSetTheorems, TLAPS

-----------------------------------------------------------------------------
(* The records of the web server *)

ContentEnd(r) == r.start + HEADER + r.len
RecordEnd(r) == r.start + HEADER + r.len + r.pad

\* A place on the connection where a record begins, or the next one will.
Boundary(p) == p = total \/ \E r \in Sent : r.start = p

\* Records are one behind the other, without gaps.
TileInv ==
    /\ \A r \in Sent : RecordEnd(r) <= total /\ Boundary(RecordEnd(r))
    /\ \A r, q \in Sent : r = q \/ RecordEnd(r) <= q.start \/ RecordEnd(q) <= r.start

\* The form of every record, where none is odd.
FormInv == \A r \in Sent :
    /\ r.type = "begin" => r.id # 0 /\ r.len = BODY /\ r.pad = 0
    /\ r.id = 0 => r.type = "values" \/ r.len = 0
    /\ r.id = 0 /\ r.type = "values" => r.len % Pair = 0
    /\ r.id # 0 /\ r.len = 0 => r.pad = 0

\* The begin record of the active request, its records of the stream t, its end.
Begins(b) == b \in Sent /\ b.start = began /\ b.type = "begin" /\ b.id = active
Own(r, t) == r \in Sent /\ r.start > began /\ r.id = active /\ r.type = t
StreamEnd(e, t) == Own(e, t) /\ e.len = 0

\* Another request is begun on a connection that is not kept only, and does not end.
OthersInv ==
    /\ \A r \in Sent : r.start > began /\ r.type = "begin" =>
          r.id # active /\ \A b \in Sent : Begins(b) => ~b.keep
    /\ \A r \in Sent : r.start > began /\ r.len = 0 /\ r.id # 0 => r.id = active
    /\ \A r \in Sent : r.start > began /\ r.id = active => r.type \in StreamTypes

\* The streams are sent one after the other, each with one end, its last record.
OrderInv ==
    /\ stage = "params" => \A r \in Sent : ~StreamEnd(r, "params") /\ ~Own(r, "stdin")
    /\ stage # "params" => \E e \in Sent : StreamEnd(e, "params")
    /\ stage = "stdin" => \A r \in Sent : ~StreamEnd(r, "stdin")
    /\ \A e, r \in Sent :
          /\ StreamEnd(e, "params") /\ Own(r, "params") => r.start <= e.start
          /\ StreamEnd(e, "params") /\ Own(r, "stdin") => e.start < r.start
          /\ StreamEnd(e, "stdin") /\ Own(r, "stdin") => r.start <= e.start

WholePairs == stage # "params" => Cardinality(Content("params", active)) % Pair = 0

ActiveInv == active # 0 =>
    /\ stage \in {"params", "stdin", "all"}
    /\ \E b \in Sent : Begins(b)
    /\ OthersInv /\ OrderInv /\ WholePairs

WebType ==
    /\ sent \in Seq(Records) /\ total \in Nat
    /\ active \in Ids \cup {0} /\ began \in Nat
    /\ stage \in {"begin", "params", "stdin", "all", "aborted"}
    /\ eof \in BOOLEAN /\ extras \in 0..MaxExtras /\ conns \in 0..MaxConns
    /\ odd \in SUBSET Oddities

WebInv == WebType /\ TileInv /\ FormInv /\ ActiveInv

-----------------------------------------------------------------------------
LEMMA SentType ==
    ASSUME sent \in Seq(Records)
    PROVE  /\ Sent \subseteq Records
           /\ \A r \in Sent : /\ r.start \in Nat /\ r.type \in Types /\ r.id \in Nat
                              /\ r.len \in Nat /\ r.pad \in Nat /\ r.keep \in BOOLEAN
<1>1. Sent \subseteq Records
  BY DEF Sent
<1> QED BY <1>1 DEF Records

LEMMA ConstantTypes ==
    /\ HEADER \in Nat /\ HEADER > 0 /\ BODY \in Nat /\ BODY > 0
    /\ Pair \in Nat /\ Pair > 1 /\ BuffLen \in Nat /\ BuffLen > 0
  BY ReaderAssumption

LEMMA InContent ==
    ASSUME sent \in Seq(Records), NEW t, NEW id, NEW c
    PROVE  c \in Content(t, id) <=>
              /\ c \in Nat
              /\ \E r \in Sent : /\ r.type = t /\ r.id = id /\ r.start >= began
                                 /\ r.start + HEADER <= c /\ c < ContentEnd(r)
<1> USE SentType, ConstantTypes
<1>1. ASSUME NEW r \in Sent
      PROVE  c \in r.start + HEADER .. r.start + HEADER + r.len - 1 <=>
                c \in Nat /\ r.start + HEADER <= c /\ c < ContentEnd(r)
  BY DEF ContentEnd
<1> QED BY <1>1 DEF Content, RecordsOf

LEMMA EndOrBehind ==
    ASSUME sent \in Seq(Records), NEW r \in Sent
    PROVE  /\ r.start + HEADER <= ContentEnd(r) /\ ContentEnd(r) <= RecordEnd(r)
           /\ r.start < RecordEnd(r)
           /\ ContentEnd(r) \in Nat /\ RecordEnd(r) \in Nat
  BY SentType, ConstantTypes DEF ContentEnd, RecordEnd

\* A byte belongs to one record only.
LEMMA OneRecord ==
    ASSUME sent \in Seq(Records), TileInv, NEW r \in Sent, NEW q \in Sent, NEW c \in Int,
           r.start <= c, c < RecordEnd(r), q.start <= c, c < RecordEnd(q)
    PROVE  r = q
<1>1. r.start \in Nat /\ q.start \in Nat /\ RecordEnd(r) \in Nat /\ RecordEnd(q) \in Nat
  BY SentType, EndOrBehind
<1>2. r = q \/ RecordEnd(r) <= q.start \/ RecordEnd(q) <= r.start
  BY DEF TileInv
<1> QED BY <1>1, <1>2

LEMMA SameStart ==
    ASSUME sent \in Seq(Records), TileInv, NEW r \in Sent, NEW q \in Sent, r.start = q.start
    PROVE  r = q
  BY SentType, ConstantTypes DEF TileInv, RecordEnd

\* A record that begins behind the beginning of another begins behind its end.
LEMMA NextRecord ==
    ASSUME sent \in Seq(Records), TileInv, NEW r \in Sent, NEW q \in Sent, r.start < q.start
    PROVE  RecordEnd(r) <= q.start
  BY SentType, ConstantTypes DEF TileInv, RecordEnd

-----------------------------------------------------------------------------
(* The web server's steps *)

\* n is sent, and nothing odd.
Adds(n) ==
    /\ n \in Records
    /\ n.start = total /\ total' = RecordEnd(n)
    /\ Sent' = Sent \cup {n}
    /\ sent' \in Seq(Records)
    /\ ipcFd /\ ~eof /\ odd = {} /\ UNCHANGED <<eof, conns, odd>>

AddsBegin(n) ==
    /\ Adds(n) /\ active = 0
    /\ n.type = "begin" /\ n.id = active' /\ n.len = BODY /\ n.pad = 0
    /\ active' \in Ids /\ began' = total /\ stage' = "params"
    /\ extras' \in 0..MaxExtras

AddsStream(n) ==
    /\ Adds(n) /\ active # 0
    /\ n.type \in StreamTypes /\ stage = n.type /\ n.id = active /\ n.len > 0
    /\ UNCHANGED <<active, began, stage, extras>>

AddsEnd(n) ==
    /\ Adds(n) /\ active # 0
    /\ n.type \in StreamTypes /\ stage = n.type /\ n.id = active /\ n.len = 0 /\ n.pad = 0
    /\ n.type = "params" => Cardinality(Content("params", active)) % Pair = 0
    /\ stage' = IF n.type = "params" THEN "stdin" ELSE "all"
    /\ extras' \in 0..MaxExtras
    /\ UNCHANGED <<active, began>>

AddsExtra(n) ==
    /\ Adds(n)
    /\ n.id # active /\ (active = 0 => n.id = 0)
    /\ n.type = "begin" => n.id # 0 /\ n.len = BODY /\ n.pad = 0
    /\ n.type = "begin" => \A r \in RecordsOf("begin", active) : ~r.keep
    /\ n.id = 0 /\ n.type = "values" => n.len % Pair = 0
    /\ n.id = 0 /\ n.type # "values" => n.len = 0
    /\ n.id # 0 => n.len > 0
    /\ extras' \in 0..MaxExtras
    /\ UNCHANGED <<active, began, stage>>

LEMMA SeldomType ==
    ASSUME WebType, NEW it \in BOOLEAN, Seldom(it)
    PROVE  extras' \in 0..MaxExtras
  BY ReaderAssumption DEF Seldom, WebType

\* What Send does whatever it sends.
LEMMA SendType ==
    ASSUME WebType, NEW t \in Types, NEW id \in Nat, NEW n \in Nat, NEW p \in Nat,
           NEW k \in BOOLEAN, Send(t, id, n, p, k)
    PROVE  /\ sent' \in Seq(Records) /\ total' \in Nat /\ total < total'
           /\ odd' \in SUBSET Oddities /\ odd \subseteq odd'
           /\ UNCHANGED <<eof, conns>>
<1> USE DEF WebType
<1>1. [start |-> total, type |-> t, id |-> id, len |-> n, pad |-> p, keep |-> k] \in Records
  BY DEF Records
<1>2. sent' \in Seq(Records)
  BY <1>1 DEF Send
<1>3. total' \in Nat /\ total < total'
  BY ConstantTypes DEF Send
<1>4. OddityOf(t, id, n, p) \subseteq Oddities
  BY DEF OddityOf
<1> QED BY <1>2, <1>3, <1>4 DEF Send

LEMMA SendAdds ==
    ASSUME WebType, NEW t \in Types, NEW id \in Nat, NEW n \in Nat, NEW p \in Nat,
           NEW k \in BOOLEAN, Send(t, id, n, p, k), odd' = {},
           NEW r, r = [start |-> total, type |-> t, id |-> id, len |-> n, pad |-> p, keep |-> k]
    PROVE  Adds(r)
<1> USE DEF WebType
<1>1. r \in Records /\ r.start = total
  BY DEF Records
<1>2. sent' = Append(sent, r) /\ total' = RecordEnd(r)
  BY ConstantTypes DEF Send, RecordEnd
<1>3. sent' \in Seq(Records) /\ Len(sent') = Len(sent) + 1 /\ Len(sent) \in Nat
  BY <1>1, <1>2
<1>4. /\ \A i \in 1..Len(sent) : sent'[i] = sent[i]
      /\ sent'[Len(sent) + 1] = r
  BY <1>1, <1>2
<1>5. 1..Len(sent') = 1..Len(sent) \cup {Len(sent) + 1}
  BY <1>3
<1>6. Sent' = {sent'[i] : i \in 1..Len(sent')}
  BY DEF Sent
<1>7. Sent' = Sent \cup {r}
  BY <1>4, <1>5, <1>6 DEF Sent
<1>8. odd = {}
  BY DEF Send
<1> QED BY <1>1, <1>2, <1>3, <1>7, <1>8 DEF Send, Adds

\* What is sent when it is not odd.
LEMMA SendPlain ==
    ASSUME NEW t, NEW id, NEW n \in Nat, NEW p \in Nat, NEW k, Send(t, id, n, p, k), odd' = {}
    PROVE  /\ t # "abort"
           /\ t # "begin" => id \in {0, active} \/ n # 0
           /\ id = 0 => t = "values" \/ n = 0
           /\ id # 0 /\ (t = "begin" \/ n = 0) => p = 0
<1>1. OddityOf(t, id, n, p) = {}
  BY DEF Send
<1>2. "skipped" \in Oddities /\ "unread" \in Oddities /\ "padded" \in Oddities /\ "aborted" \in Oddities
  BY DEF Oddities
<1>3. /\ t # "abort"
      /\ ~(t # "begin" /\ id \notin {0, active} /\ n = 0)
      /\ ~(t # "values" /\ id = 0 /\ n > 0)
      /\ ~(id # 0 /\ p > 0 /\ (t = "begin" \/ n = 0))
  BY <1>1, <1>2 DEF OddityOf
<1> QED BY <1>3

LEMMA ServerCases ==
    ASSUME WebType, odd' = {},
           \/ ServerBegin \/ ServerAbort \/ ServerExtra
           \/ \E t \in StreamTypes : ServerStream(t) \/ ServerEnd(t)
    PROVE  \E n : AddsBegin(n) \/ AddsStream(n) \/ AddsEnd(n) \/ AddsExtra(n)
<1> USE ConstantTypes DEF WebType
<1>1. CASE ServerBegin
  <2>1. PICK id \in Ids, p \in Pads, k \in BOOLEAN :
           Seldom(p > 0) /\ Send("begin", id, BODY, p, k) /\ active' = id
    BY <1>1 DEF ServerBegin
  <2> DEFINE n == [start |-> total, type |-> "begin", id |-> id, len |-> BODY, pad |-> p, keep |-> k]
  <2>2. "begin" \in Types /\ id \in Nat /\ id # 0 /\ p \in Nat /\ (p > 0) \in BOOLEAN
    BY ReaderAssumption DEF Types
  <2>3. Adds(n) /\ p = 0 /\ extras' \in 0..MaxExtras
    <3>1. Adds(n)
      BY <2>1, <2>2, SendAdds
    <3>2. p = 0
      BY <2>1, <2>2, SendPlain
    <3>3. extras' \in 0..MaxExtras
      BY <2>1, <2>2, SeldomType
    <3> QED BY <3>1, <3>2, <3>3
  <2>4. AddsBegin(n)
    BY <1>1, <2>1, <2>3 DEF ServerBegin, AddsBegin
  <2> QED BY <2>4
<1>2. CASE ServerExtra
  <2>1. PICK x \in Extras : /\ x.id # active
                            /\ active = 0 => x.id = 0
                            /\ x.type = "begin" => \A r \in RecordsOf("begin", active) : ~r.keep
                            /\ Send(x.type, x.id, x.len, x.pad, FALSE)
    BY <1>2 DEF ServerExtra
  <2> DEFINE n == [start |-> total, type |-> x.type, id |-> x.id, len |-> x.len, pad |-> x.pad, keep |-> FALSE]
  <2>2. x.type \in Types /\ x.id \in Nat /\ x.len \in Nat /\ x.pad \in Nat
    BY ReaderAssumption
  <2>3. /\ Adds(n)
        /\ x.type # "begin" => x.id \in {0, active} \/ x.len # 0
        /\ x.id = 0 => x.type = "values" \/ x.len = 0
        /\ x.id # 0 /\ x.type = "begin" => x.pad = 0
    <3>1. Adds(n)
      BY <2>1, <2>2, SendAdds
    <3>2. Send(x.type, x.id, x.len, x.pad, FALSE)
      BY <2>1
    <3>3. /\ x.type # "begin" => x.id \in {0, active} \/ x.len # 0
          /\ x.id = 0 => x.type = "values" \/ x.len = 0
          /\ x.id # 0 /\ (x.type = "begin" \/ x.len = 0) => x.pad = 0
      BY ONLY <2>2, <3>2, odd' = {}, SendPlain, Zenon
    <3> QED BY <3>1, <3>3
  <2>4. extras' \in 0..MaxExtras
    BY <1>2, SeldomType DEF ServerExtra
  <2>5. x.type = "begin" => x.id # 0 /\ x.len = BODY
    BY ReaderAssumption
  <2>6. x.id = 0 /\ x.type = "values" => x.len % Pair = 0
    BY ReaderAssumption
  <2>7. UNCHANGED <<active, began, stage>>
    BY <1>2 DEF ServerExtra
  <2>8. x.id # 0 => x.len > 0
    BY <2>1, <2>2, <2>3, <2>5
  <2>9. AddsExtra(n)
    BY <2>1, <2>3, <2>4, <2>5, <2>6, <2>7, <2>8 DEF AddsExtra
  <2> QED BY <2>9
<1>3. ASSUME NEW t \in StreamTypes, ServerStream(t)
      PROVE  \E n : AddsStream(n)
  <2>1. PICK s \in Shapes : Send(t, active, s[1], s[2], FALSE)
    BY <1>3 DEF ServerStream
  <2> DEFINE n == [start |-> total, type |-> t, id |-> active, len |-> s[1], pad |-> s[2], keep |-> FALSE]
  <2>2. t \in Types /\ active \in Nat /\ s[1] \in Nat /\ s[1] > 0 /\ s[2] \in Nat
    BY ReaderAssumption DEF Types
  <2>3. Adds(n)
    BY <2>1, <2>2, SendAdds
  <2>4. AddsStream(n)
    BY <1>3, <2>2, <2>3 DEF ServerStream, AddsStream
  <2> QED BY <2>4
<1>4. ASSUME NEW t \in StreamTypes, ServerEnd(t)
      PROVE  \E n : AddsEnd(n)
  <2>1. PICK p \in Pads : Seldom(p > 0) /\ Send(t, active, 0, p, FALSE)
    BY <1>4 DEF ServerEnd
  <2> DEFINE n == [start |-> total, type |-> t, id |-> active, len |-> 0, pad |-> p, keep |-> FALSE]
  <2>2. t \in Types /\ active \in Nat /\ active # 0 /\ 0 \in Nat /\ p \in Nat /\ (p > 0) \in BOOLEAN
    BY <1>4, ReaderAssumption DEF Types, ServerEnd
  <2>3. Adds(n) /\ p = 0 /\ extras' \in 0..MaxExtras
    <3>1. Adds(n)
      BY <2>1, <2>2, SendAdds
    <3>2. p = 0
      BY <2>1, <2>2, SendPlain
    <3>3. extras' \in 0..MaxExtras
      BY <2>1, <2>2, SeldomType
    <3> QED BY <3>1, <3>2, <3>3
  <2>4. AddsEnd(n)
    BY <1>4, <2>3 DEF ServerEnd, AddsEnd
  <2> QED BY <2>4
<1>5. ~ServerAbort
  <2> SUFFICES ASSUME ServerAbort PROVE FALSE
    OBVIOUS
  <2>1. Send("abort", active, 0, 0, FALSE) /\ "abort" \in Types /\ active \in Nat /\ 0 \in Nat
    BY ReaderAssumption DEF ServerAbort, Types
  <2> QED BY <2>1, SendPlain
<1> QED BY <1>1, <1>2, <1>3, <1>4, <1>5

\* What the web server sends is of the right types, odd or not.
LEMMA ServerSends ==
    ASSUME WebType,
           \/ ServerBegin \/ ServerAbort \/ ServerExtra
           \/ \E t \in StreamTypes : ServerStream(t) \/ ServerEnd(t)
    PROVE  WebType' /\ total < total' /\ odd \subseteq odd'
<1> DEFINE Typed == /\ sent' \in Seq(Records) /\ total' \in Nat /\ total < total'
                    /\ odd' \in SUBSET Oddities /\ odd \subseteq odd'
                    /\ UNCHANGED <<eof, conns>>
<1>1. ASSUME NEW t \in Types, NEW id \in Nat, NEW n \in Nat, NEW p \in Nat, NEW k \in BOOLEAN,
             Send(t, id, n, p, k)
      PROVE  Typed
  BY <1>1, SendType
<1>2. active \in Nat /\ 0 \in Nat /\ BODY \in Nat /\ Ids \subseteq Nat
  BY ReaderAssumption DEF WebType
<1> HIDE DEF Typed
<1>3. CASE ServerBegin
  <2>1. PICK id \in Ids, p \in Pads, k \in BOOLEAN :
           Seldom(p > 0) /\ Send("begin", id, BODY, p, k) /\ active' = id
    BY <1>3 DEF ServerBegin
  <2>2. "begin" \in Types /\ id \in Nat /\ p \in Nat /\ (p > 0) \in BOOLEAN
    BY ReaderAssumption DEF Types
  <2>3. Typed /\ extras' \in 0..MaxExtras
    BY <1>1, <1>2, <2>1, <2>2, SeldomType
  <2>4. began' = total /\ stage' = "params" /\ active' \in Ids
    BY <1>3, <2>1 DEF ServerBegin
  <2> QED BY <2>3, <2>4 DEF Typed, WebType
<1>4. CASE ServerAbort
  <2>1. Seldom(TRUE) /\ Send("abort", active, 0, 0, FALSE) /\ "abort" \in Types
        /\ stage' = "aborted" /\ UNCHANGED <<active, began>>
    BY <1>4 DEF ServerAbort, Types
  <2>2. Typed /\ extras' \in 0..MaxExtras
    BY <1>1, <1>2, <2>1, SeldomType
  <2> QED BY <2>1, <2>2 DEF Typed, WebType
<1>5. CASE ServerExtra
  <2>1. PICK x \in Extras : Send(x.type, x.id, x.len, x.pad, FALSE)
    BY <1>5 DEF ServerExtra
  <2>2. x.type \in Types /\ x.id \in Nat /\ x.len \in Nat /\ x.pad \in Nat
    BY ReaderAssumption
  <2>3. Typed /\ extras' \in 0..MaxExtras
    BY <1>1, <1>5, <2>1, <2>2, SeldomType DEF ServerExtra
  <2>4. UNCHANGED <<active, began, stage>>
    BY <1>5 DEF ServerExtra
  <2> QED BY <2>3, <2>4 DEF Typed, WebType
<1>6. ASSUME NEW t \in StreamTypes, ServerStream(t)
      PROVE  WebType' /\ total < total' /\ odd \subseteq odd'
  <2>1. PICK s \in Shapes : Send(t, active, s[1], s[2], FALSE)
    BY <1>6 DEF ServerStream
  <2>2. t \in Types /\ s[1] \in Nat /\ s[2] \in Nat
    BY ReaderAssumption DEF Types
  <2>3. Typed
    BY <1>1, <1>2, <2>1, <2>2
  <2>4. UNCHANGED <<active, began, stage, extras>>
    BY <1>6 DEF ServerStream
  <2> QED BY <2>3, <2>4 DEF Typed, WebType
<1>7. ASSUME NEW t \in StreamTypes, ServerEnd(t)
      PROVE  WebType' /\ total < total' /\ odd \subseteq odd'
  <2>1. PICK p \in Pads : Seldom(p > 0) /\ Send(t, active, 0, p, FALSE)
    BY <1>7 DEF ServerEnd
  <2>2. t \in Types /\ p \in Nat /\ (p > 0) \in BOOLEAN
    BY ReaderAssumption DEF Types
  <2>3. Typed /\ extras' \in 0..MaxExtras
    BY <1>1, <1>2, <2>1, <2>2, SeldomType
  <2>4. UNCHANGED <<active, began>> /\ stage' \in {"stdin", "all"}
    BY <1>7 DEF ServerEnd
  <2> QED BY <2>3, <2>4 DEF Typed, WebType
<1> QED BY <1>3, <1>4, <1>5, <1>6, <1>7

LEMMA AddsType ==
    ASSUME WebType, NEW n, Adds(n)
    PROVE  /\ n \in Sent' /\ total \in Nat /\ total' \in Nat /\ total < total'
           /\ n.start = total /\ n.type \in Types /\ n.id \in Nat /\ n.len \in Nat
           /\ n.pad \in Nat /\ total' = total + HEADER + n.len + n.pad
           /\ \A r \in Sent' : r \in Sent \/ r = n
           /\ \A r \in Sent : r \in Sent'
  BY ConstantTypes DEF Adds, Records, RecordEnd, WebType

LEMMA BoundaryStays ==
    ASSUME WebType, NEW n, Adds(n), NEW p, Boundary(p)
    PROVE  Boundary(p)'
  BY AddsType DEF Boundary

LEMMA AddsTile ==
    ASSUME WebType, TileInv, NEW n, Adds(n)
    PROVE  TileInv'
<1>1. ASSUME NEW r \in Sent PROVE RecordEnd(r) <= total' /\ Boundary(RecordEnd(r))' /\ RecordEnd(r) \in Nat
  BY AddsType, BoundaryStays, EndOrBehind DEF TileInv, WebType
<1>2. RecordEnd(n) <= total' /\ Boundary(RecordEnd(n))'
  BY AddsType DEF Adds, Boundary
<1>3. ASSUME NEW r \in Sent, NEW q \in Sent
      PROVE  r = q \/ RecordEnd(r) <= q.start \/ RecordEnd(q) <= r.start
  BY DEF TileInv
<1>4. ASSUME NEW r \in Sent PROVE RecordEnd(r) <= n.start
  BY AddsType DEF TileInv
<1> QED BY <1>1, <1>2, <1>3, <1>4, AddsType DEF TileInv

\* Content that is added lies behind everything that was sent.
LEMMA AddsContent ==
    ASSUME WebType, NEW n, Adds(n), NEW t, NEW id, UNCHANGED began
    PROVE  /\ Content(t, id) \subseteq Content(t, id)'
           /\ \A c \in Content(t, id)' : c \in Content(t, id) \/ c >= total
           /\ n.type # t \/ n.id # id \/ n.len = 0 => Content(t, id)' = Content(t, id)
<1> USE DEF WebType
<1>1. sent' \in Seq(Records)
  BY DEF Adds
<1>2. ASSUME NEW c
      PROVE  c \in Content(t, id)' <=>
                 /\ c \in Nat
                 /\ \E r \in Sent' : /\ r.type = t /\ r.id = id /\ r.start >= began
                                     /\ r.start + HEADER <= c /\ c < ContentEnd(r)
  <2>1. ContentEnd(n) = n.start + HEADER + n.len
    BY DEF ContentEnd
  <2>2. Sent' \subseteq Records
    BY AddsType, SentType DEF Adds
  <2>3. ASSUME NEW r \in Sent'
        PROVE  c \in r.start + HEADER .. r.start + HEADER + r.len - 1 <=>
                  c \in Nat /\ r.start + HEADER <= c /\ c < ContentEnd(r)
    BY <2>2, ConstantTypes DEF ContentEnd, Records
  <2> QED BY <2>3 DEF Content, RecordsOf
<1>3. Content(t, id) \subseteq Content(t, id)'
  BY <1>2, InContent, AddsType
<1>4. \A c \in Content(t, id)' : c \in Content(t, id) \/ c >= total
  BY <1>2, InContent, AddsType, ConstantTypes
<1>5. ASSUME n.type # t \/ n.id # id \/ n.len = 0 PROVE Content(t, id)' = Content(t, id)
  <2>1. ASSUME NEW c \in Content(t, id)' PROVE c \in Content(t, id)
    <3>1. PICK r \in Sent' : /\ r.type = t /\ r.id = id /\ r.start >= began
                             /\ r.start + HEADER <= c /\ c < ContentEnd(r) /\ c \in Nat
      BY <1>2, <2>1
    <3>2. r # n
      BY <1>5, <3>1, AddsType, ConstantTypes DEF ContentEnd
    <3> QED BY <3>1, <3>2, AddsType, InContent
  <2> QED BY <1>3, <2>1
<1> QED BY <1>3, <1>4, <1>5

LEMMA BeginKeepsWeb ==
    ASSUME WebInv, NEW n, AddsBegin(n)
    PROVE  WebInv'
<1> USE DEF WebInv
<1>1. Adds(n)
  BY DEF AddsBegin
<1>2. WebType'
  BY <1>1, AddsType, ReaderAssumption DEF WebType, AddsBegin, Adds
<1>3. FormInv'
  <2>1. n.id # 0
    BY ReaderAssumption DEF AddsBegin
  <2>2. n.len # 0
    BY ConstantTypes DEF AddsBegin
  <2> QED BY <1>1, <2>1, <2>2, AddsType DEF FormInv, AddsBegin
<1>4. \A r \in Sent' : r.start <= total
  BY <1>1, AddsType, EndOrBehind, SentType DEF TileInv, WebType
<1>5. ASSUME NEW r \in Sent', r.start > began' PROVE FALSE
  <2>1. began' = total /\ r.start \in Nat
    BY <1>1, <1>2, SentType, AddsType DEF AddsBegin, WebType
  <2> QED BY <1>4, <1>5, <2>1, AddsType, <1>1
<1>6. ActiveInv'
  <2>1. stage' = "params" /\ n \in Sent' /\ n.start = began' /\ n.type = "begin" /\ n.id = active'
    BY <1>1, AddsType DEF AddsBegin
  <2>2. OthersInv'
    BY <1>5 DEF OthersInv
  <2>3. OrderInv'
    BY <1>5, <2>1 DEF OrderInv, StreamEnd, Own
  <2>4. \E b \in Sent' : Begins(b)'
    BY <2>1 DEF Begins
  <2> QED BY <2>1, <2>2, <2>3, <2>4 DEF ActiveInv, WholePairs
<1> QED BY <1>1, <1>2, <1>3, <1>6, AddsTile

\* What another record leaves as it is.
LEMMA ActiveStays ==
    ASSUME WebInv, NEW n, Adds(n), UNCHANGED <<active, began>>, active # 0
    PROVE  /\ began \in Nat /\ began < total
           /\ \A b \in Sent : Begins(b)' <=> Begins(b)
           /\ \A r \in Sent, t \in Types : (Own(r, t)' <=> Own(r, t)) /\ (StreamEnd(r, t)' <=> StreamEnd(r, t))
           /\ ~Begins(n)'
           /\ \E b \in Sent : Begins(b) /\ Begins(b)'
           /\ \A r \in Sent : r.start < total /\ r.start \in Nat
<1> USE DEF WebInv
<1>1. PICK b \in Sent : Begins(b)
  BY DEF ActiveInv
<1>2. began \in Nat /\ began < total
  BY <1>1, EndOrBehind, SentType DEF Begins, TileInv, WebType
<1>3. \A r \in Sent : r.start < total /\ r.start \in Nat
  BY EndOrBehind, SentType DEF TileInv, WebType
<1>4. \A r \in Sent : r \in Sent'
  BY AddsType
<1>5. ~Begins(n)'
  BY <1>2, AddsType DEF Begins, Adds
<1> QED BY <1>1, <1>2, <1>3, <1>4, <1>5 DEF Begins, Own, StreamEnd

LEMMA StreamKeepsWeb ==
    ASSUME WebInv, NEW n, AddsStream(n)
    PROVE  WebInv'
<1> USE DEF WebInv
<1>1. Adds(n) /\ UNCHANGED <<active, began, stage>> /\ active # 0
  BY DEF AddsStream
<1>2. WebType'
  BY <1>1, AddsType DEF WebType, AddsStream, Adds
<1>3. /\ n.type \in StreamTypes /\ stage = n.type /\ n.id = active /\ n.len > 0
      /\ n.len # 0 /\ n.type \in Types /\ n.type # "begin"
  BY <1>1, AddsType DEF AddsStream, Types, StreamTypes
<1>4. FormInv'
  BY <1>1, <1>3, AddsType DEF FormInv, StreamTypes
<1>5. OthersInv'
  <2>1. OthersInv
    BY <1>1 DEF ActiveInv
  <2> QED BY <1>1, <1>3, <2>1, AddsType, ActiveStays DEF OthersInv
<1>6. OrderInv'
  <2>1. OrderInv
    BY <1>1 DEF ActiveInv
  <2>2. "params" \in Types /\ "stdin" \in Types
    BY DEF Types, StreamTypes
  <2>3. ~StreamEnd(n, "params")' /\ ~StreamEnd(n, "stdin")' /\ (Own(n, "params")' => stage = "params")
        /\ (Own(n, "stdin")' => stage = "stdin")
    BY <1>3 DEF StreamEnd, Own
  <2>4. \A r \in Sent' : r \in Sent \/ r = n
    BY <1>1, AddsType
  <2>5. stage = "params" => \A r \in Sent' : ~StreamEnd(r, "params")' /\ ~Own(r, "stdin")'
    BY <1>1, <2>1, <2>2, <2>3, <2>4, ActiveStays DEF OrderInv
  <2>6. stage # "params" => \E e \in Sent' : StreamEnd(e, "params")'
    BY <1>1, <2>1, <2>2, ActiveStays, AddsType DEF OrderInv
  <2>7. stage = "stdin" => \A r \in Sent' : ~StreamEnd(r, "stdin")'
    BY <1>1, <2>1, <2>2, <2>3, <2>4, ActiveStays DEF OrderInv
  <2>8. ASSUME NEW e \in Sent', NEW r \in Sent'
        PROVE  /\ StreamEnd(e, "params")' /\ Own(r, "params")' => r.start <= e.start
               /\ StreamEnd(e, "params")' /\ Own(r, "stdin")' => e.start < r.start
               /\ StreamEnd(e, "stdin")' /\ Own(r, "stdin")' => r.start <= e.start
    <3>1. CASE e = n
      BY <2>3, <3>1
    <3>2. CASE e \in Sent /\ r \in Sent
      BY <1>1, <2>1, <2>2, <3>2, ActiveStays DEF OrderInv
    <3>3. CASE e \in Sent /\ r = n
      <4>1. e.start < r.start
        BY <1>1, <3>3, ActiveStays, AddsType
      <4>2. (StreamEnd(e, "params")' => stage # "params") /\ (StreamEnd(e, "stdin")' => stage # "stdin")
        BY <1>1, <2>1, <2>2, <3>3, ActiveStays DEF OrderInv
      <4> QED BY <2>3, <3>3, <4>1, <4>2
    <3> QED BY <2>4, <3>1, <3>2, <3>3
  <2> QED BY <1>1, <2>5, <2>6, <2>7, <2>8 DEF OrderInv
<1>7. WholePairs'
  <2>1. WholePairs
    BY <1>1 DEF ActiveInv
  <2>2. CASE n.type # "params"
    BY <1>1, <2>1, <2>2, AddsContent DEF WholePairs
  <2>3. CASE n.type = "params"
    BY <1>1, <1>3, <2>3 DEF WholePairs
  <2> QED BY <2>2, <2>3
<1>8. \E b \in Sent' : Begins(b)'
  BY <1>1, ActiveStays, AddsType
<1> QED BY <1>1, <1>2, <1>3, <1>4, <1>5, <1>6, <1>7, <1>8, AddsTile DEF ActiveInv, StreamTypes

LEMMA EndKeepsWeb ==
    ASSUME WebInv, NEW n, AddsEnd(n)
    PROVE  WebInv'
<1> USE DEF WebInv
<1>1. Adds(n) /\ UNCHANGED <<active, began>> /\ active # 0
  BY DEF AddsEnd
<1>2. WebType'
  BY <1>1, AddsType DEF WebType, AddsEnd, Adds
<1>3. /\ n.type \in StreamTypes /\ stage = n.type /\ n.id = active /\ n.len = 0 /\ n.pad = 0
      /\ n.type \in Types /\ n.type # "begin"
      /\ stage' = IF n.type = "params" THEN "stdin" ELSE "all"
      /\ n.type = "params" \/ n.type = "stdin"
  BY <1>1, AddsType DEF AddsEnd, Types, StreamTypes
<1>4. FormInv'
  BY <1>1, <1>3, AddsType DEF FormInv
<1>5. OthersInv'
  <2>1. OthersInv
    BY <1>1 DEF ActiveInv
  <2> QED BY <1>1, <1>3, <2>1, AddsType, ActiveStays DEF OthersInv
<1>6. OrderInv'
  <2>1. OrderInv
    BY <1>1 DEF ActiveInv
  <2>2. "params" \in Types /\ "stdin" \in Types
    BY DEF Types, StreamTypes
  <2>3. /\ StreamEnd(n, "params")' => stage = "params"
        /\ StreamEnd(n, "stdin")' => stage = "stdin"
        /\ Own(n, "params")' => stage = "params"
        /\ Own(n, "stdin")' => stage = "stdin"
    BY <1>3 DEF StreamEnd, Own
  <2>4. \A r \in Sent' : r \in Sent \/ r = n
    BY <1>1, AddsType
  <2>5. stage' # "params"
    BY <1>3
  <2>6. \E e \in Sent' : StreamEnd(e, "params")'
    <3>1. CASE n.type = "params"
      <4>1. StreamEnd(n, "params")'
        BY <1>1, <1>3, <3>1, AddsType, ActiveStays DEF StreamEnd, Own
      <4> QED BY <1>1, <4>1, AddsType
    <3>2. CASE n.type # "params"
      <4>1. stage # "params"
        BY <1>3, <3>2
      <4> QED BY <1>1, <2>1, <2>2, <4>1, ActiveStays, AddsType DEF OrderInv
    <3> QED BY <3>1, <3>2
  <2>7. stage' = "stdin" => \A r \in Sent' : ~StreamEnd(r, "stdin")'
    <3> SUFFICES ASSUME stage' = "stdin", NEW r \in Sent', StreamEnd(r, "stdin")' PROVE FALSE
      OBVIOUS
    <3>1. stage = "params"
      BY <1>3
    <3>2. r \in Sent
      BY <2>3, <2>4, <3>1
    <3>3. StreamEnd(r, "stdin")
      BY <1>1, <2>2, <3>2, ActiveStays
    <3> QED BY <2>1, <3>1, <3>2, <3>3 DEF OrderInv, StreamEnd
  <2>8. ASSUME NEW e \in Sent', NEW r \in Sent'
        PROVE  /\ StreamEnd(e, "params")' /\ Own(r, "params")' => r.start <= e.start
               /\ StreamEnd(e, "params")' /\ Own(r, "stdin")' => e.start < r.start
               /\ StreamEnd(e, "stdin")' /\ Own(r, "stdin")' => r.start <= e.start
    <3>1. CASE e = n /\ r = n
      <4>1. r.start <= e.start
        BY <1>1, <3>1, AddsType
      <4> QED BY <2>3, <3>1, <4>1
    <3>2. CASE e \in Sent /\ r \in Sent
      BY <1>1, <2>1, <2>2, <3>2, ActiveStays DEF OrderInv
    <3>3. CASE e \in Sent /\ r = n
      <4>1. e.start < r.start /\ e.start <= r.start
        BY <1>1, <3>3, ActiveStays, AddsType
      <4>2. (StreamEnd(e, "params")' => stage # "params") /\ (StreamEnd(e, "stdin")' => stage # "stdin")
        BY <1>1, <2>1, <2>2, <3>3, ActiveStays DEF OrderInv
      <4> QED BY <2>3, <3>3, <4>1, <4>2
    <3>4. CASE e = n /\ r \in Sent
      <4>1. r.start <= e.start
        BY <1>1, <3>4, ActiveStays, AddsType
      <4>2. stage = "params" => ~Own(r, "stdin")'
        BY <1>1, <2>1, <2>2, <3>4, ActiveStays DEF OrderInv
      <4> QED BY <2>3, <3>4, <4>1, <4>2
    <3> QED BY <2>4, <3>1, <3>2, <3>3, <3>4
  <2> QED BY <2>5, <2>6, <2>7, <2>8 DEF OrderInv
<1>7. WholePairs'
  <2>1. WholePairs
    BY <1>1 DEF ActiveInv
  <2>2. Content("params", active)' = Content("params", active)
    BY <1>1, <1>3, AddsContent
  <2>3. Cardinality(Content("params", active)) % Pair = 0
    BY <1>3, <2>1 DEF WholePairs, AddsEnd
  <2> QED BY <2>2, <2>3 DEF WholePairs
<1>8. \E b \in Sent' : Begins(b)'
  BY <1>1, ActiveStays, AddsType
<1> QED BY <1>1, <1>2, <1>3, <1>4, <1>5, <1>6, <1>7, <1>8, AddsTile DEF ActiveInv

LEMMA ExtraKeepsWeb ==
    ASSUME WebInv, NEW n, AddsExtra(n)
    PROVE  WebInv'
<1> USE DEF WebInv
<1>1. Adds(n) /\ UNCHANGED <<active, began, stage>>
  BY DEF AddsExtra
<1>2. WebType'
  BY <1>1, AddsType DEF WebType, AddsExtra, Adds
<1>3. n.id # active /\ (n.id # 0 => n.len # 0)
  BY <1>1, AddsType DEF AddsExtra
<1>4. FormInv'
  BY <1>1, <1>3, AddsType DEF FormInv, AddsExtra
<1>5. ASSUME active # 0 PROVE ActiveInv'
  <2>1. OthersInv'
    <3>1. OthersInv
      BY <1>5 DEF ActiveInv
    <3>2. n.type = "begin" => \A b \in Sent : Begins(b) => ~b.keep
      <4>1. \A b \in Sent : Begins(b) => b \in RecordsOf("begin", active)
        BY DEF Begins, RecordsOf, WebType
      <4> QED BY <4>1 DEF AddsExtra
    <3> QED BY <1>1, <1>3, <1>5, <3>1, <3>2, AddsType, ActiveStays DEF OthersInv
  <2>2. OrderInv'
    <3>1. OrderInv
      BY <1>5 DEF ActiveInv
    <3>2. "params" \in Types /\ "stdin" \in Types
      BY DEF Types, StreamTypes
    <3>3. \A t : ~Own(n, t)' /\ ~StreamEnd(n, t)'
      BY <1>1, <1>3 DEF Own, StreamEnd
    <3>4. \A r \in Sent' : r \in Sent \/ r = n
      BY <1>1, AddsType
    <3>5. \A r \in Sent : r \in Sent'
      BY <1>1, AddsType
    <3>6. \A r \in Sent, t \in Types : (Own(r, t)' <=> Own(r, t)) /\ (StreamEnd(r, t)' <=> StreamEnd(r, t))
      BY <1>1, <1>5, ActiveStays
    <3>7. stage = "params" => \A r \in Sent' : ~StreamEnd(r, "params")' /\ ~Own(r, "stdin")'
      BY <3>1, <3>2, <3>3, <3>4, <3>6 DEF OrderInv
    <3>8. stage # "params" => \E e \in Sent' : StreamEnd(e, "params")'
      BY <3>1, <3>2, <3>5, <3>6 DEF OrderInv
    <3>9. stage = "stdin" => \A r \in Sent' : ~StreamEnd(r, "stdin")'
      BY <3>1, <3>2, <3>3, <3>4, <3>6 DEF OrderInv
    <3>10. ASSUME NEW e \in Sent', NEW r \in Sent'
          PROVE  /\ StreamEnd(e, "params")' /\ Own(r, "params")' => r.start <= e.start
                 /\ StreamEnd(e, "params")' /\ Own(r, "stdin")' => e.start < r.start
                 /\ StreamEnd(e, "stdin")' /\ Own(r, "stdin")' => r.start <= e.start
      BY <3>1, <3>2, <3>3, <3>4, <3>6 DEF OrderInv
    <3> QED BY <1>1, <3>7, <3>8, <3>9, <3>10 DEF OrderInv
  <2>3. WholePairs'
    <3>1. WholePairs
      BY <1>5 DEF ActiveInv
    <3>2. Content("params", active)' = Content("params", active)
      BY <1>1, <1>3, AddsContent
    <3> QED BY <1>1, <3>1, <3>2 DEF WholePairs
  <2>4. \E b \in Sent' : Begins(b)'
    BY <1>1, <1>5, ActiveStays, AddsType
  <2> QED BY <1>1, <1>5, <2>1, <2>2, <2>3, <2>4 DEF ActiveInv
<1> QED BY <1>1, <1>2, <1>4, <1>5, AddsTile DEF ActiveInv

-----------------------------------------------------------------------------
(* The library between the records *)

\* What has been taken out of the record, delivered bytes included that wait in the
\* buffer; and where the header that is read next begins, or the one being read.
Cursor == IF stop > rdNext THEN stop ELSE rdNext
HeaderStart == rdNext - (IF fill = "process" THEN HEADER ELSE headerLen)

Reached == pc \in {"params", "app", "get"}
Begun == Reached \/ (pc = "begin" /\ (isBeginProcessed \/ inner = "body"))

\* The calls: which part of the library runs with which flags.
ControlInv ==
    /\ pc \in {"accept", "app"} => fill = "off" /\ inner = "none"
    /\ pc # "accept" => ipcFd
    /\ pc = "begin" => type = "none"
    /\ pc = "params" => type = "params"
    /\ pc \in {"app", "get"} => type = "stdin"
    /\ fill # "off" => ~isClosed /\ stop <= rdNext
    /\ eorStop <=> fill = "process" \/ inner # "none"
    /\ fill = "process" => inner = "none" /\ headerLen = 0
    /\ Reached => isBeginProcessed
    /\ inner = "body" => pc = "begin" /\ ~isBeginProcessed
    /\ pc = "begin" /\ isBeginProcessed => fill = "off" /\ inner = "none" /\ ~failed
    /\ pc \in {"begin", "params"} /\ failed => fill = "off" /\ isClosed
    /\ isClosed /\ pc # "accept" => stop <= rdNext
    /\ inner = "body" /\ (fill # "off" \/ isClosed) => inWant > 0

\* The record r is being read: its content up to Cursor, or else its padding up to
\* rdNext.  What is skipped is another request's, what is delivered the stream's own.
Mine(r) == r.start > began /\ r.id = requestId /\ r.type = type
Within(r) ==
    /\ headerLen = 0 /\ fill # "process"
    /\ r.start + HEADER <= rdNext
    /\ \/ Cursor + contentLen = ContentEnd(r) /\ paddingLen = r.pad
       \/ /\ contentLen = 0 /\ stop <= rdNext
          /\ ContentEnd(r) <= rdNext /\ rdNext + paddingLen = RecordEnd(r)
    /\ skip => contentLen > 0 /\ stop <= rdNext /\ r.id # requestId /\ inner = "none"
    /\ ~skip /\ inner = "none" /\ (contentLen > 0 \/ rdNext < stop) => Mine(r)
    /\ inner = "values" => r.id = 0
    /\ inner = "body" => Begins(r) /\ rdNext + inWant = ContentEnd(r)

\* No record is being read.  Where one of the next ones begins is known, but when the
\* reader starts on a kept connection, or after an error.
Between == contentLen = 0 /\ paddingLen = 0 /\ stop <= rdNext /\ ~skip /\ inner = "none"
Live == pc # "accept" /\ (fill # "off" \/ inner # "none" \/ ~failed \/ ~isClosed)
Needed == \/ Reached /\ (pc = "params" \/ ~failed)
          \/ pc = "begin" /\ isBeginProcessed
PlaceInv == Live => \/ Between /\ (Needed => Boundary(HeaderStart))
                    \/ \E r \in Sent : Within(r)

\* Nothing of a request that could be taken for another one lies ahead of p.
AheadOf(p) ==
    /\ active # 0 => p <= began
    /\ \A r \in Sent : r.start >= p =>
          /\ r.type = "begin" => active # 0 /\ r.start >= began
          /\ r.id # 0 /\ r.len = 0 => r.id = requestId \/ (active # 0 /\ r.start > began)
          /\ r.id # 0 /\ r.id = requestId => r.type = "stdin" \/ (active # 0 /\ r.start >= began)

\* FCGX_Accept_r looks for a begin record.
Looking == pc = "begin" /\ ~isBeginProcessed /\ inner # "body" /\ (fill # "off" \/ inner # "none")
BeforeInv ==
    /\ pc = "accept" /\ ipcFd => AheadOf(buffStop)
    /\ Looking => AheadOf(HeaderStart)

\* The request that was begun is the one the web server waits for.
BegunInv == Begun =>
    /\ active = requestId /\ active # 0
    /\ isBeginProcessed => \E b \in Sent :
          /\ Begins(b) /\ b.keep = keepConnection
          /\ RecordEnd(b) <= HeaderStart
          /\ pc = "begin" => RecordEnd(b) = HeaderStart

\* All the content the library has passed was delivered, and the end of a stream is
\* met where it is.
GotInv == Reached /\ ~failed =>
    \A t \in StreamTypes : got[t] = {c \in Content(t, requestId) : c < rdNext}
EndInv == Reached /\ ~failed /\ isClosed /\ inner = "none" =>
    headerLen = 0 /\ \E e \in Sent : StreamEnd(e, type) /\ e.start + HEADER = rdNext

\* The end of FCGI_PARAMS lies ahead while they are read, and where an error has cut
\* them short; it lies behind once they are whole.
Unended == \/ pc = "params" /\ (failed \/ ~isClosed \/ inner # "none")
           \/ pc \in {"app", "get"} /\ failed /\ ~isClosed
UnendedInv == Unended => \A e \in Sent : StreamEnd(e, "params") => e.start >= HeaderStart
HandedInv == Handed /\ ~failed => \E e \in Sent : StreamEnd(e, "params") /\ e.start < HeaderStart

StreamInv == GotInv /\ DeliveredIsContent /\ EndInv /\ UnendedInv /\ HandedInv
IInv == TypeOK /\ WebInv /\ ControlInv /\ PlaceInv /\ BeforeInv /\ BegunInv /\ StreamInv

-----------------------------------------------------------------------------
LEMMA WebStays ==
    ASSUME UNCHANGED srv
    PROVE  /\ Sent' = Sent /\ total' = total /\ active' = active /\ began' = began
           /\ WebInv => WebInv'
           /\ \A p : Boundary(p)' <=> Boundary(p)
           /\ \A r : Begins(r)' <=> Begins(r)
           /\ \A r, t : StreamEnd(r, t)' <=> StreamEnd(r, t)
           /\ \A t, id : Content(t, id)' = Content(t, id)
<1>1. sent' = sent /\ total' = total /\ active' = active /\ began' = began /\ stage' = stage
      /\ eof' = eof /\ extras' = extras /\ conns' = conns /\ odd' = odd
  BY DEF srv
<1>2. Sent' = Sent
  BY <1>1 DEF Sent
<1>3. \A p : Boundary(p)' <=> Boundary(p)
  BY <1>1, <1>2 DEF Boundary
<1>4. \A r : Begins(r)' <=> Begins(r)
  BY <1>1, <1>2 DEF Begins
<1>5. \A r, t : StreamEnd(r, t)' <=> StreamEnd(r, t)
  BY <1>1, <1>2 DEF StreamEnd, Own
<1>6. \A t, id : Content(t, id)' = Content(t, id)
  BY <1>1, <1>2 DEF Content, RecordsOf
<1>7. WebInv => WebInv'
  BY <1>1, <1>2 DEF WebInv, WebType, TileInv, FormInv, ActiveInv, OthersInv, OrderInv, WholePairs,
     Boundary, Begins, Own, StreamEnd, Content, RecordsOf, RecordEnd
<1> QED BY <1>1, <1>2, <1>3, <1>4, <1>5, <1>6, <1>7

LEMMA LeastIs ==
    ASSUME NEW m \in Nat, NEW n \in Nat
    PROVE  /\ Least(m, n) \in Nat /\ Least(m, n) <= m /\ Least(m, n) <= n
           /\ Least(m, n) = m \/ Least(m, n) = n
           /\ m > 0 /\ n > 0 => Least(m, n) > 0
  BY DEF Least

LEMMA HeaderBytes ==
    ASSUME NEW k \in 0..HEADER
    PROVE  /\ k < HEADER => k % HEADER = k
           /\ k = HEADER => k % HEADER = 0
           /\ k % HEADER \in 0..HEADER - 1
  BY ConstantTypes

-----------------------------------------------------------------------------
(* Types *)

\* TypeOK but for what only the web server changes.
ReaderType ==
    /\ ipcFd \in BOOLEAN
    /\ requestId \in Nat
    /\ isBeginProcessed \in BOOLEAN /\ keepConnection \in BOOLEAN
    /\ rdNext \in Nat /\ stop \in Nat /\ buffStop \in Nat
    /\ rdNext <= buffStop /\ stop <= buffStop
    /\ isClosed \in BOOLEAN /\ failed \in BOOLEAN
    /\ type \in StreamTypes \cup {"none"}
    /\ eorStop \in BOOLEAN /\ skip \in BOOLEAN
    /\ contentLen \in Nat /\ paddingLen \in Nat
    /\ pc \in {"accept", "begin", "params", "app", "get"}
    /\ fill \in {"off", "read", "next", "process"}
    /\ headerLen \in Nat /\ headerLen < HEADER
    /\ inner \in {"none", "body", "values"}
    /\ want \in Nat /\ inWant \in Nat

LEMMA TypeParts ==
    TypeOK <=> WebType /\ ReaderType /\ buffStop <= total /\ got \in [StreamTypes -> SUBSET Nat]
<1>1. headerLen \in 0..HEADER - 1 <=> headerLen \in Nat /\ headerLen < HEADER
  BY ConstantTypes
<1> QED BY <1>1 DEF TypeOK, WebType, ReaderType

\* How far the steps get that move along the buffer.
LEMMA Moves ==
    ASSUME ReaderType
    PROVE  /\ FillDeliver => /\ stop' \in Nat /\ rdNext <= stop' /\ stop' <= buffStop
                             /\ contentLen' \in Nat /\ stop' + contentLen' = rdNext + contentLen
           /\ FillSkip => /\ rdNext' \in Nat /\ rdNext <= rdNext' /\ rdNext' <= buffStop
                          /\ contentLen' \in Nat /\ rdNext' + contentLen' = rdNext + contentLen
           /\ FillPadding => /\ rdNext' \in Nat /\ rdNext <= rdNext' /\ rdNext' <= buffStop
                             /\ paddingLen' \in Nat /\ rdNext' + paddingLen' = rdNext + paddingLen
           /\ FillHeader =>
                 /\ rdNext' \in Nat /\ rdNext <= rdNext' /\ rdNext' <= buffStop
                 /\ headerLen' \in Nat /\ headerLen' < HEADER
                 /\ \/ /\ fill' = "read" /\ rdNext' - headerLen' = rdNext - headerLen
                       /\ UNCHANGED <<stop, eorStop>>
                    \/ /\ fill' = "process" /\ headerLen' = 0 /\ rdNext' - HEADER = rdNext - headerLen
                       /\ stop' = rdNext' /\ eorStop' = TRUE
           /\ InnerTake => /\ rdNext' \in Nat /\ rdNext <= rdNext' /\ rdNext' <= stop
                           /\ inWant' \in Nat
                           /\ inner # "values" => rdNext' + inWant' = rdNext + inWant
           /\ GetStr => /\ rdNext' \in Nat /\ rdNext <= rdNext' /\ rdNext' <= stop
                        /\ got' = [got EXCEPT ![type] = @ \cup (rdNext .. rdNext' - 1)]
                        /\ want' \in Nat
                        /\ pc' = pc \/ (pc = "get" /\ pc' = "app")
<1> USE ConstantTypes DEF ReaderType
<1>1. Unread \in Nat /\ rdNext + Unread = buffStop
  BY DEF Unread
<1>2. ASSUME FillDeliver
      PROVE  /\ stop' \in Nat /\ rdNext <= stop' /\ stop' <= buffStop
             /\ contentLen' \in Nat /\ stop' + contentLen' = rdNext + contentLen
  <2> DEFINE n == Least(contentLen, Unread)
  <2>1. n \in Nat /\ n <= contentLen /\ n <= Unread
    BY <1>1, LeastIs
  <2>2. contentLen' = contentLen - n /\ stop' = rdNext + n
    BY <1>2 DEF FillDeliver
  <2> HIDE DEF n
  <2> QED BY <1>1, <2>1, <2>2
<1>3. ASSUME FillSkip
      PROVE  /\ rdNext' \in Nat /\ rdNext <= rdNext' /\ rdNext' <= buffStop
             /\ contentLen' \in Nat /\ rdNext' + contentLen' = rdNext + contentLen
  <2> DEFINE n == Least(contentLen, Unread)
  <2>1. n \in Nat /\ n <= contentLen /\ n <= Unread
    BY <1>1, LeastIs
  <2>2. contentLen' = contentLen - n /\ rdNext' = rdNext + n
    BY <1>3 DEF FillSkip
  <2> HIDE DEF n
  <2> QED BY <1>1, <2>1, <2>2
<1>4. ASSUME FillPadding
      PROVE  /\ rdNext' \in Nat /\ rdNext <= rdNext' /\ rdNext' <= buffStop
             /\ paddingLen' \in Nat /\ rdNext' + paddingLen' = rdNext + paddingLen
  <2> DEFINE n == Least(paddingLen, Unread)
  <2>1. n \in Nat /\ n <= paddingLen /\ n <= Unread
    BY <1>1, LeastIs
  <2>2. paddingLen' = paddingLen - n /\ rdNext' = rdNext + n
    BY <1>4 DEF FillPadding
  <2> HIDE DEF n
  <2> QED BY <1>1, <2>1, <2>2
<1>5. ASSUME FillHeader
      PROVE  /\ rdNext' \in Nat /\ rdNext <= rdNext' /\ rdNext' <= buffStop
             /\ headerLen' \in Nat /\ headerLen' < HEADER
             /\ \/ /\ fill' = "read" /\ rdNext' - headerLen' = rdNext - headerLen
                   /\ UNCHANGED <<stop, eorStop>>
                \/ /\ fill' = "process" /\ headerLen' = 0 /\ rdNext' - HEADER = rdNext - headerLen
                   /\ stop' = rdNext' /\ eorStop' = TRUE
  <2> DEFINE n == Least(HEADER - headerLen, Unread)
             k == headerLen + n
  <2>1. n \in Nat /\ n <= HEADER - headerLen /\ n <= Unread
    <3>1. HEADER - headerLen \in Nat
      OBVIOUS
    <3> QED BY <1>1, <3>1, LeastIs
  <2>2. k \in 0..HEADER
    BY <2>1
  <2>3. /\ rdNext' = rdNext + n
        /\ headerLen' = k % HEADER
        /\ IF k < HEADER THEN fill' = "read" /\ UNCHANGED <<stop, eorStop>>
           ELSE fill' = "process" /\ stop' = rdNext' /\ eorStop' = TRUE
    BY <1>5 DEF FillHeader
  <2>4. /\ k < HEADER => k % HEADER = k
        /\ k = HEADER => k % HEADER = 0
        /\ k % HEADER \in 0..HEADER - 1
    BY <2>2, HeaderBytes
  <2>5. k = headerLen + n
    OBVIOUS
  <2> HIDE DEF n, k
  <2> QED BY <1>1, <2>1, <2>2, <2>3, <2>4, <2>5
<1>6. ASSUME InnerTake
      PROVE  /\ rdNext' \in Nat /\ rdNext <= rdNext' /\ rdNext' <= stop
             /\ inWant' \in Nat
             /\ inner # "values" => rdNext' + inWant' = rdNext + inWant
  <2> DEFINE n == Least(inWant, stop - rdNext)
  <2>1. n \in Nat /\ n <= inWant /\ n <= stop - rdNext
    <3>1. stop - rdNext \in Nat
      BY <1>6 DEF InnerTake
    <3> QED BY <3>1, LeastIs
  <2>2. rdNext' = rdNext + n /\ inWant' = (IF inner = "values" /\ n = inWant THEN Pair ELSE inWant - n)
    BY <1>6 DEF InnerTake
  <2> HIDE DEF n
  <2> QED BY <2>1, <2>2
<1>7. ASSUME GetStr
      PROVE  /\ rdNext' \in Nat /\ rdNext <= rdNext' /\ rdNext' <= stop
             /\ got' = [got EXCEPT ![type] = @ \cup (rdNext .. rdNext' - 1)]
             /\ want' \in Nat
             /\ pc' = pc \/ (pc = "get" /\ pc' = "app")
  <2> DEFINE n == Least(want, stop - rdNext)
  <2>1. n \in Nat /\ n <= want /\ n <= stop - rdNext
    <3>1. stop - rdNext \in Nat
      BY <1>7 DEF GetStr
    <3> QED BY <3>1, LeastIs
  <2>2. /\ rdNext' = rdNext + n
        /\ got' = [got EXCEPT ![type] = @ \cup (rdNext .. rdNext + n - 1)]
        /\ want' = (IF n < want THEN want - n ELSE IF pc = "get" THEN 0 ELSE Pair)
        /\ pc' = (IF n = want /\ pc = "get" THEN "app" ELSE pc)
    BY <1>7 DEF GetStr
  <2> HIDE DEF n
  <2>3. got' = [got EXCEPT ![type] = @ \cup (rdNext .. rdNext' - 1)]
    <3>1. rdNext .. rdNext' - 1 = rdNext .. rdNext + n - 1
      BY <2>1, <2>2
    <3> QED BY ONLY <2>2, <3>1
  <2> QED BY <2>1, <2>2, <2>3
<1> QED BY <1>2, <1>3, <1>4, <1>5, <1>6, <1>7

LEMMA LibraryReads ==
    ASSUME ReaderType, ControlInv, sent \in Seq(Records), buffStop <= total, total \in Nat, Library
    PROVE  ReaderType'
<1> USE ConstantTypes DEF ReaderType, req, lens
<1>1. CASE FillRead
  <2>1. CASE Unread > 0
    BY <1>1, <2>1 DEF FillRead
  <2>2. CASE ~(Unread > 0)
    <3>1. PICK n \in 1..Least(BuffLen, total - buffStop) : buffStop' = buffStop + n
      BY <1>1, <2>2 DEF FillRead
    <3>2. n \in Nat
      BY <3>1
    <3> QED BY <1>1, <3>1, <3>2 DEF FillRead
  <2> QED BY <2>1, <2>2
<1>2. CASE FillReadFails
  BY <1>2 DEF FillReadFails, SetError
<1>3. CASE FillDeliver
  BY <1>3, Moves DEF FillDeliver
<1>4. CASE FillSkip
  <2>1. skip' \in BOOLEAN /\ fill' \in {"read", "next"}
    BY <1>4 DEF FillSkip
  <2> QED BY <1>4, <2>1, Moves DEF FillSkip
<1>5. CASE FillPadding
  BY <1>5, Moves DEF FillPadding
<1>6. CASE FillEndOfRecord
  BY <1>6 DEF FillEndOfRecord
<1>7. CASE FillHeader
  <2>1. eorStop' \in BOOLEAN /\ fill' \in {"read", "next", "process"}
    BY <1>7, Moves
  <2>2. /\ rdNext' \in Nat /\ rdNext' <= buffStop
        /\ headerLen' \in Nat /\ headerLen' < HEADER
        /\ stop' = stop \/ stop' = rdNext'
    BY <1>7, Moves
  <2> QED BY <1>7, <2>1, <2>2 DEF FillHeader
<1>8. CASE ProcessHeader
  <2>1. UNCHANGED <<srv, ipcFd, isBeginProcessed, keepConnection, rdNext, buffStop, type,
                    pc, headerLen, want, got>>
    BY <1>8 DEF ProcessHeader
  <2>2. CASE NoHeader
    BY <2>1, <2>2 DEF NoHeader, Fails, SetError
  <2>3. ASSUME NEW h \in HeaderRead, Header(h),
               BeginRecord(h) \/ BeginRefused(h) \/ ManagementRecord(h) \/ OtherRequest(h)
                  \/ WrongType(h) \/ StreamRecord(h)
        PROVE  ReaderType'
    <3>1. h.id \in Nat /\ h.len \in Nat /\ h.pad \in Nat
      BY SentType DEF HeaderRead
    <3>2. contentLen' \in Nat /\ paddingLen' \in Nat
      BY <2>3, <3>1 DEF Header
    <3>3. CASE BeginRecord(h)
      BY <2>1, <3>1, <3>2, <3>3 DEF BeginRecord, ReadContent, Fails, SetError
    <3>4. CASE BeginRefused(h)
      BY <2>1, <3>2, <3>4 DEF BeginRefused, Answered, Loops, Fails, SetError
    <3>5. CASE ManagementRecord(h)
      BY <2>1, <3>2, <3>5 DEF ManagementRecord, Answered, Loops, ReadContent, Fails, SetError
    <3>6. CASE OtherRequest(h)
      BY <2>1, <3>2, <3>6 DEF OtherRequest, Loops
    <3>7. CASE WrongType(h)
      BY <2>1, <3>2, <3>7 DEF WrongType, Fails, SetError
    <3>8. CASE StreamRecord(h)
      BY <2>1, <3>2, <3>8 DEF StreamRecord, Loops
    <3> QED BY <2>3, <3>3, <3>4, <3>5, <3>6, <3>7, <3>8
  <2> QED BY <1>8, <2>2, <2>3 DEF ProcessHeader
<1>9. CASE InnerTake
  BY <1>9, Moves DEF InnerTake
<1>10. CASE InnerFill
  BY <1>10 DEF InnerFill
<1>11. CASE BodyRead
  BY <1>11, SentType DEF BodyRead
<1>12. CASE InnerEof
  BY <1>12 DEF InnerEof, Answered, Loops, Fails, SetError
<1>13. CASE NewReader
  <2>1. /\ rdNext' \in Nat /\ stop' \in Nat /\ buffStop' \in Nat
        /\ rdNext' <= buffStop' /\ stop' <= buffStop'
        /\ contentLen' \in Nat /\ paddingLen' \in Nat /\ headerLen' \in Nat /\ headerLen' < HEADER
    BY <1>13 DEF NewReader
  <2> QED BY <1>13, <2>1 DEF NewReader
<1>14. CASE BeginReturns
  <2>1. CASE isBeginProcessed
    <3>1. SetReaderType("params") /\ pc' = "params" /\ want' = Pair
          /\ UNCHANGED <<ipcFd, req, rdNext, buffStop, failed, fill, headerLen, inner, inWant>>
      BY <1>14, <2>1 DEF BeginReturns
    <3>2. type' \in StreamTypes
      BY <3>1 DEF SetReaderType, StreamTypes
    <3> QED BY <3>1, <3>2 DEF SetReaderType
  <2>2. CASE ~isBeginProcessed
    BY <1>14, <2>2 DEF BeginReturns, TryAgain
  <2> QED BY <2>1, <2>2
<1>15. CASE GetStr
  <2>1. pc' \in {pc, "app"}
    BY <1>15, Moves
  <2> QED BY <1>15, <2>1, Moves DEF GetStr
<1>16. CASE GetStrFill
  BY <1>16 DEF GetStrFill
<1>17. CASE ParamsEof
  <2>1. CASE want = Pair
    <3>1. SetReaderType("stdin") /\ pc' = "app" /\ want' = 0
          /\ UNCHANGED <<ipcFd, failed, req, rdNext, buffStop, fill, headerLen, inner, inWant>>
      BY <1>17, <2>1 DEF ParamsEof
    <3>2. type' \in StreamTypes
      BY <3>1 DEF SetReaderType, StreamTypes
    <3> QED BY <3>1, <3>2 DEF SetReaderType
  <2>2. CASE want # Pair
    BY <1>17, <2>2 DEF ParamsEof, TryAgain
  <2> QED BY <2>1, <2>2
<1>18. CASE GetEof
  BY <1>18 DEF GetEof
<1> QED BY <1>1, <1>2, <1>3, <1>4, <1>5, <1>6, <1>7, <1>8, <1>9, <1>10, <1>11, <1>12, <1>13, <1>14,
   <1>15, <1>16, <1>17, <1>18 DEF Library

-----------------------------------------------------------------------------
(* The flags *)

LEMMA ProcessHeaderCases ==
    ASSUME sent \in Seq(Records), ProcessHeader
    PROVE  /\ fill = "process"
           /\ UNCHANGED <<srv, ipcFd, isBeginProcessed, keepConnection, rdNext, buffStop, type,
                          pc, headerLen, want, got>>
           /\ \/ NoHeader
              \/ \E h \in Sent :
                    /\ h.start + HEADER = rdNext
                    /\ Header(h)
                    /\ \/ BeginRecord(h) \/ BeginRefused(h) \/ ManagementRecord(h)
                       \/ OtherRequest(h) \/ WrongType(h) \/ StreamRecord(h)
<1>1. \A h \in HeaderRead : h \in Sent /\ h.start + HEADER = rdNext
  BY DEF HeaderRead
<1> QED BY <1>1 DEF ProcessHeader

LEMMA LibraryControl ==
    ASSUME ReaderType, ControlInv, sent \in Seq(Records), Library
    PROVE  ControlInv'
<1> USE DEF ReaderType, ControlInv, Reached, req, lens
<1>1. CASE FillRead
  BY <1>1 DEF FillRead
<1>2. CASE FillReadFails
  BY <1>2 DEF FillReadFails, SetError
<1>3. CASE FillDeliver
  BY <1>3, Moves DEF FillDeliver
<1>4. CASE FillSkip
  BY <1>4, Moves DEF FillSkip
<1>5. CASE FillPadding
  BY <1>5, Moves DEF FillPadding
<1>6. CASE FillEndOfRecord
  BY <1>6 DEF FillEndOfRecord
<1>7. CASE FillHeader
  <2>1. /\ rdNext' \in Nat /\ rdNext <= rdNext'
        /\ \/ fill' = "read" /\ stop' = stop /\ eorStop' = eorStop
           \/ fill' = "process" /\ headerLen' = 0 /\ stop' = rdNext' /\ eorStop' = TRUE
    BY <1>7, Moves
  <2>2. fill = "next" /\ ~eorStop /\ UNCHANGED <<ipcFd, isBeginProcessed, isClosed, failed, type, pc, inner, inWant>>
    BY <1>7 DEF FillHeader
  <2> QED BY <2>1, <2>2
<1>8. CASE ProcessHeader
  <2>1. UNCHANGED <<ipcFd, isBeginProcessed, rdNext, type, pc, headerLen>> /\ fill = "process"
    BY <1>8, ProcessHeaderCases
  <2>2. CASE NoHeader
    BY <2>1, <2>2 DEF NoHeader, Fails, SetError
  <2>3. ASSUME NEW h \in Sent,
               BeginRecord(h) \/ BeginRefused(h) \/ ManagementRecord(h) \/ OtherRequest(h)
                  \/ WrongType(h) \/ StreamRecord(h)
        PROVE  ControlInv'
    <3>3. CASE BeginRecord(h)
      BY <2>1, <3>3, ConstantTypes DEF BeginRecord, ReadContent, Fails, SetError
    <3>4. CASE BeginRefused(h)
      BY <2>1, <3>4 DEF BeginRefused, Answered, Loops, Fails, SetError
    <3>5. CASE ManagementRecord(h)
      BY <2>1, <3>5 DEF ManagementRecord, Answered, Loops, ReadContent, Fails, SetError
    <3>6. CASE OtherRequest(h)
      BY <2>1, <3>6 DEF OtherRequest, Loops
    <3>7. CASE WrongType(h)
      BY <2>1, <3>7 DEF WrongType, Fails, SetError
    <3>8. CASE StreamRecord(h)
      BY <2>1, <3>8 DEF StreamRecord, Loops
    <3> QED BY <2>3, <3>3, <3>4, <3>5, <3>6, <3>7, <3>8
  <2> QED BY <1>8, <2>2, <2>3, ProcessHeaderCases
<1>9. CASE InnerTake
  BY <1>9, Moves DEF InnerTake
<1>10. CASE InnerFill
  BY <1>10 DEF InnerFill
<1>11. CASE BodyRead
  BY <1>11 DEF BodyRead
<1>12. CASE InnerEof
  BY <1>12 DEF InnerEof, Answered, Loops, Fails, SetError
<1>13. CASE NewReader
  BY <1>13 DEF NewReader
<1>14. CASE BeginReturns
  BY <1>14 DEF BeginReturns, Returned, SetReaderType, TryAgain
<1>15. CASE GetStr
  BY <1>15, Moves DEF GetStr
<1>16. CASE GetStrFill
  BY <1>16 DEF GetStrFill
<1>17. CASE ParamsEof
  BY <1>17 DEF ParamsEof, Returned, SetReaderType, TryAgain
<1>18. CASE GetEof
  BY <1>18 DEF GetEof, Returned
<1> QED BY <1>1, <1>2, <1>3, <1>4, <1>5, <1>6, <1>7, <1>8, <1>9, <1>10, <1>11, <1>12, <1>13, <1>14,
   <1>15, <1>16, <1>17, <1>18 DEF Library

LEMMA LibraryStays ==
    ASSUME Library
    PROVE  UNCHANGED srv
<1>1. CASE FillRead BY <1>1 DEF FillRead
<1>2. CASE FillReadFails BY <1>2 DEF FillReadFails
<1>3. CASE FillDeliver BY <1>3 DEF FillDeliver
<1>4. CASE FillSkip BY <1>4 DEF FillSkip
<1>5. CASE FillPadding BY <1>5 DEF FillPadding
<1>6. CASE FillEndOfRecord BY <1>6 DEF FillEndOfRecord
<1>7. CASE FillHeader BY <1>7 DEF FillHeader
<1>8. CASE ProcessHeader BY <1>8 DEF ProcessHeader
<1>9. CASE InnerTake BY <1>9 DEF InnerTake
<1>10. CASE InnerFill BY <1>10 DEF InnerFill
<1>11. CASE BodyRead BY <1>11 DEF BodyRead
<1>12. CASE InnerEof BY <1>12 DEF InnerEof
<1>13. CASE NewReader BY <1>13 DEF NewReader
<1>14. CASE BeginReturns BY <1>14 DEF BeginReturns
<1>15. CASE GetStr BY <1>15 DEF GetStr
<1>16. CASE GetStrFill BY <1>16 DEF GetStrFill
<1>17. CASE ParamsEof BY <1>17 DEF ParamsEof
<1>18. CASE GetEof BY <1>18 DEF GetEof
<1> QED BY <1>1, <1>2, <1>3, <1>4, <1>5, <1>6, <1>7, <1>8, <1>9, <1>10, <1>11, <1>12, <1>13, <1>14,
   <1>15, <1>16, <1>17, <1>18 DEF Library

LEMMA LibraryType ==
    ASSUME TypeOK, ControlInv, Library
    PROVE  TypeOK'
<1>1. WebType /\ ReaderType /\ buffStop <= total /\ got \in [StreamTypes -> SUBSET Nat]
  BY TypeParts
<1>2. ReaderType' /\ UNCHANGED srv
  BY <1>1, LibraryReads, LibraryStays DEF WebType
<1>3. WebType' /\ total' = total
  BY <1>1, <1>2 DEF WebType, srv
<1>4. buffStop' <= total
  <2>1. CASE FillRead
    <3>1. CASE Unread > 0
      BY <1>1, <2>1, <3>1 DEF FillRead
    <3>2. CASE ~(Unread > 0)
      <4>1. PICK n \in 1..Least(BuffLen, total - buffStop) : buffStop' = buffStop + n
        BY <2>1, <3>2 DEF FillRead
      <4>2. total - buffStop \in Nat /\ BuffLen \in Nat
        BY <1>1, ConstantTypes DEF WebType, ReaderType
      <4>3. Least(BuffLen, total - buffStop) \in Nat /\ Least(BuffLen, total - buffStop) <= total - buffStop
        BY <4>2, LeastIs
      <4> QED BY <1>1, <4>1, <4>2, <4>3 DEF WebType, ReaderType
    <3> QED BY <3>1, <3>2
  <2>2. ASSUME Library, ~FillRead PROVE buffStop' = buffStop
    BY <2>2 DEF Library, FillReadFails, FillDeliver, FillSkip, FillPadding, FillEndOfRecord, FillHeader,
       ProcessHeader, InnerTake, InnerFill, BodyRead, InnerEof, NewReader, BeginReturns, GetStr, GetStrFill,
       ParamsEof, GetEof
  <2> QED BY <1>1, <2>1, <2>2
<1>5. got' \in [StreamTypes -> SUBSET Nat]
  <2>1. CASE GetStr
    <3>1. got' = [got EXCEPT ![type] = @ \cup (rdNext .. rdNext' - 1)]
      BY <1>1, <2>1, Moves DEF ReaderType
    <3>2. rdNext .. rdNext' - 1 \subseteq Nat
      <4>1. rdNext \in Nat /\ rdNext' \in Nat
        BY <1>1, <2>1, Moves DEF ReaderType
      <4>2. ASSUME NEW i \in rdNext .. rdNext' - 1 PROVE i \in Nat
        BY <4>1
      <4> QED BY <4>2
    <3>3. type \in StreamTypes
      BY <2>1 DEF GetStr, ControlInv, StreamTypes
    <3> QED BY <1>1, <3>1, <3>2, <3>3
  <2>2. CASE BeginReturns
    <3>1. got' = got \/ got' = [t \in StreamTypes |-> {}]
      BY <2>2 DEF BeginReturns
    <3> QED BY <1>1, <3>1
  <2>3. ASSUME Library, ~GetStr, ~BeginReturns PROVE got' = got
    BY <2>3 DEF Library, FillRead, FillReadFails, FillDeliver, FillSkip, FillPadding, FillEndOfRecord, FillHeader,
       ProcessHeader, InnerTake, InnerFill, BodyRead, InnerEof, NewReader, GetStrFill, ParamsEof, GetEof
  <2> QED BY <1>1, <2>1, <2>2, <2>3
<1>6. (WebType /\ ReaderType /\ buffStop <= total /\ got \in [StreamTypes -> SUBSET Nat])' => TypeOK'
  <2>1. ReaderType' => headerLen' \in 0..HEADER - 1
    BY ConstantTypes DEF ReaderType
  <2> QED BY <2>1 DEF TypeOK, WebType, ReaderType
<1> QED BY <1>2, <1>3, <1>4, <1>5, <1>6

-----------------------------------------------------------------------------
(* What a step has to be like to leave a part of the invariant as it is *)

\* A byte within a record is content of that record, if it is content.
LEMMA ByteOf ==
    ASSUME WebInv, NEW r \in Sent, NEW t, NEW id, NEW c \in Content(t, id),
           r.start <= c, c < RecordEnd(r)
    PROVE  /\ r.type = t /\ r.id = id /\ r.start >= began
           /\ r.start + HEADER <= c /\ c < ContentEnd(r)
<1> USE DEF WebInv, WebType
<1>1. PICK q \in Sent : /\ q.type = t /\ q.id = id /\ q.start >= began
                        /\ q.start + HEADER <= c /\ c < ContentEnd(q) /\ c \in Nat
  BY InContent
<1>2. q.start <= c /\ c < RecordEnd(q)
  BY <1>1, EndOrBehind, SentType, ConstantTypes
<1>3. q = r
  BY <1>1, <1>2, OneRecord
<1> QED BY <1>1, <1>3

LEMMA GotStays ==
    ASSUME UNCHANGED <<srv, got, rdNext, requestId>>, Reached' => Reached,
           Reached' /\ failed => failed', GotInv, DeliveredIsContent
    PROVE  GotInv' /\ DeliveredIsContent'
<1>1. \A t : Content(t, requestId)' = Content(t, requestId)
  BY WebStays
<1> QED BY <1>1 DEF GotInv, DeliveredIsContent, Reached

\* Bytes are passed that are no content of the request.
LEMMA GotPasses ==
    ASSUME TypeOK, WebInv, UNCHANGED <<srv, got, requestId, pc, failed>>, GotInv, DeliveredIsContent,
           rdNext' \in Nat, rdNext <= rdNext',
           Reached /\ ~failed => \A t \in StreamTypes : \A c \in Content(t, requestId) :
                                    rdNext <= c => rdNext' <= c
    PROVE  GotInv' /\ DeliveredIsContent'
<1>1. \A t : Content(t, requestId)' = Content(t, requestId)
  BY WebStays
<1>2. DeliveredIsContent'
  BY <1>1 DEF DeliveredIsContent
<1>3. GotInv'
  <2> SUFFICES ASSUME Reached, ~failed, NEW t \in StreamTypes
               PROVE  got[t] = {c \in Content(t, requestId) : c < rdNext'}
    BY <1>1 DEF GotInv, Reached
  <2>1. got[t] = {c \in Content(t, requestId) : c < rdNext}
    BY DEF GotInv
  <2>2. \A c \in Content(t, requestId) : c \in Nat
    BY InContent DEF WebInv, WebType
  <2>3. \A c \in Content(t, requestId) : c < rdNext <=> c < rdNext'
    BY <2>2 DEF TypeOK
  <2> QED BY <2>1, <2>3
<1> QED BY <1>2, <1>3

\* The place moves on from which the next header is read.
LEMMA StartMoves ==
    ASSUME TypeOK, WebInv, BeforeInv, BegunInv, UnendedInv,
           UNCHANGED <<srv, requestId, keepConnection, isBeginProcessed>>, pc' # "accept",
           HeaderStart' \in Int, HeaderStart <= HeaderStart',
           \A q \in Sent : q.start >= HeaderStart =>
               \/ q.start >= HeaderStart'
               \/ (Looking' => ~Begins(q)) /\ (Unended' => ~StreamEnd(q, "params")),
           Looking' => Looking, Begun' => Begun, Unended' => Unended,
           Begun /\ isBeginProcessed /\ pc' = "begin" => pc = "begin" /\ HeaderStart' = HeaderStart
    PROVE  BeforeInv' /\ BegunInv' /\ UnendedInv'
<1>1. /\ Sent' = Sent /\ active' = active /\ began' = began
      /\ \A r : Begins(r)' <=> Begins(r)
      /\ \A r, t : StreamEnd(r, t)' <=> StreamEnd(r, t)
  BY WebStays
<1>2. HeaderStart \in Int /\ began \in Nat
  BY ConstantTypes DEF HeaderStart, TypeOK
<1>3. \A r \in Sent : r.start \in Nat /\ RecordEnd(r) \in Nat
  BY SentType, EndOrBehind DEF TypeOK
<1>4. ASSUME Looking' PROVE AheadOf(HeaderStart)'
  <2>1. AheadOf(HeaderStart)
    BY <1>4 DEF BeforeInv
  <2>2. active # 0 => HeaderStart' <= began
    <3> SUFFICES ASSUME active # 0 PROVE HeaderStart' <= began
      OBVIOUS
    <3>1. PICK b \in Sent : Begins(b)
      BY DEF WebInv, ActiveInv
    <3>2. b.start = began /\ b.start >= HeaderStart
      BY <1>2, <2>1, <3>1 DEF Begins, AheadOf
    <3>3. b.start >= HeaderStart'
      BY <1>4, <3>1, <3>2
    <3> QED BY <3>2, <3>3
  <2>3. \A r \in Sent : r.start >= HeaderStart' => r.start >= HeaderStart
    BY <1>2, <1>3
  <2> QED BY <1>1, <2>1, <2>2, <2>3 DEF AheadOf
<1>5. BeforeInv'
  BY <1>4 DEF BeforeInv
<1>6. BegunInv'
  <2> SUFFICES ASSUME Begun' PROVE (active = requestId /\ active # 0 /\
                  (isBeginProcessed => \E b \in Sent :
                      /\ Begins(b) /\ b.keep = keepConnection
                      /\ RecordEnd(b) <= HeaderStart
                      /\ pc = "begin" => RecordEnd(b) = HeaderStart))'
    BY DEF BegunInv
  <2>1. Begun
    OBVIOUS
  <2>2. active = requestId /\ active # 0
    BY <2>1 DEF BegunInv
  <2>3. ASSUME isBeginProcessed
        PROVE  \E b \in Sent : /\ Begins(b) /\ b.keep = keepConnection
                               /\ RecordEnd(b) <= HeaderStart'
                               /\ pc' = "begin" => RecordEnd(b) = HeaderStart'
    <3>1. PICK b \in Sent : /\ Begins(b) /\ b.keep = keepConnection
                            /\ RecordEnd(b) <= HeaderStart
                            /\ pc = "begin" => RecordEnd(b) = HeaderStart
      BY <2>1, <2>3 DEF BegunInv
    <3>2. RecordEnd(b) <= HeaderStart'
      BY <1>2, <1>3, <3>1
    <3> QED BY <2>1, <2>3, <3>1, <3>2
  <2> QED BY <1>1, <2>2, <2>3
<1>7. UnendedInv'
  <2> SUFFICES ASSUME Unended', NEW e \in Sent, StreamEnd(e, "params") PROVE e.start >= HeaderStart'
    BY <1>1 DEF UnendedInv
  <2>1. e.start >= HeaderStart
    BY DEF UnendedInv
  <2> QED BY <2>1
<1> QED BY <1>5, <1>6, <1>7

\* The end that was met, and the end of the parameters, stay where they are.
LEMMA EndsStay ==
    ASSUME TypeOK, EndInv, HandedInv, UNCHANGED srv,
           Reached' /\ ~failed' /\ isClosed' /\ inner' = "none" =>
              /\ Reached /\ ~failed /\ isClosed /\ inner = "none"
              /\ UNCHANGED <<headerLen, type, rdNext>>,
           Handed' /\ ~failed' =>
              Handed /\ ~failed /\ HeaderStart' \in Int /\ HeaderStart <= HeaderStart'
    PROVE  EndInv' /\ HandedInv'
<1>1. Sent' = Sent /\ \A r, t : StreamEnd(r, t)' <=> StreamEnd(r, t)
  BY WebStays
<1>2. EndInv'
  <2> SUFFICES ASSUME Reached', ~failed', isClosed', inner' = "none"
               PROVE  headerLen' = 0 /\ \E e \in Sent : StreamEnd(e, type') /\ e.start + HEADER = rdNext'
    BY <1>1 DEF EndInv
  <2>1. UNCHANGED <<headerLen, type, rdNext>>
    OBVIOUS
  <2>2. headerLen = 0 /\ \E e \in Sent : StreamEnd(e, type) /\ e.start + HEADER = rdNext
    BY DEF EndInv
  <2> QED BY <2>1, <2>2
<1>3. HandedInv'
  <2> SUFFICES ASSUME Handed', ~failed'
               PROVE  \E e \in Sent : StreamEnd(e, "params") /\ e.start < HeaderStart'
    BY <1>1 DEF HandedInv
  <2>1. PICK e \in Sent : StreamEnd(e, "params") /\ e.start < HeaderStart
    BY DEF HandedInv
  <2>2. e.start \in Nat /\ HeaderStart \in Int
    BY SentType, ConstantTypes DEF TypeOK, HeaderStart
  <2> QED BY <2>1, <2>2
<1> QED BY <1>2, <1>3

\* A record that is being read: how far, and that nothing begins before its end.
LEMMA WithinIs ==
    ASSUME TypeOK, WebInv, NEW r \in Sent, Within(r)
    PROVE  /\ headerLen = 0 /\ HeaderStart = rdNext /\ r.start < rdNext
           /\ r.start + HEADER <= rdNext /\ rdNext <= RecordEnd(r)
           /\ stop <= rdNext \/ stop <= ContentEnd(r)
           /\ contentLen > 0 \/ rdNext < stop => Cursor + contentLen = ContentEnd(r) /\ paddingLen = r.pad
           /\ contentLen = 0 /\ stop <= rdNext => rdNext + paddingLen = RecordEnd(r) /\ ContentEnd(r) <= rdNext
           /\ \A q \in Sent : q.start >= rdNext => q.start >= RecordEnd(r)
<1> USE ConstantTypes DEF TypeOK
<1>1. /\ r.start \in Nat /\ r.len \in Nat /\ r.pad \in Nat /\ ContentEnd(r) \in Nat /\ RecordEnd(r) \in Nat
      /\ RecordEnd(r) = ContentEnd(r) + r.pad
  BY SentType, EndOrBehind DEF RecordEnd, ContentEnd
<1>2. headerLen = 0 /\ HeaderStart = rdNext
  BY DEF Within, HeaderStart
<1>3. r.start + HEADER <= rdNext /\ r.start < rdNext
  BY <1>1 DEF Within
<1>4. Cursor \in Nat /\ rdNext <= Cursor /\ stop <= Cursor /\ (stop <= rdNext => Cursor = rdNext)
      /\ (rdNext < stop => Cursor = stop)
  BY DEF Cursor
<1>5. \/ Cursor + contentLen = ContentEnd(r) /\ paddingLen = r.pad
      \/ /\ contentLen = 0 /\ stop <= rdNext
         /\ ContentEnd(r) <= rdNext /\ rdNext + paddingLen = RecordEnd(r)
  BY DEF Within
<1>6. \A q \in Sent : q.start >= rdNext => q.start >= RecordEnd(r)
  <2> SUFFICES ASSUME NEW q \in Sent, q.start >= rdNext PROVE q.start >= RecordEnd(r)
    OBVIOUS
  <2>1. q.start \in Nat
    BY SentType
  <2>2. RecordEnd(r) <= q.start
    BY <1>1, <1>3, <2>1, NextRecord DEF WebInv, WebType
  <2> QED BY <1>1, <2>1, <2>2
<1>7. rdNext <= RecordEnd(r) /\ (stop <= rdNext \/ stop <= ContentEnd(r))
  BY <1>1, <1>4, <1>5
<1>8. contentLen > 0 \/ rdNext < stop => Cursor + contentLen = ContentEnd(r) /\ paddingLen = r.pad
  BY <1>5
<1>9. contentLen = 0 /\ stop <= rdNext => rdNext + paddingLen = RecordEnd(r) /\ ContentEnd(r) <= rdNext
  BY <1>1, <1>4, <1>5
<1> QED BY <1>2, <1>3, <1>6, <1>7, <1>8, <1>9

RestInv == PlaceInv /\ BeforeInv /\ BegunInv /\ StreamInv

\* A step that leaves the buffer and the record alone.
LEMMA Idles ==
    ASSUME IInv,
           stop' = stop \/ (stop <= rdNext /\ stop' = rdNext),
           UNCHANGED <<srv, rdNext, lens, skip, headerLen, type, requestId, inner, inWant,
                       isBeginProcessed, keepConnection, got>>,
           fill # "process", fill' # "process", pc # "accept", pc' # "accept",
           Live' => Live, Needed' => Needed, Looking' => Looking, Begun' => Begun,
           Unended' => Unended, Reached' => Reached, Reached' /\ failed => failed',
           Reached' /\ ~failed' /\ isClosed' /\ inner' = "none" => Reached /\ ~failed /\ isClosed,
           Handed' /\ ~failed' => Handed /\ ~failed,
           Begun /\ isBeginProcessed /\ pc' = "begin" => pc = "begin"
    PROVE  RestInv'
<1> USE DEF IInv, StreamInv
<1>0. (stop' <= rdNext' <=> stop <= rdNext) /\ (rdNext' < stop' <=> rdNext < stop)
  BY DEF TypeOK
<1>1. HeaderStart' = HeaderStart /\ HeaderStart \in Int
  BY ConstantTypes DEF HeaderStart, TypeOK
<1>2. /\ Sent' = Sent /\ \A p : Boundary(p)' <=> Boundary(p)
      /\ \A r : Begins(r)' <=> Begins(r)
  BY WebStays
<1>3. PlaceInv'
  <2> SUFFICES ASSUME Live' PROVE \/ Between' /\ (Needed' => Boundary(HeaderStart)')
                                  \/ \E r \in Sent' : Within(r)'
    BY DEF PlaceInv
  <2>1. CASE Between /\ (Needed => Boundary(HeaderStart))
    <3>1. Between'
      BY <1>0, <2>1 DEF Between, lens
    <3>2. Needed' => Boundary(HeaderStart)'
      <4>1. Needed' => Boundary(HeaderStart)
        BY <2>1
      <4> QED BY <1>1, <1>2, <4>1, WebStays DEF Boundary
    <3> QED BY <3>1, <3>2
  <2>2. ASSUME NEW r \in Sent, Within(r) PROVE Within(r)'
    <3>1. began' = began
      BY WebStays
    <3>2. Cursor' = Cursor
      BY DEF Cursor, TypeOK
    <3> QED BY <1>0, <1>2, <2>2, <3>1, <3>2 DEF Within, Mine, lens
  <2> QED BY <1>2, <2>1, <2>2 DEF PlaceInv
<1>4. BeforeInv' /\ BegunInv' /\ UnendedInv'
  <2>1. \A q \in Sent : q.start >= HeaderStart => q.start >= HeaderStart'
    BY <1>1
  <2> QED BY <1>1, <2>1, StartMoves
<1>5. GotInv' /\ DeliveredIsContent'
  BY GotStays
<1>6. EndInv' /\ HandedInv'
  <2>1. HeaderStart <= HeaderStart'
    BY <1>1
  <2> QED BY <1>1, <2>1, EndsStay
<1> QED BY <1>3, <1>4, <1>5, <1>6 DEF RestInv

LEMMA IdleSteps ==
    ASSUME IInv, FillRead \/ FillReadFails \/ FillEndOfRecord \/ InnerFill \/ GetStrFill \/ GetEof \/ AppGet
    PROVE  RestInv'
<1> USE DEF Live, Needed, Looking, Begun, Unended, Reached, Handed
<1>1. ControlInv
  BY DEF IInv
<1>2. CASE FillRead
  <2>1. /\ fill = "read" /\ fill' = "next"
        /\ UNCHANGED <<srv, rdNext, stop, lens, skip, headerLen, type, requestId, inner, inWant,
                       isBeginProcessed, keepConnection, got, pc, isClosed, failed>>
    BY <1>2 DEF FillRead, req
  <2> QED BY <1>1, <2>1, Idles DEF ControlInv
<1>3. CASE FillReadFails
  <2>1. /\ fill = "read" /\ fill' = "off" /\ failed' = TRUE /\ isClosed' = TRUE
        /\ UNCHANGED <<srv, rdNext, stop, lens, skip, headerLen, type, requestId, inner, inWant,
                       isBeginProcessed, keepConnection, got, pc>>
    BY <1>3 DEF FillReadFails, SetError, req
  <2> QED BY <1>1, <2>1, Idles DEF ControlInv
<1>4. CASE InnerFill
  <2>1. /\ inner # "none" /\ fill = "off" /\ fill' = "read"
        /\ UNCHANGED <<srv, rdNext, stop, lens, skip, headerLen, type, requestId, inner, inWant,
                       isBeginProcessed, keepConnection, got, pc, isClosed, failed>>
    BY <1>4 DEF InnerFill, req
  <2> QED BY <1>1, <2>1, Idles DEF ControlInv
<1>5. CASE GetStrFill
  <2>1. /\ inner = "none" /\ fill = "off" /\ fill' = "read" /\ pc \in {"params", "get"} /\ ~isClosed
        /\ UNCHANGED <<srv, rdNext, stop, lens, skip, headerLen, type, requestId, inner, inWant,
                       isBeginProcessed, keepConnection, got, pc, isClosed, failed>>
    BY <1>5 DEF GetStrFill, req
  <2> QED BY <1>1, <2>1, Idles DEF ControlInv
<1>6. CASE GetEof
  <2>1. /\ inner = "none" /\ fill = "off" /\ pc = "get" /\ pc' = "app"
        /\ UNCHANGED <<srv, rdNext, stop, lens, skip, headerLen, type, requestId, inner, inWant,
                       isBeginProcessed, keepConnection, got, fill, isClosed, failed>>
    BY <1>6 DEF GetEof, Returned, req
  <2> QED BY <1>1, <2>1, Idles DEF ControlInv
<1>7. CASE AppGet
  <2>1. /\ pc = "app" /\ pc' = "get" /\ ~isClosed
        /\ UNCHANGED <<srv, rdNext, stop, lens, skip, headerLen, type, requestId, inner, inWant,
                       isBeginProcessed, keepConnection, got, fill, isClosed, failed>>
    BY <1>7 DEF AppGet, req
  <2> QED BY <1>1, <2>1, Idles DEF ControlInv
<1>8. CASE FillEndOfRecord
  <2>1. /\ fill = "next" /\ fill' = "off" /\ eorStop /\ isClosed' = TRUE /\ stop' = rdNext
        /\ UNCHANGED <<srv, rdNext, lens, skip, headerLen, type, requestId, inner, inWant,
                       isBeginProcessed, keepConnection, got, pc, failed>>
    BY <1>8 DEF FillEndOfRecord, req
  <2> QED BY <1>1, <2>1, Idles DEF ControlInv
<1> QED BY <1>2, <1>3, <1>4, <1>5, <1>6, <1>7, <1>8

\* A step along a record.
LEMMA StartPasses ==
    ASSUME IInv, NEW r \in Sent, Within(r),
           UNCHANGED <<srv, requestId, keepConnection, isBeginProcessed, headerLen>>,
           fill' # "process", pc' # "accept", pc' = pc \/ pc' # "begin", ~(pc = "begin" /\ isBeginProcessed),
           rdNext' \in Nat, rdNext <= rdNext', rdNext' <= RecordEnd(r),
           Looking' => Looking, Begun' => Begun, Unended' => Unended
    PROVE  /\ BeforeInv' /\ BegunInv' /\ UnendedInv'
           /\ HeaderStart' \in Int /\ HeaderStart <= HeaderStart'
<1> USE DEF IInv, StreamInv
<1>1. /\ headerLen = 0 /\ HeaderStart = rdNext
      /\ \A q \in Sent : q.start >= rdNext => q.start >= RecordEnd(r)
  BY WithinIs
<1>2. HeaderStart' = rdNext'
  <2>1. headerLen' = 0
    BY <1>1
  <2>2. \A x \in Nat : x - 0 = x
    OBVIOUS
  <2> QED BY <2>1, <2>2 DEF HeaderStart
<1>3. \A q \in Sent : q.start >= HeaderStart => q.start >= HeaderStart'
  <2> SUFFICES ASSUME NEW q \in Sent, q.start >= rdNext PROVE q.start >= rdNext'
    BY <1>1, <1>2
  <2>1. q.start >= RecordEnd(r) /\ q.start \in Nat /\ RecordEnd(r) \in Nat
    BY <1>1, SentType, EndOrBehind DEF TypeOK
  <2> QED BY <2>1
<1>4. HeaderStart' \in Int /\ HeaderStart <= HeaderStart'
  BY <1>1, <1>2
<1> QED BY <1>3, <1>4, StartMoves

LEMMA Passes ==
    ASSUME IInv, NEW r \in Sent, Within(r),
           UNCHANGED <<srv, requestId, keepConnection, isBeginProcessed, headerLen, got, pc, failed, isClosed, inner>>,
           fill' # "process", pc # "accept", ~(pc = "begin" /\ isBeginProcessed), ~isClosed \/ inner # "none",
           rdNext' \in Nat, rdNext <= rdNext', rdNext' <= RecordEnd(r), Looking' => Looking,
           Reached /\ r.id = requestId => ContentEnd(r) <= rdNext
    PROVE  BeforeInv' /\ BegunInv' /\ StreamInv'
<1> USE DEF IInv, StreamInv
<1>1. BeforeInv' /\ BegunInv' /\ UnendedInv' /\ HeaderStart' \in Int /\ HeaderStart <= HeaderStart'
  <2>1. (Begun' => Begun) /\ (Unended' => Unended)
    BY DEF Begun, Unended, Reached
  <2> QED BY <2>1, StartPasses
<1>2. GotInv' /\ DeliveredIsContent'
  <2> SUFFICES ASSUME Reached, NEW t \in StreamTypes, NEW c \in Content(t, requestId), rdNext <= c, ~(rdNext' <= c)
               PROVE  FALSE
    BY GotPasses
  <2>1. c \in Nat /\ rdNext \in Nat /\ r.start \in Nat /\ RecordEnd(r) \in Nat /\ ContentEnd(r) \in Nat
    BY InContent, SentType, EndOrBehind DEF TypeOK
  <2>2. r.start <= c /\ c < RecordEnd(r)
    BY <2>1, WithinIs
  <2>3. r.id = requestId /\ c < ContentEnd(r)
    BY <2>2, ByteOf
  <2> QED BY <2>1, <2>3
<1>3. EndInv' /\ HandedInv'
  BY <1>1, EndsStay DEF Reached, Handed
<1> QED BY <1>1, <1>2, <1>3

-----------------------------------------------------------------------------
(* FillBuffProc *)

LEMMA FillDeliverKeeps ==
    ASSUME IInv, FillDeliver
    PROVE  RestInv'
<1> USE DEF IInv, StreamInv
<1>1. /\ fill = "next" /\ contentLen > 0 /\ ~skip /\ fill' = "off"
      /\ UNCHANGED <<srv, rdNext, paddingLen, skip, headerLen, type, requestId, inner, inWant,
                     isBeginProcessed, keepConnection, got, pc, isClosed, failed>>
  BY DEF FillDeliver, req
<1>2. rdNext <= stop' /\ stop' \in Nat /\ contentLen' \in Nat /\ stop' + contentLen' = rdNext + contentLen
  BY Moves, TypeParts
<1>3. HeaderStart' = HeaderStart /\ HeaderStart \in Int
  BY <1>1, ConstantTypes DEF HeaderStart, TypeOK
<1>4. pc # "accept" /\ ~isClosed /\ stop <= rdNext
  BY <1>1 DEF ControlInv
<1>5. PICK r \in Sent : Within(r)
  BY <1>1, <1>4, ConstantTypes DEF PlaceInv, Live, Between, TypeOK
<1>6. Within(r)'
  <2>1. Cursor = rdNext /\ Cursor' = stop'
    BY <1>1, <1>2, <1>4 DEF Cursor, TypeOK
  <2>2. Cursor + contentLen = ContentEnd(r) /\ paddingLen = r.pad
    BY <1>1, <1>5, WithinIs
  <2>3. Cursor' + contentLen' = ContentEnd(r) /\ paddingLen' = r.pad
    BY <1>1, <1>2, <2>1, <2>2
  <2>4. inner = "none" => Mine(r)
    BY <1>1, <1>5 DEF Within
  <2>5. inner' = "none" => Mine(r)'
    BY <1>1, <2>4, WebStays DEF Mine
  <2> QED BY <1>1, <1>5, <2>3, <2>5, WebStays DEF Within
<1>7. PlaceInv'
  <2>1. r \in Sent'
    BY <1>1, WebStays
  <2> QED BY <1>6, <2>1 DEF PlaceInv
<1>8. BeforeInv' /\ BegunInv' /\ UnendedInv'
  <2>1. \A q \in Sent : q.start >= HeaderStart => q.start >= HeaderStart'
    BY <1>3
  <2>2. /\ Looking' => Looking
        /\ Begun' => Begun
        /\ Unended' => Unended
        /\ Begun /\ isBeginProcessed /\ pc' = "begin" => pc = "begin"
    BY <1>1 DEF Looking, Begun, Reached, Unended
  <2> QED BY <1>1, <1>3, <1>4, <2>1, <2>2, StartMoves
<1>9. GotInv' /\ DeliveredIsContent'
  BY <1>1, GotStays DEF Reached
<1>10. EndInv' /\ HandedInv'
  <2>1. HeaderStart <= HeaderStart'
    BY <1>3
  <2> QED BY <1>1, <1>3, <1>4, <2>1, EndsStay DEF Reached, Handed
<1> QED BY <1>7, <1>8, <1>9, <1>10 DEF RestInv

LEMMA FillSkipKeeps ==
    ASSUME IInv, FillSkip
    PROVE  RestInv'
<1> USE DEF IInv
<1>1. /\ fill = "next" /\ contentLen > 0 /\ skip /\ fill' \in {"read", "next"}
      /\ skip' = (contentLen' > 0)
      /\ UNCHANGED <<srv, stop, paddingLen, headerLen, type, requestId, inner, inWant,
                     isBeginProcessed, keepConnection, got, pc, isClosed, failed>>
  BY DEF FillSkip, req
<1>2. rdNext <= rdNext' /\ rdNext' \in Nat /\ contentLen' \in Nat /\ rdNext' + contentLen' = rdNext + contentLen
  BY Moves, TypeParts
<1>3. pc # "accept" /\ ~isClosed /\ stop <= rdNext
  BY <1>1 DEF ControlInv
<1>4. PICK r \in Sent : Within(r)
  BY <1>1, <1>3 DEF PlaceInv, Live, Between
<1>5. /\ inner = "none" /\ r.id # requestId
      /\ Cursor = rdNext /\ Cursor + contentLen = ContentEnd(r) /\ paddingLen = r.pad
      /\ r.start + HEADER <= rdNext
  BY <1>1, <1>3, <1>4, WithinIs DEF Within, Cursor, TypeOK
<1>6. ContentEnd(r) \in Nat /\ RecordEnd(r) \in Nat /\ ContentEnd(r) <= RecordEnd(r) /\ r.start \in Nat
  BY SentType, EndOrBehind DEF TypeOK
<1>7. stop \in Nat /\ rdNext \in Nat /\ stop <= rdNext' /\ ~(rdNext' < stop')
  BY <1>1, <1>2, <1>3 DEF TypeOK
<1>8. Within(r)'
  <2>1. Cursor' = rdNext' /\ Cursor' + contentLen' = ContentEnd(r)
    BY <1>1, <1>2, <1>5, <1>7 DEF Cursor
  <2>2. r.start + HEADER <= rdNext'
    BY <1>2, <1>5, <1>6, <1>7, ConstantTypes
  <2> QED BY <1>1, <1>4, <1>5, <1>7, <2>1, <2>2 DEF Within
<1>9. PlaceInv'
  <2>1. r \in Sent'
    BY <1>1, WebStays
  <2> QED BY <1>8, <2>1 DEF PlaceInv
<1>10. BeforeInv' /\ BegunInv' /\ StreamInv'
  <2>1. rdNext' <= RecordEnd(r)
    BY <1>2, <1>5, <1>6, <1>7
  <2>2. ~(pc = "begin" /\ isBeginProcessed)
    BY <1>1 DEF ControlInv
  <2>3. Looking' => Looking
    BY <1>1 DEF Looking
  <2> QED BY <1>1, <1>2, <1>3, <1>4, <1>5, <2>1, <2>2, <2>3, Passes
<1> QED BY <1>9, <1>10 DEF RestInv

LEMMA FillPaddingKeeps ==
    ASSUME IInv, FillPadding
    PROVE  RestInv'
<1> USE DEF IInv
<1>1. /\ fill = "next" /\ contentLen = 0 /\ paddingLen > 0 /\ fill' \in {"read", "next"}
      /\ UNCHANGED <<srv, stop, contentLen, skip, headerLen, type, requestId, inner, inWant,
                     isBeginProcessed, keepConnection, got, pc, isClosed, failed>>
  BY DEF FillPadding, req
<1>2. rdNext <= rdNext' /\ rdNext' \in Nat /\ paddingLen' \in Nat /\ rdNext' + paddingLen' = rdNext + paddingLen
  BY Moves, TypeParts
<1>3. pc # "accept" /\ ~isClosed /\ stop <= rdNext
  BY <1>1 DEF ControlInv
<1>4. PICK r \in Sent : Within(r)
  BY <1>1, <1>3, ConstantTypes DEF PlaceInv, Live, Between, TypeOK
<1>5. /\ ~skip /\ rdNext + paddingLen = RecordEnd(r) /\ ContentEnd(r) <= rdNext
      /\ r.start + HEADER <= rdNext
  BY <1>1, <1>3, <1>4, WithinIs DEF Within, TypeOK
<1>6. ContentEnd(r) \in Nat /\ RecordEnd(r) \in Nat /\ RecordEnd(r) = ContentEnd(r) + r.pad
      /\ r.start \in Nat /\ r.pad \in Nat
  BY SentType, EndOrBehind DEF TypeOK, RecordEnd, ContentEnd
<1>7. stop \in Nat /\ rdNext \in Nat /\ paddingLen \in Nat /\ stop <= rdNext' /\ ~(rdNext' < stop')
  BY <1>1, <1>2, <1>3 DEF TypeOK
<1>8. inner # "body"
  <2> SUFFICES ASSUME inner = "body" PROVE FALSE
    OBVIOUS
  <2>1. Begins(r) /\ rdNext + inWant = ContentEnd(r)
    BY <1>4 DEF Within
  <2>2. r.pad = 0
    BY <2>1 DEF WebInv, FormInv, Begins
  <2> QED BY <1>1, <1>5, <1>6, <1>7, <2>1, <2>2
<1>9. Within(r)'
  <2>1. rdNext' + paddingLen' = RecordEnd(r)
    BY <1>2, <1>5
  <2>2. ContentEnd(r) <= rdNext'
    BY <1>2, <1>5, <1>6, <1>7
  <2>3. r.start + HEADER <= rdNext'
    BY <1>2, <1>5, <1>6, <1>7, ConstantTypes
  <2> QED BY <1>1, <1>4, <1>5, <1>7, <1>8, <2>1, <2>2, <2>3 DEF Within, TypeOK
<1>10. PlaceInv'
  <2>1. r \in Sent'
    BY <1>1, WebStays
  <2> QED BY <1>9, <2>1 DEF PlaceInv
<1>11. BeforeInv' /\ BegunInv' /\ StreamInv'
  <2>1. rdNext' <= RecordEnd(r)
    <3>1. rdNext' + paddingLen' = RecordEnd(r)
      BY <1>2, <1>5
    <3> QED BY <1>2, <1>6, <3>1
  <2>2. ~(pc = "begin" /\ isBeginProcessed)
    BY <1>1 DEF ControlInv
  <2>3. Looking' => Looking
    BY <1>1 DEF Looking
  <2> QED BY <1>1, <1>2, <1>3, <1>4, <1>5, <2>1, <2>2, <2>3, Passes
<1> QED BY <1>10, <1>11 DEF RestInv

LEMMA FillHeaderKeeps ==
    ASSUME IInv, FillHeader
    PROVE  RestInv'
<1> USE DEF IInv, StreamInv
<1>1. /\ fill = "next" /\ contentLen = 0 /\ paddingLen = 0 /\ ~eorStop
      /\ UNCHANGED <<srv, buffStop, lens, skip, type, requestId, inner, inWant,
                     isBeginProcessed, keepConnection, got, pc, isClosed, failed>>
  BY DEF FillHeader, req
<1>2. /\ rdNext' \in Nat /\ rdNext <= rdNext' /\ rdNext' <= buffStop
      /\ headerLen' \in Nat /\ headerLen' < HEADER
      /\ \/ /\ fill' = "read" /\ rdNext' - headerLen' = rdNext - headerLen
            /\ stop' = stop
         \/ /\ fill' = "process" /\ headerLen' = 0 /\ rdNext' - HEADER = rdNext - headerLen
            /\ stop' = rdNext'
  BY Moves, TypeParts
<1>3. pc # "accept" /\ ~isClosed /\ stop <= rdNext /\ inner = "none"
      /\ ~(pc = "begin" /\ isBeginProcessed)
  BY <1>1 DEF ControlInv
<1>4. /\ rdNext \in Nat /\ stop \in Nat /\ headerLen \in Nat /\ headerLen < HEADER /\ HEADER \in Nat
      /\ buffStop \in Nat /\ buffStop <= total /\ total \in Nat
  BY ConstantTypes DEF TypeOK
<1>5. HeaderStart = rdNext - headerLen
  BY <1>1 DEF HeaderStart
<1>6. /\ HeaderStart' = HeaderStart /\ stop' <= rdNext' /\ HeaderStart \in Int
      /\ HeaderStart <= rdNext /\ rdNext' <= HeaderStart + HEADER
  <2>1. HeaderStart \in Int /\ HeaderStart <= rdNext
    BY <1>4, <1>5
  <2>2. CASE fill' = "read"
    <3>1. HeaderStart' = rdNext' - headerLen'
      BY <2>2 DEF HeaderStart
    <3>2. rdNext' - headerLen' = rdNext - headerLen /\ stop' = stop
      BY <1>2, <2>2
    <3>3. HeaderStart' = HeaderStart
      BY <1>5, <3>1, <3>2
    <3>4. stop' <= rdNext'
      BY <1>2, <1>3, <1>4, <3>2
    <3>5. PICK n \in Nat, k \in Nat : n = rdNext' /\ k = headerLen'
      BY <1>2
    <3>6. n - k = HeaderStart /\ k < HEADER
      BY <1>2, <3>1, <3>3, <3>5
    <3>7. n <= HeaderStart + HEADER
      BY <1>4, <2>1, <3>6
    <3> QED BY <2>1, <3>3, <3>4, <3>5, <3>7
  <2>3. CASE fill' = "process"
    <3>1. HeaderStart' = rdNext' - HEADER
      BY <2>3 DEF HeaderStart
    <3>2. rdNext' - HEADER = rdNext - headerLen /\ stop' = rdNext'
      BY <1>2, <2>3
    <3>3. HeaderStart' = HeaderStart
      BY <1>5, <3>1, <3>2
    <3>4. stop' <= rdNext'
      BY <1>2, <3>2
    <3>5. PICK n \in Nat : n = rdNext'
      BY <1>2
    <3>6. n - HEADER = HeaderStart
      BY <3>1, <3>3, <3>5
    <3>7. n <= HeaderStart + HEADER
      BY <1>4, <2>1, <3>6
    <3> QED BY <2>1, <3>3, <3>4, <3>5, <3>7
  <2> QED BY <1>2, <2>2, <2>3
\* It is a header that is read, or nothing, where that is known.
<1>7. ~skip /\ (Needed => Boundary(HeaderStart))
  <2>1. CASE Between /\ (Needed => Boundary(HeaderStart))
    BY <2>1 DEF Between
  <2>2. ASSUME NEW r \in Sent, Within(r) PROVE ~skip /\ Boundary(HeaderStart)
    <3>1. HeaderStart = rdNext /\ rdNext + paddingLen = RecordEnd(r)
      BY <1>1, <1>3, <1>4, <2>2, WithinIs
    <3>2. HeaderStart = RecordEnd(r)
      BY <1>1, <1>4, <3>1
    <3>3. ~skip
      BY <1>1, <2>2 DEF Within
    <3> QED BY <3>2, <3>3 DEF WebInv, TileInv
  <2> QED BY <1>1, <1>3, <2>1, <2>2 DEF PlaceInv, Live
<1>8. PlaceInv'
  <2>1. Between'
    BY <1>1, <1>3, <1>6, <1>7 DEF Between, lens
  <2>2. Needed' => Boundary(HeaderStart)
    BY <1>1, <1>7 DEF Needed, Reached
  <2>3. Needed' => Boundary(HeaderStart)'
    BY <1>1, <1>6, <2>2, WebStays DEF Boundary
  <2> QED BY <2>1, <2>3 DEF PlaceInv
<1>9. BeforeInv' /\ BegunInv' /\ UnendedInv'
  <2>1. \A q \in Sent : q.start >= HeaderStart => q.start >= HeaderStart'
    BY <1>6
  <2>2. (Looking' => Looking) /\ (Begun' => Begun) /\ (Unended' => Unended)
    BY <1>1 DEF Looking, Begun, Reached, Unended
  <2> QED BY <1>1, <1>3, <1>6, <2>1, <2>2, StartMoves
<1>10. GotInv' /\ DeliveredIsContent'
  <2> SUFFICES ASSUME Reached, ~failed, NEW t \in StreamTypes, NEW c \in Content(t, requestId),
                      rdNext <= c, ~(rdNext' <= c)
               PROVE  FALSE
    BY <1>1, <1>2, GotPasses
  <2>1. Boundary(HeaderStart)
    BY <1>7 DEF Needed
  <2>2. c \in Nat /\ c < total
    <3>1. c \in Nat
      BY InContent DEF TypeOK
    <3> QED BY <1>2, <1>4, <3>1
  <2>3. HeaderStart <= c /\ c < HeaderStart + HEADER
    BY <1>2, <1>4, <1>6, <2>2
  <2>4. CASE HeaderStart = total
    BY <1>4, <2>2, <2>3, <2>4
  <2>5. ASSUME NEW h \in Sent, h.start = HeaderStart PROVE FALSE
    <3>1. h.start \in Nat /\ h.start + HEADER <= ContentEnd(h) /\ ContentEnd(h) <= RecordEnd(h)
          /\ ContentEnd(h) \in Nat /\ RecordEnd(h) \in Nat
      BY SentType, EndOrBehind DEF TypeOK
    <3>2. h.start <= c /\ c < RecordEnd(h)
      BY <1>4, <2>2, <2>3, <2>5, <3>1
    <3>3. h.start + HEADER <= c
      BY <3>2, ByteOf
    <3> QED BY <1>4, <2>2, <2>3, <2>5, <3>1, <3>3
  <2> QED BY <2>1, <2>4, <2>5 DEF Boundary
<1>11. EndInv' /\ HandedInv'
  <2>1. HeaderStart' \in Int /\ HeaderStart <= HeaderStart'
    BY <1>6
  <2> QED BY <1>1, <1>3, <2>1, EndsStay DEF Reached, Handed
<1> QED BY <1>8, <1>9, <1>10, <1>11 DEF RestInv

-----------------------------------------------------------------------------
(* ProcessHeader *)

\* Where it finds the reader.
LEMMA AtHeader ==
    ASSUME IInv, fill = "process"
    PROVE  /\ pc \in {"begin", "params", "get"} /\ ~isClosed /\ inner = "none" /\ headerLen = 0
           /\ stop <= rdNext /\ ~skip /\ contentLen = 0 /\ paddingLen = 0
           /\ Needed => Boundary(HeaderStart)
           /\ HeaderStart \in Int /\ HeaderStart + HEADER = rdNext
           /\ pc \in {"begin", "params"} => ~failed
           /\ pc = "begin" => Looking /\ ~isBeginProcessed /\ type = "none"
           /\ pc # "begin" => Reached /\ isBeginProcessed /\ Begun
<1> USE DEF IInv
<1>1. /\ pc \in {"begin", "params", "get"} /\ ~isClosed /\ inner = "none" /\ headerLen = 0
      /\ pc \in {"begin", "params"} => ~failed
      /\ pc = "begin" => ~isBeginProcessed /\ type = "none"
      /\ pc # "begin" => Reached /\ isBeginProcessed /\ Begun
  BY DEF ControlInv, TypeOK, Reached, Begun
<1>2. Between /\ (Needed => Boundary(HeaderStart))
  <2>1. Live
    BY <1>1 DEF Live
  <2>2. \A r : ~Within(r)
    BY DEF Within
  <2> QED BY <2>1, <2>2 DEF PlaceInv
<1>3. HeaderStart \in Int /\ HeaderStart + HEADER = rdNext
  <2>1. HeaderStart = rdNext - HEADER /\ rdNext \in Nat /\ HEADER \in Nat
    BY ConstantTypes DEF HeaderStart, TypeOK
  <2> QED BY <2>1
<1> QED BY <1>1, <1>2, <1>3 DEF Between, Looking

\* While a request is read: the header is not that of its begin record.
LEMMA HeaderBehind ==
    ASSUME IInv, fill = "process", pc # "begin", NEW h \in Sent, h.start + HEADER = rdNext
    PROVE  /\ active = requestId /\ active # 0 /\ h.start > began /\ ~Begins(h) /\ h.start = HeaderStart
<1> USE DEF IInv
<1>1. Begun /\ isBeginProcessed /\ HeaderStart \in Int /\ HeaderStart + HEADER = rdNext
  BY AtHeader
<1>2. active = requestId /\ active # 0
  BY <1>1 DEF BegunInv
<1>3. PICK b \in Sent : Begins(b) /\ RecordEnd(b) <= HeaderStart
  BY <1>1 DEF BegunInv
<1>4. h.start \in Nat /\ b.start \in Nat /\ RecordEnd(b) \in Nat /\ b.start < RecordEnd(b) /\ b.start = began
  BY <1>3, SentType, EndOrBehind DEF TypeOK, Begins
<1>5. h.start = HeaderStart
  BY <1>1, <1>4, ConstantTypes
<1>6. h.start > began
  BY <1>1, <1>3, <1>4, <1>5
<1>7. ~Begins(h)
  BY <1>4, <1>6 DEF Begins
<1> QED BY <1>2, <1>5, <1>6, <1>7

LEMMA HeaderKeeps ==
    ASSUME IInv, fill = "process", NEW h \in Sent, h.start + HEADER = rdNext,
           UNCHANGED <<srv, requestId, isBeginProcessed, keepConnection, rdNext, type, pc, headerLen, got>>,
           fill' # "process", inner' # "body", failed => failed', failed' /\ ~isClosed' => failed,
           (fill' = "off" /\ inner' = "none" /\ isClosed' /\ failed') \/ Within(h)',
           pc = "begin" => h.type # "begin",
           Unended' => ~StreamEnd(h, "params"),
           Reached /\ isClosed' /\ ~failed' /\ inner' = "none" => StreamEnd(h, type)
    PROVE  RestInv'
<1> USE DEF IInv, StreamInv
<1>1. /\ pc \in {"begin", "params", "get"} /\ ~isClosed /\ inner = "none" /\ headerLen = 0
      /\ HeaderStart \in Int /\ HeaderStart + HEADER = rdNext
      /\ pc = "begin" => Looking /\ ~isBeginProcessed
  BY AtHeader
<1>2. h.start \in Nat /\ HEADER \in Nat /\ HEADER > 0 /\ rdNext \in Nat /\ h.start = HeaderStart
      /\ RecordEnd(h) \in Nat /\ rdNext <= RecordEnd(h)
  <2>1. h.start \in Nat /\ HEADER \in Nat /\ HEADER > 0 /\ rdNext \in Nat
    BY SentType, ConstantTypes DEF TypeOK
  <2>2. RecordEnd(h) \in Nat /\ h.start + HEADER <= RecordEnd(h)
    BY <2>1, SentType, EndOrBehind DEF TypeOK
  <2> QED BY <1>1, <2>1, <2>2
<1>3. HeaderStart' = rdNext
  <2>1. rdNext' = rdNext /\ headerLen' = 0
    BY <1>1
  <2>2. rdNext - 0 = rdNext
    BY <1>2
  <2> QED BY <2>1, <2>2 DEF HeaderStart
<1>4. PlaceInv'
  <2>1. h \in Sent'
    BY WebStays
  <2>2. CASE fill' = "off" /\ inner' = "none" /\ isClosed' /\ failed'
    BY <2>2 DEF PlaceInv, Live
  <2>3. CASE Within(h)'
    BY <2>1, <2>3 DEF PlaceInv
  <2> QED BY <2>2, <2>3
<1>5. \A q \in Sent : q.start >= HeaderStart => q.start >= HeaderStart' \/ q = h
  <2> SUFFICES ASSUME NEW q \in Sent, q.start >= HeaderStart, q # h PROVE q.start >= rdNext
    BY <1>3
  <2>1. q.start \in Nat
    BY SentType DEF TypeOK
  <2>2. q.start # h.start
    BY SameStart DEF WebInv, WebType
  <2>3. h.start < q.start
    BY <1>2, <2>1, <2>2
  <2>4. RecordEnd(h) <= q.start
    BY <2>3, NextRecord DEF WebInv, WebType
  <2> QED BY <1>2, <2>1, <2>4
<1>6. BeforeInv' /\ BegunInv' /\ UnendedInv'
  <2>1. Looking' => ~Begins(h)
    BY <1>1 DEF Looking, Begins
  <2>2. /\ Looking' => Looking
        /\ Begun' => Begun
        /\ Unended' => Unended
    BY <1>1 DEF Looking, Begun, Reached, Unended
  <2>3. HeaderStart' \in Int /\ HeaderStart <= HeaderStart'
    BY <1>1, <1>2, <1>3
  <2>4. pc' # "accept" /\ ~(Begun /\ isBeginProcessed /\ pc' = "begin")
    BY <1>1
  <2>5. \A q \in Sent : q.start >= HeaderStart =>
               \/ q.start >= HeaderStart'
               \/ (Looking' => ~Begins(q)) /\ (Unended' => ~StreamEnd(q, "params"))
    BY <1>5, <2>1
  <2> QED BY <2>2, <2>3, <2>4, <2>5, StartMoves
<1>7. GotInv' /\ DeliveredIsContent'
  BY GotStays DEF Reached
<1>8. EndInv'
  <2> SUFFICES ASSUME Reached', ~failed', isClosed', inner' = "none"
               PROVE  headerLen' = 0 /\ \E e \in Sent' : StreamEnd(e, type)' /\ e.start + HEADER = rdNext'
    BY DEF EndInv
  <2>1. StreamEnd(h, type)
    BY DEF Reached
  <2>2. h \in Sent' /\ StreamEnd(h, type)'
    BY <2>1, WebStays DEF StreamEnd, Own
  <2> QED BY <1>1, <2>2
<1>9. HandedInv'
  <2> SUFFICES ASSUME Handed, ~failed PROVE \E e \in Sent : StreamEnd(e, "params") /\ e.start < rdNext
    BY <1>3, WebStays DEF HandedInv, Handed
  <2>1. PICK e \in Sent : StreamEnd(e, "params") /\ e.start < HeaderStart
    BY DEF HandedInv
  <2>2. e.start \in Nat
    BY SentType DEF TypeOK
  <2> QED BY <1>1, <1>2, <2>1, <2>2
<1> QED BY <1>4, <1>6, <1>7, <1>8, <1>9 DEF RestInv

\* The record whose header has been read is the one being read then.
LEMMA WithinHeader ==
    ASSUME IInv, fill = "process", NEW h \in Sent, h.start + HEADER = rdNext, Header(h),
           UNCHANGED <<srv, rdNext, headerLen>>, stop' = stop \/ stop' = rdNext, fill' # "process",
           skip' => h.len > 0 /\ h.id # requestId' /\ inner' = "none",
           ~skip' /\ inner' = "none" /\ h.len > 0 => h.start > began /\ h.id = requestId' /\ h.type = type',
           inner' = "values" => h.id = 0,
           inner' = "body" => Begins(h) /\ inWant' = h.len
    PROVE  Within(h)'
<1> USE DEF IInv
<1>1. headerLen = 0 /\ stop <= rdNext
  BY AtHeader
<1>2. /\ h.start \in Nat /\ h.len \in Nat /\ h.pad \in Nat /\ HEADER \in Nat /\ rdNext \in Nat /\ stop \in Nat
      /\ ContentEnd(h) = rdNext + h.len
  BY SentType, ConstantTypes DEF TypeOK, ContentEnd
<1>3. rdNext' = rdNext /\ contentLen' = h.len /\ paddingLen' = h.pad /\ headerLen' = 0 /\ began' = began
  BY <1>1, WebStays DEF Header
<1>4. Cursor' = rdNext /\ ~(rdNext < stop') /\ stop' <= rdNext
  <2>1. stop' <= rdNext /\ stop' \in Nat
    BY <1>1, <1>2
  <2> QED BY <1>2, <1>3, <2>1 DEF Cursor
<1>5. h.start + HEADER <= rdNext
  BY <1>2
<1>6. ContentEnd(h)' = ContentEnd(h)
  BY DEF ContentEnd
<1>7. Begins(h)' <=> Begins(h)
  BY WebStays
<1> HIDE DEF IInv
<1> QED BY <1>2, <1>3, <1>4, <1>5, <1>6, <1>7 DEF Within, Mine

\* What FCGX_Accept_r has not found yet lies ahead of the header.
LEMMA HeaderAhead ==
    ASSUME IInv, fill = "process", pc = "begin", NEW h \in Sent, h.start + HEADER = rdNext
    PROVE  /\ h.type = "begin" => Begins(h) /\ active # 0
           /\ h.id # 0 /\ h.len = 0 => h.id = requestId
<1> USE DEF IInv
<1>1. HeaderStart \in Int /\ HeaderStart + HEADER = rdNext /\ AheadOf(HeaderStart)
  BY AtHeader DEF BeforeInv
<1>2. h.start \in Nat /\ began \in Nat /\ h.start = HeaderStart
  <2>1. h.start \in Nat /\ HEADER \in Nat /\ began \in Nat
    BY SentType, ConstantTypes DEF TypeOK
  <2>2. HeaderStart \in Int /\ HeaderStart + HEADER = h.start + HEADER
    BY <1>1
  <2>3. \A x, y \in Int : x + HEADER = y + HEADER => x = y
    BY ConstantTypes
  <2>4. h.start \in Int
    BY <2>1
  <2>5. h.start = HeaderStart
    BY <2>2, <2>3, <2>4
  <2> QED BY <2>1, <2>5
<1>3. ASSUME active # 0, h.start >= began PROVE Begins(h)
  <2>1. PICK b \in Sent : Begins(b)
    BY <1>3 DEF WebInv, ActiveInv
  <2>2. h.start <= began
    BY <1>1, <1>2, <1>3 DEF AheadOf
  <2>3. b.start = h.start
    BY <1>2, <1>3, <2>1, <2>2 DEF Begins
  <2>4. b = h
    BY <2>3, SameStart DEF WebInv, WebType
  <2> QED BY <2>1, <2>4
<1>4. h.type = "begin" => active # 0 /\ h.start >= began
  BY <1>1, <1>2 DEF AheadOf
<1>5. h.id # 0 /\ h.len = 0 => h.id = requestId
  BY <1>1, <1>2 DEF AheadOf
<1> QED BY <1>3, <1>4, <1>5

LEMMA NoHeaderKeeps ==
    ASSUME IInv, fill = "process", NoHeader,
           UNCHANGED <<srv, isBeginProcessed, keepConnection, rdNext, type, pc, headerLen, got>>
    PROVE  RestInv'
<1> USE DEF IInv, StreamInv
<1>1. fill' = "off" /\ inner' = "none" /\ isClosed' /\ failed' /\ requestId' = requestId
  BY DEF NoHeader, Fails, SetError
<1>2. /\ pc \in {"begin", "params", "get"} /\ ~isClosed /\ inner = "none" /\ headerLen = 0
      /\ HeaderStart \in Int /\ HeaderStart + HEADER = rdNext
      /\ pc \in {"begin", "params"} => ~failed
      /\ Needed => Boundary(HeaderStart)
      /\ pc = "begin" => ~isBeginProcessed
  BY AtHeader
<1>3. pc # "params"
  <2> SUFFICES ASSUME pc = "params" PROVE FALSE
    OBVIOUS
  <2>1. Boundary(HeaderStart)
    BY <1>2 DEF Needed, Reached
  <2>2. ASSUME NEW r \in Sent, r.start = HeaderStart PROVE FALSE
    BY <1>2, <2>2 DEF NoHeader, HeaderRead
  <2>3. HeaderStart = total
    BY <2>1, <2>2 DEF Boundary
  <2> QED BY <1>2, <2>3, ConstantTypes DEF TypeOK
<1>4. HeaderStart' = rdNext
  <2>1. rdNext' = rdNext /\ headerLen' = 0
    BY <1>2
  <2>2. rdNext - 0 = rdNext
    BY DEF TypeOK
  <2> QED BY <1>1, <2>1, <2>2 DEF HeaderStart
<1>5. BeforeInv' /\ BegunInv' /\ UnendedInv'
  <2>1. HeaderStart' \in Int /\ HeaderStart <= HeaderStart' /\ pc' # "accept"
    BY <1>2, <1>4, ConstantTypes DEF TypeOK
  <2>2. ~Looking' /\ ~Unended' /\ (Begun' => Begun)
    BY <1>1, <1>2, <1>3 DEF Looking, Unended, Begun, Reached
  <2>3. ~(Begun /\ isBeginProcessed /\ pc' = "begin")
    BY <1>2
  <2> QED BY <1>1, <2>1, <2>2, <2>3, StartMoves
<1>6. GotInv' /\ DeliveredIsContent'
  BY <1>1, GotStays DEF Reached
<1>7. EndInv' /\ HandedInv' /\ PlaceInv'
  BY <1>1 DEF EndInv, HandedInv, PlaceInv, Live
<1> QED BY <1>5, <1>6, <1>7 DEF RestInv

LEMMA BeginRecordKeeps ==
    ASSUME IInv, fill = "process", NEW h \in Sent, h.start + HEADER = rdNext, Header(h), BeginRecord(h),
           UNCHANGED <<srv, isBeginProcessed, keepConnection, rdNext, type, pc, headerLen, got>>
    PROVE  RestInv'
<1> USE DEF IInv
<1>1. pc = "begin" /\ ~isBeginProcessed
  BY AtHeader DEF BeginRecord
<1>2. Begins(h) /\ active # 0
  BY <1>1, HeaderAhead DEF BeginRecord
<1>3. h.id # 0 /\ h.len = BODY
  BY <1>2 DEF WebInv, FormInv, Begins
<1>4. requestId' = h.id /\ inner' = "body" /\ inWant' = BODY /\ fill' = "off" /\ skip' = skip /\ stop' = stop
  BY <1>3 DEF BeginRecord, ReadContent
<1>5. Within(h)' /\ h \in Sent'
  <2>1. ~skip
    BY AtHeader
  <2> HIDE DEF IInv
  <2> QED BY <1>2, <1>3, <1>4, <2>1, WithinHeader, WebStays
<1>6. PlaceInv'
  BY <1>5 DEF PlaceInv
<1>7. BeforeInv'
  BY <1>1, <1>4 DEF BeforeInv, Looking
<1>8. BegunInv'
  <2>1. active' = active /\ requestId' = active
    BY <1>2, <1>4, WebStays DEF Begins
  <2> QED BY <1>1, <1>2, <2>1 DEF BegunInv
<1>9. StreamInv'
  BY <1>1 DEF StreamInv, GotInv, DeliveredIsContent, EndInv, UnendedInv, Unended, HandedInv, Handed, Reached
<1> QED BY <1>6, <1>7, <1>8, <1>9 DEF RestInv

LEMMA OtherHeadersKeep ==
    ASSUME IInv, fill = "process", NEW h \in Sent, h.start + HEADER = rdNext, Header(h),
           BeginRefused(h) \/ ManagementRecord(h) \/ OtherRequest(h) \/ WrongType(h) \/ StreamRecord(h),
           UNCHANGED <<srv, isBeginProcessed, keepConnection, rdNext, type, pc, headerLen, got>>
    PROVE  RestInv'
<1>1. /\ pc \in {"begin", "params", "get"} /\ ~isClosed /\ inner = "none" /\ ~skip
      /\ pc \in {"begin", "params"} => ~failed
      /\ pc = "begin" => ~isBeginProcessed /\ type = "none"
      /\ pc # "begin" => isBeginProcessed
  BY AtHeader
<1>2. pc # "begin" => active = requestId /\ active # 0 /\ h.start > began
  BY HeaderBehind
<1>3. pc = "begin" => (h.id # 0 /\ h.len = 0 => h.id = requestId)
  BY HeaderAhead
<1>4. requestId' = requestId
  BY DEF BeginRefused, ManagementRecord, OtherRequest, WrongType, StreamRecord
<1>5. /\ h.type = "begin" => h.id # 0 /\ h.len = BODY
      /\ h.id = 0 => h.type = "values" \/ h.len = 0
  BY DEF IInv, WebInv, FormInv
<1>6. pc = "params" => type = "params"
  BY DEF IInv, ControlInv
<1>7. h.len \in Nat /\ h.type \in Types
  BY SentType DEF IInv, TypeOK
<1>8. pc = "begin" => ~Unended'
  BY DEF Unended
<1>9. StreamEnd(h, "params") => h.id = active /\ h.type = "params" /\ h.len = 0
  BY DEF StreamEnd, Own
<1>10. pc # "begin" => OthersInv
  BY <1>2 DEF IInv, WebInv, ActiveInv
<1>11. CASE BeginRefused(h)
  <2>1. pc # "begin" /\ h.type = "begin" /\ h.len = BODY /\ h.id # requestId
    BY <1>1, <1>2, <1>5, <1>10, <1>11 DEF BeginRefused, OthersInv
  <2>2. /\ skip' = TRUE /\ stop' = stop /\ inner' = "none"
        /\ \/ fill' = "read" /\ isClosed' = FALSE /\ failed' = failed
           \/ fill' = "off" /\ isClosed' = TRUE /\ failed' = TRUE
    BY <1>5, <1>11, <2>1 DEF BeginRefused, Answered, Loops, Fails, SetError
  <2>3. Within(h)'
    BY <1>4, <2>1, <2>2, WithinHeader, ConstantTypes
  <2> QED BY <1>2, <1>4, <1>9, <2>1, <2>2, <2>3, HeaderKeeps
<1>12. CASE ManagementRecord(h)
  <2>1. h.id = 0 /\ h.type # "begin" /\ skip' = skip /\ stop' = stop
    BY <1>12 DEF ManagementRecord
  <2>2. \/ h.type = "values" /\ inner' = "values" /\ fill' = "off" /\ isClosed' = isClosed /\ failed' = failed
        \/ h.type # "values" /\ inner' = "none" /\ fill' = "read" /\ isClosed' = FALSE /\ failed' = failed
        \/ h.type # "values" /\ inner' = "none" /\ fill' = "off" /\ isClosed' = TRUE /\ failed' = TRUE
    BY <1>12 DEF ManagementRecord, ReadContent, Answered, Loops, Fails, SetError
  <2>3. Within(h)'
    BY <1>1, <1>5, <1>7, <2>1, <2>2, WithinHeader
  <2>4. Unended' => ~StreamEnd(h, "params")
    BY <1>2, <1>8, <1>9, <2>1
  <2> QED BY <1>1, <1>4, <2>1, <2>2, <2>3, <2>4, HeaderKeeps
<1>13. CASE OtherRequest(h)
  <2>1. h.id # 0 /\ h.id # requestId /\ h.type # "begin" /\ skip' = TRUE /\ stop' = stop
        /\ inner' = "none" /\ fill' = "read" /\ isClosed' = FALSE /\ failed' = failed
    BY <1>13 DEF OtherRequest, Loops
  <2>2. h.len # 0
    BY <1>2, <1>3, <1>10, <2>1 DEF OthersInv
  <2>3. Within(h)'
    BY <1>4, <1>7, <2>1, <2>2, WithinHeader
  <2> QED BY <1>1, <1>4, <1>9, <2>1, <2>2, <2>3, HeaderKeeps
<1>14. CASE WrongType(h)
  <2>1. h.type # "begin" /\ h.type # type /\ fill' = "off" /\ inner' = "none" /\ isClosed' = TRUE /\ failed' = TRUE
    BY <1>14 DEF WrongType, Fails, SetError
  <2>2. Unended' => ~StreamEnd(h, "params")
    BY <1>6, <1>9, <2>1 DEF Unended
  <2> QED BY <1>4, <2>1, <2>2, HeaderKeeps
<1>15. CASE StreamRecord(h)
  <2>1. h.id = requestId /\ h.id # 0 /\ h.type = type /\ skip' = skip
    BY <1>15 DEF StreamRecord
  <2>2. pc # "begin" /\ h.type # "begin"
    <3>1. pc # "begin"
      BY <1>1, <1>7, <2>1 DEF Types, StreamTypes
    <3>2. h.type \in StreamTypes
      BY <1>2, <1>10, <2>1, <3>1 DEF OthersInv
    <3> QED BY <3>1, <3>2 DEF StreamTypes
  <2>3. CASE h.len > 0
    <3>1. fill' = "read" /\ inner' = "none" /\ isClosed' = FALSE /\ failed' = failed /\ stop' = stop
      BY <1>15, <2>3 DEF StreamRecord, Loops
    <3>2. Within(h)'
      BY <1>1, <1>2, <1>4, <2>1, <2>2, <3>1, WithinHeader
    <3>3. h.len # 0
      BY <1>7, <2>3
    <3> QED BY <1>1, <1>4, <1>9, <2>2, <3>1, <3>2, <3>3, HeaderKeeps
  <2>4. CASE ~(h.len > 0)
    <3>1. fill' = "off" /\ inner' = "none" /\ isClosed' = TRUE /\ failed' = failed /\ stop' = rdNext
      BY <1>1, <1>15, <2>4 DEF StreamRecord
    <3>2. h.len = 0
      BY <1>7, <2>4
    <3>3. Within(h)'
      BY <1>1, <2>4, <2>1, <3>1, WithinHeader
    <3>4. StreamEnd(h, type)
      BY <1>2, <2>1, <2>2, <3>2 DEF StreamEnd, Own
    <3>5. ~Unended'
      BY <1>1, <2>2, <3>1 DEF Unended
    <3> QED BY <1>1, <1>4, <2>2, <3>1, <3>3, <3>4, <3>5, HeaderKeeps
  <2> QED BY <2>3, <2>4
<1> QED BY <1>11, <1>12, <1>13, <1>14, <1>15

LEMMA ProcessHeaderKeeps ==
    ASSUME IInv, ProcessHeader
    PROVE  RestInv'
<1>1. sent \in Seq(Records)
  BY DEF IInv, TypeOK
<1>2. fill = "process" /\
      UNCHANGED <<srv, isBeginProcessed, keepConnection, rdNext, type, pc, headerLen, got>>
  BY <1>1, ProcessHeaderCases
<1>3. CASE NoHeader
  BY <1>2, <1>3, NoHeaderKeeps
<1>4. ASSUME NEW h \in Sent, h.start + HEADER = rdNext, Header(h), BeginRecord(h)
      PROVE  RestInv'
  BY <1>2, <1>4, BeginRecordKeeps
<1>5. ASSUME NEW h \in Sent, h.start + HEADER = rdNext, Header(h),
             BeginRefused(h) \/ ManagementRecord(h) \/ OtherRequest(h) \/ WrongType(h) \/ StreamRecord(h)
      PROVE  RestInv'
  BY <1>2, <1>5, OtherHeadersKeep
<1> QED BY <1>1, <1>3, <1>4, <1>5, ProcessHeaderCases

-----------------------------------------------------------------------------
(* FCGX_GetStr, called by ProcessHeader *)

LEMMA InnerTakeKeeps ==
    ASSUME IInv, InnerTake
    PROVE  RestInv'
<1>1. /\ inner # "none" /\ fill = "off" /\ rdNext < stop
      /\ UNCHANGED <<srv, stop, lens, skip, headerLen, type, requestId, inner, fill,
                     isBeginProcessed, keepConnection, got, pc, isClosed, failed>>
  BY DEF InnerTake, req
<1>2. /\ rdNext' \in Nat /\ rdNext <= rdNext' /\ rdNext' <= stop /\ inWant' \in Nat
      /\ inner # "values" => rdNext' + inWant' = rdNext + inWant
  BY Moves, TypeParts DEF IInv
<1>3. /\ pc # "accept" /\ ~isClosed
      /\ inner = "body" => pc = "begin"
      /\ ~(pc = "begin" /\ isBeginProcessed)
  <2>1. rdNext \in Nat /\ stop \in Nat
    BY DEF IInv, TypeOK
  <2> QED BY <1>1, <2>1 DEF IInv, ControlInv
<1>4. PICK r \in Sent : Within(r)
  BY <1>1, <1>3 DEF IInv, PlaceInv, Live, Between
<1>5. /\ r.start \in Nat /\ ContentEnd(r) \in Nat /\ RecordEnd(r) \in Nat /\ ContentEnd(r) <= RecordEnd(r)
      /\ rdNext \in Nat /\ stop \in Nat /\ inWant \in Nat /\ contentLen \in Nat /\ HEADER \in Nat
  BY SentType, EndOrBehind, ConstantTypes DEF IInv, TypeOK
<1>6. Cursor + contentLen = ContentEnd(r) /\ paddingLen = r.pad /\ r.start + HEADER <= rdNext
  BY <1>1, <1>4, WithinIs DEF IInv
<1>7. Cursor = stop /\ Cursor' = stop
  <2>1. PICK n \in Nat : n = rdNext'
    BY <1>2
  <2>2. Cursor' = (IF stop > n THEN stop ELSE n) /\ n <= stop
    BY <1>1, <1>2, <2>1 DEF Cursor
  <2>3. (IF stop > n THEN stop ELSE n) = stop
    BY <1>5, <2>2
  <2>4. Cursor = stop
    BY <1>1, <1>5 DEF Cursor
  <2> QED BY <2>2, <2>3, <2>4
<1>8. stop <= ContentEnd(r) /\ rdNext' <= RecordEnd(r) /\ r.start + HEADER <= rdNext'
  <2>1. PICK n \in Nat : n = rdNext'
    BY <1>2
  <2>2. rdNext <= n /\ n <= stop
    BY <1>2, <2>1
  <2>3. stop <= ContentEnd(r)
    BY <1>5, <1>6, <1>7
  <2>4. n <= RecordEnd(r) /\ r.start + HEADER <= n
    BY <1>5, <1>6, <2>2, <2>3
  <2> QED BY <2>1, <2>3, <2>4
<1>9. Within(r)'
  <2>1. /\ headerLen = 0 /\ ~skip
        /\ inner = "values" => r.id = 0
        /\ inner = "body" => Begins(r) /\ rdNext + inWant = ContentEnd(r)
    BY <1>1, <1>4 DEF Within
  <2>2. Begins(r)' <=> Begins(r)
    BY <1>1, WebStays
  <2>3. contentLen' = contentLen /\ paddingLen' = paddingLen /\ ContentEnd(r)' = ContentEnd(r)
    BY <1>1 DEF lens, ContentEnd
  <2>4. inner' = "body" => rdNext' + inWant' = ContentEnd(r)
    BY <1>1, <1>2, <2>1
  <2> QED BY <1>1, <1>6, <1>7, <1>8, <2>1, <2>2, <2>3, <2>4 DEF Within
<1>10. PlaceInv'
  <2>1. r \in Sent'
    BY <1>1, WebStays
  <2> QED BY <1>9, <2>1 DEF PlaceInv
<1>11. BeforeInv' /\ BegunInv' /\ StreamInv'
  <2>1. Looking' => Looking
    BY <1>1 DEF Looking
  <2>2. Reached => r.id # requestId
    <3>1. Reached => inner = "values" /\ requestId # 0
      BY <1>1, <1>3 DEF Reached, IInv, TypeOK, BegunInv, Begun
    <3>2. inner = "values" => r.id = 0
      BY <1>4 DEF Within
    <3> QED BY <3>1, <3>2
  <2> QED BY <1>1, <1>2, <1>3, <1>4, <1>8, <2>1, <2>2, Passes
<1> QED BY <1>10, <1>11 DEF RestInv

LEMMA BodyReadKeeps ==
    ASSUME IInv, BodyRead
    PROVE  RestInv'
<1>1. /\ inner = "body" /\ fill = "off" /\ inWant = 0
      /\ isBeginProcessed' = TRUE /\ inner' = "none" /\ isClosed' = FALSE
      /\ UNCHANGED <<srv, requestId, rdNext, stop, failed, type, skip, lens, pc, fill, headerLen, got>>
      /\ \E r \in Sent : r.start + HEADER + r.len = rdNext /\ keepConnection' = r.keep
  BY DEF BodyRead
<1>2. pc = "begin"
  BY <1>1 DEF IInv, ControlInv
<1>3. PICK b \in Sent : Within(b)
  BY <1>1, <1>2 DEF IInv, PlaceInv, Live, Between
<1>4. PICK r \in Sent : r.start + HEADER + r.len = rdNext /\ keepConnection' = r.keep
  BY <1>1
<1>5. /\ r.start \in Nat /\ r.len \in Nat /\ RecordEnd(r) \in Nat /\ rdNext <= RecordEnd(r) /\ r.start < rdNext
      /\ b.start \in Nat /\ b.len \in Nat /\ b.start < rdNext
      /\ rdNext \in Nat /\ stop \in Nat /\ contentLen \in Nat /\ paddingLen \in Nat
  BY <1>3, <1>4, SentType, EndOrBehind, WithinIs, ConstantTypes DEF IInv, TypeOK, ContentEnd
<1>6. Begins(b) /\ rdNext + inWant = ContentEnd(b) /\ headerLen = 0 /\ ~skip
  BY <1>1, <1>3 DEF Within
<1>7. ContentEnd(b) = rdNext /\ RecordEnd(b) = rdNext
  <2>1. b.pad = 0
    BY <1>6 DEF IInv, WebInv, FormInv, Begins
  <2>2. rdNext + 0 = rdNext
    BY <1>5
  <2>3. ContentEnd(b) = rdNext
    BY <1>1, <1>6, <2>2
  <2>4. RecordEnd(b) = ContentEnd(b) + b.pad
    BY DEF RecordEnd, ContentEnd
  <2> QED BY <2>1, <2>2, <2>3, <2>4
<1>8. r = b
  <2>1. rdNext - 1 \in Int /\ r.start <= rdNext - 1 /\ b.start <= rdNext - 1
        /\ rdNext - 1 < RecordEnd(r) /\ rdNext - 1 < RecordEnd(b)
    BY <1>5, <1>7
  <2> QED BY <2>1, OneRecord DEF IInv, TypeOK, WebInv
<1>9. contentLen = 0 /\ paddingLen = 0 /\ stop <= rdNext
  <2>1. \/ Cursor + contentLen = ContentEnd(b) /\ paddingLen = b.pad
        \/ contentLen = 0 /\ stop <= rdNext /\ rdNext + paddingLen = RecordEnd(b)
    BY <1>3 DEF Within
  <2>2. b.pad = 0
    BY <1>6 DEF IInv, WebInv, FormInv, Begins
  <2>3. Cursor \in Nat /\ rdNext <= Cursor /\ (Cursor = rdNext => stop <= rdNext)
    BY <1>5 DEF Cursor
  <2>4. Cursor + contentLen = rdNext => Cursor = rdNext /\ contentLen = 0
    BY <1>5, <2>3
  <2>5. rdNext + paddingLen = rdNext => paddingLen = 0
    BY <1>5
  <2> QED BY <1>7, <2>1, <2>2, <2>3, <2>4, <2>5
<1>10. HeaderStart' = rdNext
  <2>1. rdNext' = rdNext /\ headerLen' = 0 /\ fill' = "off"
    BY <1>1, <1>6
  <2>2. rdNext - 0 = rdNext
    BY <1>5
  <2> QED BY <2>1, <2>2 DEF HeaderStart
<1>11. PlaceInv'
  <2>1. Boundary(rdNext)
    BY <1>7 DEF IInv, WebInv, TileInv
  <2>2. Boundary(HeaderStart)'
    BY <1>1, <1>10, <2>1, WebStays DEF Boundary
  <2>3. Between'
    BY <1>1, <1>6, <1>9 DEF Between, lens
  <2> QED BY <2>2, <2>3 DEF PlaceInv
<1>12. BeforeInv'
  BY <1>1, <1>2 DEF BeforeInv, Looking
<1>13. BegunInv'
  <2>1. active = requestId /\ active # 0
    BY <1>1, <1>2 DEF IInv, BegunInv, Begun
  <2>2. active' = active /\ b \in Sent' /\ Begins(b)'
    BY <1>1, <1>6, WebStays
  <2>3. b.keep = keepConnection'
    BY <1>4, <1>8
  <2>4. RecordEnd(b)' = HeaderStart' /\ HeaderStart' \in Nat
    BY <1>5, <1>7, <1>10 DEF RecordEnd
  <2> QED BY <1>1, <2>1, <2>2, <2>3, <2>4 DEF BegunInv
<1>14. StreamInv'
  BY <1>1, <1>2 DEF StreamInv, GotInv, DeliveredIsContent, EndInv, UnendedInv, Unended, HandedInv, Handed, Reached
<1> QED BY <1>11, <1>12, <1>13, <1>14 DEF RestInv

LEMMA InnerEofKeeps ==
    ASSUME IInv, InnerEof
    PROVE  RestInv'
<1>1. /\ inner # "none" /\ fill = "off" /\ isClosed
      /\ inner' = "none" /\ fill' # "process"
      /\ UNCHANGED <<srv, requestId, isBeginProcessed, keepConnection, rdNext, stop, type, skip, lens, pc,
                     headerLen, got>>
  BY DEF InnerEof, Answered, Loops, Fails, SetError, req
<1>2. \/ /\ inner = "values" /\ ~failed /\ contentLen = 0
         /\ fill' = "read" /\ isClosed' = FALSE /\ failed' = failed
      \/ fill' = "off" /\ isClosed' = TRUE /\ failed' = TRUE
  BY DEF InnerEof, Answered, Loops, Fails, SetError
<1>3. /\ pc # "accept" /\ stop <= rdNext
      /\ inner = "body" => pc = "begin"
      /\ ~(pc = "begin" /\ isBeginProcessed)
  BY <1>1 DEF IInv, ControlInv
<1>4. PICK r \in Sent : Within(r)
  BY <1>1, <1>3 DEF IInv, PlaceInv, Live, Between
<1>5. HeaderStart' = HeaderStart /\ HeaderStart \in Int
  <2>1. HeaderStart = rdNext - headerLen /\ HeaderStart' = rdNext - headerLen
    BY <1>1 DEF HeaderStart
  <2>2. rdNext - headerLen \in Int
    BY ConstantTypes DEF IInv, TypeOK
  <2> QED BY <2>1, <2>2
<1>6. PlaceInv'
  <2>1. CASE fill' = "off" /\ isClosed' /\ failed'
    BY <1>1, <2>1 DEF PlaceInv, Live
  <2>2. CASE fill' = "read" /\ inner = "values" /\ contentLen = 0
    <3>1. /\ headerLen = 0 /\ r.start + HEADER <= rdNext /\ ~skip
          /\ ContentEnd(r) <= rdNext /\ rdNext + paddingLen = RecordEnd(r)
      <4>1. ContentEnd(r) <= rdNext /\ rdNext + paddingLen = RecordEnd(r)
        BY <1>3, <1>4, <2>2, WithinIs DEF IInv
      <4> QED BY <1>1, <1>4, <4>1 DEF Within
    <3>2. contentLen' = 0 /\ paddingLen' = paddingLen /\ rdNext' = rdNext /\ stop' = stop /\ skip' = skip
      BY <1>1, <2>2 DEF lens
    <3>3. ~(contentLen > 0) /\ ~(rdNext < stop)
      BY <1>3, <2>2 DEF IInv, TypeOK
    <3>4. Within(r)'
      BY <1>1, <1>3, <2>2, <3>1, <3>2, <3>3 DEF Within, ContentEnd, RecordEnd
    <3>5. r \in Sent'
      BY <1>1, WebStays
    <3> QED BY <3>4, <3>5 DEF PlaceInv
  <2> QED BY <1>2, <2>1, <2>2
<1>7. BeforeInv' /\ BegunInv' /\ UnendedInv'
  <2>1. /\ Looking' => Looking
        /\ Begun' => Begun
        /\ Unended' => Unended
    BY <1>1, <1>2 DEF Looking, Begun, Reached, Unended
  <2>2. \A q \in Sent : q.start >= HeaderStart => q.start >= HeaderStart'
    BY <1>5
  <2>3. HeaderStart <= HeaderStart'
    BY <1>5
  <2> QED BY <1>1, <1>3, <1>5, <2>1, <2>2, <2>3, StartMoves DEF IInv, StreamInv
<1>8. GotInv' /\ DeliveredIsContent'
  BY <1>1, <1>2, GotStays DEF IInv, StreamInv, Reached
<1>9. EndInv' /\ HandedInv'
  <2>1. HeaderStart <= HeaderStart'
    BY <1>5
  <2> QED BY <1>1, <1>2, <1>5, <2>1, EndsStay DEF IInv, StreamInv, Reached, Handed
<1> QED BY <1>6, <1>7, <1>8, <1>9 DEF RestInv, StreamInv

-----------------------------------------------------------------------------
(* FCGX_Accept_r, ReadParams, FCGX_GetStr *)

LEMMA NewReaderKeeps ==
    ASSUME IInv, NewReader
    PROVE  RestInv'
<1>1. /\ pc = "accept" /\ ipcFd /\ pc' = "begin" /\ fill' = "read"
      /\ rdNext' = buffStop /\ stop' = buffStop /\ ~skip' /\ contentLen' = 0 /\ paddingLen' = 0 /\ headerLen' = 0
      /\ ~isBeginProcessed' /\ inner' = inner /\ UNCHANGED <<srv, requestId>>
  BY DEF NewReader
<1>2. inner = "none"
  BY <1>1 DEF IInv, ControlInv
<1>3. buffStop \in Nat
  BY DEF IInv, TypeOK
<1>4. HeaderStart' = buffStop
  <2>1. \A x \in Nat : x - 0 = x
    OBVIOUS
  <2> QED BY <1>1, <1>3, <2>1 DEF HeaderStart
<1>5. PlaceInv'
  <2>1. Between'
    BY <1>1, <1>2, <1>3 DEF Between
  <2>2. ~Needed'
    BY <1>1 DEF Needed, Reached
  <2> QED BY <2>1, <2>2 DEF PlaceInv
<1>6. BeforeInv'
  <2>1. AheadOf(buffStop)
    BY <1>1 DEF IInv, BeforeInv
  <2>2. Sent' = Sent /\ active' = active /\ began' = began
    BY <1>1, WebStays
  <2> QED BY <1>1, <1>4, <2>1, <2>2 DEF BeforeInv, AheadOf
<1>7. BegunInv'
  BY <1>1, <1>2 DEF BegunInv, Begun, Reached
<1>8. StreamInv'
  BY <1>1 DEF StreamInv, GotInv, DeliveredIsContent, EndInv, UnendedInv, Unended, HandedInv, Handed, Reached
<1> QED BY <1>5, <1>6, <1>7, <1>8 DEF RestInv

\* The connection has been closed.
LEMMA AcceptKeeps ==
    ASSUME pc' = "accept", ipcFd' = FALSE
    PROVE  RestInv'
  BY DEF RestInv, PlaceInv, Live, BeforeInv, Looking, BegunInv, Begun, StreamInv, GotInv, DeliveredIsContent,
     EndInv, UnendedInv, Unended, HandedInv, Handed, Reached

LEMMA BeginReturnsKeeps ==
    ASSUME IInv, BeginReturns
    PROVE  RestInv'
<1>1. /\ pc = "begin" /\ fill = "off" /\ inner = "none"
      /\ UNCHANGED <<srv, req, rdNext, failed, fill, headerLen, inner>>
  BY DEF BeginReturns, Returned
<1>2. CASE ~isBeginProcessed
  BY <1>2, AcceptKeeps DEF BeginReturns, TryAgain
<1>3. CASE isBeginProcessed
  <2>1. /\ type' = "params" /\ ~skip' /\ contentLen' = 0 /\ paddingLen' = 0 /\ stop' = rdNext /\ ~isClosed'
        /\ pc' = "params" /\ got' = [t \in StreamTypes |-> {}]
    BY <1>3 DEF BeginReturns, SetReaderType
  <2>2. ~failed
    BY <1>1, <1>3 DEF IInv, ControlInv
  <2>3. Begun /\ active = requestId /\ active # 0
    BY <1>1, <1>3 DEF Begun, IInv, BegunInv
  <2>4. PICK b \in Sent : Begins(b) /\ b.keep = keepConnection /\ RecordEnd(b) = HeaderStart
    BY <1>1, <1>3, <2>3 DEF IInv, BegunInv
  <2>5. /\ HeaderStart = rdNext - headerLen /\ HeaderStart' = HeaderStart
        /\ rdNext \in Nat /\ headerLen \in Nat /\ headerLen < HEADER /\ HEADER \in Nat
    <3>1. rdNext \in Nat /\ headerLen \in Nat /\ headerLen < HEADER /\ HEADER \in Nat
      BY TypeParts, ConstantTypes DEF IInv, ReaderType
    <3> QED BY <1>1, <3>1 DEF HeaderStart
  <2>6. b.start \in Nat /\ RecordEnd(b) \in Nat /\ b.start = began
    BY <2>4, SentType, EndOrBehind DEF IInv, TypeOK, Begins
  <2>7. \A r \in Sent : r.start \in Nat /\ (r.start >= began => r = b \/ r.start >= HeaderStart)
    <3> SUFFICES ASSUME NEW r \in Sent
                 PROVE  r.start \in Nat /\ (r.start >= began => r = b \/ r.start >= HeaderStart)
      OBVIOUS
    <3>1. r.start \in Nat
      BY SentType DEF IInv, TypeOK
    <3>2. r.start = began => r = b
      BY <2>6, SameStart DEF IInv, TypeOK, WebInv
    <3>3. r.start > began => RecordEnd(b) <= r.start
      BY <2>6, NextRecord DEF IInv, TypeOK, WebInv
    <3> QED BY <2>4, <2>6, <3>1, <3>2, <3>3
  <2>8. PlaceInv'
    <3>1. Between'
      BY <1>1, <2>1, <2>5 DEF Between
    <3>2. Boundary(HeaderStart)
      BY <2>4 DEF IInv, WebInv, TileInv
    <3>3. Boundary(HeaderStart)'
      BY <1>1, <2>5, <3>2, WebStays DEF Boundary
    <3> QED BY <3>1, <3>3 DEF PlaceInv
  <2>9. BeforeInv'
    BY <2>1 DEF BeforeInv, Looking
  <2>10. BegunInv'
    <3>1. b \in Sent' /\ Begins(b)' /\ active' = active /\ requestId' = requestId /\ keepConnection' = keepConnection
      BY <1>1, <2>4, WebStays DEF req
    <3>2. RecordEnd(b)' <= HeaderStart'
      <4>1. RecordEnd(b)' = RecordEnd(b)
        BY DEF RecordEnd
      <4> QED BY <2>4, <2>5, <2>6, <4>1
    <3> QED BY <2>1, <2>3, <2>4, <3>1, <3>2 DEF BegunInv
  <2>11. GotInv'
    <3> SUFFICES ASSUME NEW t \in StreamTypes PROVE got'[t] = {c \in Content(t, requestId)' : c < rdNext'}
      BY <1>1 DEF GotInv, req
    <3>1. Content(t, requestId)' = Content(t, requestId) /\ rdNext' = rdNext
      BY <1>1, WebStays DEF req
    <3>2. ASSUME NEW c \in Content(t, requestId), c < rdNext PROVE FALSE
      <4>1. PICK r \in Sent : r.type = t /\ r.start >= began /\ r.start + HEADER <= c /\ c \in Nat
        BY InContent DEF IInv, TypeOK
      <4>2. r # b
        BY <2>4, <4>1 DEF Begins, StreamTypes
      <4>3. r.start >= HeaderStart /\ r.start \in Nat
        BY <2>7, <4>1, <4>2
      <4> QED BY <2>5, <3>2, <4>1, <4>3
    <3> QED BY <2>1, <3>1, <3>2
  <2>12. DeliveredIsContent'
    <3>1. \A t \in StreamTypes : got'[t] = {}
      BY <2>1
    <3> QED BY <3>1 DEF DeliveredIsContent
  <2>13. UnendedInv'
    <3> SUFFICES ASSUME NEW e \in Sent, StreamEnd(e, "params") PROVE e.start >= HeaderStart
      BY <1>1, <2>5, WebStays DEF UnendedInv
    <3>1. e.start > began /\ e.start \in Nat
      BY <2>7 DEF StreamEnd, Own
    <3>2. e # b
      BY <2>6, <3>1
    <3>3. e.start >= began
      BY <2>6, <3>1
    <3> QED BY <2>7, <3>2, <3>3
  <2>14. EndInv' /\ HandedInv'
    BY <2>1 DEF EndInv, HandedInv, Handed
  <2> QED BY <2>8, <2>9, <2>10, <2>11, <2>12, <2>13, <2>14 DEF RestInv, StreamInv
<1> QED BY <1>2, <1>3

LEMMA ParamsEofKeeps ==
    ASSUME IInv, ParamsEof
    PROVE  RestInv'
<1>1. /\ pc = "params" /\ fill = "off" /\ inner = "none" /\ isClosed
      /\ UNCHANGED <<srv, req, rdNext, fill, headerLen, inner, got>>
  BY DEF ParamsEof, Returned
<1>2. CASE want # Pair
  BY <1>2, AcceptKeeps DEF ParamsEof, TryAgain
<1>3. CASE want = Pair
  <2>1. /\ type' = "stdin" /\ ~skip' /\ contentLen' = 0 /\ paddingLen' = 0 /\ stop' = rdNext /\ ~isClosed'
        /\ pc' = "app" /\ failed' = failed
    BY <1>3 DEF ParamsEof, SetReaderType
  <2>2. type = "params"
    BY <1>1 DEF IInv, ControlInv
  <2>3. Begun /\ active = requestId /\ active # 0
    BY <1>1 DEF Begun, Reached, IInv, BegunInv
  <2>4. rdNext \in Nat /\ headerLen \in Nat /\ HEADER \in Nat /\ HEADER > 0
    BY TypeParts, ConstantTypes DEF IInv, ReaderType
  <2>5. HeaderStart' = HeaderStart /\ HeaderStart \in Int /\ HeaderStart = rdNext - headerLen
    BY <1>1, <2>4 DEF HeaderStart
  <2>6. ASSUME ~failed
        PROVE  /\ headerLen = 0
               /\ \E e \in Sent : StreamEnd(e, "params") /\ RecordEnd(e) = rdNext /\ e.start < rdNext
    <3>1. PICK e \in Sent : StreamEnd(e, "params") /\ e.start + HEADER = rdNext
      BY <1>1, <2>2, <2>6 DEF IInv, StreamInv, EndInv, Reached
    <3>2. e.len = 0 /\ e.id = active
      BY <3>1 DEF StreamEnd, Own
    <3>3. e.pad = 0
      BY <2>3, <3>2 DEF IInv, WebInv, FormInv
    <3>4. e.start \in Nat
      BY SentType DEF IInv, TypeOK
    <3>5. RecordEnd(e) = rdNext /\ e.start < rdNext
      BY <2>4, <3>1, <3>2, <3>3, <3>4 DEF RecordEnd
    <3>6. headerLen = 0
      BY <1>1, <2>6 DEF IInv, StreamInv, EndInv, Reached
    <3> QED BY <3>1, <3>5, <3>6
  <2>7. PlaceInv'
    <3>1. Between'
      BY <1>1, <2>1, <2>4 DEF Between
    <3>2. ASSUME ~failed PROVE Boundary(HeaderStart)'
      <4>1. PICK e \in Sent : RecordEnd(e) = rdNext /\ headerLen = 0
        BY <2>6, <3>2
      <4>2. HeaderStart = rdNext
        BY <2>4, <2>5, <4>1
      <4>3. Boundary(HeaderStart)
        BY <4>1, <4>2 DEF IInv, WebInv, TileInv
      <4> QED BY <1>1, <2>5, <4>3, WebStays DEF Boundary
    <3> QED BY <2>1, <3>1, <3>2 DEF PlaceInv, Needed
  <2>8. BeforeInv'
    BY <2>1 DEF BeforeInv, Looking
  <2>9. BegunInv'
    <3>1. PICK b \in Sent : Begins(b) /\ b.keep = keepConnection /\ RecordEnd(b) <= HeaderStart
      BY <1>1, <2>3 DEF IInv, BegunInv, ControlInv, Reached
    <3>2. b \in Sent' /\ Begins(b)' /\ active' = active /\ requestId' = requestId /\ keepConnection' = keepConnection
      BY <1>1, <3>1, WebStays DEF req
    <3>3. RecordEnd(b)' <= HeaderStart'
      <4>1. RecordEnd(b)' = RecordEnd(b)
        BY DEF RecordEnd
      <4> QED BY <2>5, <3>1, <4>1
    <3> QED BY <2>1, <2>3, <3>1, <3>2, <3>3 DEF BegunInv
  <2>10. GotInv' /\ DeliveredIsContent'
    BY <1>1, <2>1, GotStays DEF IInv, StreamInv, Reached, req
  <2>11. EndInv'
    BY <2>1 DEF EndInv
  <2>12. UnendedInv'
    <3> SUFFICES ASSUME failed, NEW e \in Sent, StreamEnd(e, "params") PROVE e.start >= HeaderStart
      BY <1>1, <2>1, <2>5, WebStays DEF UnendedInv, Unended
    <3> QED BY <1>1 DEF IInv, StreamInv, UnendedInv, Unended
  <2>13. HandedInv'
    <3> SUFFICES ASSUME ~failed PROVE \E e \in Sent' : StreamEnd(e, "params")' /\ e.start < HeaderStart'
      BY <2>1 DEF HandedInv
    <3>1. PICK e \in Sent : StreamEnd(e, "params") /\ e.start < rdNext /\ headerLen = 0
      BY <2>6
    <3>2. HeaderStart = rdNext
      BY <2>4, <2>5, <3>1
    <3> QED BY <1>1, <2>5, <3>1, <3>2, WebStays
  <2> QED BY <2>7, <2>8, <2>9, <2>10, <2>11, <2>12, <2>13 DEF RestInv, StreamInv
<1> QED BY <1>2, <1>3

LEMMA GetStrKeeps ==
    ASSUME IInv, GetStr
    PROVE  RestInv'
<1>1. /\ pc \in {"params", "get"} /\ fill = "off" /\ inner = "none" /\ rdNext < stop
      /\ UNCHANGED <<srv, req, stop, failed, isClosed, type, skip, lens, fill, headerLen, inner>>
  BY DEF GetStr
<1>2. /\ rdNext' \in Nat /\ rdNext <= rdNext' /\ rdNext' <= stop
      /\ got' = [got EXCEPT ![type] = @ \cup (rdNext .. rdNext' - 1)]
      /\ pc' = pc \/ (pc = "get" /\ pc' = "app")
  BY Moves, TypeParts DEF IInv
<1>3. /\ rdNext \in Nat /\ stop \in Nat /\ contentLen \in Nat /\ HEADER \in Nat
      /\ got \in [StreamTypes -> SUBSET Nat]
  BY ConstantTypes DEF IInv, TypeOK
<1>4. ~isClosed /\ type \in StreamTypes /\ isBeginProcessed /\ (pc = "params" => type = "params" /\ ~failed)
      /\ (pc = "get" => type = "stdin")
  BY <1>1, <1>3 DEF IInv, ControlInv, StreamTypes, Reached
<1>5. PICK r \in Sent : Within(r)
  BY <1>1, <1>3, <1>4 DEF IInv, PlaceInv, Live, Between
<1>6. ~skip /\ Mine(r) /\ headerLen = 0
  BY <1>1, <1>3, <1>5 DEF Within
<1>7. /\ r.start \in Nat /\ ContentEnd(r) \in Nat /\ RecordEnd(r) \in Nat /\ ContentEnd(r) <= RecordEnd(r)
      /\ began \in Nat
  BY SentType, EndOrBehind DEF IInv, TypeOK
<1>8. Cursor + contentLen = ContentEnd(r) /\ paddingLen = r.pad /\ r.start + HEADER <= rdNext /\ HeaderStart = rdNext
  BY <1>1, <1>5, WithinIs DEF IInv
<1>9. PICK n \in Nat : n = rdNext'
  BY <1>2
<1>10. Cursor = stop /\ Cursor' = stop
  <2>1. Cursor' = (IF stop > n THEN stop ELSE n) /\ n <= stop
    BY <1>1, <1>2, <1>9 DEF Cursor
  <2>2. (IF stop > n THEN stop ELSE n) = stop
    BY <1>3, <2>1
  <2>3. Cursor = stop
    BY <1>1, <1>3 DEF Cursor
  <2> QED BY <2>1, <2>2, <2>3
<1>11. rdNext <= n /\ n <= stop /\ stop <= ContentEnd(r) /\ n <= RecordEnd(r) /\ r.start + HEADER <= n
  <2>1. rdNext <= n /\ n <= stop
    BY <1>2, <1>9
  <2>2. stop <= ContentEnd(r)
    BY <1>3, <1>7, <1>8, <1>10
  <2> QED BY <1>3, <1>7, <1>8, <2>1, <2>2
<1>12. PlaceInv'
  <2>1. Mine(r)'
    BY <1>1, <1>6, WebStays DEF Mine, req
  <2>2. contentLen' = contentLen /\ paddingLen' = paddingLen /\ ContentEnd(r)' = ContentEnd(r)
    BY <1>1 DEF lens, ContentEnd
  <2>3. r.start + HEADER <= rdNext'
    BY <1>9, <1>11
  <2>4. Within(r)'
    BY <1>1, <1>6, <1>8, <1>10, <2>1, <2>2, <2>3 DEF Within
  <2>5. r \in Sent'
    BY <1>1, WebStays
  <2> QED BY <2>4, <2>5 DEF PlaceInv
<1>13. BeforeInv' /\ BegunInv' /\ UnendedInv' /\ HeaderStart' \in Int /\ HeaderStart <= HeaderStart'
  <2>1. /\ Looking' => Looking
        /\ Begun' => Begun
        /\ Unended' => Unended
    BY <1>1, <1>2, <1>4 DEF Looking, Begun, Reached, Unended
  <2>2. rdNext' <= RecordEnd(r)
    BY <1>9, <1>11
  <2>3. pc' # "accept" /\ pc' # "begin" /\ pc # "begin" /\ fill' # "process"
    BY <1>1, <1>2
  <2> QED BY <1>1, <1>2, <1>5, <2>1, <2>2, <2>3, StartPasses DEF req
<1>14. ~failed
  <2> SUFFICES ASSUME failed PROVE FALSE
    OBVIOUS
  <2>1. pc = "get" /\ type = "stdin"
    BY <1>1, <1>4
  <2>2. Begun /\ active = requestId /\ active # 0
    BY <1>1 DEF Begun, Reached, IInv, BegunInv
  <2>3. Own(r, "stdin")
    BY <1>6, <2>1, <2>2 DEF Own, Mine
  <2>4. OrderInv
    BY <2>2 DEF IInv, WebInv, ActiveInv
  <2>5. PICK e \in Sent : StreamEnd(e, "params")
    BY <2>3, <2>4 DEF OrderInv
  <2>6. e.start < r.start /\ e.start \in Nat
    BY <2>3, <2>4, <2>5, SentType DEF OrderInv, IInv, TypeOK
  <2>7. e.start >= rdNext
    BY <1>4, <1>8, <2>1, <2>5 DEF IInv, StreamInv, UnendedInv, Unended
  <2> QED BY <1>3, <1>7, <1>8, <2>6, <2>7
<1>15. GotInv'
  <2>1. requestId' = requestId /\ \A t : Content(t, requestId)' = Content(t, requestId)
    BY <1>1, WebStays DEF req
  <2>2. \A t \in StreamTypes : got[t] = {c \in Content(t, requestId) : c < rdNext}
    BY <1>1, <1>14 DEF IInv, StreamInv, GotInv, Reached
  <2>3. ASSUME NEW t \in StreamTypes PROVE got'[t] = {c \in Content(t, requestId) : c < n}
    <3>1. ASSUME NEW c \in Content(t, requestId), rdNext <= c, c < n PROVE t = type
      <4>1. c \in Nat
        BY InContent DEF IInv, TypeOK
      <4>2. r.start <= c /\ c < RecordEnd(r)
        BY <1>3, <1>7, <1>8, <1>11, <3>1, <4>1
      <4>3. r.type = t
        BY <4>2, ByteOf DEF IInv
      <4> QED BY <1>6, <4>3 DEF Mine
    <3>2. ASSUME NEW c \in rdNext .. n - 1 PROVE c \in Content(type, requestId)
      <4>1. c \in Nat /\ r.start + HEADER <= c /\ c < ContentEnd(r)
        BY <1>3, <1>7, <1>8, <1>11
      <4>2. r.type = type /\ r.id = requestId /\ r.start >= began
        BY <1>6, <1>7 DEF Mine
      <4> QED BY <4>1, <4>2, InContent DEF IInv, TypeOK
    <3>3. ASSUME NEW c \in Content(t, requestId)
          PROVE  c < n <=> c < rdNext \/ (rdNext <= c /\ c < n)
      <4>1. c \in Nat
        BY InContent DEF IInv, TypeOK
      <4> QED BY <1>3, <1>11, <4>1
    <3>4. ASSUME NEW c \in Content(t, requestId)
          PROVE  c \in rdNext .. n - 1 <=> rdNext <= c /\ c < n
      <4>1. c \in Nat
        BY InContent DEF IInv, TypeOK
      <4> QED BY <1>3, <4>1
    <3>5. CASE t = type
      <4>1. got'[t] = got[t] \cup (rdNext .. n - 1)
        BY <1>2, <1>3, <1>4, <1>9, <3>5
      <4>2. ASSUME NEW c PROVE c \in got[t] \cup (rdNext .. n - 1) <=> c \in Content(t, requestId) /\ c < n
        <5>1. c \in rdNext .. n - 1 => c \in Content(t, requestId)
          BY <3>2, <3>5
        <5>2. c \in got[t] <=> c \in Content(t, requestId) /\ c < rdNext
          BY <2>2
        <5> QED BY <3>3, <3>4, <5>1, <5>2
      <4> QED BY <4>1, <4>2
    <3>6. CASE t # type
      <4>1. got'[t] = got[t]
        BY <1>2, <1>3, <3>6
      <4>2. \A c \in Content(t, requestId) : c < n <=> c < rdNext
        BY <3>1, <3>3, <3>6
      <4> QED BY <2>2, <4>1, <4>2
    <3> QED BY <3>5, <3>6
  <2> QED BY <1>9, <2>1, <2>3 DEF GotInv
<1>16. DeliveredIsContent'
  <2>1. \A t \in StreamTypes : got'[t] = {c \in Content(t, requestId)' : c < rdNext'}
    BY <1>1, <1>2, <1>14, <1>15 DEF GotInv, Reached
  <2>2. ASSUME NEW t \in StreamTypes, NEW g \in got'[t], NEW c \in Content(t, requestId)', c < g
        PROVE  c < rdNext'
    <3>1. Content(t, requestId)' = Content(t, requestId)
      BY <1>1, WebStays DEF req
    <3>2. g \in Nat /\ c \in Nat /\ g < n
      BY <1>9, <2>1, <3>1, InContent DEF IInv, TypeOK
    <3> QED BY <1>9, <2>2, <3>2
  <2> QED BY <2>1, <2>2 DEF DeliveredIsContent
<1>17. EndInv' /\ HandedInv'
  BY <1>1, <1>2, <1>4, <1>13, <1>14, EndsStay DEF IInv, StreamInv, Handed
<1> QED BY <1>12, <1>13, <1>15, <1>16, <1>17 DEF RestInv, StreamInv

LEMMA LibraryKeeps ==
    ASSUME IInv, Library
    PROVE  RestInv'
<1>1. TypeOK /\ ControlInv
  BY DEF IInv
<1> QED BY IdleSteps, FillDeliverKeeps, FillSkipKeeps, FillPaddingKeeps, FillHeaderKeeps, ProcessHeaderKeeps,
   InnerTakeKeeps, BodyReadKeeps, InnerEofKeeps, NewReaderKeeps, BeginReturnsKeeps, GetStrKeeps, ParamsEofKeeps
   DEF Library

-----------------------------------------------------------------------------
(* The web server, and what FCGX_Accept_r and the application do at their ends *)

rdr == <<ipcFd, req, rdNext, stop, buffStop, isClosed, failed, type, eorStop, skip, lens, pc, fill, headerLen,
         inner, want, inWant, got>>

Sends(n) == AddsBegin(n) \/ AddsStream(n) \/ AddsEnd(n) \/ AddsExtra(n)

LEMMA SendsKeepWeb ==
    ASSUME WebInv, NEW n, Sends(n)
    PROVE  WebInv'
  BY BeginKeepsWeb, StreamKeepsWeb, EndKeepsWeb, ExtraKeepsWeb DEF Sends

\* What the web server sends lies behind the beginning of the active request.
LEMMA SendsBehind ==
    ASSUME WebInv, NEW n, Sends(n)
    PROVE  /\ Adds(n) /\ n.type \in Types
           /\ active # 0 => UNCHANGED <<active, began>> /\ n.start > began
           /\ active' # 0 => n.start >= began' /\ began' \in Nat
           /\ active' # 0 /\ n.id # 0 /\ n.len = 0 => n.start > began'
           /\ active' = 0 => n.id = 0 /\ n.type # "begin" /\ active = 0
           /\ active' # 0 /\ active = 0 => began' = total
<1>1. Adds(n)
  BY DEF Sends, AddsBegin, AddsStream, AddsEnd, AddsExtra
<1>2. WebType /\ n.start = total /\ n.type \in Types /\ total \in Nat
  BY <1>1, AddsType DEF WebInv
<1>3. CASE AddsBegin(n)
  <2>1. active = 0 /\ active' # 0 /\ began' = total /\ n.len # 0
    BY <1>3, ReaderAssumption, ConstantTypes DEF AddsBegin
  <2> QED BY <1>1, <1>2, <2>1
<1>4. CASE AddsStream(n) \/ AddsEnd(n) \/ AddsExtra(n)
  <2>1. UNCHANGED <<active, began>>
    BY <1>4 DEF AddsStream, AddsEnd, AddsExtra
  <2>2. active # 0 => began < total /\ began \in Nat
    BY <1>1, <2>1, ActiveStays
  <2>3. active = 0 => n.id = 0 /\ n.type # "begin"
    BY <1>4 DEF AddsStream, AddsEnd, AddsExtra
  <2> QED BY <1>1, <1>2, <2>1, <2>2, <2>3
<1> QED BY <1>3, <1>4 DEF Sends

\* It cannot be taken for anything of another request.
LEMMA AheadStays ==
    ASSUME WebInv, NEW n, Sends(n), NEW p \in Int, p <= total, AheadOf(p)
    PROVE  /\ active' # 0 => p <= began'
           /\ \A r \in Sent' : r.start >= p =>
                 /\ r.type = "begin" => active' # 0 /\ r.start >= began'
                 /\ r.id # 0 /\ r.len = 0 => r.id = requestId \/ (active' # 0 /\ r.start > began')
                 /\ r.id # 0 /\ r.id = requestId => r.type = "stdin" \/ (active' # 0 /\ r.start >= began')
<1>1. /\ Adds(n)
      /\ active # 0 => UNCHANGED <<active, began>>
      /\ active' # 0 => n.start >= began'
      /\ active' # 0 /\ n.id # 0 /\ n.len = 0 => n.start > began'
      /\ active' = 0 => n.id = 0 /\ n.type # "begin" /\ active = 0
      /\ active' # 0 /\ active = 0 => began' = total
  BY SendsBehind
<1>2. active' # 0 => p <= began'
  BY <1>1 DEF AheadOf
<1>3. ASSUME NEW r \in Sent, r.start >= p
      PROVE  /\ r.type = "begin" => active' # 0 /\ r.start >= began'
             /\ r.id # 0 /\ r.len = 0 => r.id = requestId \/ (active' # 0 /\ r.start > began')
             /\ r.id # 0 /\ r.id = requestId => r.type = "stdin" \/ (active' # 0 /\ r.start >= began')
  <2>1. /\ r.type = "begin" => active # 0 /\ r.start >= began
        /\ r.id # 0 /\ r.len = 0 => r.id = requestId \/ (active # 0 /\ r.start > began)
        /\ r.id # 0 /\ r.id = requestId => r.type = "stdin" \/ (active # 0 /\ r.start >= began)
    BY <1>3 DEF AheadOf
  <2>2. active # 0 => active' = active /\ began' = began
    BY <1>1
  <2> QED BY <2>1, <2>2
<1>4. \A r \in Sent' : r \in Sent \/ r = n
  BY <1>1, AddsType DEF WebInv
<1> QED BY <1>1, <1>2, <1>3, <1>4

LEMMA SendsKeep ==
    ASSUME IInv, NEW n, Sends(n), UNCHANGED rdr
    PROVE  RestInv'
<1> USE DEF IInv, StreamInv
<1>1. UNCHANGED <<ipcFd, requestId, isBeginProcessed, keepConnection, rdNext, stop, buffStop, isClosed, failed,
                  type, skip, contentLen, paddingLen, pc, fill, headerLen, inner, inWant, got>>
  BY DEF rdr, req, lens
<1>2. /\ Adds(n) /\ n.type \in Types
      /\ active # 0 => UNCHANGED <<active, began>> /\ n.start > began
  BY SendsBehind
<1>3. /\ n.start = total /\ total \in Nat /\ WebType /\ sent \in Seq(Records)
      /\ \A r \in Sent' : r \in Sent \/ r = n
      /\ \A r \in Sent : r \in Sent'
  BY <1>2, AddsType DEF WebInv, WebType
<1>4. /\ Begun => active # 0 /\ active = requestId
      /\ Reached => Begun
      /\ Unended => Reached
      /\ inner = "body" => pc = "begin"
  BY DEF BegunInv, Begun, Reached, Unended, ControlInv
<1>5. /\ active # 0 => \A r \in Sent : (Begins(r)' <=> Begins(r)) /\ r.start \in Nat
      /\ active # 0 => \A r \in Sent, t \in Types : StreamEnd(r, t)' <=> StreamEnd(r, t)
  BY <1>2, ActiveStays
<1>6. /\ rdNext \in Nat /\ HEADER \in Nat /\ headerLen \in Nat
      /\ buffStop \in Nat /\ rdNext <= total /\ buffStop <= total
  BY <1>3, ConstantTypes DEF TypeOK
<1>7. HeaderStart' = HeaderStart /\ HeaderStart \in Int /\ HeaderStart <= total /\ Cursor' = Cursor
  <2>1. HeaderStart' = HeaderStart /\ Cursor' = Cursor
    BY <1>1 DEF HeaderStart, Cursor
  <2>2. HeaderStart \in Int /\ HeaderStart <= total
    BY <1>3, <1>6 DEF HeaderStart
  <2> QED BY <2>1, <2>2
<1>8. PlaceInv'
  <2> SUFFICES ASSUME Live PROVE \/ Between' /\ (Needed' => Boundary(HeaderStart)')
                                 \/ \E r \in Sent' : Within(r)'
    BY <1>1 DEF PlaceInv, Live
  <2>1. CASE Between /\ (Needed => Boundary(HeaderStart))
    <3>1. Between' /\ (Needed' => Needed)
      BY <1>1, <2>1 DEF Between, Needed, Reached
    <3>2. ASSUME Boundary(HeaderStart) PROVE Boundary(HeaderStart)'
      <4>1. CASE HeaderStart = total
        <5>1. n \in Sent' /\ n.start = HeaderStart'
          BY <1>2, <1>3, <1>7, <4>1, AddsType
        <5> QED BY <5>1 DEF Boundary
      <4>2. CASE \E r \in Sent : r.start = HeaderStart
        BY <1>3, <1>7, <4>2 DEF Boundary
      <4> QED BY <3>2, <4>1, <4>2 DEF Boundary
    <3> QED BY <2>1, <3>1, <3>2
  <2>2. ASSUME NEW r \in Sent, Within(r) PROVE Within(r)'
    <3>1. inner = "body" => Begins(r) /\ Begins(r)' /\ rdNext + inWant = ContentEnd(r)
      <4>1. inner = "body" => active # 0
        BY <1>4 DEF Begun
      <4> QED BY <1>5, <2>2, <4>1 DEF Within
    <3>2. Mine(r) => Mine(r)'
      <4>1. CASE active # 0
        BY <1>1, <1>2, <4>1 DEF Mine
      <4>2. CASE active = 0
        <5>1. pc = "begin"
          BY <1>4, <4>2 DEF Live, Begun, Reached, TypeOK
        <5>2. r.type # "none"
          BY <1>3, SentType DEF Types, StreamTypes
        <5> QED BY <5>1, <5>2 DEF ControlInv, Mine
      <4> QED BY <4>1, <4>2
    <3>3. ContentEnd(r)' = ContentEnd(r) /\ RecordEnd(r)' = RecordEnd(r)
      BY DEF ContentEnd, RecordEnd
    <3> HIDE DEF IInv, StreamInv
    <3> QED BY <1>1, <1>7, <2>2, <3>1, <3>2, <3>3 DEF Within
  <2> QED BY <1>3, <2>1, <2>2 DEF PlaceInv
<1>9. BeforeInv'
  <2>1. ASSUME pc = "accept", ipcFd PROVE AheadOf(buffStop)'
    <3>1. AheadOf(buffStop) /\ buffStop \in Int /\ buffStop <= total
      BY <1>6, <2>1 DEF BeforeInv
    <3> QED BY <1>1, <3>1, AheadStays DEF AheadOf
  <2>2. ASSUME Looking PROVE AheadOf(HeaderStart)'
    <3>1. AheadOf(HeaderStart)
      BY <2>2 DEF BeforeInv
    <3> QED BY <1>1, <1>7, <3>1, AheadStays DEF AheadOf
  <2> QED BY <1>1, <2>1, <2>2 DEF BeforeInv, Looking
<1>10. BegunInv'
  <2> SUFFICES ASSUME Begun
               PROVE  /\ active' = requestId /\ active' # 0
                      /\ isBeginProcessed => \E b \in Sent' :
                            /\ Begins(b)' /\ b.keep = keepConnection
                            /\ RecordEnd(b) <= HeaderStart'
                            /\ pc = "begin" => RecordEnd(b) = HeaderStart'
    BY <1>1 DEF BegunInv, Begun, Reached, RecordEnd
  <2>1. active # 0 /\ active' = active /\ active = requestId
    BY <1>2, <1>4
  <2>2. isBeginProcessed => \E b \in Sent : /\ Begins(b) /\ b.keep = keepConnection
                                            /\ RecordEnd(b) <= HeaderStart
                                            /\ pc = "begin" => RecordEnd(b) = HeaderStart
    BY DEF BegunInv
  <2> QED BY <1>3, <1>5, <1>7, <2>1, <2>2
<1>11. ASSUME Reached, NEW t
       PROVE  /\ Content(t, requestId) \subseteq Content(t, requestId)'
              /\ \A c \in Content(t, requestId)' : c \in Content(t, requestId) \/ c >= total
  <2>1. UNCHANGED began
    BY <1>2, <1>4, <1>11
  <2>2. /\ Content(t, requestId) \subseteq (UNION {r.start + HEADER .. r.start + HEADER + r.len - 1 : r \in RecordsOf(t, requestId)'})
        /\ \A c \in UNION {r.start + HEADER .. r.start + HEADER + r.len - 1 : r \in RecordsOf(t, requestId)'} :
              c \in Content(t, requestId) \/ c >= total
    <3>1. \A id : /\ Content(t, id) \subseteq Content(t, id)'
                  /\ \A c \in Content(t, id)' : c \in Content(t, id) \/ c >= total
      BY <1>2, <1>3, <2>1, AddsContent
    <3> QED BY <1>1, <3>1 DEF Content, RecordsOf
  <2> QED BY <1>1, <2>2 DEF Content
<1>12. GotInv'
  <2> SUFFICES ASSUME Reached, ~failed, NEW t \in StreamTypes
               PROVE  got[t] = {c \in Content(t, requestId)' : c < rdNext}
    BY <1>1 DEF GotInv, Reached
  <2>1. got[t] = {c \in Content(t, requestId) : c < rdNext}
    BY DEF GotInv
  <2>2. \A c : c >= total => ~(c < rdNext) \/ c \notin Nat
    BY <1>3, <1>6
  <2>3. \A c \in Content(t, requestId)' : c \in Nat
    <3>1. sent' \in Seq(Records)
      BY <1>2 DEF Adds
    <3>2. \A r \in Sent' : r.start \in Nat /\ r.len \in Nat
      BY <1>2, <1>3, SentType, AddsType
    <3>3. \A r \in RecordsOf(t, requestId)' : r.start + HEADER .. r.start + HEADER + r.len - 1 \subseteq Nat
      <4> SUFFICES ASSUME NEW r \in Sent', NEW i \in r.start + HEADER .. r.start + HEADER + r.len - 1
                   PROVE  i \in Nat
        BY DEF RecordsOf
      <4> QED BY <1>6, <3>2
    <3> QED BY <3>3 DEF Content
  <2> QED BY <1>11, <2>1, <2>2, <2>3
<1>13. DeliveredIsContent'
  <2> SUFFICES ASSUME Reached, NEW t \in StreamTypes
               PROVE  /\ got[t] \subseteq Content(t, requestId)'
                      /\ \A g \in got[t], c \in Content(t, requestId)' : c < g => c \in got[t]
    BY <1>1 DEF DeliveredIsContent, Reached
  <2>1. /\ got[t] \subseteq Content(t, requestId)
        /\ \A g \in got[t], c \in Content(t, requestId) : c < g => c \in got[t]
    BY DEF DeliveredIsContent, Reached
  <2>2. ASSUME NEW g \in Content(t, requestId) PROVE g \in Nat /\ g < total
    <3>1. PICK q \in Sent : q.start + HEADER <= g /\ g < ContentEnd(q) /\ g \in Nat
      BY <1>3, InContent
    <3>2. RecordEnd(q) <= total /\ RecordEnd(q) \in Nat /\ ContentEnd(q) \in Nat /\ ContentEnd(q) <= RecordEnd(q)
      BY <1>3, EndOrBehind DEF WebInv, TileInv
    <3> QED BY <1>3, <3>1, <3>2
  <2>3. ASSUME NEW g \in got[t], NEW c \in Content(t, requestId)', c < g PROVE c \in Content(t, requestId)
    <3>1. g \in Nat /\ g < total
      BY <2>1, <2>2
    <3>2. c \in Content(t, requestId) \/ (c >= total /\ c \in Nat)
      <4>1. c \in Nat
        <5>1. \A r \in Sent' : r.start \in Nat /\ r.len \in Nat
          BY <1>2, <1>3, SentType, AddsType
        <5>2. \A r \in RecordsOf(t, requestId)' : r.start + HEADER .. r.start + HEADER + r.len - 1 \subseteq Nat
          <6> SUFFICES ASSUME NEW r \in Sent', NEW i \in r.start + HEADER .. r.start + HEADER + r.len - 1
                       PROVE  i \in Nat
            BY DEF RecordsOf
          <6> QED BY <1>6, <5>1
        <5> QED BY <5>2 DEF Content
      <4> QED BY <1>11, <4>1
    <3> QED BY <1>3, <2>3, <3>1, <3>2
  <2> QED BY <1>11, <2>1, <2>3
<1>14. EndInv'
  <2> SUFFICES ASSUME Reached, ~failed, isClosed, inner = "none"
               PROVE  headerLen = 0 /\ \E e \in Sent' : StreamEnd(e, type)' /\ e.start + HEADER = rdNext
    BY <1>1 DEF EndInv, Reached
  <2>1. headerLen = 0 /\ \E e \in Sent : StreamEnd(e, type) /\ e.start + HEADER = rdNext
    BY DEF EndInv
  <2>2. type \in Types
    BY DEF ControlInv, Reached, Types, StreamTypes
  <2> QED BY <1>1, <1>3, <1>4, <1>5, <2>1, <2>2
<1>15. UnendedInv'
  <2> SUFFICES ASSUME Unended, NEW e \in Sent', StreamEnd(e, "params")' PROVE e.start >= HeaderStart
    BY <1>1, <1>7 DEF UnendedInv, Unended
  <2>1. CASE e \in Sent
    <3>1. StreamEnd(e, "params")
      BY <1>4, <1>5, <2>1 DEF Types, StreamTypes
    <3> QED BY <2>1, <3>1 DEF UnendedInv
  <2>2. CASE e = n
    BY <1>3, <1>7, <2>2
  <2> QED BY <1>3, <2>1, <2>2
<1>16. HandedInv'
  <2> SUFFICES ASSUME Handed, ~failed PROVE \E e \in Sent' : StreamEnd(e, "params")' /\ e.start < HeaderStart
    BY <1>1, <1>7 DEF HandedInv, Handed
  <2>1. \E e \in Sent : StreamEnd(e, "params") /\ e.start < HeaderStart
    BY DEF HandedInv
  <2>2. active # 0 /\ "params" \in Types
    BY <1>4 DEF Handed, Reached, Types, StreamTypes
  <2> QED BY <1>3, <1>5, <2>1, <2>2
<1> QED BY <1>8, <1>9, <1>10, <1>12, <1>13, <1>14, <1>15, <1>16 DEF RestInv

LEMMA NothingSent ==
    ASSUME IInv, ServerCloses \/ UNCHANGED vars, UNCHANGED rdr
    PROVE  WebInv' /\ RestInv'
<1> USE DEF IInv, StreamInv
<1>1. UNCHANGED <<ipcFd, requestId, isBeginProcessed, keepConnection, rdNext, stop, buffStop, isClosed, failed,
                  type, skip, contentLen, paddingLen, pc, fill, headerLen, inner, inWant, got>>
  BY DEF rdr, req, lens
<1>2. UNCHANGED <<sent, total, active, began, stage, extras, conns, odd>> /\ eof' \in BOOLEAN
  BY DEF ServerCloses, vars, srv, TypeOK
<1>3. Sent' = Sent
  BY <1>2 DEF Sent
<1>4. WebInv'
  BY <1>2, <1>3 DEF WebInv, WebType, TileInv, FormInv, ActiveInv, OthersInv, OrderInv, WholePairs,
     Boundary, Begins, Own, StreamEnd, Content, RecordsOf, RecordEnd
<1>5. /\ \A p : Boundary(p)' <=> Boundary(p)
      /\ \A r : (Begins(r)' <=> Begins(r)) /\ (Mine(r)' <=> Mine(r))
      /\ \A r, t : StreamEnd(r, t)' <=> StreamEnd(r, t)
      /\ \A t, id : Content(t, id)' = Content(t, id)
  BY <1>1, <1>2, <1>3 DEF Boundary, Begins, StreamEnd, Own, Content, RecordsOf, Mine
<1>6. HeaderStart' = HeaderStart /\ Cursor' = Cursor
  BY <1>1 DEF HeaderStart, Cursor
<1>7. PlaceInv'
  <2>1. \A r : Within(r)' <=> Within(r)
    BY <1>1, <1>5, <1>6 DEF Within, ContentEnd, RecordEnd
  <2>2. Between' <=> Between
    BY <1>1 DEF Between
  <2>3. Boundary(HeaderStart)' <=> Boundary(HeaderStart)
    BY <1>2, <1>3, <1>6 DEF Boundary
  <2>4. (Live' <=> Live) /\ (Needed' <=> Needed)
    BY <1>1 DEF Live, Needed, Reached
  <2> QED BY <1>3, <2>1, <2>2, <2>3, <2>4 DEF PlaceInv
<1>8. BeforeInv'
  <2>1. (AheadOf(buffStop)' <=> AheadOf(buffStop)) /\ (AheadOf(HeaderStart)' <=> AheadOf(HeaderStart))
    BY <1>1, <1>2, <1>3, <1>6 DEF AheadOf
  <2> QED BY <1>1, <2>1 DEF BeforeInv, Looking
<1>9. BegunInv'
  BY <1>1, <1>2, <1>3, <1>5, <1>6 DEF BegunInv, Begun, Reached, RecordEnd
<1>10. GotInv' /\ DeliveredIsContent'
  BY <1>1, <1>5 DEF GotInv, DeliveredIsContent, Reached
<1>11. EndInv' /\ UnendedInv' /\ HandedInv'
  BY <1>1, <1>3, <1>5, <1>6 DEF EndInv, UnendedInv, HandedInv, Unended, Handed, Reached
<1> QED BY <1>4, <1>7, <1>8, <1>9, <1>10, <1>11 DEF RestInv

\* Types and calls, whatever the web server sends.
LEMMA ServerType ==
    ASSUME TypeOK, ControlInv, Server \/ UNCHANGED vars
    PROVE  TypeOK' /\ ControlInv' /\ odd \subseteq odd'
<1>1. UNCHANGED rdr
  BY DEF Server, rdr, vars
<1>2. WebType /\ ReaderType /\ buffStop <= total /\ got \in [StreamTypes -> SUBSET Nat]
  BY TypeParts
<1>3. WebType' /\ (total' = total \/ (total' \in Nat /\ total < total')) /\ odd \subseteq odd'
  <2>1. CASE ServerCloses \/ UNCHANGED vars
    BY <1>2, <2>1 DEF ServerCloses, vars, srv, WebType
  <2>2. CASE \/ ServerBegin \/ ServerAbort \/ ServerExtra
             \/ \E t \in StreamTypes : ServerStream(t) \/ ServerEnd(t)
    <3>1. WebType' /\ total < total' /\ odd \subseteq odd'
      BY <1>2, <2>2, ServerSends
    <3>2. total' \in Nat
      BY <3>1 DEF WebType
    <3> QED BY <3>1, <3>2
  <2> QED BY <2>1, <2>2 DEF Server
<1>4. TypeOK'
  <2>1. ReaderType'
    BY <1>1, <1>2 DEF ReaderType, rdr, req, lens
  <2>2. buffStop' <= total'
    <3>1. buffStop' = buffStop /\ buffStop \in Nat /\ total \in Nat
      BY <1>1, <1>2 DEF rdr, ReaderType, WebType
    <3>2. PICK k \in Nat : k = total'
      BY <1>3, <3>1
    <3>3. total <= k
      BY <1>3, <3>1, <3>2
    <3> QED BY <1>2, <3>1, <3>2, <3>3
  <2>3. got' \in [StreamTypes -> SUBSET Nat]
    BY <1>1, <1>2 DEF rdr
  <2>4. ReaderType' => headerLen' \in 0..HEADER - 1
    BY ConstantTypes DEF ReaderType
  <2> QED BY <1>3, <2>1, <2>2, <2>3, <2>4 DEF TypeOK, WebType, ReaderType
<1>5. ControlInv'
  BY <1>1 DEF ControlInv, Reached, rdr, req, lens
<1> QED BY <1>3, <1>4, <1>5

LEMMA ServerKeeps ==
    ASSUME IInv, Server \/ UNCHANGED vars, odd' = {}
    PROVE  IInv'
<1>1. UNCHANGED rdr
  BY DEF Server, rdr, vars
<1>2. WebType /\ WebInv /\ TypeOK /\ ControlInv
  BY TypeParts DEF IInv
<1>3. WebInv' /\ RestInv'
  <2>1. CASE ServerCloses \/ UNCHANGED vars
    BY <1>1, <2>1, NothingSent
  <2>2. CASE \/ ServerBegin \/ ServerAbort \/ ServerExtra
             \/ \E t \in StreamTypes : ServerStream(t) \/ ServerEnd(t)
    <3>1. PICK n : Sends(n)
      BY <1>2, <2>2, ServerCases DEF Sends
    <3> QED BY <1>1, <1>2, <3>1, SendsKeepWeb, SendsKeep
  <2> QED BY <2>1, <2>2 DEF Server
<1> QED BY <1>2, <1>3, ServerType DEF IInv, RestInv

LEMMA AcceptConnectionKeeps ==
    ASSUME TypeOK, ControlInv, AcceptConnection
    PROVE  IInv'
<1>1. /\ pc = "accept" /\ conns < MaxConns /\ conns' = conns + 1 /\ ipcFd' = TRUE
      /\ sent' = <<>> /\ total' = 0 /\ active' = 0 /\ began' = 0 /\ stage' = "begin" /\ eof' = FALSE /\ extras' = 0
      /\ odd' = {}
      /\ rdNext' = 0 /\ stop' = 0 /\ buffStop' = 0
      /\ UNCHANGED <<requestId, isBeginProcessed, keepConnection, isClosed, failed, type, eorStop, skip,
                     contentLen, paddingLen, pc, fill, headerLen, inner, want, inWant, got>>
  BY DEF AcceptConnection, req, lens
<1>2. Sent' = {}
  <2>1. Len(sent') = 0
    BY <1>1
  <2> QED BY <2>1 DEF Sent
<1>3. WebType'
  <2>1. conns' \in 0..MaxConns /\ extras' \in 0..MaxExtras
    <3>1. conns \in Nat /\ MaxConns \in Nat /\ MaxExtras \in Nat
      BY ReaderAssumption DEF TypeOK
    <3>2. conns + 1 \in 0..MaxConns /\ 0 \in 0..MaxExtras
      BY <1>1, <3>1
    <3> QED BY <1>1, <3>2
  <2>2. sent' \in Seq(Records)
    BY <1>1
  <2> QED BY <1>1, <2>1, <2>2 DEF WebType
<1>4. WebInv'
  BY <1>1, <1>2, <1>3 DEF WebInv, TileInv, FormInv, ActiveInv
<1>5. TypeOK'
  BY <1>1, <1>3 DEF TypeOK, WebType
<1>6. ControlInv'
  BY <1>1 DEF ControlInv, Reached
<1>7. BeforeInv'
  BY <1>1, <1>2 DEF BeforeInv, AheadOf, Looking
<1>8. PlaceInv' /\ BegunInv' /\ StreamInv'
  BY <1>1 DEF PlaceInv, Live, BegunInv, Begun, StreamInv, GotInv, DeliveredIsContent,
     EndInv, UnendedInv, Unended, HandedInv, Handed, Reached
<1> QED BY <1>4, <1>5, <1>6, <1>7, <1>8 DEF IInv

\* Types and calls, whatever the connection holds.
LEMMA AppType ==
    ASSUME TypeOK, ControlInv, AppFinish \/ AppGet
    PROVE  TypeOK' /\ ControlInv' /\ odd' = odd
<1>1. /\ pc = "app" /\ pc' \in {"accept", "get"} /\ active' \in {0, active} /\ stage' \in {"begin", stage}
      /\ ipcFd' \in BOOLEAN /\ (pc' = "get" => ipcFd' = ipcFd /\ ~isClosed) /\ want' \in Nat
      /\ UNCHANGED <<sent, total, began, eof, extras, conns, odd, requestId, isBeginProcessed, keepConnection,
                     rdNext, stop, buffStop, isClosed, failed, type, eorStop, skip, contentLen, paddingLen,
                     fill, headerLen, inner, inWant, got>>
  <2>1. CASE AppFinish
    BY <2>1 DEF AppFinish, req, lens, TypeOK
  <2>2. CASE AppGet
    <3>1. want' \in Nat
      BY <2>2, ReaderAssumption DEF AppGet
    <3> QED BY <2>2, <3>1 DEF AppGet, req, lens, srv, TypeOK
  <2> QED BY <2>1, <2>2
<1>2. TypeOK'
  BY <1>1 DEF TypeOK
<1>3. ControlInv'
  <2>1. CASE AppFinish
    <3>1. pc' = "accept" /\ fill = "off" /\ inner = "none" /\ ~eorStop
      BY <1>1, <2>1 DEF AppFinish, ControlInv
    <3> QED BY <1>1, <3>1 DEF ControlInv, Reached
  <2>2. CASE AppGet
    <3>1. pc' = "get" /\ fill = "off" /\ inner = "none" /\ ~eorStop /\ type = "stdin" /\ ipcFd /\ isBeginProcessed
          /\ ~isClosed
      BY <1>1, <2>2 DEF AppGet, ControlInv, Reached
    <3> QED BY <1>1, <2>2, <3>1 DEF ControlInv, Reached
  <2> QED BY <2>1, <2>2
<1> QED BY <1>1, <1>2, <1>3

LEMMA AppFinishKeeps ==
    ASSUME IInv, AppFinish
    PROVE  IInv'
<1>1. /\ pc = "app" /\ pc' = "accept" /\ active' = 0 /\ stage' = "begin"
      /\ ipcFd' \in BOOLEAN /\ (ipcFd' => keepConnection /\ ~failed)
      /\ UNCHANGED <<sent, total, began, eof, extras, conns, odd, requestId, isBeginProcessed, keepConnection,
                     rdNext, stop, buffStop, isClosed, failed, type, eorStop, skip, contentLen, paddingLen,
                     fill, headerLen, inner, want, inWant, got>>
  BY DEF AppFinish, req, lens, IInv, TypeOK
<1>2. Sent' = Sent
  BY <1>1 DEF Sent
<1>3. WebType'
  BY <1>1 DEF IInv, WebInv, WebType
<1>4. WebInv'
  BY <1>1, <1>2, <1>3 DEF IInv, WebInv, TileInv, FormInv, ActiveInv, Boundary, RecordEnd
<1>5. TypeOK'
  BY <1>1, <1>3 DEF IInv, TypeOK, WebType
<1>6. ControlInv'
  BY <1>1 DEF IInv, ControlInv, Reached
<1>7. ASSUME ipcFd' PROVE AheadOf(buffStop)'
  <2>1. keepConnection /\ ~failed
    BY <1>1, <1>7
  <2>2. Begun /\ isBeginProcessed /\ active = requestId /\ active # 0
    BY <1>1 DEF IInv, BegunInv, Begun, Reached, ControlInv
  <2>3. PICK b \in Sent : Begins(b) /\ b.keep = keepConnection /\ RecordEnd(b) <= HeaderStart
    BY <2>2 DEF IInv, BegunInv
  <2>4. PICK e \in Sent : StreamEnd(e, "params") /\ e.start < HeaderStart
    BY <1>1, <2>1 DEF IInv, StreamInv, HandedInv, Handed
  <2>5. OthersInv /\ OrderInv
    BY <2>2 DEF IInv, WebInv, ActiveInv
  <2>6. /\ rdNext \in Nat /\ buffStop \in Nat /\ rdNext <= buffStop /\ headerLen \in Nat /\ HEADER \in Nat
        /\ b.start \in Nat /\ b.start < RecordEnd(b) /\ RecordEnd(b) \in Nat /\ e.start \in Nat
    BY SentType, EndOrBehind, ConstantTypes DEF IInv, TypeOK
  <2>7. HeaderStart \in Int /\ HeaderStart <= rdNext
    BY <2>6 DEF HeaderStart
  <2>8. began < buffStop /\ began \in Nat /\ e.start < buffStop
    <3>1. b.start = began
      BY <2>3 DEF Begins
    <3> QED BY <2>3, <2>4, <2>6, <2>7, <3>1
  <2>9. ASSUME NEW r \in Sent, r.start >= buffStop
        PROVE  /\ r.type # "begin"
               /\ r.id # 0 /\ r.len = 0 => r.id = requestId
               /\ r.id = requestId => r.type = "stdin"
    <3>1. r.start > began /\ r.start > e.start
      <4>1. r.start \in Nat
        BY SentType DEF IInv, TypeOK
      <4> QED BY <2>6, <2>8, <2>9, <4>1
    <3>2. r.type # "begin"
      BY <2>1, <2>3, <2>5, <3>1 DEF OthersInv
    <3>3. r.id # 0 /\ r.len = 0 => r.id = requestId
      BY <2>2, <2>5, <3>1 DEF OthersInv
    <3>4. r.id = requestId => r.type = "stdin"
      <4> SUFFICES ASSUME r.id = requestId, r.type = "params" PROVE FALSE
        BY <2>2, <2>5, <3>1 DEF OthersInv, StreamTypes
      <4>1. Own(r, "params")
        BY <2>2, <3>1 DEF Own
      <4>2. r.start <= e.start
        BY <2>4, <2>5, <4>1 DEF OrderInv
      <4> QED BY <2>6, <3>1, <4>2, SentType DEF IInv, TypeOK
    <3> QED BY <3>2, <3>3, <3>4
  <2> QED BY <1>1, <1>2, <2>9 DEF AheadOf
<1>8. BeforeInv'
  BY <1>1, <1>7 DEF BeforeInv, Looking
<1>9. PlaceInv' /\ BegunInv' /\ StreamInv'
  BY <1>1 DEF PlaceInv, Live, BegunInv, Begun, StreamInv, GotInv, DeliveredIsContent,
     EndInv, UnendedInv, Unended, HandedInv, Handed, Reached
<1> QED BY <1>4, <1>5, <1>6, <1>8, <1>9 DEF IInv

LEMMA AppGetKeeps ==
    ASSUME IInv, AppGet
    PROVE  IInv'
<1>1. /\ pc = "app" /\ ~isClosed /\ pc' = "get" /\ want' \in Reads
      /\ UNCHANGED <<srv, ipcFd, requestId, isBeginProcessed, keepConnection, rdNext, stop, buffStop, isClosed,
                     failed, type, eorStop, skip, contentLen, paddingLen, fill, headerLen, inner, inWant, got>>
  BY DEF AppGet, req, lens
<1>2. TypeOK'
  <2>1. want' \in Nat
    BY <1>1, ReaderAssumption
  <2> QED BY <1>1, <2>1 DEF IInv, TypeOK, srv
<1>3. ControlInv'
  BY <1>1 DEF IInv, ControlInv, Reached
<1>4. WebInv'
  BY <1>1, WebStays DEF IInv
<1> QED BY <1>2, <1>3, <1>4, IdleSteps DEF IInv, RestInv

-----------------------------------------------------------------------------
(* The invariant *)

\* Behind the end of a stream there is none of its content.
LEMMA EndPassed ==
    ASSUME TypeOK, WebInv, active # 0, NEW t \in StreamTypes, NEW e \in Sent, StreamEnd(e, t), e.start < rdNext,
           NEW c \in Content(t, active)
    PROVE  c < rdNext
<1>1. PICK r \in Sent : /\ r.type = t /\ r.id = active /\ r.start >= began
                        /\ r.start + HEADER <= c /\ c < ContentEnd(r) /\ c \in Nat
  BY InContent DEF TypeOK
<1>2. PICK b \in Sent : Begins(b)
  BY DEF WebInv, ActiveInv
<1>3. /\ r.start \in Nat /\ began \in Nat /\ e.start \in Nat /\ b.start = began /\ rdNext \in Nat
      /\ ContentEnd(r) \in Nat /\ RecordEnd(r) \in Nat /\ ContentEnd(r) <= RecordEnd(r)
  BY <1>2, SentType, EndOrBehind DEF TypeOK, Begins
<1>4. r # b
  BY <1>1, <1>2 DEF Begins, StreamTypes
<1>5. Own(r, t)
  BY <1>1, <1>3, <1>4, SameStart DEF Own, WebInv, TypeOK
<1>6. r.start <= e.start
  BY <1>5 DEF WebInv, ActiveInv, OrderInv, StreamTypes, StreamEnd, Own
<1>7. e.len = 0 /\ ContentEnd(r) # r.start + HEADER
  BY <1>1, <1>3, ConstantTypes DEF StreamEnd
<1>8. r # e
  BY <1>7, <1>3, ConstantTypes DEF ContentEnd
<1>9. r.start < e.start
  BY <1>3, <1>6, <1>8, SameStart DEF WebInv, TypeOK
<1>10. RecordEnd(r) <= e.start
  BY <1>9, NextRecord DEF WebInv, TypeOK
<1> QED BY <1>1, <1>3, <1>10

\* Types and calls are always right, the rest while nothing odd has been sent.
PlainInv == TypeOK /\ ControlInv /\ (odd = {} => IInv)

\* The facts the properties follow from hold in every state.
THEOREM Invariance == Spec => []PlainInv
<1>1. Init => PlainInv
  <2> SUFFICES ASSUME Init PROVE PlainInv
    OBVIOUS
  <2>1. Sent = {}
    BY DEF Init, Sent
  <2>2. TypeOK
    <3>1. 0 \in 0..MaxExtras /\ 0 \in 0..MaxConns /\ 0 \in 0..HEADER - 1
      BY ReaderAssumption
    <3>2. sent \in Seq(Records) /\ got \in [StreamTypes -> SUBSET Nat]
      BY DEF Init
    <3>3. WebType
      BY <3>1, <3>2 DEF Init, WebType
    <3>4. ReaderType /\ buffStop <= total
      <4>1. rdNext = 0 /\ stop = 0 /\ buffStop = 0 /\ total = 0 /\ headerLen = 0
        BY DEF Init
      <4>2. rdNext <= buffStop /\ stop <= buffStop /\ buffStop <= total /\ headerLen < HEADER /\ headerLen \in Nat
        BY <4>1, ConstantTypes
      <4> QED BY <4>1, <4>2 DEF Init, ReaderType
    <3> QED BY <3>2, <3>3, <3>4, TypeParts
  <2>3. WebInv
    BY <2>1, <2>2 DEF Init, TypeOK, WebInv, WebType, TileInv, FormInv, ActiveInv
  <2>4. ControlInv
    BY DEF Init, ControlInv, Reached
  <2>5. PlaceInv /\ BeforeInv /\ BegunInv /\ StreamInv
    BY DEF Init, PlaceInv, Live, BeforeInv, Looking, BegunInv, Begun, StreamInv, GotInv, DeliveredIsContent,
       EndInv, UnendedInv, Unended, HandedInv, Handed, Reached
  <2> QED BY <2>2, <2>3, <2>4, <2>5 DEF IInv, PlainInv
<1>2. PlainInv /\ [Next]_vars => PlainInv'
  <2> SUFFICES ASSUME TypeOK, ControlInv, odd = {} => IInv, [Next]_vars
               PROVE  TypeOK' /\ ControlInv' /\ (odd' = {} => IInv')
    BY DEF PlainInv
  <2>1. CASE Library
    <3>1. TypeOK' /\ ControlInv'
      <4>1. ReaderType /\ sent \in Seq(Records)
        BY TypeParts DEF TypeOK
      <4> QED BY <2>1, <4>1, LibraryType, LibraryControl
    <3>2. UNCHANGED srv /\ odd' = odd
      BY <2>1, LibraryStays DEF srv
    <3>3. odd = {} => WebInv' /\ RestInv'
      BY <2>1, <3>2, LibraryKeeps, WebStays DEF IInv
    <3> QED BY <3>1, <3>2, <3>3 DEF IInv, RestInv
  <2>2. CASE Server \/ UNCHANGED vars
    BY <2>2, ServerType, ServerKeeps
  <2>3. CASE AcceptConnection
    BY <2>3, AcceptConnectionKeeps DEF IInv
  <2>4. CASE AppGet \/ AppFinish
    BY <2>4, AppType, AppGetKeeps, AppFinishKeeps
  <2> QED BY <2>1, <2>2, <2>3, <2>4 DEF Next
<1> QED BY <1>1, <1>2, PTL DEF Spec

\* Whatever the network does with the records, and as long as the web server has sent
\* none of the Oddities on the connection, the application gets the content of its
\* request's streams, without anything else and without a gap, and an end of file
\* without an error is that of FCGI_STDIN (FCGX_GetStr, FillBuffProc, ProcessHeader).
THEOREM ReadsWhatWasSent == Spec => [](odd = {} => NothingLost)
<1>1. PlainInv => (odd = {} => NothingLost)
  <2> SUFFICES ASSUME IInv, ~Misread PROVE NothingLost
    BY DEF PlainInv, Misread
  <2>1. EofIsEnd
    <3> SUFFICES ASSUME pc = "app", isClosed, ~failed
                 PROVE  Ended("stdin", requestId) /\ got["stdin"] = Content("stdin", requestId)
      BY DEF EofIsEnd
    <3>1. Reached /\ Begun /\ inner = "none" /\ type = "stdin"
      BY DEF Reached, Begun, IInv, ControlInv
    <3>2. active = requestId /\ active # 0
      BY <3>1 DEF IInv, BegunInv
    <3>3. PICK e \in Sent : StreamEnd(e, "stdin") /\ e.start + HEADER = rdNext
      BY <3>1 DEF IInv, StreamInv, EndInv
    <3>4. e \in RecordsOf("stdin", requestId) /\ e.len = 0
      BY <3>2, <3>3, SentType DEF RecordsOf, StreamEnd, Own, IInv, TypeOK
    <3>5. \A c \in Content("stdin", requestId) : c < rdNext
      <4>1. e.start < rdNext /\ "stdin" \in StreamTypes
        BY <3>3, SentType, ConstantTypes DEF IInv, TypeOK, StreamTypes
      <4> QED BY <3>2, <3>3, <4>1, EndPassed DEF IInv
    <3>6. got["stdin"] = {c \in Content("stdin", requestId) : c < rdNext}
      BY <3>1 DEF IInv, StreamInv, GotInv, StreamTypes
    <3> QED BY <3>4, <3>5, <3>6 DEF Ended
  <2> QED BY <2>1 DEF IInv, StreamInv, NothingLost
<1> QED BY <1>1, Invariance, PTL

\* As long as the web server has sent none of the Oddities on the connection, a request
\* that reaches the application without an error code is the one the web server waits
\* for, with all of its parameters (FCGX_Accept_r, ReadParams).
THEOREM ParamsAreWhole == Spec => [](odd = {} => ParamsWhole)
<1>1. PlainInv => (odd = {} => ParamsWhole)
  <2> SUFFICES ASSUME IInv, Handed, ~failed
               PROVE  /\ requestId = active
                      /\ Ended("params", requestId) /\ got["params"] = Content("params", requestId)
    BY DEF ParamsWhole, PlainInv, Misread
  <2>1. Reached /\ Begun
    BY DEF Handed, Reached, Begun
  <2>2. active = requestId /\ active # 0
    BY <2>1 DEF IInv, BegunInv
  <2>3. PICK e \in Sent : StreamEnd(e, "params") /\ e.start < rdNext
    <3>1. PICK e \in Sent : StreamEnd(e, "params") /\ e.start < HeaderStart
      BY DEF IInv, StreamInv, HandedInv
    <3>2. HeaderStart <= rdNext /\ HeaderStart \in Int /\ rdNext \in Nat
      BY ConstantTypes DEF HeaderStart, IInv, TypeOK
    <3>3. e.start \in Nat
      BY SentType DEF IInv, TypeOK
    <3> QED BY <3>1, <3>2, <3>3
  <2>4. e \in RecordsOf("params", requestId) /\ e.len = 0
    BY <2>2, <2>3, SentType DEF RecordsOf, StreamEnd, Own, IInv, TypeOK
  <2>5. \A c \in Content("params", requestId) : c < rdNext
    <3>1. "params" \in StreamTypes
      BY DEF StreamTypes
    <3> QED BY <2>2, <2>3, <3>1, EndPassed DEF IInv
  <2>6. got["params"] = {c \in Content("params", requestId) : c < rdNext}
    BY <2>1 DEF IInv, StreamInv, GotInv, StreamTypes
  <2> QED BY <2>2, <2>4, <2>5, <2>6 DEF Ended
<1> QED BY <1>1, Invariance, PTL

-----------------------------------------------------------------------------
(* Why a kept connection is closed *)

IsPairs(n) == \E k \in Int : n = k * Pair

\* A request is cut short by the end of the connection only, and so is a record that
\* ProcessHeader reads.
FailInv == (Reached \/ inner # "none") /\ failed => eof

\* Of the pairs of FCGI_GET_VALUES, and of the parameters, there are whole ones left.
ValuesInv ==
    /\ inner = "values" => inWant \in 1..Pair /\ (~failed => IsPairs((contentLen + (Cursor - rdNext)) - inWant))
    /\ inner # "none" /\ isClosed /\ ~failed => contentLen = 0
WantInv == pc = "params" /\ ~failed => want \in 1..Pair /\ IsPairs(Cardinality(got["params"]) + want)

\* FCGX_Accept_r has met what it takes for an error.
Stopped == pc = "begin" /\ ~isBeginProcessed /\ fill = "off" /\ inner = "none"
MetInv == Stopped /\ ~eof =>
    /\ active # 0 => rdNext < began + HEADER
    /\ \A r \in Sent : r.start + HEADER = rdNext => r.type = "stdin"

LeftInv == FailInv /\ ValuesInv /\ WantInv /\ MetInv

LEMMA WholeIsPairs ==
    ASSUME NEW n \in Nat, n % Pair = 0
    PROVE  IsPairs(n)
<1>1. \A m \in Int : \A p \in Nat \ {0} : m % p = 0 => \E k \in Int : m = k * p
  OBVIOUS
<1> QED BY <1>1, ConstantTypes DEF IsPairs

LEMMA PairsStep ==
    ASSUME NEW a \in Int, IsPairs(a)
    PROVE  IsPairs(a - Pair) /\ IsPairs(a + Pair)
<1>1. PICK j \in Int : a = j * Pair
  BY DEF IsPairs
<1>2. a - Pair = (j - 1) * Pair /\ a + Pair = (j + 1) * Pair
  BY <1>1, ConstantTypes
<1>3. j - 1 \in Int /\ j + 1 \in Int
  BY <1>1
<1> QED BY <1>2, <1>3 DEF IsPairs

LEMMA NoPairs == IsPairs(0) /\ IsPairs(Pair)
<1>1. 0 = 0 * Pair /\ Pair = 1 * Pair
  BY ConstantTypes
<1> QED BY <1>1 DEF IsPairs

\* Between two multiples of Pair there are at least Pair bytes.
LEMMA OnePair ==
    ASSUME NEW a \in Int, NEW w \in 1..Pair, IsPairs(a), IsPairs(a + w)
    PROVE  w = Pair
<1>1. PICK j \in Int : a = j * Pair
  BY DEF IsPairs
<1>2. PICK k \in Int : a + w = k * Pair
  BY DEF IsPairs
<1>3. w = (k - j) * Pair /\ w \in Nat /\ 0 < w /\ w <= Pair
  BY <1>1, <1>2, ConstantTypes
<1>4. PICK i \in Int : i = k - j
  BY <1>1, <1>2
<1>5. w = i * Pair
  BY <1>3, <1>4
<1>6. CASE i <= 0
  <2>1. i * Pair <= 0
    BY <1>4, <1>6, ConstantTypes
  <2> QED BY <1>3, <1>5, <2>1
<1>7. CASE i >= 2
  <2>1. i * Pair >= Pair + Pair
    BY <1>4, <1>7, ConstantTypes
  <2> QED BY <1>3, <1>5, <2>1, ConstantTypes
<1>8. CASE i = 1
  BY <1>5, <1>8, ConstantTypes
<1> QED BY <1>4, <1>6, <1>7, <1>8

\* A step that leaves the pairs alone, and fails at the end of the connection only.
LEMMA LeftStays ==
    ASSUME LeftInv, UNCHANGED srv,
           (Reached' \/ inner' # "none") /\ failed' => eof \/ ((Reached \/ inner # "none") /\ failed),
           inner' = "values" => /\ inner = "values" /\ inWant' = inWant /\ (failed => failed')
                                /\ ~failed' => contentLen' + (Cursor' - rdNext') = contentLen + (Cursor - rdNext),
           inner' # "none" /\ isClosed' /\ ~failed' =>
               contentLen' = 0 \/ (inner # "none" /\ isClosed /\ ~failed /\ contentLen' = contentLen),
           pc' = "params" => pc = "params" /\ UNCHANGED <<want, got>> /\ (failed => failed'),
           Stopped' => eof \/ (Stopped /\ rdNext' = rdNext)
    PROVE  LeftInv'
<1> USE DEF LeftInv
<1>1. eof' = eof /\ Sent' = Sent /\ active' = active /\ began' = began
  BY WebStays DEF srv
<1>2. FailInv'
  BY <1>1 DEF FailInv
<1>3. ValuesInv'
  <2>1. ASSUME inner' = "values", ~failed' PROVE IsPairs((contentLen' + (Cursor' - rdNext')) - inWant')
    <3>1. IsPairs((contentLen + (Cursor - rdNext)) - inWant)
      BY <2>1 DEF ValuesInv
    <3>2. contentLen' + (Cursor' - rdNext') = contentLen + (Cursor - rdNext) /\ inWant' = inWant
      BY <2>1
    <3>3. (contentLen' + (Cursor' - rdNext')) - inWant' = (contentLen + (Cursor - rdNext)) - inWant
      BY ONLY <3>2, Zenon
    <3> QED BY ONLY <3>1, <3>3, Zenon
  <2> QED BY <2>1 DEF ValuesInv
<1>4. WantInv'
  BY DEF WantInv
<1>5. MetInv'
  BY <1>1 DEF MetInv
<1> QED BY <1>2, <1>3, <1>4, <1>5

\* The calls that move nothing of the record that is read.
LEMMA QuietLeft ==
    ASSUME IInv, LeftInv, FillRead \/ FillReadFails \/ InnerFill \/ GetStrFill \/ GetEof \/ AppGet
    PROVE  LeftInv'
<1> USE DEF Stopped, Reached
<1>1. ControlInv
  BY DEF IInv
<1>2. UNCHANGED <<srv, rdNext, stop, contentLen, inner, inWant, isBeginProcessed, got>>
  BY DEF FillRead, FillReadFails, InnerFill, GetStrFill, GetEof, AppGet, req, lens
<1>3. Cursor' = Cursor
  BY <1>2 DEF Cursor
<1>4. CASE FillRead
  <2>1. fill # "off" /\ fill' = "next" /\ UNCHANGED <<pc, isClosed, failed, want>>
    BY <1>4 DEF FillRead
  <2> QED BY <1>2, <1>3, <2>1, LeftStays
<1>5. CASE FillReadFails
  <2>1. eof /\ fill # "off" /\ failed' = TRUE /\ isClosed' = TRUE /\ UNCHANGED <<pc, want>>
    BY <1>5 DEF FillReadFails, SetError
  <2> QED BY <1>2, <1>3, <2>1, LeftStays
<1>6. CASE InnerFill
  <2>1. inner # "none" /\ UNCHANGED <<pc, isClosed, failed, want>>
    BY <1>6 DEF InnerFill
  <2> QED BY <1>2, <1>3, <2>1, LeftStays
<1>7. CASE GetStrFill
  <2>1. fill' = "read" /\ UNCHANGED <<pc, isClosed, failed, want>>
    BY <1>7 DEF GetStrFill
  <2> QED BY <1>2, <1>3, <2>1, LeftStays
<1>8. CASE GetEof
  <2>1. pc = "get" /\ pc' = "app" /\ UNCHANGED <<isClosed, failed>>
    BY <1>8 DEF GetEof, Returned
  <2> QED BY <1>2, <1>3, <2>1, LeftStays
<1>9. CASE AppGet
  <2>1. pc = "app" /\ pc' = "get" /\ UNCHANGED <<isClosed, failed>>
    BY <1>9 DEF AppGet
  <2> QED BY <1>2, <1>3, <2>1, LeftStays
<1> QED BY <1>4, <1>5, <1>6, <1>7, <1>8, <1>9

\* The steps along a record.
LEMMA FillLeft ==
    ASSUME IInv, LeftInv, FillDeliver \/ FillSkip \/ FillPadding \/ FillEndOfRecord \/ FillHeader
    PROVE  LeftInv'
<1> USE DEF Stopped, Reached
<1>1. ControlInv /\ ReaderType
  BY TypeParts DEF IInv
<1>2. UNCHANGED <<srv, pc, failed, inner, inWant, isBeginProcessed, want, got>>
  BY DEF FillDeliver, FillSkip, FillPadding, FillEndOfRecord, FillHeader, req
<1>3. fill = "next" /\ ~isClosed /\ stop <= rdNext /\ pc \notin {"accept", "app"}
  BY <1>1 DEF ControlInv, FillDeliver, FillSkip, FillPadding, FillEndOfRecord, FillHeader
<1>4. Cursor = rdNext /\ rdNext \in Nat /\ stop \in Nat /\ contentLen \in Nat
  BY <1>1, <1>3 DEF Cursor, ReaderType
<1>5. CASE FillDeliver
  <2>1. contentLen > 0 /\ ~skip /\ rdNext' = rdNext /\ isClosed' = isClosed
    BY <1>5 DEF FillDeliver
  <2>2. stop' \in Nat /\ rdNext <= stop' /\ contentLen' \in Nat /\ stop' + contentLen' = rdNext + contentLen
    BY <1>1, <1>5, Moves
  <2>3. Cursor' = stop'
    <3>1. PICK s \in Nat : s = stop'
      BY <2>2
    <3>2. Cursor' = IF s > rdNext THEN s ELSE rdNext
      BY <2>1, <3>1 DEF Cursor
    <3> QED BY <1>4, <2>2, <3>1, <3>2
  <2>4. contentLen' + (Cursor' - rdNext') = contentLen + (Cursor - rdNext)
    <3>1. PICK s \in Nat, c \in Nat : s = stop' /\ c = contentLen'
      BY <2>2
    <3>2. s + c = rdNext + contentLen
      BY <2>2, <3>1
    <3>3. c + (s - rdNext) = contentLen + (rdNext - rdNext)
      BY <1>4, <3>2
    <3> QED BY <1>4, <2>1, <2>3, <3>1, <3>3
  <2>5. ~(pc = "begin" /\ inner = "none")
    <3> SUFFICES ASSUME pc = "begin", inner = "none" PROVE FALSE
      OBVIOUS
    <3>1. PICK r \in Sent : Within(r)
      BY <1>3, <1>4, <2>1 DEF IInv, PlaceInv, Live, Between
    <3>2. r.type = type
      BY <2>1, <3>1 DEF Within, Mine
    <3>3. type = "none" /\ r.type \in Types
      BY <1>1, SentType DEF ControlInv, IInv, TypeOK
    <3> QED BY <3>2, <3>3 DEF Types, StreamTypes
  <2> QED BY <1>2, <1>3, <2>1, <2>4, <2>5, LeftStays
<1>6. CASE FillSkip
  <2>1. fill' # "off" /\ skip /\ isClosed' = isClosed
    BY <1>6 DEF FillSkip
  <2>2. inner = "none"
    <3>1. \E r \in Sent : Within(r)
      BY <1>3, <2>1 DEF IInv, PlaceInv, Live, Between
    <3> QED BY <2>1, <3>1 DEF Within
  <2> QED BY <1>2, <1>3, <2>1, <2>2, LeftStays
<1>7. CASE FillPadding
  <2>1. fill' # "off" /\ contentLen = 0 /\ stop' = stop /\ contentLen' = contentLen /\ isClosed' = isClosed
    BY <1>7 DEF FillPadding
  <2>2. rdNext' \in Nat /\ rdNext <= rdNext'
    BY <1>1, <1>7, Moves
  <2>3. contentLen' + (Cursor' - rdNext') = contentLen + (Cursor - rdNext)
    <3>1. PICK n \in Nat : n = rdNext'
      BY <2>2
    <3>2. Cursor' = IF stop > n THEN stop ELSE n
      BY <2>1, <3>1 DEF Cursor
    <3>3. Cursor' = n
      BY <1>3, <1>4, <2>2, <3>1, <3>2
    <3>4. \A x \in Nat : x - x = 0
      OBVIOUS
    <3>5. Cursor - rdNext = 0 /\ Cursor' - rdNext' = 0
      BY <1>4, <3>1, <3>3, <3>4
    <3> QED BY <2>1, <3>5
  <2> QED BY <1>2, <1>3, <2>1, <2>3, LeftStays
<1>8. CASE FillEndOfRecord
  <2>1. eorStop /\ contentLen = 0 /\ contentLen' = contentLen /\ stop' = rdNext /\ rdNext' = rdNext
    BY <1>8 DEF FillEndOfRecord, lens
  <2>2. Cursor' = rdNext
    BY <1>4, <2>1 DEF Cursor
  <2>3. inner # "none"
    BY <1>1, <1>3, <2>1 DEF ControlInv
  <2> QED BY <1>2, <1>4, <2>1, <2>2, <2>3, LeftStays
<1>9. CASE FillHeader
  <2>1. ~eorStop
    BY <1>9 DEF FillHeader
  <2>2. inner = "none"
    BY <1>1, <2>1 DEF ControlInv
  <2>3. fill' # "off"
    BY <1>9 DEF FillHeader
  <2> QED BY <1>2, <1>3, <2>2, <2>3, LeftStays
<1> QED BY <1>5, <1>6, <1>7, <1>8, <1>9

\* ProcessHeader fails in the middle of a request at the end of the connection only.
LEMMA HeaderFails ==
    ASSUME IInv, LeftInv, ProcessHeader, ~eof, Reached, failed'
    PROVE  failed
<1> SUFFICES ASSUME ~failed PROVE FALSE
  OBVIOUS
<1>1. fill = "process" /\ sent \in Seq(Records)
  BY ProcessHeaderCases DEF IInv, TypeOK
<1>2. /\ pc \in {"params", "get"} /\ ~isClosed /\ isBeginProcessed
      /\ Boundary(HeaderStart) /\ HeaderStart \in Int /\ HeaderStart + HEADER = rdNext
  BY <1>1, AtHeader DEF Needed, Reached
<1>3. ASSUME HeaderRead = {} PROVE FALSE
  <2>1. ASSUME NEW r \in Sent, r.start = HeaderStart PROVE FALSE
    BY <1>2, <1>3, <2>1 DEF HeaderRead
  <2>2. HeaderStart = total
    BY <1>2, <2>1 DEF Boundary
  <2>3. total \in Nat /\ rdNext \in Nat /\ rdNext <= total
    BY DEF IInv, TypeOK
  <2> QED BY <1>2, <2>2, <2>3, ConstantTypes
<1>4. PICK h \in Sent : /\ h.start + HEADER = rdNext
                        /\ \/ BeginRecord(h) \/ BeginRefused(h) \/ ManagementRecord(h)
                           \/ OtherRequest(h) \/ WrongType(h) \/ StreamRecord(h)
  BY <1>1, <1>3, ProcessHeaderCases DEF NoHeader
<1>5. active = requestId /\ active # 0 /\ h.start > began /\ h.start = HeaderStart
  BY <1>1, <1>2, <1>4, HeaderBehind
<1>6. OthersInv /\ OrderInv /\ stage \in {"params", "stdin", "all"}
  BY <1>5 DEF IInv, WebInv, ActiveInv
<1>7. h.type = "begin" => h.id # 0 /\ h.len = BODY
  BY DEF IInv, WebInv, FormInv
<1>8. CASE WrongType(h)
  <2>1. Own(h, h.type) /\ h.type \in StreamTypes /\ h.type # type
    BY <1>5, <1>6, <1>8 DEF WrongType, Own, OthersInv
  <2>2. h.start \in Nat
    BY SentType DEF IInv, TypeOK
  <2>3. CASE pc = "params"
    <3>1. h.type = "stdin"
      BY <2>1, <2>3 DEF IInv, ControlInv, StreamTypes
    <3>2. PICK e \in Sent : StreamEnd(e, "params")
      BY <1>6, <2>1, <3>1 DEF OrderInv
    <3>3. e.start < h.start
      BY <1>6, <2>1, <3>1, <3>2 DEF OrderInv
    <3>4. e.start >= h.start
      BY <1>2, <1>5, <2>3, <3>2 DEF IInv, StreamInv, UnendedInv, Unended
    <3>5. e.start \in Nat
      BY SentType DEF IInv, TypeOK
    <3> QED BY <2>2, <3>3, <3>4, <3>5
  <2>4. CASE pc = "get"
    <3>1. h.type = "params"
      BY <2>1, <2>4 DEF IInv, ControlInv, StreamTypes
    <3>2. PICK e \in Sent : StreamEnd(e, "params") /\ e.start < h.start
      BY <1>5, <2>4 DEF IInv, StreamInv, HandedInv, Handed
    <3>3. h.start <= e.start
      BY <1>6, <2>1, <3>1, <3>2 DEF OrderInv
    <3>4. e.start \in Nat
      BY SentType DEF IInv, TypeOK
    <3> QED BY <2>2, <3>2, <3>3, <3>4
  <2> QED BY <1>2, <2>3, <2>4
<1>9. CASE BeginRecord(h)
  BY <1>2, <1>9 DEF BeginRecord
<1>10. CASE BeginRefused(h)
  BY <1>7, <1>10 DEF BeginRefused, Answered, Loops
<1>11. CASE ManagementRecord(h)
  BY <1>11 DEF ManagementRecord, ReadContent, Answered, Loops
<1>12. CASE OtherRequest(h) \/ StreamRecord(h)
  BY <1>12 DEF OtherRequest, StreamRecord, Loops
<1> QED BY <1>4, <1>8, <1>9, <1>10, <1>11, <1>12

\* What FCGX_Accept_r takes for an error is FCGI_STDIN of an earlier request, or no
\* header.
LEMMA HeaderIs ==
    ASSUME IInv, LeftInv, ProcessHeader, ~eof, Stopped', NEW r \in Sent, r.start + HEADER = rdNext
    PROVE  r.type = "stdin"
<1>1. fill = "process" /\ sent \in Seq(Records) /\ UNCHANGED <<pc, isBeginProcessed>>
  BY ProcessHeaderCases DEF IInv, TypeOK
<1>2. /\ pc = "begin" /\ ~isBeginProcessed /\ type = "none" /\ Looking
      /\ HeaderStart \in Int /\ HeaderStart + HEADER = rdNext
      /\ fill' = "off" /\ inner' = "none"
  BY <1>1, AtHeader DEF Stopped
<1>3. PICK h \in Sent : /\ h.start + HEADER = rdNext
                        /\ \/ BeginRecord(h) \/ BeginRefused(h) \/ ManagementRecord(h)
                           \/ OtherRequest(h) \/ WrongType(h) \/ StreamRecord(h)
  BY <1>1, ProcessHeaderCases DEF NoHeader, HeaderRead
<1>4. h.type = "begin" => h.id # 0 /\ h.len = BODY
  BY DEF IInv, WebInv, FormInv
<1>5. h.type \in Types /\ h.start \in Nat /\ r.start \in Nat /\ began \in Nat
  BY SentType DEF IInv, TypeOK
<1>6. WrongType(h)
  <2>1. ~BeginRecord(h)
    BY <1>2, <1>4 DEF BeginRecord, ReadContent
  <2>2. ~BeginRefused(h)
    BY <1>2 DEF BeginRefused
  <2>3. ~ManagementRecord(h)
    BY <1>2 DEF ManagementRecord, ReadContent, Answered, Loops
  <2>4. ~OtherRequest(h)
    BY <1>2 DEF OtherRequest, Loops
  <2>5. ~StreamRecord(h)
    BY <1>2, <1>5 DEF StreamRecord, Types, StreamTypes
  <2> QED BY <1>3, <2>1, <2>2, <2>3, <2>4, <2>5
<1>7. h.type # "begin" /\ h.id # 0 /\ h.id = requestId
  BY <1>6 DEF WrongType
<1>8. h = r
  <2>1. \A x, y \in Nat : x + HEADER = y + HEADER => x = y
    BY ConstantTypes
  <2> QED BY <1>3, <1>5, <2>1, SameStart DEF IInv, WebInv, WebType
<1>9. AheadOf(HeaderStart)
  BY <1>2 DEF IInv, BeforeInv
<1>10. h.start >= HeaderStart
  BY <1>2, <1>3, <1>5, ConstantTypes
<1>11. h.type = "stdin" \/ (active # 0 /\ h.start >= began)
  BY <1>7, <1>9, <1>10 DEF AheadOf
<1>12. ~(active # 0 /\ h.start >= began)
  <2> SUFFICES ASSUME active # 0, h.start >= began PROVE FALSE
    OBVIOUS
  <2>1. PICK b \in Sent : Begins(b)
    BY DEF IInv, WebInv, ActiveInv
  <2>2. HeaderStart <= began
    BY <1>9 DEF AheadOf
  <2>3. b.start = h.start
    BY <1>2, <1>3, <1>5, <2>1, <2>2, ConstantTypes DEF Begins
  <2>4. b = h
    BY <2>1, <2>3, SameStart DEF IInv, WebInv, WebType
  <2> QED BY <1>7, <2>1, <2>4 DEF Begins
<1> QED BY <1>5, <1>8, <1>11, <1>12

\* It begins before the request that is waited for, whose own beginning is no error.
LEMMA HeaderMet ==
    ASSUME IInv, LeftInv, ProcessHeader, ~eof, Stopped'
    PROVE  /\ active # 0 => rdNext < began + HEADER
           /\ \A r \in Sent : r.start + HEADER = rdNext => r.type = "stdin"
<1>1. \A r \in Sent : r.start + HEADER = rdNext => r.type = "stdin"
  BY HeaderIs
<1>2. ASSUME active # 0 PROVE rdNext < began + HEADER
  <2>1. Looking /\ HeaderStart \in Int /\ HeaderStart + HEADER = rdNext
    <3>1. fill = "process" /\ UNCHANGED <<pc, isBeginProcessed>>
      BY ProcessHeaderCases DEF IInv, TypeOK
    <3> QED BY <3>1, AtHeader DEF Stopped
  <2>2. HeaderStart <= began
    BY <1>2, <2>1 DEF IInv, BeforeInv, AheadOf
  <2>3. PICK b \in Sent : b.start = began /\ b.type = "begin"
    BY <1>2 DEF IInv, WebInv, ActiveInv, Begins
  <2>4. HeaderStart # began
    BY <1>1, <2>1, <2>3
  <2>5. began \in Int
    BY DEF IInv, TypeOK
  <2> QED BY <2>1, <2>2, <2>4, <2>5, ConstantTypes
<1> QED BY <1>1, <1>2

LEMMA HeaderLeft ==
    ASSUME IInv, LeftInv, ProcessHeader
    PROVE  LeftInv'
<1> USE DEF LeftInv
<1>1. /\ fill = "process" /\ sent \in Seq(Records)
      /\ UNCHANGED <<srv, isBeginProcessed, keepConnection, rdNext, type, pc, headerLen, want, got>>
  BY ProcessHeaderCases DEF IInv, TypeOK
<1>2. /\ pc \in {"begin", "params", "get"} /\ ~isClosed /\ inner = "none" /\ stop <= rdNext
      /\ pc \in {"begin", "params"} => ~failed
      /\ pc # "begin" => Reached
  BY <1>1, AtHeader
<1>3. eof' = eof /\ Sent' = Sent /\ active' = active /\ began' = began
  BY <1>1, WebStays DEF srv
<1>4. /\ failed => failed'
      /\ inner' # "none" => failed' = failed /\ isClosed' = isClosed
      /\ inner' = "values" => inWant' = Pair /\ \E h \in Sent : h.id = 0 /\ h.type = "values" /\ contentLen' = h.len /\ stop' = stop
  <2>1. CASE NoHeader
    BY <2>1 DEF NoHeader, Fails, SetError
  <2>2. ASSUME NEW h \in Sent, Header(h), BeginRecord(h) \/ BeginRefused(h) \/ OtherRequest(h) \/ WrongType(h) \/ StreamRecord(h)
        PROVE  /\ failed => failed'
               /\ inner' # "none" => failed' = failed /\ isClosed' = isClosed
               /\ inner' # "values"
    BY <1>2, <2>2 DEF BeginRecord, BeginRefused, OtherRequest, WrongType, StreamRecord, ReadContent, Answered, Loops, Fails, SetError
  <2>3. ASSUME NEW h \in Sent, Header(h), ManagementRecord(h)
        PROVE  /\ failed => failed'
               /\ inner' # "none" => failed' = failed /\ isClosed' = isClosed
               /\ inner' = "values" => inWant' = Pair /\ h.id = 0 /\ h.type = "values" /\ contentLen' = h.len /\ stop' = stop
    BY <2>3 DEF ManagementRecord, Header, ReadContent, Answered, Loops, Fails, SetError
  <2> QED BY <1>1, <2>1, <2>2, <2>3, ProcessHeaderCases
<1>5. FailInv'
  <2> SUFFICES ASSUME Reached' \/ inner' # "none", failed', ~eof PROVE FALSE
    BY <1>3 DEF FailInv
  <2>1. Reached' <=> Reached
    BY <1>1 DEF Reached
  <2>2. CASE Reached
    BY <2>2, HeaderFails DEF FailInv
  <2>3. CASE ~Reached
    BY <1>2, <1>4, <2>1, <2>3
  <2> QED BY <2>2, <2>3
<1>6. ValuesInv'
  <2>1. Pair \in 1..Pair
    BY ConstantTypes
  <2>2. ASSUME inner' = "values" PROVE IsPairs((contentLen' + (Cursor' - rdNext')) - inWant')
    <3>1. PICK h \in Sent : h.id = 0 /\ h.type = "values" /\ contentLen' = h.len /\ stop' = stop
      BY <1>4, <2>2
    <3>2. h.len \in Nat /\ h.len % Pair = 0
      BY <3>1, SentType DEF IInv, TypeOK, WebInv, FormInv
    <3>3. IsPairs(h.len - Pair)
      BY <3>2, WholeIsPairs, PairsStep
    <3>4. Cursor' = rdNext /\ rdNext' = rdNext /\ rdNext \in Nat
      BY <1>1, <1>2, <3>1 DEF Cursor, IInv, TypeOK
    <3>5. h.len + (rdNext - rdNext) = h.len
      BY <3>2, <3>4
    <3>6. inWant' = Pair
      BY <1>4, <2>2
    <3>7. (contentLen' + (Cursor' - rdNext')) - inWant' = h.len - Pair
      BY ONLY <3>1, <3>4, <3>5, <3>6, Zenon
    <3> QED BY ONLY <3>3, <3>7, Zenon
  <2> QED BY <1>2, <1>4, <2>1, <2>2 DEF ValuesInv
<1>7. WantInv'
  BY <1>1, <1>4 DEF WantInv
<1>8. MetInv'
  BY <1>1, <1>3, HeaderMet DEF MetInv
<1> QED BY <1>5, <1>6, <1>7, <1>8

\* A record that ProcessHeader reads is whole, but where the connection ends.
LEMMA InnerTakeLeft ==
    ASSUME IInv, LeftInv, InnerTake
    PROVE  LeftInv'
<1> USE DEF LeftInv
<1>1. /\ inner # "none" /\ fill = "off" /\ rdNext < stop
      /\ UNCHANGED <<srv, stop, contentLen, inner, isBeginProcessed, got, want, pc, isClosed, failed>>
  BY DEF InnerTake, req, lens
<1>2. eof' = eof
  BY <1>1 DEF srv
<1>3. FailInv' /\ WantInv' /\ MetInv'
  BY <1>1, <1>2 DEF FailInv, WantInv, MetInv, Stopped, Reached
<1>4. rdNext \in Nat /\ stop \in Nat /\ inWant \in Nat /\ contentLen \in Nat /\ Pair \in Nat /\ Pair > 1
  BY ConstantTypes DEF IInv, TypeOK
<1>5. ASSUME inner = "values"
      PROVE  inWant' \in 1..Pair /\ (~failed => IsPairs((contentLen' + (Cursor' - rdNext')) - inWant'))
  <2> DEFINE n == Least(inWant, stop - rdNext)
  <2>1. n \in Nat /\ n <= inWant /\ n <= stop - rdNext
    <3>1. stop - rdNext \in Nat
      BY <1>1, <1>4
    <3> QED BY <1>4, <3>1, LeastIs
  <2>2. rdNext' = rdNext + n /\ inWant' = (IF n = inWant THEN Pair ELSE inWant - n)
    BY <1>5 DEF InnerTake
  <2> HIDE DEF n
  <2>3. inWant \in 1..Pair
    BY <1>5 DEF ValuesInv
  <2>4. PICK w : w = inWant'
    OBVIOUS
  <2>5. w = (IF n = inWant THEN Pair ELSE inWant - n)
    BY <2>2, <2>4
  <2>6. w \in 1..Pair
    BY <1>4, <2>1, <2>3, <2>5
  <2>7. PICK m \in Nat : m = rdNext' /\ m = rdNext + n
    BY <1>4, <2>1, <2>2
  <2>8. Cursor = stop /\ Cursor' = stop
    <3>1. Cursor' = (IF stop > m THEN stop ELSE m)
      BY <1>1, <2>7 DEF Cursor
    <3>2. (IF stop > m THEN stop ELSE m) = stop
      BY <1>4, <2>1, <2>7
    <3>3. Cursor = stop
      BY <1>1, <1>4 DEF Cursor
    <3> QED BY <3>1, <3>2, <3>3
  <2>9. ASSUME ~failed PROVE IsPairs((contentLen + (stop - m)) - w)
    <3>1. IsPairs((contentLen + (stop - rdNext)) - inWant)
      BY <1>5, <2>8, <2>9 DEF ValuesInv
    <3>2. CASE n # inWant
      <4>1. (contentLen + (stop - m)) - w = (contentLen + (stop - rdNext)) - inWant
        BY <1>4, <2>1, <2>5, <2>7, <3>2
      <4> QED BY <3>1, <4>1
    <3>3. CASE n = inWant
      <4>1. (contentLen + (stop - m)) - w = ((contentLen + (stop - rdNext)) - inWant) - Pair
        BY <1>4, <2>1, <2>5, <2>7, <3>3
      <4>2. (contentLen + (stop - rdNext)) - inWant \in Int
        BY <1>4
      <4> QED BY <3>1, <4>1, <4>2, PairsStep
    <3> QED BY <3>2, <3>3
  <2>10. (contentLen' + (Cursor' - rdNext')) - inWant' = (contentLen + (stop - m)) - w
    <3>1. contentLen' = contentLen
      BY <1>1
    <3> QED BY ONLY <2>4, <2>7, <2>8, <3>1, Zenon
  <2>11. inWant' \in 1..Pair
    BY <2>4, <2>6
  <2>12. ~failed => IsPairs((contentLen' + (Cursor' - rdNext')) - inWant')
    BY ONLY <2>9, <2>10, Zenon
  <2> QED BY <2>11, <2>12
<1>6. ValuesInv'
  BY <1>1, <1>5 DEF ValuesInv
<1> QED BY <1>3, <1>6

LEMMA InnerEofLeft ==
    ASSUME IInv, LeftInv, InnerEof
    PROVE  LeftInv'
<1> USE DEF LeftInv
<1>1. /\ inner # "none" /\ fill = "off" /\ isClosed /\ inWant > 0 /\ inner' = "none"
      /\ UNCHANGED <<srv, isBeginProcessed, got, want, pc, rdNext>>
  BY DEF InnerEof, Answered, Loops, Fails, SetError, req
<1>2. pc # "accept" /\ stop <= rdNext
  BY <1>1 DEF IInv, ControlInv
<1>3. rdNext \in Nat /\ stop \in Nat /\ inWant \in Nat /\ contentLen \in Nat /\ Cursor = rdNext
  BY <1>2 DEF IInv, TypeOK, Cursor
<1>4. ASSUME ~eof PROVE ~failed /\ contentLen = 0 /\ inner = "values" /\ inWant = Pair
  <2>1. ~failed /\ contentLen = 0
    BY <1>1, <1>4 DEF FailInv, ValuesInv
  <2>2. inner = "values"
    <3> SUFFICES ASSUME inner = "body" PROVE FALSE
      BY <1>1 DEF IInv, TypeOK
    <3>1. PICK r \in Sent : Within(r)
      BY <1>1, <1>2 DEF IInv, PlaceInv, Live, Between
    <3>2. rdNext + inWant = ContentEnd(r) /\ ContentEnd(r) \in Nat
      BY <3>1, EndOrBehind DEF Within, IInv, TypeOK
    <3>3. ContentEnd(r) <= rdNext
      BY <1>2, <2>1, <3>1, WithinIs DEF IInv
    <3> QED BY <1>1, <1>3, <3>2, <3>3
  <2>3. inWant \in 1..Pair /\ IsPairs((contentLen + (Cursor - rdNext)) - inWant)
    BY <2>1, <2>2 DEF ValuesInv
  <2>4. (contentLen + (Cursor - rdNext)) - inWant = 0 - inWant /\ 0 - inWant \in Int /\ (0 - inWant) + inWant = 0
    BY <1>3, <2>1
  <2>5. IsPairs(0 - inWant)
    BY <2>3, <2>4
  <2>6. IsPairs((0 - inWant) + inWant)
    BY <2>4, NoPairs
  <2> QED BY <2>1, <2>2, <2>3, <2>4, <2>5, <2>6, OnePair
<1>5. \/ fill' = "read" /\ isClosed' = FALSE /\ failed' = failed
      \/ fill' = "off" /\ isClosed' = TRUE /\ failed' = TRUE /\ eof
  BY <1>4 DEF InnerEof, Answered, Loops, Fails, SetError
<1>6. Reached' <=> Reached
  BY <1>1 DEF Reached
<1> QED BY <1>1, <1>5, <1>6, LeftStays DEF Stopped

LEMMA BodyReadLeft ==
    ASSUME IInv, LeftInv, BodyRead
    PROVE  LeftInv'
<1>1. /\ inner # "none" /\ inner' = "none" /\ isBeginProcessed' = TRUE
      /\ UNCHANGED <<srv, got, want, pc, failed>>
  BY DEF BodyRead
<1> QED BY <1>1, LeftStays DEF Stopped, Reached

\* ReadParams goes on with a new pair where the last one ended.
LEMMA GetStrLeft ==
    ASSUME IInv, LeftInv, GetStr
    PROVE  LeftInv'
<1> USE DEF LeftInv
<1>1. /\ pc \in {"params", "get"} /\ fill = "off" /\ inner = "none" /\ rdNext < stop
      /\ UNCHANGED <<srv, stop, failed, isClosed, type, inner>>
  BY DEF GetStr
<1>2. eof' = eof /\ (pc' = pc \/ (pc = "get" /\ pc' = "app"))
  BY <1>1 DEF GetStr, srv
<1>3. FailInv' /\ ValuesInv' /\ MetInv'
  BY <1>1, <1>2 DEF FailInv, ValuesInv, MetInv, Stopped, Reached
<1>4. WantInv'
  <2> SUFFICES ASSUME pc = "params", ~failed
               PROVE  want' \in 1..Pair /\ IsPairs(Cardinality(got'["params"]) + want')
    BY <1>1, <1>2 DEF WantInv
  <2>1. /\ rdNext \in Nat /\ stop \in Nat /\ want \in Nat /\ Pair \in Nat /\ Pair > 1
        /\ got \in [StreamTypes -> SUBSET Nat] /\ "params" \in StreamTypes /\ type = "params"
    BY ConstantTypes DEF IInv, TypeOK, ControlInv, StreamTypes
  <2> DEFINE n == Least(want, stop - rdNext)
             S == got["params"]
             T == rdNext .. rdNext + n - 1
  <2>2. n \in Nat /\ n <= want /\ n <= stop - rdNext
    <3>1. stop - rdNext \in Nat
      BY <1>1, <2>1
    <3> QED BY <2>1, <3>1, LeastIs
  <2>3. want' = (IF n < want THEN want - n ELSE Pair) /\ got' = [got EXCEPT ![type] = @ \cup T]
    BY DEF GetStr
  <2> HIDE DEF n
  <2>4. want \in 1..Pair /\ IsPairs(Cardinality(S) + want)
    BY DEF WantInv
  <2>5. got'["params"] = S \cup T
    BY <2>1, <2>3
  <2>6. S = {c \in Content("params", requestId) : c < rdNext}
    BY <2>1 DEF IInv, StreamInv, GotInv, Reached
  <2>7. IsFiniteSet(S) /\ Cardinality(S) \in Nat
    <3>1. S \in SUBSET Nat /\ \A s \in S : s <= rdNext
      BY <2>1, <2>6
    <3> QED BY <2>1, <3>1, FS_BoundedSetOfNaturals, FS_CardinalityType
  <2>8. IsFiniteSet(T) /\ Cardinality(T) = n
    <3>1. rdNext \in Int /\ rdNext + n - 1 \in Int
      BY <2>1, <2>2
    <3>2. IsFiniteSet(T) /\ Cardinality(T) = IF rdNext > rdNext + n - 1 THEN 0 ELSE (rdNext + n - 1) - rdNext + 1
      BY <3>1, FS_Interval
    <3> QED BY <2>1, <2>2, <3>2
  <2>9. S \cap T = {}
    BY <2>1, <2>2, <2>6
  <2>10. Cardinality(S \cup T) = Cardinality(S) + n
    <3> HIDE DEF S, T
    <3>1. Cardinality(S \cup T) = Cardinality(S) + Cardinality(T) - Cardinality(S \cap T)
      BY <2>7, <2>8, FS_Union
    <3>2. Cardinality(S \cap T) = 0
      BY <2>9, FS_EmptySet
    <3> QED BY <2>2, <2>7, <2>8, <3>1, <3>2
  <2> HIDE DEF S, T
  <2>11. PICK k \in Nat : k = Cardinality(S)
    BY <2>7
  <2>12. PICK w : w = want'
    OBVIOUS
  <2>13. w = (IF n < want THEN want - n ELSE Pair)
    BY <2>3, <2>12
  <2>14. w \in 1..Pair
    BY <2>1, <2>2, <2>4, <2>13
  <2>15. IsPairs((k + n) + w)
    <3>1. IsPairs(k + want) /\ k + want \in Int
      BY <2>1, <2>4, <2>11
    <3>2. CASE n < want
      <4>1. (k + n) + w = k + want
        BY <2>1, <2>2, <2>13, <3>2
      <4> QED BY <3>1, <4>1
    <3>3. CASE ~(n < want)
      <4>1. (k + n) + w = (k + want) + Pair
        BY <2>1, <2>2, <2>13, <3>3
      <4> QED BY <3>1, <4>1, PairsStep
    <3> QED BY <3>2, <3>3
  <2>16. Cardinality(got'["params"]) = k + n
    BY <2>5, <2>10, <2>11
  <2> QED BY <2>12, <2>14, <2>15, <2>16
<1> QED BY <1>3, <1>4

\* A request that was sent as a whole has whole pairs of parameters; ReadParams stops
\* within one after an error only.
LEMMA ParamsEnd ==
    ASSUME IInv, LeftInv, ParamsEof, ~eof
    PROVE  want = Pair
<1> USE DEF LeftInv
<1>1. pc = "params" /\ fill = "off" /\ inner = "none" /\ isClosed
  BY DEF ParamsEof, Returned
<1>2. Reached /\ Begun /\ type = "params"
  BY <1>1 DEF Reached, Begun, IInv, ControlInv
<1>3. ~failed
  BY <1>2 DEF FailInv
<1>4. active = requestId /\ active # 0
  BY <1>2 DEF IInv, BegunInv
<1>5. PICK e \in Sent : StreamEnd(e, "params") /\ e.start + HEADER = rdNext
  BY <1>1, <1>2, <1>3 DEF IInv, StreamInv, EndInv
<1>6. stage # "params" /\ WholePairs
  BY <1>4, <1>5 DEF IInv, WebInv, ActiveInv, OrderInv
<1>7. "params" \in StreamTypes /\ e.start < rdNext
  BY <1>5, SentType, ConstantTypes DEF IInv, TypeOK, StreamTypes
<1>8. \A c \in Content("params", active) : c < rdNext
  BY <1>4, <1>5, <1>7, EndPassed DEF IInv
<1>9. got["params"] = {c \in Content("params", requestId) : c < rdNext}
  BY <1>2, <1>3, <1>7 DEF IInv, StreamInv, GotInv
<1>10. got["params"] = Content("params", active)
  BY <1>4, <1>8, <1>9
<1> DEFINE k == Cardinality(got["params"])
<1>11. k \in Nat
  <2>1. got["params"] \in SUBSET Nat /\ rdNext \in Nat
    BY <1>7 DEF IInv, TypeOK
  <2>2. \A c \in got["params"] : c <= rdNext
    BY <1>9, <2>1
  <2> QED BY <2>1, <2>2, FS_BoundedSetOfNaturals, FS_CardinalityType
<1>12. k % Pair = 0
  BY <1>6, <1>10 DEF WholePairs
<1>13. want \in 1..Pair /\ IsPairs(k + want)
  BY <1>1, <1>3 DEF WantInv
<1> HIDE DEF k
<1>14. IsPairs(k)
  BY <1>11, <1>12, WholeIsPairs
<1> QED BY <1>11, <1>13, <1>14, OnePair

LEMMA CallsLeft ==
    ASSUME IInv, LeftInv, NewReader \/ BeginReturns \/ ParamsEof \/ AppFinish
    PROVE  LeftInv'
<1> USE DEF LeftInv
<1>1. inner = "none" /\ inner' = "none"
  BY DEF IInv, ControlInv, NewReader, BeginReturns, ParamsEof, AppFinish, Returned
<1>2. ValuesInv'
  BY <1>1 DEF ValuesInv
<1>3. CASE NewReader
  BY <1>1, <1>2, <1>3 DEF NewReader, FailInv, WantInv, MetInv, Stopped, Reached
<1>4. CASE BeginReturns /\ ~isBeginProcessed
  BY <1>1, <1>2, <1>4 DEF BeginReturns, TryAgain, FailInv, WantInv, MetInv, Stopped, Reached
<1>5. CASE BeginReturns /\ isBeginProcessed
  <2>1. ~failed' /\ pc' = "params" /\ want' = Pair /\ got'["params"] = {}
    <3>1. pc = "begin" /\ failed' = failed /\ pc' = "params" /\ want' = Pair /\ got' = [t \in StreamTypes |-> {}]
      BY <1>5 DEF BeginReturns, Returned
    <3>2. ~failed
      BY <1>5, <3>1 DEF IInv, ControlInv
    <3>3. "params" \in StreamTypes
      BY DEF StreamTypes
    <3> QED BY <3>1, <3>2, <3>3
  <2>2. Cardinality({}) = 0 /\ 0 + Pair = Pair /\ Pair \in 1..Pair
    BY FS_EmptySet, ConstantTypes
  <2>3. Cardinality(got'["params"]) + want' = Pair
    BY <2>1, <2>2
  <2>4. WantInv'
    BY <2>1, <2>2, <2>3, NoPairs DEF WantInv
  <2> QED BY <1>1, <1>2, <2>1, <2>4 DEF FailInv, MetInv, Stopped
<1>6. CASE ParamsEof
  <2>1. pc = "params" /\ eof' = eof /\ pc' \in {"app", "accept"} /\ (pc' = "app" => failed' = failed)
    BY <1>6 DEF ParamsEof, Returned, TryAgain, srv
  <2> QED BY <1>1, <1>2, <2>1 DEF FailInv, WantInv, MetInv, Stopped, Reached
<1>7. CASE AppFinish
  BY <1>1, <1>2, <1>7 DEF AppFinish, FailInv, WantInv, MetInv, Stopped, Reached
<1> QED BY <1>3, <1>4, <1>5, <1>6, <1>7

\* A new connection begins with nothing left, whatever the last one held.
LEMMA AcceptLeft ==
    ASSUME ControlInv, AcceptConnection
    PROVE  LeftInv'
<1>1. inner = "none" /\ inner' = "none" /\ pc' = "accept"
  BY DEF ControlInv, AcceptConnection
<1> QED BY <1>1 DEF LeftInv, FailInv, ValuesInv, WantInv, MetInv, Stopped, Reached

\* What is sent lies behind the reader.
LEMMA ServerLeft ==
    ASSUME IInv, LeftInv, Server \/ UNCHANGED vars, odd' = {}
    PROVE  LeftInv'
<1> USE DEF LeftInv
<1>1. UNCHANGED <<rdNext, stop, contentLen, inner, inWant, isClosed, failed, isBeginProcessed, pc, fill, want, got>>
  BY DEF Server, vars, req, lens
<1>2. eof => eof'
  BY DEF Server, ServerBegin, ServerAbort, ServerExtra, ServerCloses, ServerStream, ServerEnd, Send, vars, srv
<1>3. FailInv' /\ ValuesInv' /\ WantInv'
  <2>1. Cursor' = Cursor
    BY <1>1 DEF Cursor
  <2> QED BY <1>1, <1>2, <2>1 DEF FailInv, ValuesInv, WantInv, Reached
<1>4. MetInv'
  <2> SUFFICES ASSUME Stopped, ~eof'
               PROVE  /\ active' # 0 => rdNext < began' + HEADER
                      /\ \A r \in Sent' : r.start + HEADER = rdNext => r.type = "stdin"
    BY <1>1 DEF MetInv, Stopped
  <2>1. ~eof
    BY <1>2
  <2>2. WebType /\ rdNext \in Nat /\ buffStop \in Nat /\ rdNext <= buffStop /\ buffStop <= total /\ total \in Nat
    BY TypeParts DEF IInv, ReaderType, WebType
  <2>3. CASE UNCHANGED vars
    BY <2>1, <2>3 DEF MetInv, Sent, vars, srv
  <2>4. CASE ServerCloses
    BY <2>4 DEF ServerCloses
  <2>5. CASE \/ ServerBegin \/ ServerAbort \/ ServerExtra
             \/ \E t \in StreamTypes : ServerStream(t) \/ ServerEnd(t)
    <3>1. PICK n : Sends(n)
      BY <2>2, <2>5, ServerCases DEF Sends
    <3>2. Adds(n)
      BY <3>1 DEF Sends, AddsBegin, AddsStream, AddsEnd, AddsExtra
    <3>3. ASSUME NEW r \in Sent', r.start + HEADER = rdNext PROVE r \in Sent
      <4> SUFFICES ASSUME r = n PROVE FALSE
        BY <2>2, <3>2, AddsType
      <4>1. r.start = total
        BY <2>2, <3>2, AddsType
      <4> QED BY <2>2, <3>3, <4>1, ConstantTypes
    <3>4. \A r \in Sent' : r.start + HEADER = rdNext => r.type = "stdin"
      BY <2>1, <3>3 DEF MetInv
    <3>5. UNCHANGED <<active, began>> \/ began' = total
      BY <3>1 DEF Sends, AddsBegin, AddsStream, AddsEnd, AddsExtra
    <3>6. active # 0 => rdNext < began + HEADER
      BY <2>1 DEF MetInv
    <3>7. rdNext < total + HEADER
      BY <2>2, ConstantTypes
    <3> QED BY <3>4, <3>5, <3>6, <3>7
  <2> QED BY <2>3, <2>4, <2>5 DEF Server
<1> QED BY <1>3, <1>4

LeftPlain == odd = {} => LeftInv

LEMMA LeftInvariance == Spec => [](PlainInv /\ LeftPlain)
<1>1. Init => LeftPlain
  BY DEF Init, LeftPlain, LeftInv, FailInv, ValuesInv, WantInv, MetInv, Stopped, Reached
<1>2. PlainInv /\ LeftPlain /\ [Next]_vars => LeftPlain'
  <2> SUFFICES ASSUME PlainInv, odd = {} => LeftInv, [Next]_vars, odd' = {}
               PROVE  LeftInv'
    BY DEF LeftPlain
  <2>1. CASE AcceptConnection
    BY <2>1, AcceptLeft DEF PlainInv
  <2>2. CASE Server \/ UNCHANGED vars
    <3>1. odd = {}
      BY <2>2, ServerType DEF PlainInv
    <3> QED BY <2>2, <3>1, ServerLeft DEF PlainInv
  <2>3. CASE Library \/ AppGet \/ AppFinish
    <3>1. odd = {}
      BY <2>3, LibraryStays, AppType DEF PlainInv, srv
    <3> QED BY <2>3, <3>1, QuietLeft, FillLeft, HeaderLeft, InnerTakeLeft, InnerEofLeft, BodyReadLeft, GetStrLeft,
            CallsLeft DEF Library, PlainInv
  <2> QED BY <2>1, <2>2, <2>3 DEF Next
<1>3. Spec => []PlainInv
  BY Invariance
<1> QED BY <1>1, <1>2, <1>3, PTL DEF Spec

\* A connection that the web server keeps open, has asked to be kept, and on which it
\* has sent none of the Oddities, is closed only because of what the last request left
\* unread (FCGX_Accept_r, FCGX_Finish_r).
THEOREM KeptUnlessLeftovers == Spec => ClosedForLeftovers
<1>1. PlainInv /\ LeftPlain /\ [Next]_vars =>
         (ipcFd /\ ~ipcFd' /\ ~eof /\ keepConnection /\ odd = {} =>
             /\ active # 0 => rdNext < began + HEADER
             /\ \A i \in 1..Len(sent) :
                   sent[i].start + HEADER = rdNext => sent[i].type = "stdin")
  <2> SUFFICES ASSUME IInv, LeftInv, [Next]_vars, ipcFd, ~ipcFd', ~eof, keepConnection
               PROVE  /\ active # 0 => rdNext < began + HEADER
                      /\ \A i \in 1..Len(sent) :
                            sent[i].start + HEADER = rdNext => sent[i].type = "stdin"
    BY DEF PlainInv, LeftPlain
  <2>1. \A i \in 1..Len(sent) : sent[i] \in Sent
    BY DEF Sent
  <2>2. BeginReturns \/ ParamsEof \/ AppFinish
    <3>1. ipcFd' # ipcFd
      OBVIOUS
    <3> QED BY <3>1 DEF Next, Server, Library, FillRead, FillReadFails, FillDeliver, FillSkip, FillPadding,
          FillEndOfRecord, FillHeader, ProcessHeader, InnerTake, InnerFill, BodyRead, InnerEof, NewReader,
          GetStr, GetStrFill, GetEof, AppGet, AcceptConnection, vars
  <2>3. CASE BeginReturns
    <3>1. Stopped
      BY <2>3 DEF BeginReturns, Returned, Stopped
    <3> QED BY <2>1, <3>1 DEF LeftInv, MetInv
  <2>4. ~ParamsEof
    BY ParamsEnd DEF ParamsEof
  <2>5. ~AppFinish
    <3> SUFFICES ASSUME AppFinish PROVE FALSE
      OBVIOUS
    <3>1. pc = "app" /\ ipcFd' = (keepConnection /\ ~failed)
      BY DEF AppFinish
    <3>2. failed
      BY <3>1
    <3> QED BY <3>1, <3>2 DEF LeftInv, FailInv, Reached
  <2> QED BY <2>2, <2>3, <2>4, <2>5
<1> QED BY <1>1, LeftInvariance, PTL DEF Spec, ClosedForLeftovers
=============================================================================
