----------------------------- MODULE FcgxParams -----------------------------
(***************************************************************************)
(* Name-value pairs in fcgiapp.c: how ReadParams decodes them, the array   *)
(* PutParam keeps them in, how FCGX_GetParam finds one, and the answer to  *)
(* FCGI_GET_VALUES.  A byte is one of 0..Byte - 1, an int has the range of *)
(* four bytes; content is told apart by its bytes.                         *)
(*                                                                         *)
(* A definition introduced by "Mutant:" is not part of the model: it is    *)
(* what the next one would be with a plausible bug.                        *)
(***************************************************************************)
EXTENDS Loops, Sequences

CONSTANT Byte       \* 256

Bytes == 0..Byte - 1
Word  == Byte * Byte * Byte * Byte

IntMax == Word \div 2 - 1

\* What an int becomes of n.
AsInt(n) == ((n + IntMax + 1) % Word) - (IntMax + 1)

-----------------------------------------------------------------------------
(* ReadParams *)

From(s, n) == SubSeq(s, n + 1, Len(s))

\* A length at the head of s and the bytes it takes, or none.
NoLength == [len |-> 0, size |-> 0]

\* Mutant: the first of the four bytes counts as a whole.
LengthUnmasked(s) ==
    IF s = <<>> THEN NoLength
    ELSE IF s[1] < Byte \div 2 THEN [len |-> s[1], size |-> 1]
    ELSE IF Len(s) < 4 THEN NoLength
    ELSE [len |-> ((s[1] * Byte + s[2]) * Byte + s[3]) * Byte + s[4], size |-> 4]

Length(s) ==
    IF s = <<>> THEN NoLength
    ELSE IF s[1] < Byte \div 2 THEN [len |-> s[1], size |-> 1]
    ELSE IF Len(s) < 4 THEN NoLength
    ELSE [len |-> (((s[1] - Byte \div 2) * Byte + s[2]) * Byte + s[3]) * Byte + s[4], size |-> 4]

Params(s) == [at : 0..Len(s), pairs : Seq(Seq(Bytes) \X Seq(Bytes)), result : {0, -1}]

\* A round: the next pair, or the error that it is not whole.
ReadPair(s, p) ==
    LET name  == Length(From(s, p.at))
        value == Length(From(s, p.at + name.size))
        head  == p.at + name.size + value.size
        all   == head + name.len + value.len
    IN  IF p.at = Len(s) \/ p.result = -1 THEN p
        ELSE IF name.size = 0 \/ value.size = 0 \/ Len(s) < all THEN [p EXCEPT !.result = -1]
        ELSE [p EXCEPT !.at = all,
                       !.pairs = Append(@, <<SubSeq(s, head + 1, head + name.len),
                                             SubSeq(s, head + name.len + 1, all)>>)]

\* The stream s to its end: 0 and the pairs, or -1 and those before the one that is
\* not whole.
ReadParams(s) ==
    While([p \in Params(s) |-> ReadPair(s, p)], [at |-> 0, pairs |-> <<>>, result |-> 0])

\* Mutant: there is no room for the byte that ends the string.
RoomUnended(nameLen, valueLen) == AsInt(nameLen + valueLen + 1)

\* What is asked of Malloc for a pair, in the width of an int.
Room(nameLen, valueLen) == AsInt(nameLen + valueLen + 2)

-----------------------------------------------------------------------------
(* Params *)

NewParams(length) == [length |-> length, cur |-> 0]

\* Mutant: the array grows when there is no room for the pair.
PutParamLate(p) ==
    LET size == p.cur + 1
    IN  [length |-> IF size > p.length THEN 2 * p.length ELSE p.length, cur |-> size]

PutParam(p) ==
    LET size == p.cur + 1
    IN  [length |-> IF size >= p.length THEN 2 * p.length ELSE p.length, cur |-> size]

Put(p, n) ==
    For(n, [k \in 1..n |-> [x \in [length : Nat, cur : Nat] |-> PutParam(x)]], p)

-----------------------------------------------------------------------------
(* FCGX_GetParam *)

None == <<"NULL">>

Equals == "="
Entry(name, value) == name \o <<Equals>> \o value

StartsWith(t, s) == Len(s) <= Len(t) /\ SubSeq(t, 1, Len(s)) = s

Named(name, entry) == StartsWith(entry, name) /\ Len(entry) > Len(name)
                      /\ entry[Len(name) + 1] = Equals

GetParam(name, envp) ==
    LET P == {i \in 1..Len(envp) : Named(name, envp[i])}
    IN  IF P = {} THEN None
        ELSE LET i == CHOOSE j \in P : \A k \in P : j <= k IN From(envp[i], Len(name) + 1)

-----------------------------------------------------------------------------
(* ProcessManagementRecord, the answer to FCGI_GET_VALUES *)

FCGI_HEADER_LEN == 8
ResponseLen == 64       \* char response[64]

\* FCGI_MAX_CONNS, FCGI_MAX_REQS, FCGI_MPXS_CONNS by their lengths; any other is 0.
ValueNames == {14, 13, 15}

AlignInt8(n) == ((n + 7) \div 8) * 8

ResponseTo(names) ==
    For(Len(names),
        [k \in 1..Len(names) |->
            [n \in Nat |-> n + (IF names[k] \in ValueNames THEN names[k] + 3 ELSE 0)]],
        0)

\* How many bytes of response are written to the connection.
Written(names) == FCGI_HEADER_LEN + AlignInt8(ResponseTo(names))
=============================================================================
