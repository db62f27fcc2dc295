----------------------------- MODULE Algorithms -----------------------------
(***************************************************************************)
(* The pure functions of ElStrings, FcgxParams and OsAddress, each called  *)
(* once with every input of a bounded set, and what is to hold of what     *)
(* they return.  A behaviour is one call; a counterexample is its input.   *)
(***************************************************************************)
EXTENDS ElStrings, FcgxParams, OsAddress

CONSTANTS
    Texts, Seeks, Replacements, Starts, Counts,     \* EL_STRTRAN
    Sources, Destinations,                          \* EL_STRREPLACE
    Pairs, Lists, Names, ManagementNames,           \* parameters
    ArrayLengths, MaxPairs,
    BindPaths, ClientLists                          \* addresses

BindPath == [host : Hosts, colon : BOOLEAN, digits : Seq(0..9), long : BOOLEAN]

\* Characters are those of toupper(), or strings of one.
ASSUME AlgorithmsAssumption ==
    /\ Upper \in [Chars -> Chars] /\ OptLimit \in Nat
    /\ Texts \subseteq Seq(Chars) /\ Seeks \subseteq Seq(Chars) /\ Replacements \subseteq Seq(Chars)
    /\ Starts \subseteq Int /\ Counts \subseteq Int
    /\ Sources \subseteq Seq(Seq(Chars)) /\ Destinations \subseteq Seq(Seq(Chars))
    /\ Byte \in Nat \ {0} /\ Byte % 2 = 0
    /\ Lists \subseteq Seq(Seq(Bytes) \X Seq(Bytes))
    /\ \A list \in Lists : \A i \in 1..Len(list) :      \* a length has 31 bits
           Len(list[i][1]) <= IntMax /\ Len(list[i][2]) <= IntMax
    /\ Pairs \subseteq Seq(Seq(STRING) \X Seq(STRING)) /\ Names \subseteq Seq(STRING)
    /\ ManagementNames \subseteq Seq(Nat)
    /\ ArrayLengths \subseteq Nat \ {0} /\ MaxPairs \in Nat
    /\ BindPaths \subseteq BindPath
    /\ \A b \in BindPaths : ~b.colon => b.digits = <<>>
    /\ ClientLists \subseteq Seq(STRING)
    /\ \A a \in DOMAIN Ntoa :                           \* digits and dots, which inet_addr() reads
           /\ Ntoa[a] \in Seq(STRING) \ {<<>>}
           /\ \A i \in 1..Len(Ntoa[a]) : Ntoa[a][i] \notin Tokens
           /\ Ntoa[a] \in DOMAIN InetAddr /\ InetAddr[Ntoa[a]] = a

VARIABLES call, result

vars == <<call, result>>

Init == call = [fn |-> "none"] /\ result = "none"

Called(fn) == call.fn = fn

Call(c, value) == call' = c /\ result' = value

CallStrTran ==
    /\ Called("none")
    /\ \E t \in Texts, s \in Seeks, r \in Replacements, n \in Starts, c \in Counts, f \in {0, 1} :
           Call([fn |-> "StrTran", text |-> t, seek |-> s, replace |-> r, start |-> n, count |-> c,
                 flag |-> f],
                StrTran(t, s, r, n, c, f))

CallStrReplace ==
    /\ Called("none")
    /\ \E t \in Texts, s \in Sources, d \in Destinations, chars \in BOOLEAN, f \in {0, 1} :
           /\ chars => \A k \in 1..Len(s) : Len(s[k]) = 1
           /\ Call([fn |-> "StrReplace", text |-> t, src |-> s, dst |-> d, chars |-> chars, flag |-> f],
                   StrReplace(t, s, d, chars, f))

-----------------------------------------------------------------------------
(* Name-value pairs as a web server writes them: a length of one byte or of four. *)

LengthBytes(n, wide) ==
    IF ~wide /\ n < Byte \div 2 THEN <<n>>
    ELSE LET n1 == n \div Byte
             n2 == n1 \div Byte
         IN  <<Byte \div 2 + n2 \div Byte, n2 % Byte, n1 % Byte, n % Byte>>

PairBytes(pair, wide) ==
    LengthBytes(Len(pair[1]), wide) \o LengthBytes(Len(pair[2]), wide) \o pair[1] \o pair[2]

Stream(list, wide) ==
    For(Len(list), [k \in 1..Len(list) |-> [s \in Seq(Bytes) |-> s \o PairBytes(list[k], wide)]], <<>>)

CallReadParams ==
    /\ Called("none")
    /\ \E list \in Lists, wide \in BOOLEAN :
           LET s == Stream(list, wide)
           IN  \E cut \in 0..Len(s) :
                   Call([fn |-> "ReadParams", list |-> list, wide |-> wide, cut |-> cut],
                        ReadParams(SubSeq(s, 1, cut)))

CallRoom ==
    /\ Called("none")
    /\ \E n, v \in 0..IntMax : Call([fn |-> "Room", name |-> n, value |-> v], Room(n, v))

CallPutParam ==
    /\ Called("none")
    /\ \E length \in ArrayLengths, n \in 0..MaxPairs :
           Call([fn |-> "PutParam", length |-> length, n |-> n], Put(NewParams(length), n))

EntriesOf(list) == [i \in 1..Len(list) |-> Entry(list[i][1], list[i][2])]

CallGetParam ==
    /\ Called("none")
    /\ \E name \in Names, list \in Pairs :
           Call([fn |-> "GetParam", name |-> name, list |-> list], GetParam(name, EntriesOf(list)))

CallManagement ==
    /\ Called("none")
    /\ \E names \in ManagementNames :
           Call([fn |-> "ProcessManagementRecord", names |-> names], Written(names))

CallListens ==
    /\ Called("none")
    /\ \E b \in BindPaths, f \in Failures, r \in BOOLEAN :
           Call([fn |-> "Listens", bindPath |-> b, refused |-> r],
                [unix |-> Listens(b, f), toUnix |-> Connects(b, Listens(b, f), r),
                 win |-> WinListens(b, f), toWin |-> WinConnects(b, WinListens(b, f), r)])

CallAddrOK ==
    /\ Called("none")
    /\ \E a \in DOMAIN Ntoa, l \in ClientLists :
           Call([fn |-> "AddrOK", addr |-> a, list |-> l],
                [unix |-> ClientAddrOK(a, l), win |-> IsAddrOK(a, l)])

Next ==
    \/ CallStrTran \/ CallStrReplace
    \/ CallReadParams \/ CallRoom \/ CallPutParam \/ CallGetParam \/ CallManagement
    \/ CallListens \/ CallAddrOK

Spec == Init /\ [][Next]_vars

-----------------------------------------------------------------------------
(* Properties *)

\* EL_STRTRAN returns the text with the occurrences from the start-th on, at most as
\* many as asked for, replaced.  An occurrence that is passed over is written back as
\* the text looked for, so that without regard to case the text before the start-th
\* occurrence is not promised; and a count of 0 returns nothing.  In all cases the
\* second pass fills exactly the room that the first has added up: they agree on which
\* occurrences there are, whatever partial matches, start, limit and letter case.
StrTranReplaces ==
    Called("StrTran") =>
        /\ result.room = Len(result.text)
        /\ call.count # 0 /\ (call.flag = 0 \/ call.start <= 1)
               => result.text = Replaced(call.text, call.seek, call.replace,
                                         IF call.start <= 0 THEN 0 ELSE call.start - 1,
                                         call.count, call.flag)

\* EL_STRREPLACE puts the destination of the first source that is at a position in its
\* place, with the table of first characters as without it.  With the table, and for
\* sources that are characters, the letter case counts whatever the flag says.
StrReplaceSubstitutes ==
    Called("StrReplace") =>
        /\ result.room = Len(result.text)
        /\ call.flag = 0 \/ (Len(call.text) <= OptLimit /\ ~call.chars)
               => result.text = Substituted(call.text, call.src, call.dst, call.flag)

\* ReadParams takes the pairs a stream holds, those of both forms of length, and tells
\* a stream that ends within a pair from one that ends after it: the request with part
\* of a parameter is an error, and none is made up.
PairsAreRead ==
    Called("ReadParams") =>
        LET Ends(n) == Len(Stream(SubSeq(call.list, 1, n), call.wide))
            whole == CHOOSE n \in 0..Len(call.list) :
                        /\ Ends(n) <= call.cut
                        /\ \A m \in n + 1..Len(call.list) : Ends(m) > call.cut
        IN  /\ result.pairs = SubSeq(call.list, 1, whole)
            /\ result.result = IF Ends(whole) = call.cut THEN 0 ELSE -1

\* FCGX_GetParam returns the value of the first pair with exactly that name: a longer
\* name that begins with it, and a value that holds the sign, do not mislead it.  A name
\* that holds the sign is not told from a name and the begin of a value.
FirstIsFound ==
    Called("GetParam") =>
        LET Unsigned(name) == \A i \in 1..Len(name) : name[i] # Equals
            Those == {i \in 1..Len(call.list) : call.list[i][1] = call.name}
        IN  Unsigned(call.name) /\ (\A i \in 1..Len(call.list) : Unsigned(call.list[i][1]))
                => result = IF Those = {} THEN None
                            ELSE call.list[CHOOSE i \in Those : \A j \in Those : i <= j][2]

\* The parameters are those that the web server sent, from its bytes to the value that
\* is asked for.
ParamsAreThose == PairsAreRead /\ FirstIsFound

\* A pair has room for its name, the sign between, its value and the zero that ends it,
\* or the sum of the lengths is no int: then it is negative, and the allocation fails,
\* but for two lengths that are both the largest.
PairHasRoom ==
    Called("Room") =>
        \/ result >= call.name + call.value + 2
        \/ result < 0
        \/ call.name = IntMax /\ call.value = IntMax

\* However many pairs are put, the array keeps a place for the NULL that ends envp.
ArrayHasEnd == Called("PutParam") => result.cur = call.n /\ result.cur < result.length

\* The answer to FCGI_GET_VALUES, header and padding included, is no longer than the
\* array it is built in when no name is asked for twice, and ends on eight bytes.
AnswerFits ==
    Called("ProcessManagementRecord") =>
        /\ result % 8 = 0
        /\ (\A i, j \in 1..Len(call.names) : call.names[i] = call.names[j] => i = j)
               => result <= ResponseLen

\* What is written for parameters stays within what was allocated for it.
WritesFit == PairHasRoom /\ ArrayHasEnd /\ AnswerFits

PortNumbers == 1..65535

KeepsPort(endpoint, n) ==
    n \in PortNumbers => endpoint.family # "local" /\ (endpoint.family = "inet" => endpoint.port = n)

HasPort(endpoint) == endpoint.family = "inet" => endpoint.port # 0

\* A port of sixteen bits survives the signed short it is kept in, and no listener is
\* opened at port 0.  Windows reads no more than five digits, of which both systems read
\* the same port; of "000080" it reads another.
PortsKept ==
    Called("Listens") =>
        /\ HasPort(result.unix) /\ HasPort(result.win)
        /\ KeepsPort(result.unix, Number(call.bindPath.digits))
        /\ Len(call.bindPath.digits) <= 5 =>
               /\ KeepsPort(result.win, Number(call.bindPath.digits))
               /\ WinPort(call.bindPath) = Port(call.bindPath)

\* Where a listener is opened for a bindPath, OS_FcgiConnect for the same bindPath gets a
\* connection to it, on Unix and over a pipe of Windows; "*" is a host to listen on only.
\* Over TCP/IP on Windows connect() finds the listener, but for the host whose name only
\* begins with LOCALHOST, and the connection is closed: OS_FcgiConnect returns -1.
AgreeOnEndpoint ==
    /\ PortsKept
    /\ Called("Listens") =>
        LET b == call.bindPath
        IN  /\ result.unix.family = "local" \/ (result.unix.family = "inet" /\ b.host # "*")
                   => call.refused \/ result.toUnix.family = result.unix.family
            /\ result.win.family = "local" => call.refused \/ result.toWin = result.win
            /\ result.win.family = "inet" /\ b.host # Elsewhere
                   => Reaches(WinPeer(b), result.win) /\ result.toWin = Ended("error")

Within(a, b) == \E i \in 1..Len(b) : i + Len(a) - 1 <= Len(b) /\ SubSeq(b, i, i + Len(a) - 1) = a

\* Windows looks for the client's address as text, Unix reads the addresses of the list:
\* Windows lets in nobody whose address does not stand in the list, and with commas only
\* nobody whom Unix does not.  Whom Unix lets in Windows does when the list has him in
\* the notation of inet_ntoa() only ("127.1" and "10.0.0.01" are others), and no piece of
\* it holds that text and more.
OnlyListedClients ==
    Called("AddrOK") =>
        LET listed == Between(call.list, {","})
            ipaddr == Ntoa[call.addr]
        IN  /\ result.win => ipaddr \in Between(call.list, Tokens)
            /\ call.list # <<>>
               /\ (\A i \in 1..Len(call.list) : call.list[i] \in Tokens => call.list[i] = ",")
               => /\ result.win => result.unix
                  /\ (\A piece \in listed :
                          /\ piece \in DOMAIN InetAddr /\ InetAddr[piece] = call.addr => piece = ipaddr
                          /\ piece = ipaddr \/ ~Within(ipaddr, piece))
                     => result.win = result.unix
=============================================================================
