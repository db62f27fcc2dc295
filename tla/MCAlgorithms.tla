---------------------------- MODULE MCAlgorithms ----------------------------
(***************************************************************************)
(* Bounded inputs for Algorithms.  A byte has four values, so that an int  *)
(* ends at 127 and a length of one byte at 1; the table of first           *)
(* characters is used from the third character on.                         *)
(***************************************************************************)
EXTENDS Algorithms

SeqsUpTo(S, n) == UNION {[1..k -> S] : k \in 0..n}

MCUpper == [c \in {"a", "A", "b", "c"} |-> IF c = "a" THEN "A" ELSE c]

MCTexts == SeqsUpTo({"a", "A", "b"}, 4)
           \cup {<<"a", "a", "b", "a", "a", "b">>, <<"a", "b", "a", "b", "A", "b">>}
MCSeeks == SeqsUpTo({"a", "b"}, 2) \cup {<<"A">>, <<"a", "a", "b">>, <<"a", "b", "A">>}
MCReplacements == {<<>>, <<"c">>, <<"a", "c">>}

MCCounts == -1..2

MCSources == SeqsUpTo({<<"a">>, <<"a", "b">>, <<"A">>, <<"b">>, <<>>}, 3)
MCDestinations == {<<>>, <<<<"c">>>>, <<<<"a", "c">>, <<>>, <<"c">>>>}

\* Names and values of up to six bytes, of one value: lengths tell them apart.
Ones(n) == [i \in 1..n |-> 1]
MCLists == SeqsUpTo({<<Ones(n), Ones(v)>> : n \in {0, 1, 2}, v \in {0, 1, 6}}, 2)

MCNames == {<<"a">>, <<"a", "b">>, <<"b">>, <<"a", "=">>}
MCPairs == SeqsUpTo(MCNames \X {<<>>, <<"=">>, <<"b">>}, 3)

\* Lengths of names: the three that are known, and another one.
MCManagementNames == SeqsUpTo(ValueNames \cup {5}, 3)

MCBindPaths ==
    [host : Hosts, colon : {FALSE}, digits : {<<>>}, long : BOOLEAN]
    \cup [host : Hosts, colon : {TRUE}, long : {FALSE},
          digits : {<<>>, <<0>>, <<8, 0>>, <<9, 0, 0, 0>>, <<3, 2, 7, 6, 7>>, <<3, 2, 7, 6, 8>>,
                    <<4, 0, 0, 0, 0>>, <<6, 5, 5, 3, 5>>, <<6, 5, 5, 3, 6>>, <<7, 0, 0, 0, 0>>,
                    <<6, 5, 5, 3, 6, 1>>, <<0, 0, 0, 0, 8, 0>>}]

\* Addresses are numbers; a zero before the number and a blank behind it are read too.
MCNtoa == [a \in {1, 2, 12} |-> IF a = 12 THEN <<"1", "2">> ELSE IF a = 1 THEN <<"1">> ELSE <<"2">>]
MCNotations(a) == {MCNtoa[a], <<"0">> \o MCNtoa[a], MCNtoa[a] \o <<" ">>}
MCInetAddr ==
    [t \in UNION {MCNotations(a) : a \in DOMAIN MCNtoa} |->
        CHOOSE a \in DOMAIN MCNtoa : t \in MCNotations(a)]
MCClientLists == SeqsUpTo({"0", "1", "2", ",", " "}, 5)
=============================================================================
