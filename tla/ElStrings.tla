----------------------------- MODULE ElStrings -----------------------------
(***************************************************************************)
(* el_StrTran (el_strtran.c) and el_StrReplace (el_strreplace.c): replace  *)
(* in two passes, the first of which counts, or adds up the room that the  *)
(* second fills.  A text is a sequence of characters; positions count from *)
(* 0 as in C, so that text[nT] is At(text, nT).                            *)
(*                                                                         *)
(* A definition introduced by "Mutant:" is not part of the model: it is    *)
(* what the next one would be with a plausible bug.                        *)
(***************************************************************************)
EXTENDS Loops, Sequences

CONSTANTS
    Upper,          \* toupper(), a function on the characters
    OptLimit        \* the text length above which there is a table of first characters: 1024

Chars == DOMAIN Upper

At(s, n) == s[n + 1]

Same(a, b, flag) == a = b \/ (flag = 1 /\ Upper[a] = Upper[b])

SameText(s, t, flag) == Len(s) = Len(t) /\ \A i \in 1..Len(s) : Same(s[i], t[i], flag)

\* n characters of t from position p on.
Piece(t, p, n) == SubSeq(t, p + 1, p + n)

Fits(text, key, p, flag) ==
    Len(key) > 0 /\ Len(key) <= Len(text) - p /\ SameText(Piece(text, p, Len(key)), key, flag)

-----------------------------------------------------------------------------
(* EL_STRTRAN(text, seek, replace, nStart, nCount, nFlag) *)

CountStates(text, seek) ==
    {s \in [nT : 0..Len(text), nS : 0..Len(seek) - 1, nFound : Nat, nReplaced : Nat, nCount : Int] :
        s.nS <= s.nT}

\* A round of the first pass.
CountRound(text, seek, start, flag, s) ==
    IF ~(s.nT < Len(text) /\ Len(text) - s.nT >= Len(seek) - s.nS) THEN s
    ELSE IF Same(At(text, s.nT), At(seek, s.nS), flag)
    THEN IF s.nS + 1 < Len(seek) THEN [s EXCEPT !.nT = @ + 1, !.nS = @ + 1]
         ELSE IF s.nFound + 1 < start THEN [s EXCEPT !.nT = @ + 1, !.nS = 0, !.nFound = @ + 1]
         ELSE [nT |-> IF s.nCount = 1 THEN Len(text) ELSE s.nT + 1, nS |-> 0,
               nFound |-> s.nFound + 1, nReplaced |-> s.nReplaced + 1, nCount |-> s.nCount - 1]
    ELSE IF s.nS > 0 THEN [s EXCEPT !.nT = @ - (s.nS - 1), !.nS = 0]
    ELSE [s EXCEPT !.nT = @ + 1]

\* How many occurrences the first pass has found, and how many of them are to be
\* replaced.
Counted(text, seek, start, count, flag) ==
    While([s \in CountStates(text, seek) |-> CountRound(text, seek, start, flag, s)],
          [nT |-> 0, nS |-> 0, nFound |-> 0, nReplaced |-> 0, nCount |-> count])

CopyStates(text, seek) ==
    {s \in [nT : 0..Len(text), nS : 0..Len(seek) - 1, nFound : Nat, nReplaced : Nat,
            result : Seq(Chars)] :
        s.nS <= s.nT}

\* Mutant: after a partial match the second pass goes on where it is.
CopyRoundForward(text, seek, replace, flag, s) ==
    IF s.nT >= Len(text) THEN s
    ELSE IF s.nReplaced > 0 /\ Same(At(text, s.nT), At(seek, s.nS), flag)
    THEN IF s.nS + 1 < Len(seek) THEN [s EXCEPT !.nT = @ + 1, !.nS = @ + 1]
         ELSE IF s.nFound > 0
         THEN [s EXCEPT !.nT = @ + 1, !.nS = 0, !.nFound = @ - 1, !.result = @ \o seek]
         ELSE [s EXCEPT !.nT = @ + 1, !.nS = 0, !.nReplaced = @ - 1, !.result = @ \o replace]
    ELSE [s EXCEPT !.nT = @ + 1, !.nS = 0, !.result = Append(@, At(text, s.nT))]

\* A round of the second pass.  nFound occurrences are passed over, and the text that
\* was looked for written in their place.
CopyRound(text, seek, replace, flag, s) ==
    IF s.nT >= Len(text) THEN s
    ELSE IF s.nReplaced > 0 /\ Same(At(text, s.nT), At(seek, s.nS), flag)
    THEN IF s.nS + 1 < Len(seek) THEN [s EXCEPT !.nT = @ + 1, !.nS = @ + 1]
         ELSE IF s.nFound > 0
         THEN [s EXCEPT !.nT = @ + 1, !.nS = 0, !.nFound = @ - 1, !.result = @ \o seek]
         ELSE [s EXCEPT !.nT = @ + 1, !.nS = 0, !.nReplaced = @ - 1, !.result = @ \o replace]
    ELSE [s EXCEPT !.nT = @ - s.nS + 1, !.nS = 0, !.result = Append(@, At(text, s.nT - s.nS))]

\* What the second pass has copied to szResult.
Copied(text, seek, replace, flag, nFound, nReplaced) ==
    While([s \in CopyStates(text, seek) |-> CopyRound(text, seek, replace, flag, s)],
          [nT |-> 0, nS |-> 0, nFound |-> nFound, nReplaced |-> nReplaced, result |-> <<>>]).result

\* The result, and the room that was made for it.
StrTran(text, seek, replace, start, count, flag) ==
    LET nStart == IF start <= 0 THEN 1 ELSE start
        passed == Counted(text, seek, nStart, count, flag)
        nReplaced == passed.nReplaced
        nLength == Len(text) + (Len(replace) - Len(seek)) * nReplaced
    IN  IF count = 0 THEN [text |-> <<>>, room |-> 0]
        ELSE IF Len(seek) = 0 \/ Len(seek) > Len(text) \/ nReplaced = 0
        THEN [text |-> text, room |-> Len(text)]
        ELSE IF nLength = 0 THEN [text |-> <<>>, room |-> 0]
        ELSE [text |-> Copied(text, seek, replace, flag, passed.nFound - nReplaced, nReplaced),
              room |-> nLength]

\* The places of the occurrences from p on, from left to right, for every p.
Occurrences(text, seek, flag) ==
    LET from[p \in 0..Len(text)] ==
            IF p = Len(text) THEN <<>>
            ELSE IF Fits(text, seek, p, flag) THEN <<p>> \o from[p + Len(seek)]
            ELSE from[p + 1]
    IN  from

\* What it is to return: n occurrences are passed over, and m replaced (all that there
\* are, when m is negative).
Replaced(text, seek, replace, n, m, flag) ==
    LET occ == Occurrences(text, seek, flag)
        Nth(p) == Len(occ[0]) - Len(occ[p])     \* the number of those before p
        Chosen(p) == Nth(p) >= n /\ (m < 0 \/ Nth(p) < n + m)
        from[p \in 0..Len(text)] ==
            IF p = Len(text) THEN <<>>
            ELSE IF Fits(text, seek, p, flag)
            THEN (IF Chosen(p) THEN replace ELSE Piece(text, p, Len(seek))) \o from[p + Len(seek)]
            ELSE <<At(text, p)>> \o from[p + 1]
    IN  from[0]

-----------------------------------------------------------------------------
(* EL_STRREPLACE(text, source, dest, nFlag).  The sources are strings, or   *)
(* single characters (chars: cSource is a string, not an array); a hash is  *)
(* an array of keys with as many values.                                    *)

LeastOr0(K) == IF K = {} THEN 0 ELSE CHOOSE k \in K : \A j \in K : k <= j

\* Where the keys of first character c begin: ptrOpt[c].
FirstKey(src, c) == LeastOr0({k \in 1..Len(src) : Len(src[k]) > 0 /\ src[k][1] = c})

\* fNext: two keys begin with the same character.
SharedFirst(src) ==
    \E i, j \in 1..Len(src) : i # j /\ Len(src[i]) > 0 /\ Len(src[j]) > 0 /\ src[i][1] = src[j][1]

\* Mutant: with the table, only the first key that begins with the character is tried.
KeyFirstOnly(text, src, chars, flag, p) ==
    LET first == FirstKey(src, At(text, p))
    IN  IF Len(text) > OptLimit
        THEN IF first = 0 \/ chars THEN first
             ELSE LeastOr0({k \in {first} : Fits(text, src[k], p, flag)})
        ELSE IF chars THEN first
        ELSE LeastOr0({k \in 1..Len(src) : Fits(text, src[k], p, flag)})

\* nAt at position p, 0 for none.
Key(text, src, chars, flag, p) ==
    LET first == FirstKey(src, At(text, p))
    IN  IF Len(text) > OptLimit
        THEN IF first = 0 \/ chars THEN first
             ELSE LeastOr0({k \in IF SharedFirst(src) THEN first..Len(src) ELSE {first} :
                               Fits(text, src[k], p, flag)})
        ELSE IF chars THEN first
        ELSE LeastOr0({k \in 1..Len(src) : Fits(text, src[k], p, flag)})

\* What goes to the result; a source without destination is left out.
Dest(text, src, dst, p, nAt) ==
    IF nAt = 0 THEN <<At(text, p)>> ELSE IF nAt <= Len(dst) THEN dst[nAt] ELSE <<>>

FillStates(text) ==
    [nPos : 0..Len(text), second : BOOLEAN, nSize : Nat, result : Seq(Chars)]

\* A round of the loop, the second time with pszResult: the first pass adds up what
\* the second copies.
FillRound(text, src, dst, chars, flag, s) ==
    LET nAt   == Key(text, src, chars, flag, s.nPos)
        nSkip == IF nAt = 0 THEN 1 ELSE Len(src[nAt])
        dest  == Dest(text, src, dst, s.nPos, nAt)
    IN  IF s.nPos >= Len(text) THEN s
        ELSE IF s.second THEN [s EXCEPT !.nPos = @ + nSkip, !.result = @ \o dest]
        ELSE IF s.nPos + nSkip = Len(text)
        THEN [s EXCEPT !.nPos = 0, !.second = TRUE, !.nSize = @ + Len(dest)]
        ELSE [s EXCEPT !.nPos = @ + nSkip, !.nSize = @ + Len(dest)]

\* The result, and the room that was made for it.
StrReplace(text, src, dst, chars, flag) ==
    LET end == While([s \in FillStates(text) |-> FillRound(text, src, dst, chars, flag, s)],
                     [nPos |-> 0, second |-> FALSE, nSize |-> 0, result |-> <<>>])
    IN  IF text = <<>> \/ src = <<>> THEN [text |-> text, room |-> Len(text)]
        ELSE [text |-> end.result, room |-> end.nSize]

\* What it is to return: at each position the first source that is there.
Substituted(text, src, dst, flag) ==
    LET First(p) == LeastOr0({k \in 1..Len(src) : Fits(text, src[k], p, flag)})
        from[p \in 0..Len(text)] ==
            IF p = Len(text) THEN <<>>
            ELSE IF First(p) = 0 THEN <<At(text, p)>> \o from[p + 1]
            ELSE (IF First(p) \in 1..Len(dst) THEN dst[First(p)] ELSE <<>>)
                 \o from[p + Len(src[First(p)])]
    IN  from[0]
=============================================================================
