---------------------------- MODULE MCFcgxWriter ----------------------------
(* FcgxWriter for TLC: the smallest buffers NewStream makes, 32 bytes and the *)
(* 24 of a block malloc did not align, hold 24 and 16 bytes of content.  16   *)
(* fills the buffer of err exactly and leaves room in the one of out; 41      *)
(* spans several records, of which the last needs padding.                    *)
EXTENDS FcgxWriter

MCCap == [s \in Streams |-> IF s = "out" THEN 32 ELSE 24]
MCSizes == {16, 41}

\* NewStream clamps and aligns whatever length it is asked for: the lengths
\* FCGX_Accept_r asks for, and the extremes.
ASSUME NewStreamLengths ==
    /\ \A n \in {0, 1, 31, 32, 33, 512, 8192, 65535, 65536, 100000} :
          \A c \in BuffLens(n) : c \in 24..65536 /\ c % 8 = 0
    /\ \A s \in Streams : MCCap[s] \in BuffLens(0)
=============================================================================
