------------------------------- MODULE Loops -------------------------------
(***************************************************************************)
(* The loops of the C functions modelled by ElStrings, FcgxParams and      *)
(* OsAddress.  A body of a loop is a function on the states of the loop;   *)
(* the loop itself is the state it ends in.                                *)
(***************************************************************************)
EXTENDS Integers

\* A while loop that begins in state s.  body leaves a state alone in which the
\* condition of the loop no longer holds.
While(body, s) ==
    LET end[x \in DOMAIN body] == IF body[x] = x THEN x ELSE end[body[x]]
    IN  end[s]

\* A loop over 1..n that begins in state s; body is a function of k and the state.
For(n, body, s) ==
    LET after[k \in 0..n] == IF k = 0 THEN s ELSE body[k][after[k - 1]]
    IN  after[n]
=============================================================================
