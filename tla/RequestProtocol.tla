--------------------------- MODULE RequestProtocol ---------------------------
(***************************************************************************)
(* What one FastCGI worker promises the web server: it takes requests one  *)
(* after the other, never two at a time; it answers each at most once, and *)
(* only while it holds it; a request it does not answer is lost with its   *)
(* connection; a worker that has stopped takes nothing any more.           *)
(***************************************************************************)
EXTENDS Naturals

CONSTANT N      \* the number of requests the web server sends, a natural number

VARIABLES fate,     \* what became of each request
          taken,    \* how many requests the worker has taken
          running   \* whether the worker still takes requests

vars == <<fate, taken, running>>

Requests == 1..N

Fates == {"pending", "held", "answered", "lost"}

TypeOK == /\ fate \in [Requests -> Fates]
          /\ taken \in 0..N
          /\ running \in BOOLEAN

Init == /\ fate = [r \in Requests |-> "pending"]
        /\ taken = 0
        /\ running = TRUE

Free == \A r \in Requests : fate[r] # "held"

Take == /\ running
        /\ Free
        /\ taken < N
        /\ taken' = taken + 1
        /\ fate' = [fate EXCEPT ![taken + 1] = "held"]
        /\ UNCHANGED running

\* The web server closed the connection, or sent something that is not a request.
Reject == /\ running
          /\ Free
          /\ taken < N
          /\ taken' = taken + 1
          /\ fate' = [fate EXCEPT ![taken + 1] = "lost"]
          /\ UNCHANGED running

Settle(r) == /\ fate[r] = "held"
             /\ \E f \in {"answered", "lost"} : fate' = [fate EXCEPT ![r] = f]
             /\ running' \in {running, FALSE}
             /\ UNCHANGED taken

Stop == /\ running
        /\ Free
        /\ running' = FALSE
        /\ UNCHANGED <<fate, taken>>

Next == \/ Take
        \/ Reject
        \/ \E r \in Requests : Settle(r)
        \/ Stop

Spec == Init /\ [][Next]_vars
==============================================================================
