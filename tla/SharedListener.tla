--------------------------- MODULE SharedListener ---------------------------
(***************************************************************************)
(* What a pool of workers that share one listening socket promises the web *)
(* server: a connection is taken by one worker at most, a worker has one   *)
(* connection at a time, and hands it to its application, if the client is *)
(* one to serve, or closes it; a connection that was closed never comes    *)
(* back.                                                                   *)
(***************************************************************************)
CONSTANTS Conns,    \* the connections of the web server
          Workers,  \* the processes
          None      \* no worker, and not one of Workers

VARIABLES conn,     \* what became of each connection
          good,     \* whether its client is one to serve
          owner     \* the worker that has it

vars == <<conn, good, owner>>

States == {"absent", "queued", "held", "served", "closed"}

TypeOK == /\ conn \in [Conns -> States]
          /\ good \in [Conns -> BOOLEAN]
          /\ owner \in [Conns -> Workers \cup {None}]

Init == /\ conn = [c \in Conns |-> "absent"]
        /\ good = [c \in Conns |-> FALSE]
        /\ owner = [c \in Conns |-> None]

Connect(c) == /\ conn[c] = "absent"
              /\ conn' = [conn EXCEPT ![c] = "queued"]
              /\ \E g \in BOOLEAN : good' = [good EXCEPT ![c] = g]
              /\ UNCHANGED owner

\* The client leaves before a worker took the connection.
Abort(c) == /\ conn[c] = "queued"
            /\ conn' = [conn EXCEPT ![c] = "closed"]
            /\ UNCHANGED <<good, owner>>

Take(w, c) == /\ conn[c] = "queued"
              /\ \A d \in Conns : owner[d] # w
              /\ conn' = [conn EXCEPT ![c] = "held"]
              /\ owner' = [owner EXCEPT ![c] = w]
              /\ UNCHANGED good

Hand(c) == /\ conn[c] = "held" /\ good[c]
           /\ conn' = [conn EXCEPT ![c] = "served"]
           /\ UNCHANGED <<good, owner>>

Close(c) == /\ conn[c] \in {"held", "served"}
            /\ conn' = [conn EXCEPT ![c] = "closed"]
            /\ owner' = [owner EXCEPT ![c] = None]
            /\ UNCHANGED good

Next == \E c \in Conns : \/ Connect(c) \/ Abort(c) \/ Hand(c) \/ Close(c)
                         \/ \E w \in Workers : Take(w, c)

Spec == Init /\ [][Next]_vars
=============================================================================
