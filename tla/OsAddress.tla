----------------------------- MODULE OsAddress -----------------------------
(***************************************************************************)
(* The addresses of listeners and clients, on Unix and on Windows: where   *)
(* OS_CreateLocalIpcFd listens and OS_FcgiConnect connects to for one and  *)
(* the same bindPath, and which clients FCGI_WEB_SERVER_ADDRS lets in.     *)
(*                                                                         *)
(* A bindPath is a host, a colon or none, and the digits after it.  The    *)
(* hosts are "", "*", "localhost", another machine whose name begins with  *)
(* that, one that is written as an address, one with two addresses and one *)
(* that nobody knows.  The address of a client is a number with more than  *)
(* one notation.                                                           *)
(*                                                                         *)
(* A definition introduced by "Mutant:" is not part of the model: it is    *)
(* what the next one would be with a plausible bug.                        *)
(***************************************************************************)
EXTENDS Loops, Sequences

CONSTANTS
    InetAddr,       \* inet_addr(): the texts that are addresses, and which
    Ntoa            \* inet_ntoa(): the addresses, and the text of each

Elsewhere == "localhost2"
Hosts == {"", "*", "localhost", Elsewhere, "10.0.0.1", "two", "unknown"}

\* The call of the system that fails when a listener is opened, if one does.
Failures == {"none", "mutex", "socket", "option", "bind", "table"}

\* short, and the sixteen bits that htons() makes of one.
Short(n) == ((n + 32768) % 65536) - 32768
Htons(n) == n % 65536

Number(digits) ==
    For(Len(digits), [k \in 1..Len(digits) |-> [n \in Nat |-> 10 * n + digits[k]]], 0)

\* An endpoint of the TCP/IP or of the local family, or how the call ended without.
Inet(addr, port) == [family |-> "inet", addr |-> addr, port |-> port]
Local(path)      == [family |-> "local", path |-> path]
Ended(how)       == [family |-> "none", how |-> how]

-----------------------------------------------------------------------------
(* os_unix.c *)

\* port = atoi(...), a short
Port(b) == IF b.colon THEN Short(Number(b.digits)) ELSE 0

\* OS_BuildSockAddrUn
Unix(b) == IF b.long THEN Ended("exit") ELSE Local(b)

\* inet_addr, gethostbyname: a listener needs one address.
Resolved(host) == CASE host \in {"", "*"} -> "any"
                    [] host \in {"two", "unknown"} -> "exit"
                    [] OTHER -> host

\* OS_CreateLocalIpcFd.  Whatever is at the path of a local socket is unlinked first; an
\* address of another machine cannot be bound.
Listens(b, fails) ==
    IF Port(b) # 0 /\ Resolved(b.host) = "exit" THEN Ended("exit")
    ELSE IF fails = "socket" THEN Ended("error")
    ELSE IF fails = "bind" \/ (Port(b) # 0 /\ (fails = "option" \/ b.host = Elsewhere))
    THEN Ended("exit")
    ELSE IF Port(b) = 0 THEN Unix(b)
    ELSE Inet(Resolved(b.host), Htons(Port(b)))

\* Mutant: no host is no address.
PeerNowhere(b) ==
    IF Port(b) = 0 THEN Unix(b)
    ELSE IF b.host \in {"", "*", "unknown"} THEN Ended("exit")
    ELSE Inet(b.host, Htons(Port(b)))

\* Where OS_FcgiConnect goes: the first address of the host.
Peer(b) ==
    IF Port(b) = 0 THEN Unix(b)
    ELSE IF b.host \in {"*", "unknown"} THEN Ended("exit")
    ELSE Inet(IF b.host = "" THEN "localhost" ELSE b.host, Htons(Port(b)))

\* connect() finds the listener where it goes.
Reaches(peer, listener) ==
    \/ peer.family = "local" /\ peer = listener
    \/ /\ peer.family = "inet" /\ listener.family = "inet"
       /\ peer.port = listener.port
       /\ listener.addr = peer.addr \/ (listener.addr = "any" /\ peer.addr # Elsewhere)

\* OS_FcgiConnect, with that listener and no other; refused: there is no socket to be had.
Connects(b, listener, refused) ==
    IF Peer(b).family = "none" THEN Peer(b)
    ELSE IF refused THEN Ended("exit")
    ELSE IF Reaches(Peer(b), listener) THEN Peer(b) ELSE Ended("error")

\* The pieces of a text between separators, or its ends.
Between(text, seps) ==
    LET ends == {0, Len(text) + 1} \cup {i \in 1..Len(text) : text[i] \in seps}
    IN  {SubSeq(text, e[1] + 1, e[2] - 1) :
            e \in {d \in ends \X ends : d[1] < d[2] /\ \A k \in ends : k <= d[1] \/ d[2] <= k}}

\* ClientAddrOK: some piece of the list is a notation of the address.
ClientAddrOK(addr, clientList) ==
    \/ clientList = <<>>
    \/ \E cur \in Between(clientList, {","}) \cap DOMAIN InetAddr : InetAddr[cur] = addr

-----------------------------------------------------------------------------
(* os_win32.c *)

\* getPort, which looks at five characters.
WinPort(b) ==
    IF b.colon THEN Short(Number(SubSeq(b.digits, 1, IF Len(b.digits) < 5 THEN Len(b.digits) ELSE 5)))
    ELSE 0

\* OS_CreateLocalIpcFd: a port may have no host but one that begins with LOCALHOST, and
\* the listener takes any address of this machine nevertheless.
WinListens(b, fails) ==
    IF fails = "mutex" THEN Ended("error")
    ELSE IF WinPort(b) # 0 /\ b.host \notin {"", "localhost", Elsewhere} THEN Ended("exit")
    ELSE IF fails \in {"socket", "bind", "table"} \/ (WinPort(b) = 0 /\ fails = "option")
    THEN Ended("error")
    ELSE IF WinPort(b) = 0 THEN Local(b)
    ELSE Inet("any", Htons(WinPort(b)))

\* Where OS_FcgiConnect goes.
WinPeer(b) ==
    IF WinPort(b) = 0 THEN Local(b)
    ELSE IF b.host \in {"*", "unknown"} THEN Ended("error")
    ELSE Inet(IF b.host = "" THEN "localhost" ELSE b.host, Htons(WinPort(b)))

\* OS_FcgiConnect.  The test of connect() is inverted: a socket that is connected is
\* closed, and one that is not is returned.
WinConnects(b, listener, refused) ==
    IF WinPeer(b).family = "none" THEN WinPeer(b)
    ELSE IF refused THEN Ended("error")
    ELSE IF WinPeer(b).family = "inet"
    THEN Ended(IF Reaches(WinPeer(b), listener) THEN "error" ELSE "unconnected")
    ELSE IF Reaches(WinPeer(b), listener) THEN WinPeer(b) ELSE Ended("error")

Tokens == {" ", ",", ";", ":", "\t"}

\* Mutant: what follows the address is not looked at.
FoundOpen(ipaddr, okAddrs) ==
    LET P == {i \in 1..Len(okAddrs) : i + Len(ipaddr) - 1 <= Len(okAddrs)
                                      /\ SubSeq(okAddrs, i, i + Len(ipaddr) - 1) = ipaddr}
    IN  /\ P # {}
        /\ LET p == CHOOSE i \in P : \A j \in P : i <= j
           IN  p = 1 \/ okAddrs[p - 1] \in Tokens

\* strstr(): the first place where the text is found has a token, or nothing, on both
\* sides.
Found(ipaddr, okAddrs) ==
    LET P == {i \in 1..Len(okAddrs) : i + Len(ipaddr) - 1 <= Len(okAddrs)
                                      /\ SubSeq(okAddrs, i, i + Len(ipaddr) - 1) = ipaddr}
    IN  /\ P # {}
        /\ LET p == CHOOSE i \in P : \A j \in P : i <= j
               q == p + Len(ipaddr)
           IN  /\ p = 1 \/ okAddrs[p - 1] \in Tokens
               /\ q > Len(okAddrs) \/ okAddrs[q] \in Tokens

IsAddrOK(addr, okAddrs) == Found(Ntoa[addr], okAddrs)
=============================================================================
