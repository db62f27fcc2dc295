---------------------------- MODULE OsAsyncProofs ----------------------------
(***************************************************************************)
(* OsAsync for any number of descriptors, any first size of the table and  *)
(* any number of calls in a callback: table, sets and counts agree, and a  *)
(* callback runs for an operation that was reported since it was started,  *)
(* but for the reads of a descriptor that OS_CloseRead left an event of.   *)
(***************************************************************************)
EXTENDS OsAsync, FiniteSetTheorems, WellFoundedInduction, TLAPS

-----------------------------------------------------------------------------
(* How the table grows.  Induction is over sets of numbers here, as the     *)
(* provers cannot instantiate a predicate.                                  *)

Smaller == {p \in Nat \X Nat : p[1] < p[2]}

LEMMA LeastNumber ==
    ASSUME NEW S \in SUBSET Nat, S # {}
    PROVE  \E n \in S : \A m \in S : n <= m
<1>1. OpToRel(<, Nat) = Smaller
  BY DEF OpToRel, Smaller
<1>2. IsWellFoundedOn(Smaller, Nat)
  BY <1>1, NatLessThanWellFounded
<1>3. PICK x \in S : \A y \in S : ~ (<<y, x>> \in Smaller)
  BY <1>2, WFMin
<1>4. ASSUME NEW y \in S PROVE x <= y
  <2>1. x \in Nat /\ y \in Nat /\ <<y, x>> \in Nat \X Nat
    OBVIOUS
  <2> QED BY <1>3, <2>1 DEF Smaller
<1> QED BY <1>4

LEMMA SetInduction ==
    ASSUME NEW S \in SUBSET Nat, 0 \in S, \A n \in S : n + 1 \in S
    PROVE  S = Nat
<1> DEFINE T == Nat \ S
<1> SUFFICES ASSUME T # {} PROVE FALSE
  OBVIOUS
<1>1. T \in SUBSET Nat
  OBVIOUS
<1> HIDE DEF T
<1>2. PICK n \in T : \A m \in T : n <= m
  BY <1>1, LeastNumber
<1>3. n # 0 /\ n - 1 \in Nat /\ n - 1 \notin T
  BY <1>1, <1>2 DEF T
<1> QED BY <1>2, <1>3 DEF T

\* f doubles from the size s, n times.
Doubles(f, s, n) ==
    f \in [0..n -> Nat] /\ f[0] = s /\ \A k \in 0..n - 1 : f[k + 1] = 2 * f[k]

LEMMA DoublesExist ==
    ASSUME NEW s \in Nat
    PROVE  \A n \in Nat : \E f : Doubles(f, s, n)
<1> DEFINE S == {n \in Nat : \E f : Doubles(f, s, n)}
<1>1. 0 \in S
  <2> DEFINE f == [k \in 0..0 |-> s]
  <2>1. Doubles(f, s, 0)
    BY DEF Doubles
  <2> QED BY <2>1
<1>2. ASSUME NEW n \in S PROVE n + 1 \in S
  <2>1. PICK f : Doubles(f, s, n)
    BY <1>2
  <2> DEFINE g == [k \in 0..n + 1 |-> IF k <= n THEN f[k] ELSE 2 * f[n]]
  <2>2. g \in [0..n + 1 -> Nat]
    BY <2>1 DEF Doubles
  <2>3. g[0] = s
    BY <2>1 DEF Doubles
  <2>4. ASSUME NEW k \in 0..n PROVE g[k + 1] = 2 * g[k]
    <3>1. CASE k = n
      BY <3>1
    <3>2. CASE k < n
      <4>1. g[k + 1] = f[k + 1] /\ g[k] = f[k] /\ k \in 0..n - 1
        BY <3>2
      <4> QED BY <2>1, <4>1 DEF Doubles
    <3> QED BY <3>1, <3>2
  <2> HIDE DEF g
  <2>5. Doubles(g, s, n + 1)
    BY <2>2, <2>3, <2>4 DEF Doubles
  <2> QED BY <2>5
<1>3. S \in SUBSET Nat
  OBVIOUS
<1> HIDE DEF S
<1>4. S = Nat
  BY <1>1, <1>2, <1>3, SetInduction
<1> QED BY <1>4 DEF S

LEMMA DoublesAgree ==
    ASSUME NEW s \in Nat, NEW n \in Nat, NEW m \in Nat, NEW f, NEW g,
           Doubles(f, s, n), Doubles(g, s, m)
    PROVE  \A k \in Nat : k <= n /\ k <= m => f[k] = g[k]
<1> DEFINE S == {k \in Nat : k <= n /\ k <= m => f[k] = g[k]}
<1>1. 0 \in S
  BY DEF Doubles
<1>2. ASSUME NEW k \in S PROVE k + 1 \in S
  <2> SUFFICES ASSUME k + 1 <= n, k + 1 <= m PROVE f[k + 1] = g[k + 1]
    BY <1>2
  <2>1. k \in 0..n - 1 /\ k \in 0..m - 1 /\ f[k] = g[k]
    BY <1>2
  <2> QED BY <2>1 DEF Doubles
<1>3. S \in SUBSET Nat
  OBVIOUS
<1> HIDE DEF S
<1>4. S = Nat
  BY <1>1, <1>2, <1>3, SetInduction
<1> QED BY <1>4 DEF S

\* The equation that defines Enlarged has a solution.
LEMMA Solution ==
    ASSUME NEW s \in Nat
    PROVE  \E f : f = [n \in Nat |-> IF n = 0 THEN s ELSE 2 * f[n - 1]]
<1> DEFINE F(n) == CHOOSE f : Doubles(f, s, n)
           f == [n \in Nat |-> F(n)[n]]
<1>1. ASSUME NEW n \in Nat PROVE Doubles(F(n), s, n)
  BY DoublesExist
<1> HIDE DEF F
<1>2. f[0] = s
  BY <1>1 DEF Doubles
<1>3. ASSUME NEW n \in Nat, n # 0 PROVE f[n] = 2 * f[n - 1]
  <2>1. n - 1 \in Nat /\ n - 1 \in 0..n - 1
    BY <1>3
  <2>2. F(n)[n] = 2 * F(n)[n - 1]
    BY <1>1, <2>1 DEF Doubles
  <2>3. F(n)[n - 1] = F(n - 1)[n - 1]
    BY <1>1, <2>1, DoublesAgree
  <2> QED BY <2>1, <2>2, <2>3
<1>4. f = [n \in Nat |-> IF n = 0 THEN s ELSE 2 * f[n - 1]]
  BY <1>2, <1>3
<1> QED BY <1>4

LEMMA EnlargedIs ==
    ASSUME asyncIoTableSize \in Nat
    PROVE  /\ Enlarged[0] = asyncIoTableSize
           /\ \A n \in Nat : n # 0 => Enlarged[n] = 2 * Enlarged[n - 1]
<1>1. Enlarged = [n \in Nat |-> IF n = 0 THEN asyncIoTableSize ELSE 2 * Enlarged[n - 1]]
  BY Solution DEF Enlarged
<1> QED BY <1>1

LEMMA EnlargedGrows ==
    ASSUME asyncIoTableSize \in Nat \ {0}
    PROVE  \A n \in Nat : Enlarged[n] \in Nat /\ Enlarged[n] >= asyncIoTableSize + n
<1> DEFINE S == {n \in Nat : Enlarged[n] \in Nat /\ Enlarged[n] >= asyncIoTableSize + n}
<1>1. 0 \in S
  BY EnlargedIs
<1>2. ASSUME NEW n \in S PROVE n + 1 \in S
  <2>1. Enlarged[n + 1] = 2 * Enlarged[n]
    BY <1>2, EnlargedIs
  <2> QED BY <1>2, <2>1
<1>3. S \in SUBSET Nat
  OBVIOUS
<1> HIDE DEF S
<1>4. S = Nat
  BY <1>1, <1>2, <1>3, SetInduction
<1> QED BY <1>4 DEF S

\* Growing ends, the table has the entry i then, and it is never made smaller.
LEMMA GrownFits ==
    ASSUME asyncIoTableSize \in Nat \ {0}, NEW i \in Nat
    PROVE  Grown(i) \in Nat /\ Grown(i) > i /\ Grown(i) >= asyncIoTableSize
<1> DEFINE Enough(n) == Enlarged[n] > i
           S == {n \in Nat : Enough(n)}
<1>1. i \in S
  BY EnlargedGrows
<1>2. S \in SUBSET Nat /\ S # {}
  BY <1>1
<1> HIDE DEF S
<1>3. PICK n \in S : \A m \in S : n <= m
  BY <1>2, LeastNumber
<1>4. n \in 0..i /\ Enlarged[n] > i
  BY <1>1, <1>2, <1>3 DEF S
<1>5. \A m \in 0..n - 1 : Enlarged[m] <= i
  <2> TAKE m \in 0..n - 1
  <2>1. m \in Nat /\ m \notin S
    BY <1>2, <1>3
  <2> QED BY <2>1, EnlargedGrows DEF S
<1>6. \E k \in 0..i : Enlarged[k] > i /\ \A m \in 0..k - 1 : Enlarged[m] <= i
  BY <1>4, <1>5
<1>7. PICK k \in 0..i : Enlarged[k] > i /\ Grown(i) = Enlarged[k]
  BY <1>6 DEF Grown
<1> QED BY <1>7, EnlargedGrows

-----------------------------------------------------------------------------
(* The invariant *)

\* TableMatchesSets without the types.
SetsInv == libInitialized =>
    /\ inUse \subseteq set \cup post
    /\ (set \cup post) \ inUse \subseteq Stale
    /\ set \cap post \subseteq Stale
    /\ \A op \in inUse : op[2] <= maxFd /\ Index(op) < asyncIoTableSize

\* What is posted was reported since it was started.
ReadyInv == libInitialized => post \subseteq ready \cup Stale

\* The counts may be too large, after a close, but never too small.
CountInv == \A k \in Kinds : Cardinality(OfKind(post, k)) <= numPosted[k]

\* OS_DoIo runs on an initialized library; before anything was started there is
\* nothing in the table, in the sets and posted.
UseInv ==
    /\ pc # "app" => libInitialized /\ asyncIoInUse
    /\ ~asyncIoInUse => inUse = {} /\ set = {} /\ post = {}
    /\ asyncIoTableSize # 0

IInv == TypeOK /\ SetsInv /\ ReadyInv /\ CountInv /\ UseInv

LEMMA OpIsPair == ASSUME NEW op \in Ops
                  PROVE  op = <<op[1], op[2]>> /\ op[1] \in Kinds /\ op[2] \in Fds
  BY DEF Ops

LEMMA IndexType ==
    ASSUME NEW op \in Ops
    PROVE  Index(op) \in Nat /\ Index(op) <= 2 * MaxDescriptor + 1
  BY OpIsPair, AsyncAssumption DEF Index, Fds, Kinds

LEMMA OpsFinite == IsFiniteSet(Ops)
<1>1. IsFiniteSet(Fds)
  BY AsyncAssumption, FS_Interval DEF Fds
<1>2. IsFiniteSet(Kinds)
  <2>1. IsFiniteSet({"rd"} \cup {"wr"})
    BY FS_Singleton, FS_Union
  <2> QED BY <2>1 DEF Kinds
<1> QED BY <1>1, <1>2, FS_Product DEF Ops

LEMMA KindFinite ==
    ASSUME NEW S \in SUBSET Ops, NEW k
    PROVE  IsFiniteSet(OfKind(S, k)) /\ Cardinality(OfKind(S, k)) \in Nat
<1>1. OfKind(S, k) \in SUBSET Ops
  BY DEF OfKind
<1> QED BY <1>1, OpsFinite, FS_Subset, FS_CardinalityType

LEMMA FewerOfKind ==
    ASSUME NEW S \in SUBSET Ops, NEW T \in SUBSET S, NEW k
    PROVE  Cardinality(OfKind(T, k)) <= Cardinality(OfKind(S, k))
<1>1. OfKind(T, k) \in SUBSET OfKind(S, k)
  BY DEF OfKind
<1> QED BY <1>1, KindFinite, FS_Subset

\* Fewer events posted and no count changed.
LEMMA CountStays ==
    ASSUME TypeOK, CountInv, post' \subseteq post, UNCHANGED numPosted
    PROVE  CountInv'
<1> SUFFICES ASSUME NEW k \in Kinds PROVE Cardinality(OfKind(post', k)) <= numPosted'[k]
  BY DEF CountInv, OfKind
<1>1. Cardinality(OfKind(post', k)) <= Cardinality(OfKind(post, k))
  BY FewerOfKind DEF TypeOK
<1>2. post' \in SUBSET Ops /\ numPosted[k] \in Nat
  BY DEF TypeOK
<1>3. Cardinality(OfKind(post', k)) \in Nat /\ Cardinality(OfKind(post, k)) \in Nat
  BY <1>2, KindFinite DEF TypeOK
<1> QED BY <1>1, <1>2, <1>3 DEF CountInv

LEMMA InitInv == Init => IInv
<1> SUFFICES ASSUME Init PROVE IInv
  OBVIOUS
<1>1. TypeOK
  <2>1. 0 \in 0..2 * MaxDescriptor + 2 /\ 0 \in 0..MaxCalls /\ -1 \in -1..MaxDescriptor
    BY AsyncAssumption
  <2>2. numPosted \in [Kinds -> Nat]
    BY DEF Init
  <2> QED BY <2>1, <2>2, AsyncAssumption DEF Init, TypeOK
<1>2. CountInv
  <2> SUFFICES ASSUME NEW k \in Kinds PROVE Cardinality(OfKind(post, k)) <= numPosted[k]
    BY DEF CountInv
  <2>1. OfKind(post, k) = {} /\ numPosted[k] = 0
    BY DEF Init, OfKind
  <2> QED BY <2>1, FS_EmptySet
<1> QED BY <1>1, <1>2, AsyncAssumption DEF Init, IInv, SetsInv, ReadyInv, UseInv

-----------------------------------------------------------------------------
(* Starting and closing *)

LEMMA LibraryKeeps == IInv /\ (LibInit \/ LibShutdown) => IInv'
<1> SUFFICES ASSUME IInv, LibInit \/ LibShutdown PROVE IInv'
  OBVIOUS
<1>1. TypeOK'
  BY DEF IInv, TypeOK, LibInit, LibShutdown
<1>2. CountInv'
  BY CountStays DEF IInv, LibInit, LibShutdown
<1> QED BY <1>1, <1>2 DEF IInv, SetsInv, ReadyInv, UseInv, LibInit, LibShutdown

LEMMA AsyncKeeps ==
    ASSUME IInv, NEW op \in Ops, Async(op)
    PROVE  IInv'
<1> USE DEF IInv
<1>1. Index(op) \in Nat /\ asyncIoTableSize \in Nat \ {0}
  BY IndexType DEF UseInv, TypeOK
<1>2. /\ asyncIoTableSize' \in Nat /\ asyncIoTableSize' > Index(op)
      /\ asyncIoTableSize' >= asyncIoTableSize
  BY <1>1, GrownFits DEF Async
<1>3. maxFd' \in -1..MaxDescriptor /\ maxFd' >= maxFd /\ maxFd' >= op[2]
  BY OpIsPair, AsyncAssumption DEF Async, TypeOK, Fds
<1>4. calls' \in 0..MaxCalls
  BY AsyncAssumption DEF Async, Calling, TypeOK
<1>5. TypeOK'
  BY <1>2, <1>3, <1>4 DEF Async, TypeOK
<1>6. CountInv'
  BY CountStays DEF Async
<1>7. SetsInv'
  <2>1. /\ inUse \subseteq set \cup post
        /\ (set \cup post) \ inUse \subseteq Stale /\ set \cap post \subseteq Stale
        /\ \A o \in inUse : o[2] <= maxFd /\ Index(o) < asyncIoTableSize
    BY DEF SetsInv, Async, Calling
  <2>2. /\ inUse' \subseteq set' \cup post'
        /\ (set' \cup post') \ inUse' \subseteq Stale' /\ set' \cap post' \subseteq Stale'
    BY <2>1 DEF Async, Stale
  <2>3. ASSUME NEW o \in inUse' PROVE o[2] <= maxFd' /\ Index(o) < asyncIoTableSize'
    <3>1. CASE o = op
      BY <1>2, <1>3, <3>1
    <3>2. CASE o \in inUse
      <4>1. Index(o) \in Nat /\ o[2] \in Nat
        BY <3>2, IndexType, OpIsPair DEF TypeOK, Fds
      <4> QED BY <1>1, <1>2, <1>3, <2>1, <3>2, <4>1 DEF TypeOK
    <3> QED BY <2>3, <3>1, <3>2 DEF Async
  <2> QED BY <2>2, <2>3 DEF SetsInv
<1>8. ReadyInv'
  BY DEF Async, Calling, SetsInv, ReadyInv, Stale
<1>9. UseInv'
  BY <1>1, <1>2 DEF Async, UseInv
<1> QED BY <1>5, <1>6, <1>7, <1>8, <1>9

LEMMA CloseKeeps ==
    ASSUME IInv, NEW fd \in Fds, Close(fd)
    PROVE  IInv'
<1> USE DEF IInv
<1>1. /\ inUse' \in {inUse, inUse \ Both(fd)} /\ set' \in {set, set \ Both(fd)}
      /\ post' \in {post, post \ Both(fd)} /\ ready' = ready \ Both(fd)
      /\ cancelled' \in {cancelled, cancelled \ {fd}} /\ clobbered' \in BOOLEAN
  BY DEF Close, Closed, TypeOK
<1>2. maxFd' \in -1..MaxDescriptor
  BY AsyncAssumption DEF Close, TypeOK, Fds
<1>3. calls' \in 0..MaxCalls
  BY AsyncAssumption DEF Close, Calling, TypeOK
<1>4. TypeOK'
  <2>1. UNCHANGED <<libInitialized, asyncIoInUse, asyncIoTableSize, numPosted, pc, at>>
    BY DEF Close, lib
  <2> QED BY <1>1, <1>2, <1>3, <2>1 DEF TypeOK
<1>5. CountInv'
  <2>1. post' \subseteq post /\ UNCHANGED numPosted
    BY <1>1 DEF Close
  <2> QED BY <2>1, CountStays
<1>6. SetsInv' /\ ReadyInv'
  <2>1. /\ inUse \subseteq set \cup post
        /\ (set \cup post) \ inUse \subseteq Stale /\ set \cap post \subseteq Stale
        /\ \A o \in inUse : o[2] <= maxFd /\ Index(o) < asyncIoTableSize
        /\ post \subseteq ready \cup Stale
    BY DEF SetsInv, ReadyInv, Close, Calling
  <2>2. UNCHANGED asyncIoTableSize
    BY DEF Close, lib
  <2>3. CASE ~asyncIoInUse
    BY <2>3 DEF Close, UseInv, SetsInv, ReadyInv
  <2>4. CASE asyncIoInUse
    <3>1. /\ inUse' = inUse \ Both(fd) /\ set' = set \ Both(fd) /\ post' = post \ Both(fd)
          /\ maxFd' = IF maxFd = fd THEN maxFd - 1 ELSE maxFd
          /\ ready' = ready \ Both(fd) /\ cancelled' = cancelled \ {fd}
      BY <2>4 DEF Close, Closed
    <3>2. ASSUME NEW o \in inUse' PROVE o[2] <= maxFd' /\ Index(o) < asyncIoTableSize'
      <4>1. o \in inUse /\ o \in Ops /\ o \notin Both(fd)
        BY <3>1, <3>2 DEF TypeOK
      <4>2. o[2] # fd /\ o[2] \in Nat
        BY <4>1, OpIsPair DEF Both, Fds
      <4> QED BY <2>1, <2>2, <3>1, <4>1, <4>2 DEF TypeOK, Fds
    <3>3. Stale \ Both(fd) \subseteq Stale'
      <4> SUFFICES ASSUME NEW o \in Stale \ Both(fd) PROVE o \in Stale'
        OBVIOUS
      <4>1. o = <<"rd", o[2]>> /\ o[2] \in cancelled
        BY DEF Stale
      <4>2. o[2] # fd
        BY <4>1 DEF Both, Kinds
      <4> QED BY <3>1, <4>1, <4>2 DEF Stale
    <3>4. /\ inUse' \subseteq set' \cup post'
          /\ (set' \cup post') \ inUse' \subseteq Stale' /\ set' \cap post' \subseteq Stale'
          /\ post' \subseteq ready' \cup Stale'
      BY <2>1, <3>1, <3>3
    <3> QED BY <3>2, <3>4 DEF SetsInv, ReadyInv
  <2> QED BY <2>3, <2>4
<1>8. UseInv'
  <2>1. UNCHANGED <<libInitialized, asyncIoInUse, asyncIoTableSize, pc>>
    BY DEF Close, lib
  <2> QED BY <1>1, <2>1 DEF UseInv
<1> QED BY <1>4, <1>5, <1>6, <1>8

LEMMA CloseReadKeeps ==
    ASSUME IInv, NEW fd \in Fds, CloseRead(fd)
    PROVE  IInv'
<1> USE DEF IInv
<1>1. calls' \in 0..MaxCalls
  BY AsyncAssumption DEF CloseRead, Calling, TypeOK
<1>2. UNCHANGED <<libInitialized, asyncIoInUse, asyncIoTableSize, post, numPosted, maxFd, pc, at>>
  BY DEF CloseRead, lib
<1>3. TypeOK'
  BY <1>1, <1>2 DEF CloseRead, TypeOK
<1>4. CountInv'
  BY <1>2, CountStays
<1>5. SetsInv' /\ ReadyInv'
  <2>1. /\ inUse \subseteq set \cup post
        /\ (set \cup post) \ inUse \subseteq Stale /\ set \cap post \subseteq Stale
        /\ \A o \in inUse : o[2] <= maxFd /\ Index(o) < asyncIoTableSize
        /\ post \subseteq ready \cup Stale
    BY DEF SetsInv, ReadyInv, CloseRead, Calling
  <2> DEFINE op == <<"rd", fd>>
  <2>2. /\ inUse' = inUse \ {op} /\ set' = set \ {op} /\ ready' = ready \ {op}
        /\ post' = post
        /\ IF op \in post THEN cancelled' = cancelled \cup {fd} ELSE cancelled' = cancelled
    BY DEF CloseRead
  <2>3. Stale \subseteq Stale' /\ (op \in post => op \in Stale')
    BY <2>2 DEF Stale
  <2> HIDE DEF op
  <2>4. /\ inUse' \subseteq set' \cup post'
        /\ (set' \cup post') \ inUse' \subseteq Stale' /\ set' \cap post' \subseteq Stale'
        /\ post' \subseteq ready' \cup Stale'
    BY <2>1, <2>2, <2>3
  <2>5. \A o \in inUse' : o[2] <= maxFd' /\ Index(o) < asyncIoTableSize'
    BY <1>2, <2>1, <2>2
  <2> QED BY <2>4, <2>5 DEF SetsInv, ReadyInv
<1>6. UseInv'
  BY <1>2 DEF CloseRead, UseInv
<1> QED BY <1>3, <1>4, <1>5, <1>6

-----------------------------------------------------------------------------
(* OS_DoIo *)

LEMMA SelectKeeps ==
    ASSUME IInv, NEW S \in SUBSET Watched, Select(S)
    PROVE  IInv'
<1> USE DEF IInv
<1>1. S \subseteq set /\ S \in SUBSET Ops
  BY DEF Watched, TypeOK
<1>2. UNCHANGED <<libInitialized, asyncIoInUse, asyncIoTableSize, inUse, maxFd, at, calls, cancelled,
                clobbered>>
  BY DEF Select, lib
<1>3. \A k \in Kinds : numPosted'[k] = numPosted[k] + Cardinality(OfKind(S, k))
  BY DEF Select
<1>4. numPosted' \in [Kinds -> Nat]
  <2>1. \A k \in Kinds : Cardinality(OfKind(S, k)) \in Nat
    BY <1>1, KindFinite
  <2> QED BY <2>1 DEF Select, TypeOK
<1>5. TypeOK'
  BY <1>1, <1>2, <1>4 DEF Select, TypeOK
<1>6. CountInv'
  <2> SUFFICES ASSUME NEW k \in Kinds PROVE Cardinality(OfKind(post', k)) <= numPosted'[k]
    BY DEF CountInv, OfKind
  <2>1. OfKind(post', k) = OfKind(post, k) \cup OfKind(S, k)
    BY DEF Select, OfKind
  <2> DEFINE P == OfKind(post, k)
             R == OfKind(S, k)
  <2>2. IsFiniteSet(P) /\ Cardinality(P) \in Nat
    BY KindFinite DEF TypeOK
  <2>3. IsFiniteSet(R) /\ Cardinality(R) \in Nat
    BY <1>1, KindFinite
  <2> HIDE DEF P, R
  <2>4. Cardinality(P \cup R) = Cardinality(P) + Cardinality(R) - Cardinality(P \cap R)
    BY <2>2, <2>3, FS_Union
  <2>5. Cardinality(P \cap R) \in Nat
    BY <2>2, FS_Intersection, FS_CardinalityType
  <2>6. Cardinality(P) <= numPosted[k] /\ numPosted[k] \in Nat
    BY DEF CountInv, TypeOK, P
  <2>7. Cardinality(P \cup R) <= numPosted[k] + Cardinality(R)
    BY <2>2, <2>3, <2>4, <2>5, <2>6
  <2> QED BY <1>3, <2>1, <2>7 DEF P, R
<1>7. SetsInv' /\ ReadyInv'
  <2>1. set' = set \ S /\ post' = post \cup S /\ ready' = ready \cup S
    BY DEF Select
  <2>2. /\ set' \cup post' = set \cup post /\ Stale' = Stale
        /\ set' \cap post' \subseteq set \cap post
    BY <1>1, <1>2, <2>1 DEF Stale
  <2> QED BY <1>2, <2>1, <2>2 DEF SetsInv, ReadyInv
<1>8. UseInv'
  BY <1>1, <1>2 DEF Select, UseInv
<1> QED BY <1>5, <1>6, <1>7, <1>8

\* The loop is at an entry of the table.
LEMMA EntryIs ==
    ASSUME TypeOK, InLoop
    PROVE  Entry \in Ops /\ Index(Entry) = at /\ at + 1 \in 0..2 * MaxDescriptor + 2
<1>1. at \in Nat /\ at <= 2 * MaxDescriptor + 1
  BY AsyncAssumption DEF TypeOK, InLoop
<1>2. PICK fd \in Fds : at = 2 * fd \/ at = 2 * fd + 1
  <2> DEFINE fd == at \div 2
  <2>1. fd \in Fds /\ (at = 2 * fd \/ at = 2 * fd + 1)
    BY <1>1, AsyncAssumption DEF Fds
  <2> QED BY <2>1
<1>3. \E op \in Ops : Index(op) = at
  <2>1. CASE at = 2 * fd
    <3>1. <<"rd", fd>> \in Ops /\ Index(<<"rd", fd>>) = at
      BY <2>1 DEF Ops, Kinds, Index, Fds
    <3> QED BY <3>1
  <2>2. CASE at = 2 * fd + 1
    <3>1. <<"wr", fd>> \in Ops /\ Index(<<"wr", fd>>) = at
      BY <2>2 DEF Ops, Kinds, Index, Fds
    <3> QED BY <3>1
  <2> QED BY <1>2, <2>1, <2>2
<1>4. Entry \in Ops /\ Index(Entry) = at
  BY <1>3 DEF Entry
<1>5. at + 1 \in 0..2 * MaxDescriptor + 2
  BY <1>1, AsyncAssumption
<1> QED BY <1>4, <1>5

LEMMA DispatchKeepsInv ==
    ASSUME IInv, Dispatch
    PROVE  IInv'
<1> USE DEF IInv
<1>1. PICK op \in Ops : op = Entry
  BY EntryIs DEF Dispatch
<1>2. /\ op \in post \cap inUse /\ post' = post \ {op} /\ inUse' = inUse \ {op}
      /\ numPosted' = [numPosted EXCEPT ![op[1]] = @ - 1]
      /\ pc' = "callback" /\ at' = at + 1 /\ calls' = 0
      /\ UNCHANGED <<libInitialized, asyncIoInUse, asyncIoTableSize, set, maxFd, ready, cancelled,
                   clobbered>>
  BY <1>1 DEF Dispatch, lib, history
<1>3. op[1] \in Kinds
  BY OpIsPair
<1>4. /\ Cardinality(OfKind(post', op[1])) = Cardinality(OfKind(post, op[1])) - 1
      /\ Cardinality(OfKind(post, op[1])) <= numPosted[op[1]]
      /\ Cardinality(OfKind(post', op[1])) \in Nat /\ Cardinality(OfKind(post, op[1])) \in Nat
  <2>1. OfKind(post', op[1]) = OfKind(post, op[1]) \ {op} /\ op \in OfKind(post, op[1])
    BY <1>2 DEF OfKind
  <2>2. post \in SUBSET Ops /\ post' \in SUBSET Ops
    BY <1>2 DEF TypeOK
  <2> DEFINE P == OfKind(post, op[1])
  <2>3. IsFiniteSet(P) /\ Cardinality(P) \in Nat /\ op \in P
    BY <2>1, <2>2, KindFinite
  <2>4. Cardinality(OfKind(post', op[1])) \in Nat
    BY <2>2, KindFinite
  <2>5. Cardinality(P) <= numPosted[op[1]]
    BY <1>3 DEF CountInv
  <2> HIDE DEF P
  <2>6. Cardinality(P \ {op}) = Cardinality(P) - 1
    BY <2>3, FS_RemoveElement
  <2> QED BY <2>1, <2>3, <2>4, <2>5, <2>6 DEF P
<1>5. numPosted' \in [Kinds -> Nat]
  BY <1>2, <1>3, <1>4 DEF TypeOK
<1>6. CountInv'
  <2> SUFFICES ASSUME NEW k \in Kinds PROVE Cardinality(OfKind(post', k)) <= numPosted'[k]
    BY DEF CountInv, OfKind
  <2>1. CASE k = op[1]
    BY <1>2, <1>3, <1>4, <2>1 DEF TypeOK
  <2>2. CASE k # op[1]
    <3>1. OfKind(post', k) = OfKind(post, k)
      BY <1>2, <2>2 DEF OfKind
    <3> QED BY <1>2, <2>2, <3>1 DEF CountInv, TypeOK
  <2> QED BY <2>1, <2>2
<1>7. TypeOK'
  <2>1. at' \in 0..2 * MaxDescriptor + 2
    BY <1>2, EntryIs DEF Dispatch
  <2>2. 0 \in 0..MaxCalls
    BY AsyncAssumption
  <2> QED BY <1>2, <1>5, <2>1, <2>2 DEF TypeOK
<1>8. SetsInv' /\ ReadyInv'
  <2>1. Stale' = Stale
    BY <1>2 DEF Stale
  <2> QED BY <1>2, <2>1 DEF SetsInv, ReadyInv
<1>9. UseInv'
  BY <1>2 DEF UseInv, Dispatch, InLoop
<1> QED BY <1>6, <1>7, <1>8, <1>9

LEMMA RoundKeeps ==
    IInv /\ (DoIo \/ SelectFails \/ Pass \/ CallbackReturns \/ DoIoReturns) => IInv'
<1> SUFFICES ASSUME IInv, DoIo \/ SelectFails \/ Pass \/ CallbackReturns \/ DoIoReturns
             PROVE  IInv'
  OBVIOUS
<1> USE DEF IInv
<1>1. UNCHANGED <<libInitialized, asyncIoTableSize, inUse, set, post, numPosted, maxFd, ready, cancelled,
            clobbered>>
  BY DEF DoIo, SelectFails, Pass, CallbackReturns, DoIoReturns, lib, history
<1>2. asyncIoInUse' \in {TRUE, asyncIoInUse}
  BY DEF DoIo, SelectFails, Pass, CallbackReturns, DoIoReturns, lib
<1>3. at' \in 0..2 * MaxDescriptor + 2
  <2>1. CASE Pass
    BY <2>1, EntryIs DEF Pass
  <2>2. CASE ~Pass
    BY <2>2, AsyncAssumption DEF DoIo, SelectFails, CallbackReturns, DoIoReturns, TypeOK
  <2> QED BY <2>1, <2>2
<1>4. /\ calls' \in 0..MaxCalls /\ pc' \in {"app", "select", "loop", "callback", "exited"}
      /\ pc' # "app" => libInitialized' /\ asyncIoInUse'
  BY AsyncAssumption
     DEF DoIo, SelectFails, Pass, CallbackReturns, DoIoReturns, TypeOK, UseInv, lib, InLoop
<1>5. TypeOK'
  BY <1>1, <1>2, <1>3, <1>4 DEF TypeOK
<1>6. CountInv'
  BY <1>1, CountStays
<1>7. SetsInv' /\ ReadyInv'
  <2>1. Stale' = Stale
    BY <1>1 DEF Stale
  <2> QED BY <1>1, <2>1 DEF SetsInv, ReadyInv
<1> QED BY <1>1, <1>2, <1>4, <1>5, <1>6, <1>7 DEF UseInv

LEMMA StepInv == IInv /\ [Next]_vars => IInv'
<1> SUFFICES ASSUME IInv, [Next]_vars PROVE IInv'
  OBVIOUS
<1>1. CASE UNCHANGED vars
  <2>1. Stale' = Stale
    BY <1>1 DEF vars, history, Stale
  <2> QED BY <1>1, <2>1
          DEF vars, lib, history, IInv, TypeOK, SetsInv, ReadyInv, CountInv, UseInv, OfKind
<1>2. CASE Next
  BY <1>2, LibraryKeeps, AsyncKeeps, CloseKeeps, CloseReadKeeps, SelectKeeps, DispatchKeepsInv,
     RoundKeeps DEF Next
<1> QED BY <1>1, <1>2

-----------------------------------------------------------------------------
(* The theorems *)

LEMMA Invariant == Spec => []IInv
  BY InitInv, StepInv, PTL DEF Spec

\* However callbacks start and close operations in the middle of a round of OS_DoIo,
\* each operation in use is waited for or posted, in reach of the loops and of the table,
\* which was grown for it, and nothing else is but the reads of a descriptor that
\* OS_CloseRead has left an event of.
THEOREM TableAndSetsAgree == Spec => []TableMatchesSets
<1>1. IInv => TableMatchesSets
  BY DEF IInv, SetsInv, TableMatchesSets
<1> QED BY <1>1, Invariant, PTL

\* OS_DoIo calls back an operation that was started after its event was reported in one
\* case only: a read of a descriptor that OS_CloseRead has left an event of.  Any other
\* close, and any start, in whatever callback, leaves no event to a later operation.
THEOREM OnlyReportedIsCalled == Spec => DispatchedWasReady
<1>1. ASSUME IInv, Dispatch
      PROVE  Entry \in ready \cup Stale
  <2>1. Entry \in post /\ libInitialized
    BY <1>1 DEF Dispatch, IInv, UseInv, InLoop
  <2> QED BY <1>1, <2>1 DEF IInv, ReadyInv
<1>2. IInv => [Dispatch => Entry \in ready \cup Stale]_vars
  BY <1>1
<1> QED BY <1>2, Invariant, PTL DEF DispatchedWasReady
=============================================================================
