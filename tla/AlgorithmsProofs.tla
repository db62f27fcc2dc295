-------------------------- MODULE AlgorithmsProofs --------------------------
(***************************************************************************)
(* What ElStrings, FcgxParams and OsAddress compute, for every input: the  *)
(* six properties of Algorithms.                                           *)
(*                                                                         *)
(* The loops of the code are the operators For and While of Loops; their   *)
(* rules (ForRule, WhileRule) come first, then one part for each of the    *)
(* functions.  A loop is proved by an invariant over its states and, for   *)
(* While, a number that each round makes less.  Induction is over sets of  *)
(* numbers, as the provers cannot instantiate a predicate.                 *)
(***************************************************************************)
EXTENDS Algorithms, SequenceTheorems, WellFoundedInduction, TLAPS

Smaller == {p \in Nat \X Nat : p[1] < p[2]}

\* A set of numbers that is not empty has a least one.
LEMMA LeastNumber ==
    ASSUME NEW S \in SUBSET Nat, S # {}
    PROVE  \E n \in S : \A m \in S : n <= m
<1>1. OpToRel(<, Nat) = Smaller
  BY DEF OpToRel, Smaller
<1>2. IsWellFoundedOn(Smaller, Nat)
  BY <1>1, NatLessThanWellFounded
<1>3. PICK x \in S : \A y \in S : ~ (<<y, x>> \in Smaller)
  BY <1>2, WFMin
<1>4. ASSUME NEW y \in S PROVE x <= y
  <2>1. x \in Nat /\ y \in Nat /\ <<y, x>> \in Nat \X Nat
    OBVIOUS
  <2> QED BY <1>3, <2>1 DEF Smaller
<1> QED BY <1>4

\* Induction: a set with 0 and every successor is that of all numbers.
LEMMA SetInduction ==
    ASSUME NEW S \in SUBSET Nat, 0 \in S, \A n \in S : n + 1 \in S
    PROVE  S = Nat
<1> DEFINE T == Nat \ S
<1> SUFFICES ASSUME T # {} PROVE FALSE
  OBVIOUS
<1>1. T \in SUBSET Nat
  OBVIOUS
<1> HIDE DEF T
<1>2. PICK n \in T : \A m \in T : n <= m
  BY <1>1, LeastNumber
<1>3. n # 0 /\ n - 1 \in Nat /\ n - 1 \notin T
  BY <1>1, <1>2 DEF T
<1> QED BY <1>2, <1>3 DEF T

-----------------------------------------------------------------------------
(* For *)

\* after is the states of the loop over 1..n that begins in s.
Rounds(after, n, body, s) ==
    after = [k \in 0..n |-> IF k = 0 THEN s ELSE body[k][after[k - 1]]]

\* There are such states.
LEMMA RoundsExist ==
    ASSUME NEW n \in Nat, NEW S, NEW s \in S, NEW body \in [1..n -> [S -> S]]
    PROVE  \A m \in 0..n : \E after \in [0..m -> S] : Rounds(after, m, body, s)
<1> DEFINE Good(m) == \E after \in [0..m -> S] : Rounds(after, m, body, s)
           T == {m \in Nat : m <= n => Good(m)}
<1>1. Good(0)
  <2> DEFINE f == [k \in 0..0 |-> s]
  <2>1. f \in [0..0 -> S] /\ Rounds(f, 0, body, s)
    BY DEF Rounds
  <2> QED BY <2>1
<1>2. ASSUME NEW m \in T PROVE m + 1 \in T
  <2> SUFFICES ASSUME m + 1 <= n PROVE Good(m + 1)
    BY <1>2
  <2>1. PICK f \in [0..m -> S] : Rounds(f, m, body, s)
    BY <1>2
  <2> DEFINE g == [k \in 0..m + 1 |-> IF k <= m THEN f[k] ELSE body[m + 1][f[m]]]
  <2>2. m \in Nat /\ f[m] \in S /\ m + 1 \in 1..n
    BY <1>2, <2>1
  <2>a. body[m + 1][f[m]] \in S
    BY <2>2
  <2>3. g \in [0..m + 1 -> S]
    BY <2>1, <2>2, <2>a
  <2>4. ASSUME NEW k \in 0..m + 1
        PROVE  g[k] = IF k = 0 THEN s ELSE body[k][g[k - 1]]
    <3>1. CASE k <= m
      BY <2>1, <3>1 DEF Rounds
    <3>2. CASE k = m + 1
      BY <3>2
    <3> QED BY <3>1, <3>2
  <2>5. Rounds(g, m + 1, body, s)
    <3>1. g = [k \in 0..m + 1 |-> g[k]]
      BY <2>3
    <3> HIDE DEF g
    <3> QED BY <2>4, <3>1 DEF Rounds
  <2> QED BY <2>3, <2>5
<1>3. T \in SUBSET Nat /\ 0 \in T
  BY <1>1
<1> HIDE DEF T
<1>4. T = Nat
  BY <1>2, <1>3, SetInduction
<1>5. \A m \in 0..n : Good(m)
  <2> HIDE DEF Good
  <2> QED BY <1>4 DEF T
<1> QED BY <1>5

\* What each body leads to, the loop ends in.
LEMMA ForRule ==
    ASSUME NEW n \in Nat, NEW S, NEW s \in S, NEW body \in [1..n -> [S -> S]],
           NEW I \in [0..n -> SUBSET S], s \in I[0],
           \A k \in 1..n : \A x \in I[k - 1] : body[k][x] \in I[k]
    PROVE  For(n, body, s) \in I[n]
<1>1. \E after : Rounds(after, n, body, s)
  BY RoundsExist
<1> DEFINE f == CHOOSE after : Rounds(after, n, body, s)
<1>2. Rounds(f, n, body, s)
  BY <1>1
<1>3. For(n, body, s) = f[n]
  BY DEF For, Rounds
<1> HIDE DEF f
<1> DEFINE T == {k \in Nat : k <= n => f[k] \in I[k]}
<1>4. 0 \in T
  BY <1>2 DEF Rounds
<1>5. ASSUME NEW k \in T PROVE k + 1 \in T
  BY <1>2 DEF Rounds
<1>6. T \in SUBSET Nat
  OBVIOUS
<1> HIDE DEF T
<1>7. T = Nat
  BY <1>4, <1>5, <1>6, SetInduction
<1> QED BY <1>3, <1>7 DEF T

\* A loop of n rounds is one of n - 1 rounds and a last one.
LEMMA ForStep ==
    ASSUME NEW n \in Nat, n # 0, NEW S, NEW s \in S, NEW body \in [1..n -> [S -> S]],
           NEW most \in [1..n - 1 -> [S -> S]],
           \A k \in 1..n - 1 : \A x \in S : most[k][x] = body[k][x]
    PROVE  For(n, body, s) = body[n][For(n - 1, most, s)] /\ For(n - 1, most, s) \in S
<1>1. n - 1 \in Nat
  OBVIOUS
<1>2. \E after : Rounds(after, n - 1, most, s)
  <2>1. \A m \in 0..n - 1 : \E after \in [0..m -> S] : Rounds(after, m, most, s)
    BY <1>1, RoundsExist
  <2> QED BY <1>1, <2>1
<1> DEFINE g == CHOOSE after : Rounds(after, n - 1, most, s)
<1>3. Rounds(g, n - 1, most, s)
  BY <1>2
<1>4. For(n - 1, most, s) = g[n - 1]
  BY DEF For, Rounds
<1> HIDE DEF g
<1> DEFINE I == [k \in 0..n |-> IF k < n THEN {x \in S : x = g[k]}
                                ELSE {x \in S : g[n - 1] \in S /\ x = body[n][g[n - 1]]}]
<1>5. s \in I[0]
  BY <1>1, <1>3 DEF Rounds
<1>6. ASSUME NEW k \in 1..n, NEW x \in I[k - 1] PROVE body[k][x] \in I[k]
  <2>1. x \in S /\ x = g[k - 1]
    OBVIOUS
  <2>2. body[k][x] \in S
    BY <2>1
  <2>3. CASE k < n
    <3>1. k \in 0..n - 1 /\ k # 0 /\ k \in 1..n - 1
      BY <2>3
    <3>2. g[k] = most[k][g[k - 1]]
      BY <1>3, <3>1 DEF Rounds
    <3> QED BY <2>1, <2>2, <3>1, <3>2
  <2>4. CASE k = n
    BY <2>1, <2>2, <2>4
  <2> QED BY <2>3, <2>4
<1>7. I \in [0..n -> SUBSET S]
  OBVIOUS
<1> HIDE DEF I
<1>8. For(n, body, s) \in I[n]
  BY <1>5, <1>6, <1>7, ForRule
<1> QED BY <1>4, <1>8 DEF I
-----------------------------------------------------------------------------
(* While *)

\* The states the loop comes to from x.
Orbit(S, body, x) ==
    {y \in S : \A T \in SUBSET S : x \in T /\ (\A z \in T : body[z] \in T) => y \in T}

\* The loop comes to the state it begins in and to those that the next one comes to.
LEMMA OrbitIs ==
    ASSUME NEW S, NEW body \in [S -> S], NEW x \in S
    PROVE  Orbit(S, body, x) = {x} \cup Orbit(S, body, body[x])
<1>1. x \in Orbit(S, body, x)
  BY DEF Orbit
<1>2. Orbit(S, body, body[x]) \subseteq Orbit(S, body, x)
  <2> SUFFICES ASSUME NEW y \in Orbit(S, body, body[x]), NEW T \in SUBSET S,
                      x \in T, \A z \in T : body[z] \in T
               PROVE  y \in T
    BY DEF Orbit
  <2>1. body[x] \in T
    OBVIOUS
  <2> QED BY <2>1 DEF Orbit
<1>3. ASSUME NEW y \in Orbit(S, body, x), y # x PROVE y \in Orbit(S, body, body[x])
  <2> SUFFICES ASSUME NEW T \in SUBSET S, body[x] \in T, \A z \in T : body[z] \in T
               PROVE  y \in T
    BY DEF Orbit
  <2> DEFINE U == T \cup {x}
  <2>1. U \in SUBSET S /\ x \in U /\ \A z \in U : body[z] \in U
    OBVIOUS
  <2> HIDE DEF U
  <2>2. y \in U
    BY <2>1 DEF Orbit
  <2> QED BY <1>3, <2>2 DEF U
<1> QED BY <1>1, <1>2, <1>3

\* The equation that defines the end of the loop has a solution.
LEMMA EndExists ==
    ASSUME NEW S, NEW body \in [S -> S]
    PROVE  \E end : end = [x \in S |-> IF body[x] = x THEN x ELSE end[body[x]]]
<1> DEFINE Fixed(x) == {y \in Orbit(S, body, x) : body[y] = y}
           end == [x \in S |-> CHOOSE y : y \in Fixed(x)]
<1>1. ASSUME NEW x \in S PROVE end[x] = IF body[x] = x THEN x ELSE end[body[x]]
  <2>1. CASE body[x] = x
    <3>1. Orbit(S, body, x) \subseteq {x}
      <4> SUFFICES ASSUME NEW y \in Orbit(S, body, x) PROVE y \in {x}
        OBVIOUS
      <4>1. {x} \in SUBSET S /\ x \in {x} /\ \A z \in {x} : body[z] \in {x}
        BY <2>1
      <4> QED BY <4>1 DEF Orbit
    <3>2. Fixed(x) = {x}
      BY <2>1, <3>1, OrbitIs
    <3> HIDE DEF Fixed
    <3> QED BY <2>1, <3>2
  <2>2. CASE body[x] # x
    <3>1. Fixed(x) = Fixed(body[x])
      BY <2>2, OrbitIs
    <3>2. body[x] \in S
      OBVIOUS
    <3> HIDE DEF Fixed
    <3> QED BY <2>2, <3>1, <3>2
  <2> QED BY <2>1, <2>2
<1>2. end = [x \in S |-> end[x]]
  OBVIOUS
<1> HIDE DEF end
<1>3. end = [x \in S |-> IF body[x] = x THEN x ELSE end[body[x]]]
  BY <1>1, <1>2
<1> QED BY <1>3

\* A loop that keeps I and counts mu down ends in I, where its condition does not hold.
LEMMA WhileRule ==
    ASSUME NEW S, NEW body \in [S -> S], NEW I \in SUBSET S, NEW s \in I,
           NEW mu \in [I -> Nat],
           \A x \in I : body[x] = x \/ (body[x] \in I /\ mu[body[x]] < mu[x])
    PROVE  While(body, s) \in I /\ body[While(body, s)] = While(body, s)
<1> DEFINE Is(end) == end = [x \in S |-> IF body[x] = x THEN x ELSE end[body[x]]]
           end == CHOOSE f : Is(f)
<1>1. Is(end)
  BY EndExists
<1>2. While(body, s) = end[s]
  BY DEF While
<1> HIDE DEF end
<1> DEFINE Good(x) == end[x] \in I /\ body[end[x]] = end[x]
           B == {n \in Nat : \E x \in I : mu[x] = n /\ ~Good(x)}
<1>3. B = {}
  <2> SUFFICES ASSUME B # {} PROVE FALSE
    OBVIOUS
  <2>1. PICK n \in B : \A m \in B : n <= m
    <3>1. B \in SUBSET Nat
      OBVIOUS
    <3> HIDE DEF B
    <3> QED BY <3>1, LeastNumber
  <2>2. PICK x \in I : mu[x] = n /\ ~Good(x)
    BY <2>1
  <2>3. CASE body[x] = x
    <3>1. end[x] = x
      BY <1>1, <2>3
    <3> QED BY <2>2, <2>3, <3>1
  <2>4. CASE body[x] # x
    <3>1. body[x] \in I /\ mu[body[x]] < mu[x] /\ mu[body[x]] \in Nat
      BY <2>4
    <3>2. end[x] = end[body[x]]
      BY <1>1, <2>4
    <3>3. ~Good(body[x])
      BY <2>2, <3>2
    <3>4. mu[body[x]] \in B
      BY <3>1, <3>3
    <3> QED BY <2>1, <2>2, <3>1, <3>4
  <2> QED BY <2>3, <2>4
<1>4. mu[s] \in Nat
  OBVIOUS
<1> QED BY <1>2, <1>3, <1>4

-----------------------------------------------------------------------------
(* Texts put together piece by piece *)

\* Each s puts piece[s] before what the next one makes; mu counts down to the last.
Descends(S, C, next, piece, mu) ==
    /\ next \in [S -> S] /\ piece \in [S -> Seq(C)] /\ mu \in [S -> Nat]
    /\ \A s \in S : mu[s] # 0 => mu[next[s]] < mu[s]

\* f[s] is the text from s on.
Unrolls(f, S, C, next, piece, mu) ==
    /\ f \in [S -> Seq(C)]
    /\ \A s \in S : f[s] = IF mu[s] = 0 THEN <<>> ELSE piece[s] \o f[next[s]]

\* What is put together from such pieces is a function of the place it begins at.
LEMMA Unrolled ==
    \A S, C, next, piece, mu :
        Descends(S, C, next, piece, mu) => \E f : Unrolls(f, S, C, next, piece, mu)
<1> SUFFICES ASSUME NEW S, NEW C, NEW next, NEW piece, NEW mu, Descends(S, C, next, piece, mu)
             PROVE  \E f : Unrolls(f, S, C, next, piece, mu)
  OBVIOUS
<1> USE DEF Descends
<1> DEFINE Upto(n) == {s \in S : mu[s] <= n}
           Is(f, n) == /\ f \in [Upto(n) -> Seq(C)]
                       /\ \A s \in Upto(n) : f[s] = IF mu[s] = 0 THEN <<>>
                                                    ELSE piece[s] \o f[next[s]]
           T == {n \in Nat : \E f : Is(f, n)}
<1>1. 0 \in T
  <2> DEFINE f == [s \in Upto(0) |-> <<>>]
  <2>1. f \in [Upto(0) -> Seq(C)]
    OBVIOUS
  <2>2. \A s \in Upto(0) : f[s] = <<>> /\ mu[s] = 0
    OBVIOUS
  <2> HIDE DEF f
  <2>3. Is(f, 0)
    BY <2>1, <2>2
  <2> QED BY <2>3
<1>2. ASSUME NEW n \in T PROVE n + 1 \in T
  <2>1. PICK f : Is(f, n)
    BY <1>2
  <2>2. n \in Nat
    BY <1>2
  <2> DEFINE g == [s \in Upto(n + 1) |-> IF mu[s] <= n THEN f[s] ELSE piece[s] \o f[next[s]]]
  <2>3. ASSUME NEW s \in Upto(n + 1), mu[s] # 0 PROVE next[s] \in Upto(n)
    BY <2>2, <2>3
  <2>4. ASSUME NEW s \in Upto(n + 1), ~(mu[s] <= n)
        PROVE  piece[s] \o f[next[s]] \in Seq(C) /\ mu[s] # 0
    <3>1. mu[s] # 0 /\ piece[s] \in Seq(C)
      BY <2>2, <2>4
    <3>2. f[next[s]] \in Seq(C)
      BY <2>1, <2>3, <3>1
    <3> QED BY <3>1, <3>2, ConcatProperties
  <2>5. g \in [Upto(n + 1) -> Seq(C)]
    <3>1. ASSUME NEW s \in Upto(n + 1), mu[s] <= n PROVE f[s] \in Seq(C)
      BY <2>1, <3>1
    <3> QED BY <2>4, <3>1
  <2>6. ASSUME NEW s \in Upto(n + 1), mu[s] # 0 PROVE g[s] = piece[s] \o g[next[s]]
    <3>1. next[s] \in Upto(n) /\ next[s] \in Upto(n + 1) /\ g[next[s]] = f[next[s]]
      BY <2>2, <2>3, <2>6
    <3>2. CASE mu[s] <= n
      BY <2>1, <2>6, <3>1, <3>2
    <3>3. CASE ~(mu[s] <= n)
      BY <3>1, <3>3
    <3> QED BY <3>2, <3>3
  <2>7. ASSUME NEW s \in Upto(n + 1), mu[s] = 0 PROVE g[s] = <<>>
    BY <2>1, <2>2, <2>7
  <2> HIDE DEF g
  <2>8. Is(g, n + 1)
    BY <2>5, <2>6, <2>7
  <2> HIDE DEF Is
  <2> QED BY <2>2, <2>8
<1>3. T = Nat
  <2>1. T \in SUBSET Nat
    OBVIOUS
  <2> HIDE DEF T
  <2> QED BY <1>1, <1>2, <2>1, SetInduction
<1> DEFINE F(n) == CHOOSE f : Is(f, n)
<1>4. \A n \in Nat : Is(F(n), n)
  BY <1>3
<1> HIDE DEF F, T
<1> DEFINE D == {n \in Nat : \A s \in Upto(n) : \A m \in Nat : n <= m => F(m)[s] = F(n)[s]}
<1>5. \A s \in S : \A m \in Nat : mu[s] <= m => F(m)[s] = F(mu[s])[s]
  <2> DEFINE B == {n \in Nat : \E s \in S : mu[s] = n /\ \E m \in Nat : n <= m /\ F(m)[s] # F(n)[s]}
  <2> SUFFICES ASSUME B # {} PROVE FALSE
    OBVIOUS
  <2>1. PICK n \in B : \A m \in B : n <= m
    <3>1. B \in SUBSET Nat
      OBVIOUS
    <3> HIDE DEF B
    <3> QED BY <3>1, LeastNumber
  <2>2. PICK s \in S : mu[s] = n /\ \E m \in Nat : n <= m /\ F(m)[s] # F(n)[s]
    BY <2>1
  <2>3. PICK m \in Nat : n <= m /\ F(m)[s] # F(n)[s]
    BY <2>2
  <2>4. s \in Upto(n) /\ s \in Upto(m) /\ n \in Nat
    BY <2>2, <2>3
  <2>5. mu[s] # 0
    BY <1>4, <2>3, <2>4
  <2>6. next[s] \in S /\ mu[next[s]] \in Nat /\ mu[next[s]] < n
    BY <2>2, <2>5
  <2>7. F(m)[s] = piece[s] \o F(m)[next[s]] /\ F(n)[s] = piece[s] \o F(n)[next[s]]
    BY <1>4, <2>4, <2>5
  <2>8. mu[next[s]] \notin B
    BY <2>1, <2>4, <2>6
  <2>9. F(m)[next[s]] = F(mu[next[s]])[next[s]] /\ F(n)[next[s]] = F(mu[next[s]])[next[s]]
    BY <2>3, <2>4, <2>6, <2>8
  <2> QED BY <2>3, <2>7, <2>9
<1> DEFINE f == [s \in S |-> F(mu[s])[s]]
<1>6. ASSUME NEW s \in S PROVE f[s] \in Seq(C)
  <2>1. s \in Upto(mu[s]) /\ mu[s] \in Nat
    OBVIOUS
  <2> QED BY <1>4, <2>1
<1>7. ASSUME NEW s \in S PROVE f[s] = IF mu[s] = 0 THEN <<>> ELSE piece[s] \o f[next[s]]
  <2>1. s \in Upto(mu[s]) /\ mu[s] \in Nat
    OBVIOUS
  <2>2. CASE mu[s] = 0
    BY <1>4, <2>1, <2>2
  <2>3. CASE mu[s] # 0
    <3>1. next[s] \in S /\ mu[next[s]] \in Nat /\ mu[next[s]] <= mu[s]
      BY <2>1, <2>3
    <3>2. f[s] = piece[s] \o F(mu[s])[next[s]]
      BY <1>4, <2>1, <2>3
    <3>3. F(mu[s])[next[s]] = f[next[s]]
      BY <1>5, <2>1, <3>1
    <3> QED BY <2>3, <3>2, <3>3
  <2> QED BY <2>2, <2>3
<1>8. f = [s \in S |-> f[s]] /\ f \in [S -> Seq(C)]
  BY <1>6
<1> HIDE DEF f
<1>9. Unrolls(f, S, C, next, piece, mu)
  BY <1>7, <1>8 DEF Unrolls
<1> QED BY <1>9

-----------------------------------------------------------------------------
(* Numbers of a fixed width *)

\* What a division leaves.
LEMMA Division ==
    ASSUME NEW a \in Int, NEW w \in Nat \ {0}
    PROVE  /\ a \div w \in Int /\ a % w \in 0..w - 1 /\ a = w * (a \div w) + (a % w)
<1>1. a \div w \in Int
  OBVIOUS
<1>2. a % w \in 0..w - 1
  OBVIOUS
<1>3. a = w * (a \div w) + (a % w)
  OBVIOUS
<1> QED BY <1>1, <1>2, <1>3

\* A quotient and a remainder are what they were put together from.
LEMMA Remainder ==
    ASSUME NEW w \in Nat \ {0}, NEW q \in Int, NEW r \in 0..w - 1
    PROVE  (w * q + r) % w = r /\ (w * q + r) \div w = q
<1> DEFINE a == w * q + r
<1>1. w * q \in Int /\ a \in Int
  OBVIOUS
<1>2. a \div w \in Int /\ a % w \in 0..w - 1 /\ a = w * (a \div w) + (a % w)
  BY <1>1, Division
<1>3. w * q + r = w * (a \div w) + (a % w)
  BY <1>2
<1> DEFINE d == q - (a \div w)
<1>4. d \in Int /\ q = (a \div w) + d
  BY <1>2
<1>5. w * q = w * (a \div w) + w * d
  BY <1>2, <1>4
<1>6. w * d = (a % w) - r
  BY <1>2, <1>3, <1>5
<1> HIDE DEF a, d
<1>7. w * d < w /\ w * d > -w
  BY <1>2, <1>6
<1>8. d = 0
  BY <1>4, <1>7
<1> QED BY <1>2, <1>4, <1>6, <1>8 DEF a

\* An unsigned int has twice as many values as an int has from 0 on.
LEMMA WordIs ==
    /\ Byte \in Nat \ {0} /\ Byte % 2 = 0
    /\ Word \in Nat /\ Word > 0
    /\ IntMax \in Nat /\ Word = 2 * (IntMax + 1)
<1>1. Byte \in Nat \ {0} /\ Byte % 2 = 0
  BY AlgorithmsAssumption
<1> DEFINE h == Byte \div 2
           b3 == Byte * Byte * Byte
<1>2. h \in Nat \ {0} /\ Byte = 2 * h
  BY <1>1
<1>3. b3 \in Nat \ {0}
  <2>1. Byte * Byte \in Nat \ {0}
    BY <1>1
  <2> DEFINE x == Byte * Byte
  <2> HIDE DEF x
  <2>2. x * Byte \in Nat \ {0}
    BY <1>1, <2>1 DEF x
  <2> QED BY <2>2 DEF x
<1>4. Word = b3 * Byte
  BY DEF Word
<1> HIDE DEF h, b3
<1>5. h * b3 \in Nat \ {0}
  BY <1>2, <1>3
<1>6. Word = 2 * (h * b3)
  BY <1>2, <1>3, <1>4
<1>7. Word \div 2 = h * b3
  BY <1>5, <1>6
<1> QED BY <1>1, <1>5, <1>6, <1>7 DEF IntMax

\* The upper half of the unsigned numbers is negative as an int.
LEMMA AsIntIs ==
    ASSUME NEW n \in 0..Word
    PROVE  AsInt(n) = IF n <= IntMax THEN n ELSE n - Word
<1> DEFINE m == n + IntMax + 1
<1>1. m \in Nat /\ Word \in Nat \ {0} /\ Word = 2 * (IntMax + 1) /\ IntMax \in Nat /\ n \in Nat
  BY WordIs
<1>2. CASE n <= IntMax
  <2>1. m \in 0..Word - 1 /\ m = Word * 0 + m
    BY <1>1, <1>2
  <2>2. m % Word = m
    BY <1>1, <2>1, Remainder
  <2> QED BY <1>1, <1>2, <2>2 DEF AsInt
<1>3. CASE n > IntMax
  <2>1. m - Word \in 0..Word - 1 /\ m = Word * 1 + (m - Word)
    BY <1>1, <1>3
  <2>2. m % Word = m - Word
    <3> DEFINE r == m - Word
    <3>1. r \in 0..Word - 1 /\ m = Word * 1 + r
      BY <2>1
    <3> HIDE DEF r, m
    <3>2. (Word * 1 + r) % Word = r
      BY <1>1, <3>1, Remainder
    <3> QED BY <3>1, <3>2 DEF r
  <2> QED BY <1>1, <1>3, <2>2 DEF AsInt
<1> QED BY <1>1, <1>2, <1>3

\* Every step is one call, for which the actions say what is kept.
LEMMA OnlyCall ==
    Next =>
        /\ Called("StrTran")' => CallStrTran
        /\ Called("StrReplace")' => CallStrReplace
        /\ Called("ReadParams")' => CallReadParams
        /\ Called("Room")' => CallRoom
        /\ Called("PutParam")' => CallPutParam
        /\ Called("GetParam")' => CallGetParam
        /\ Called("ProcessManagementRecord")' => CallManagement
        /\ Called("Listens")' => CallListens
        /\ Called("AddrOK")' => CallAddrOK
<1>1. CallStrTran => call'.fn = "StrTran"
  BY DEF CallStrTran, Call
<1>2. CallStrReplace => call'.fn = "StrReplace"
  BY DEF CallStrReplace, Call
<1>3. CallReadParams => call'.fn = "ReadParams"
  BY DEF CallReadParams, Call
<1>4. CallRoom => call'.fn = "Room"
  BY DEF CallRoom, Call
<1>5. CallPutParam => call'.fn = "PutParam"
  BY DEF CallPutParam, Call
<1>6. CallGetParam => call'.fn = "GetParam"
  BY DEF CallGetParam, Call
<1>7. CallManagement => call'.fn = "ProcessManagementRecord"
  BY DEF CallManagement, Call
<1>8. CallListens => call'.fn = "Listens"
  BY DEF CallListens, Call
<1>9. CallAddrOK => call'.fn = "AddrOK"
  BY DEF CallAddrOK, Call
<1> QED BY <1>1, <1>2, <1>3, <1>4, <1>5, <1>6, <1>7, <1>8, <1>9 DEF Next, Called

-----------------------------------------------------------------------------
(* What is written stays within what was allocated *)

\* What NewPairRoom returns: the sum in the width of an int.
LEMMA RoomKept == ASSUME Next, Called("Room")' PROVE PairHasRoom'
<1>1. CallRoom
  BY OnlyCall
<1>2. PICK n \in 0..IntMax, v \in 0..IntMax :
          Call([fn |-> "Room", name |-> n, value |-> v], Room(n, v))
  BY <1>1 DEF CallRoom
<1>3. call'.name = n /\ call'.value = v /\ result' = AsInt(n + v + 2)
  BY <1>2 DEF Call, Room
<1>4. IntMax \in Nat /\ Word = 2 * (IntMax + 1)
  BY WordIs
<1>5. n + v + 2 \in 0..Word /\ n \in Nat /\ v \in Nat
  BY <1>4
<1>6. AsInt(n + v + 2) = IF n + v + 2 <= IntMax THEN n + v + 2 ELSE (n + v + 2) - Word
  BY <1>5, AsIntIs, Zenon
<1> QED BY <1>3, <1>4, <1>5, <1>6 DEF PairHasRoom

\* PutParam lets the array grow before the last place is taken, in every round.
LEMMA PutIs ==
    ASSUME NEW length \in Nat \ {0}, NEW n \in Nat
    PROVE  LET p == Put(NewParams(length), n)
           IN  p.cur = n /\ p.length \in Nat /\ p.cur < p.length
<1> DEFINE S == [length : Nat, cur : Nat]
           I == [k \in 0..n |-> {p \in S : p.cur = k /\ p.cur < p.length}]
           body == [k \in 1..n |-> [x \in S |-> PutParam(x)]]
           s == NewParams(length)
<1>1. s \in S /\ s \in I[0] /\ I \in [0..n -> SUBSET S]
  BY DEF NewParams
<1>2. body \in [1..n -> [S -> S]]
  BY DEF PutParam
<1>3. ASSUME NEW k \in 1..n, NEW x \in I[k - 1] PROVE body[k][x] \in I[k]
  <2>1. x \in S /\ x.cur = k - 1 /\ x.cur < x.length /\ k \in Nat
    OBVIOUS
  <2> QED BY <2>1 DEF PutParam
<1> HIDE DEF I, body, s, S
<1>4. For(n, body, s) \in I[n]
  BY <1>1, <1>2, <1>3, ForRule
<1> QED BY <1>4 DEF I, body, s, S, Put

\* What any number of calls of PutParam leaves.
LEMMA ArrayKept == ASSUME Next, Called("PutParam")' PROVE ArrayHasEnd'
<1>1. CallPutParam
  BY OnlyCall
<1>2. PICK length \in ArrayLengths, n \in 0..MaxPairs :
          Call([fn |-> "PutParam", length |-> length, n |-> n], Put(NewParams(length), n))
  BY <1>1 DEF CallPutParam
<1>3. length \in Nat \ {0} /\ n \in Nat
  BY AlgorithmsAssumption
<1>4. call'.n = n /\ result' = Put(NewParams(length), n)
  BY <1>2 DEF Call
<1> QED BY <1>3, <1>4, PutIs DEF ArrayHasEnd

\* AlignInt8 goes up to the next multiple of 8.
LEMMA AlignIs ==
    ASSUME NEW n \in Nat
    PROVE  AlignInt8(n) \in Nat /\ AlignInt8(n) % 8 = 0 /\ AlignInt8(n) <= n + 7
  BY DEF AlignInt8

\* When no name is asked for twice, the answer has at most the three that are known.
LEMMA ResponseIs ==
    ASSUME NEW names \in Seq(Nat)
    PROVE  /\ ResponseTo(names) \in Nat
           /\ (\A i, j \in 1..Len(names) : names[i] = names[j] => i = j) => ResponseTo(names) <= 51
<1> DEFINE n == Len(names)
           Part(k, v) == IF \E i \in 1..k : names[i] = v THEN v + 3 ELSE 0
           Distinct == \A i, j \in 1..n : names[i] = names[j] => i = j
           I == [k \in 0..n |->
                    {x \in Nat : Distinct => x = Part(k, 13) + Part(k, 14) + Part(k, 15)}]
           body == [k \in 1..n |-> [x \in Nat |-> x + (IF names[k] \in ValueNames
                                                       THEN names[k] + 3 ELSE 0)]]
<1>1. n \in Nat /\ \A k \in 1..n : names[k] \in Nat
  OBVIOUS
<1>2. 0 \in I[0] /\ I \in [0..n -> SUBSET Nat]
  BY <1>1
<1>3. body \in [1..n -> [Nat -> Nat]]
  BY <1>1 DEF ValueNames
<1>4. ASSUME NEW k \in 1..n, NEW x \in I[k - 1] PROVE body[k][x] \in I[k]
  <2>1. x \in Nat /\ k - 1 \in 0..n /\ k \in 0..n
    BY <1>1
  <2>2. body[k][x] = x + (IF names[k] \in ValueNames THEN names[k] + 3 ELSE 0)
    BY <2>1
  <2>3. body[k][x] \in Nat
    BY <1>3, <2>1
  <2>4. ASSUME Distinct, NEW v \in Nat
        PROVE  Part(k, v) = IF names[k] = v THEN v + 3 ELSE Part(k - 1, v)
    <3>1. \A i \in 1..k : i = k \/ i \in 1..k - 1
      BY <1>1
    <3>2. \A i \in 1..k - 1 : i \in 1..k
      BY <1>1
    <3>3. k \in 1..k
      BY <1>1
    <3> QED BY <3>1, <3>2, <3>3
  <2>5. ASSUME Distinct, NEW v \in Nat, names[k] = v
        PROVE  Part(k - 1, v) = 0
    <3>1. \A i \in 1..k - 1 : i \in 1..n /\ i # k
      BY <1>1, <2>1
    <3> QED BY <2>5, <3>1
  <2>6. ASSUME Distinct PROVE x = Part(k - 1, 13) + Part(k - 1, 14) + Part(k - 1, 15)
    BY <2>1, <2>6
  <2>7. ASSUME NEW v \in Nat PROVE Part(k - 1, v) \in Nat
    OBVIOUS
  <2> HIDE DEF Part, Distinct
  <2>8. ASSUME Distinct PROVE body[k][x] = Part(k, 13) + Part(k, 14) + Part(k, 15)
    <3>1. x \in Nat /\ names[k] \in Nat
      BY <1>1, <2>1
    <3>2. \A v \in {13, 14, 15} : /\ Part(k - 1, v) \in Nat
                                  /\ Part(k, v) = IF names[k] = v THEN v + 3 ELSE Part(k - 1, v)
                                  /\ names[k] = v => Part(k - 1, v) = 0
      <4> TAKE v \in {13, 14, 15}
      <4>1. v \in Nat
        OBVIOUS
      <4>2. Part(k, v) = IF names[k] = v THEN v + 3 ELSE Part(k - 1, v)
        BY <2>4, <2>8, <4>1
      <4>3. names[k] = v => Part(k - 1, v) = 0
        BY <2>5, <2>8, <4>1
      <4>4. Part(k - 1, v) \in Nat
        BY <2>7, <4>1
      <4> QED BY <4>2, <4>3, <4>4
    <3>3. body[k][x] = x + (IF names[k] \in {14, 13, 15} THEN names[k] + 3 ELSE 0)
      BY <2>2 DEF ValueNames
    <3> HIDE DEF body
    <3>4. x = Part(k - 1, 13) + Part(k - 1, 14) + Part(k - 1, 15)
      BY <2>6, <2>8
    <3> DEFINE a(v) == Part(k - 1, v)
               b(v) == Part(k, v)
    <3>5. \A v \in {13, 14, 15} : /\ a(v) \in Nat
                                  /\ b(v) = IF names[k] = v THEN v + 3 ELSE a(v)
                                  /\ names[k] = v => a(v) = 0
      BY <3>2
    <3>6. x = a(13) + a(14) + a(15)
      BY <3>4
    <3> HIDE DEF a, b
    <3>7. body[k][x] = b(13) + b(14) + b(15)
      <4>1. CASE names[k] \notin {14, 13, 15}
        BY <3>1, <3>3, <3>5, <3>6, <4>1, SMTT(30)
      <4>2. CASE names[k] = 13
        BY <3>1, <3>3, <3>5, <3>6, <4>2
      <4>3. CASE names[k] = 14
        BY <3>1, <3>3, <3>5, <3>6, <4>3
      <4>4. CASE names[k] = 15
        BY <3>1, <3>3, <3>5, <3>6, <4>4
      <4> QED BY <4>1, <4>2, <4>3, <4>4
    <3> QED BY <3>7 DEF b
  <2> HIDE DEF body
  <2> QED BY <2>1, <2>3, <2>8
<1> HIDE DEF I, body
<1>5. For(n, body, 0) \in I[n]
  BY <1>1, <1>2, <1>3, <1>4, ForRule
<1>6. ResponseTo(names) = For(n, body, 0)
  BY DEF ResponseTo, body
<1> QED BY <1>1, <1>5, <1>6 DEF I

\* What a call of ProcessManagementRecord leaves.
LEMMA AnswerKept == ASSUME Next, Called("ProcessManagementRecord")' PROVE AnswerFits'
<1>1. CallManagement
  BY OnlyCall
<1>2. PICK names \in ManagementNames :
          Call([fn |-> "ProcessManagementRecord", names |-> names], Written(names))
  BY <1>1 DEF CallManagement
<1>3. names \in Seq(Nat)
  BY AlgorithmsAssumption
<1>4. call'.names = names /\ result' = 8 + AlignInt8(ResponseTo(names))
  BY <1>2 DEF Call, Written, FCGI_HEADER_LEN
<1>5. ResponseTo(names) \in Nat
  BY <1>3, ResponseIs
<1>6. result' % 8 = 0 /\ result' <= ResponseTo(names) + 15
  BY <1>4, <1>5, AlignIs
<1>7. ASSUME ResponseTo(names) <= 51 PROVE result' <= 64
  <2> DEFINE r == ResponseTo(names)
  <2>1. r \in Nat /\ r <= 51
    BY <1>5, <1>7
  <2> HIDE DEF r
  <2>2. AlignInt8(r) <= 56
    BY <2>1 DEF AlignInt8
  <2>3. AlignInt8(r) \in Nat
    BY <2>1, AlignIs
  <2> QED BY <1>4, <2>2, <2>3 DEF r
<1> QED BY <1>3, <1>4, <1>6, <1>7, ResponseIs DEF AnswerFits, ResponseLen

\* What is written for parameters stays within what was allocated for it: the room of a pair
\* (ReadParams), the array of the pairs (PutParam) and the answer to FCGI_GET_VALUES
\* (ProcessManagementRecord), for every length, every number of pairs and every list of names.
THEOREM NothingOverruns == Spec => []WritesFit
<1>1. Init => WritesFit
  BY DEF Init, WritesFit, PairHasRoom, ArrayHasEnd, AnswerFits, Called
<1>2. WritesFit /\ [Next]_vars => WritesFit'
  <2> SUFFICES ASSUME WritesFit, [Next]_vars PROVE WritesFit'
    OBVIOUS
  <2>1. CASE UNCHANGED vars
    BY <2>1 DEF vars, WritesFit, PairHasRoom, ArrayHasEnd, AnswerFits, Called
  <2>2. CASE Next
    <3>1. PairHasRoom'
      BY <2>2, RoomKept DEF PairHasRoom
    <3>2. ArrayHasEnd'
      BY <2>2, ArrayKept DEF ArrayHasEnd
    <3>3. AnswerFits'
      BY <2>2, AnswerKept DEF AnswerFits
    <3> QED BY <3>1, <3>2, <3>3 DEF WritesFit
  <2> QED BY <2>1, <2>2
<1> QED BY <1>1, <1>2, PTL DEF Spec

-----------------------------------------------------------------------------
(* Where a bindPath is listened on and connected to *)

\* Digits are a number.
LEMMA NumberIs ==
    ASSUME NEW digits \in Seq(0..9)
    PROVE  Number(digits) \in Nat
<1> DEFINE n == Len(digits)
           body == [k \in 1..n |-> [x \in Nat |-> 10 * x + digits[k]]]
           I == [k \in 0..n |-> Nat]
<1>1. n \in Nat /\ \A k \in 1..n : digits[k] \in Nat
  OBVIOUS
<1>2. body \in [1..n -> [Nat -> Nat]]
  BY <1>1
<1>3. I \in [0..n -> SUBSET Nat] /\ 0 \in I[0]
  BY <1>1
<1>4. ASSUME NEW k \in 1..n, NEW x \in I[k - 1] PROVE body[k][x] \in I[k]
  <2>1. k - 1 \in 0..n /\ k \in 0..n
    BY <1>1
  <2>2. I[k - 1] = Nat /\ I[k] = Nat
    BY <2>1
  <2> HIDE DEF I
  <2> QED BY <1>1, <1>2, <2>2
<1> HIDE DEF I, body
<1>5. For(n, body, 0) \in I[n]
  BY <1>1, <1>2, <1>3, <1>4, ForRule
<1> QED BY <1>1, <1>5 DEF I, body, Number

\* A number in the width of a short, as 2 * h, and back.
LEMMA WidthIs ==
    ASSUME NEW h \in Nat \ {0}, NEW n \in Nat
    PROVE  /\ ((n + h) % (2 * h)) - h \in -h..h - 1
           /\ n \in 1..2 * h - 1 => /\ ((n + h) % (2 * h)) - h # 0
                                   /\ (((n + h) % (2 * h)) - h) % (2 * h) = n
<1> DEFINE w == 2 * h
           short == ((n + h) % w) - h
<1>1. w \in Nat \ {0} /\ n + h \in Int
  OBVIOUS
<1>a. w = 2 * h
  OBVIOUS
<1> HIDE DEF w
<1>2. (n + h) % w \in 0..w - 1
  BY <1>1, Division
<1>3. short \in -h..h - 1
  BY <1>a, <1>2
<1>4. ASSUME n \in 1..h - 1 PROVE short # 0 /\ short % w = n
  <2>1. 0 \in Int /\ n + h \in 0..w - 1 /\ n \in 0..w - 1
    BY <1>a, <1>4
  <2>2. (w * 0 + (n + h)) % w = n + h
    BY <1>1, <2>1, Remainder, Zenon
  <2>3. (w * 0 + n) % w = n
    BY <1>1, <2>1, Remainder, Zenon
  <2>4. w * 0 + (n + h) = n + h /\ w * 0 + n = n /\ (n + h) - h = n
    BY <1>1
  <2>5. short = n /\ n % w = n
    BY <2>2, <2>3, <2>4
  <2> QED BY <1>4, <2>5
<1>5. ASSUME n \in h..2 * h - 1 PROVE short # 0 /\ short % w = n
  <2>1. 1 \in Int /\ -1 \in Int /\ n - h \in 0..w - 1 /\ n \in 0..w - 1
    BY <1>a, <1>5
  <2>2. (w * 1 + (n - h)) % w = n - h
    BY <1>1, <2>1, Remainder, Zenon
  <2>3. (w * (-1) + n) % w = n
    BY <1>1, <2>1, Remainder, Zenon
  <2>4. w * 1 + (n - h) = n + h /\ w * (-1) + n = (n - h) - h /\ (n - h) - h # 0
    BY <1>a, <1>5
  <2>5. short = (n - h) - h /\ ((n - h) - h) % w = n
    BY <2>2, <2>3, <2>4
  <2> QED BY <2>4, <2>5
<1>6. n \in 1..2 * h - 1 => n \in 1..h - 1 \/ n \in h..2 * h - 1
  OBVIOUS
<1>7. ASSUME n \in 1..2 * h - 1 PROVE short # 0 /\ short % w = n
  <2> HIDE DEF short
  <2>1. CASE n \in 1..h - 1
    BY <1>4, <2>1
  <2>2. CASE n \in h..2 * h - 1
    BY <1>5, <2>2
  <2> QED BY <1>6, <1>7, <2>1, <2>2
<1> QED BY <1>3, <1>7 DEF w

\* A short that is not 0 is a port that is not 0.
LEMMA BackIs ==
    ASSUME NEW h \in Nat \ {0}, NEW n \in -h..h - 1, n # 0
    PROVE  n % (2 * h) \in 1..2 * h - 1
<1> DEFINE w == 2 * h
<1>1. w \in Nat \ {0} /\ n \in Int /\ w = 2 * h
  OBVIOUS
<1> HIDE DEF w
<1>2. CASE n > 0
  <2>1. 0 \in Int /\ n \in 0..w - 1
    BY <1>1, <1>2
  <2>2. (w * 0 + n) % w = n
    BY <1>1, <2>1, Remainder, Zenon
  <2>3. w * 0 + n = n
    BY <1>1
  <2>4. n % w = n
    BY <2>2, <2>3
  <2> QED BY <1>1, <1>2, <2>4
<1>3. CASE n < 0
  <2>1. -1 \in Int /\ n + w \in 0..w - 1
    BY <1>1, <1>3
  <2>2. (w * (-1) + (n + w)) % w = n + w
    BY <1>1, <2>1, Remainder, Zenon
  <2>3. w * (-1) + (n + w) = n
    BY <1>1
  <2>4. n % w = n + w /\ n + w \in 1..w - 1
    BY <1>1, <1>3, <2>2, <2>3
  <2> QED BY <1>1, <2>4
<1> QED BY <1>1, <1>2, <1>3

\* The values of a short.
Shorts == -32768..32767
HalfShort == 32768

\* A short and a port have sixteen bits.
LEMMA SixteenBits ==
    /\ HalfShort \in Nat \ {0}
    /\ Shorts = -HalfShort..HalfShort - 1 /\ PortNumbers = 1..2 * HalfShort - 1
<1> QED BY SMT DEF Shorts, HalfShort, PortNumbers

\* How a number is put into sixteen bits, and taken from them.
LEMMA InSixteenBits ==
    ASSUME NEW n \in Int
    PROVE  /\ Short(n) = ((n + HalfShort) % (2 * HalfShort)) - HalfShort
           /\ Htons(n) = n % (2 * HalfShort)
<1>1. 2 * HalfShort = 65536
  BY SMT DEF HalfShort
<1>2. Short(n) = ((n + HalfShort) % 65536) - HalfShort
  BY SMT DEF Short, HalfShort
<1>3. Htons(n) = n % 65536
  BY DEF Htons
<1> QED BY <1>1, <1>2, <1>3

\* What a number keeps in a short: a port of sixteen bits survives it.
LEMMA ShortIs ==
    ASSUME NEW n \in Nat
    PROVE  /\ Short(n) \in Shorts
           /\ n \in PortNumbers => Short(n) # 0 /\ Htons(Short(n)) = n
<1> DEFINE h == HalfShort
           k == ((n + h) % (2 * h)) - h
<1>1. h \in Nat \ {0} /\ Shorts = -h..h - 1 /\ PortNumbers = 1..2 * h - 1
  BY SixteenBits
<1>2. Short(n) = k
  BY InSixteenBits
<1> HIDE DEF h
<1>3. k \in -h..h - 1 /\ (n \in 1..2 * h - 1 => k # 0 /\ k % (2 * h) = n)
  BY <1>1, WidthIs, Zenon
<1> HIDE DEF k
<1>4. k \in Int
  BY <1>1, <1>3
<1>5. Htons(k) = k % (2 * h)
  BY <1>4, InSixteenBits DEF h
<1> QED BY <1>1, <1>2, <1>3, <1>5

\* What htons makes of a short that is not 0.
LEMMA HtonsIs ==
    ASSUME NEW n \in Shorts, n # 0
    PROVE  Htons(n) \in PortNumbers
<1> DEFINE h == HalfShort
<1>1. h \in Nat \ {0} /\ Shorts = -h..h - 1 /\ PortNumbers = 1..2 * h - 1
  BY SixteenBits
<1> HIDE DEF h
<1>2. n \in -h..h - 1
  BY <1>1
<1>3. n % (2 * h) \in 1..2 * h - 1
  BY <1>1, <1>2, BackIs, Zenon
<1>4. Htons(n) = n % (2 * h)
  <2>1. n \in Int
    BY <1>1, <1>2
  <2> QED BY <2>1, InSixteenBits DEF h
<1> QED BY <1>1, <1>3, <1>4

\* The digits that Windows reads.
LEMMA FirstFive ==
    ASSUME NEW digits \in Seq(0..9)
    PROVE  LET five == SubSeq(digits, 1, IF Len(digits) < 5 THEN Len(digits) ELSE 5)
           IN  /\ five \in Seq(0..9)
               /\ Len(digits) <= 5 => five = digits
<1>1. Len(digits) \in Nat /\ \A i \in 1..Len(digits) : digits[i] \in 0..9
  OBVIOUS
<1> DEFINE m == IF Len(digits) < 5 THEN Len(digits) ELSE 5
<1>2. m \in Nat /\ \A i \in 1..m : digits[i] \in 0..9
  BY <1>1
<1>3. SubSeq(digits, 1, m) \in Seq(0..9)
  <2> HIDE DEF m
  <2> QED BY <1>2, SubSeqProperties
<1>4. ASSUME Len(digits) <= 5 PROVE m = Len(digits)
  <2> DEFINE n == Len(digits)
  <2>1. n \in Nat /\ n <= 5 /\ m = IF n < 5 THEN n ELSE 5
    BY <1>1, <1>4
  <2> HIDE DEF m, n
  <2>2. m = n
    BY <2>1
  <2> QED BY <2>2 DEF n
<1>5. SubSeq(digits, 1, Len(digits)) = digits
  BY SubSeqFull
<1>6. Len(digits) <= 5 => SubSeq(digits, 1, m) = digits
  <2> HIDE DEF m
  <2> QED BY <1>4, <1>5
<1> QED BY <1>3, <1>6

\* Without digits the port is 0.
LEMMA NoNumber == Number(<<>>) = 0
<1> DEFINE body == [k \in 1..0 |-> [x \in Nat |-> 10 * x + <<>>[k]]]
           I == [k \in 0..0 |-> {0}]
<1>1. body \in [1..0 -> [Nat -> Nat]] /\ I \in [0..0 -> SUBSET Nat] /\ 0 \in I[0]
  OBVIOUS
<1>2. \A k \in 1..0 : \A x \in I[k - 1] : body[k][x] \in I[k]
  OBVIOUS
<1>3. Len(<<>>) = 0 /\ 0 \in Nat
  OBVIOUS
<1>4. Number(<<>>) = For(0, body, 0)
  BY <1>3 DEF Number
<1> HIDE DEF I, body
<1>5. For(0, body, 0) \in I[0]
  BY <1>1, <1>2, <1>3, ForRule
<1> QED BY <1>4, <1>5 DEF I

\* The port of a bindPath on both systems.
LEMMA PortIs ==
    ASSUME NEW b \in BindPaths
    PROVE  /\ b \in BindPath
           /\ Port(b) \in Shorts /\ WinPort(b) \in Shorts
           /\ Number(b.digits) \in Nat
           /\ Number(b.digits) \in PortNumbers =>
                  Port(b) # 0 /\ Htons(Port(b)) = Number(b.digits)
           /\ Len(b.digits) <= 5 => WinPort(b) = Port(b)
<1>1. b \in BindPath /\ (~b.colon => b.digits = <<>>)
  BY AlgorithmsAssumption
<1>2. b.digits \in Seq(0..9)
  BY <1>1 DEF BindPath
<1> DEFINE five == SubSeq(b.digits, 1, IF Len(b.digits) < 5 THEN Len(b.digits) ELSE 5)
<1>3. five \in Seq(0..9) /\ (Len(b.digits) <= 5 => five = b.digits)
  BY <1>2, FirstFive
<1>4. Number(b.digits) \in Nat /\ Number(five) \in Nat
  BY <1>2, <1>3, NumberIs, Zenon
<1>5. Port(b) = IF b.colon THEN Short(Number(b.digits)) ELSE 0
  BY DEF Port
<1>6. WinPort(b) = IF b.colon THEN Short(Number(five)) ELSE 0
  BY DEF WinPort
<1> HIDE DEF five
<1>7. \A n \in Nat : /\ Short(n) \in Shorts
                     /\ n \in PortNumbers => Short(n) # 0 /\ Htons(Short(n)) = n
  BY ShortIs, Zenon
<1>8. Port(b) \in Shorts /\ WinPort(b) \in Shorts
  <2>1. 0 \in Shorts
    BY SMT DEF Shorts
  <2> QED BY <1>4, <1>5, <1>6, <1>7, <2>1, Zenon
<1>9. Len(b.digits) <= 5 => WinPort(b) = Port(b)
  BY <1>3, <1>5, <1>6, Zenon
<1>10. ASSUME Number(b.digits) \in PortNumbers PROVE Port(b) # 0 /\ Htons(Port(b)) = Number(b.digits)
  <2>1. b.colon
    <3>1. ~b.colon => Number(b.digits) = 0
      BY <1>1, NoNumber, Zenon
    <3>2. 0 \notin PortNumbers
      BY SMT DEF PortNumbers
    <3> QED BY <1>10, <3>1, <3>2, Zenon
  <2> QED BY <1>4, <1>5, <1>7, <1>10, <2>1, Zenon
<1> QED BY <1>1, <1>4, <1>8, <1>9, <1>10, Zenon

\* What opening a listener and connecting for the same bindPath leaves.
LEMMA EndpointKept == ASSUME Next, Called("Listens")' PROVE AgreeOnEndpoint'
<1>1. CallListens
  BY OnlyCall
<1>2. PICK b \in BindPaths, f \in Failures, r \in BOOLEAN :
          Call([fn |-> "Listens", bindPath |-> b, refused |-> r],
               [unix |-> Listens(b, f), toUnix |-> Connects(b, Listens(b, f), r),
                win |-> WinListens(b, f), toWin |-> WinConnects(b, WinListens(b, f), r)])
  BY <1>1 DEF CallListens
<1> DEFINE u == Listens(b, f)
           w == WinListens(b, f)
           cu == Connects(b, u, r)
           cw == WinConnects(b, w, r)
<1>3. /\ call'.bindPath = b /\ call'.refused = r
      /\ result'.unix = u /\ result'.win = w
      /\ result'.toUnix = cu /\ result'.toWin = cw
  BY <1>2 DEF Call
<1> DEFINE n == Number(b.digits)
<1>4. /\ b \in BindPath
      /\ n \in Nat
      /\ n \in PortNumbers => Port(b) # 0 /\ Htons(Port(b)) = n
      /\ Len(b.digits) <= 5 => WinPort(b) = Port(b)
  BY PortIs, Zenon
<1>5. /\ Port(b) # 0 => Htons(Port(b)) \in PortNumbers
      /\ WinPort(b) # 0 => Htons(WinPort(b)) \in PortNumbers
  BY PortIs, HtonsIs, Zenon
<1>6. b.host \in Hosts
  BY <1>4 DEF BindPath
<1>7. \/ u.family = "local" /\ Port(b) = 0 /\ Peer(b) = u
      \/ u.family = "none"
      \/ /\ u.family = "inet" /\ Port(b) # 0 /\ u.port = Htons(Port(b))
         /\ b.host # "*" => /\ Peer(b).family = "inet" /\ Peer(b).port = u.port
                            /\ u.addr = Peer(b).addr \/ (u.addr = "any" /\ Peer(b).addr # Elsewhere)
  <2>1. CASE Port(b) = 0
    <3>1. u = Ended("error") \/ u = Ended("exit") \/ u = Unix(b)
      BY <2>1 DEF Listens
    <3>2. Peer(b) = Unix(b)
      BY <2>1 DEF Peer
    <3>3. Unix(b) = Ended("exit") \/ Unix(b) = Local(b)
      BY DEF Unix
    <3> HIDE DEF u
    <3> QED BY <2>1, <3>1, <3>2, <3>3 DEF Ended, Local
  <2>2. CASE Port(b) # 0
    <3> DEFINE p == Htons(Port(b))
               c == Peer(b)
    <3>1. \/ u = Ended("exit") \/ u = Ended("error")
          \/ Resolved(b.host) # "exit" /\ b.host # Elsewhere /\ u = Inet(Resolved(b.host), p)
      BY <2>2 DEF Listens
    <3>2. c = IF b.host \in {"*", "unknown"} THEN Ended("exit")
              ELSE Inet(IF b.host = "" THEN "localhost" ELSE b.host, p)
      BY <2>2 DEF Peer
    <3> HIDE DEF p, u, c
    <3>3. CASE u = Ended("exit") \/ u = Ended("error")
      BY <3>3 DEF Ended
    <3>4. CASE Resolved(b.host) # "exit" /\ b.host # Elsewhere /\ u = Inet(Resolved(b.host), p)
      <4>1. CASE b.host \in {"two", "unknown"}
        <5>1. Resolved(b.host) = "exit"
          BY <4>1 DEF Resolved
        <5> QED BY <3>4, <5>1
      <4>2. CASE b.host \in {"", "*"}
        <5>1. Resolved(b.host) = "any"
          BY <4>2 DEF Resolved
        <5>2. u = Inet("any", p)
          BY <3>4, <5>1
        <5>3. b.host # "*" => c = Inet("localhost", p)
          BY <3>2, <4>2
        <5>4. "localhost" # Elsewhere
          BY DEF Elsewhere
        <5> QED BY <2>2, <5>2, <5>3, <5>4 DEF Inet, p, c
      <4>3. CASE b.host \in {"localhost", "10.0.0.1"}
        <5>1. Resolved(b.host) = b.host
          BY <4>3 DEF Resolved
        <5>2. u = Inet(b.host, p) /\ c = Inet(b.host, p)
          BY <3>2, <3>4, <4>3, <5>1
        <5> QED BY <2>2, <5>2 DEF Inet, p, c
      <4> QED BY <1>6, <3>4, <4>1, <4>2, <4>3 DEF Hosts
    <3> QED BY <3>1, <3>3, <3>4
  <2> QED BY <2>1, <2>2
<1>8. \/ w.family = "local" /\ WinPort(b) = 0 /\ WinPeer(b) = w
      \/ w.family = "none"
      \/ /\ w.family = "inet" /\ WinPort(b) # 0 /\ w.port = Htons(WinPort(b)) /\ w.addr = "any"
         /\ WinPeer(b).family = "inet" /\ WinPeer(b).port = w.port
         /\ b.host # Elsewhere => WinPeer(b).addr # Elsewhere
  <2>1. CASE WinPort(b) = 0
    <3>1. w = Ended("error") \/ w = Local(b)
      BY <2>1 DEF WinListens
    <3>2. WinPeer(b) = Local(b)
      BY <2>1 DEF WinPeer
    <3> HIDE DEF w
    <3> QED BY <2>1, <3>1, <3>2 DEF Ended, Local
  <2>2. CASE WinPort(b) # 0
    <3> DEFINE p == Htons(WinPort(b))
               c == WinPeer(b)
    <3>1. \/ w = Ended("exit") \/ w = Ended("error")
          \/ b.host \in {"", "localhost", Elsewhere} /\ w = Inet("any", p)
      BY <2>2 DEF WinListens
    <3>2. b.host \in {"", "localhost", Elsewhere} =>
              c = Inet(IF b.host = "" THEN "localhost" ELSE b.host, p)
      BY <2>2 DEF WinPeer, Elsewhere
    <3>3. "localhost" # Elsewhere
      BY DEF Elsewhere
    <3> HIDE DEF p, w, c
    <3>4. CASE w = Ended("exit") \/ w = Ended("error")
      BY <3>4 DEF Ended
    <3>5. CASE b.host \in {"", "localhost", Elsewhere} /\ w = Inet("any", p)
      <4> DEFINE host == IF b.host = "" THEN "localhost" ELSE b.host
      <4>1. c = Inet(host, p)
        BY <3>2, <3>5
      <4>2. b.host # Elsewhere => host # Elsewhere
        BY <3>3
      <4> HIDE DEF host
      <4>3. /\ w.family = "inet" /\ w.port = p /\ w.addr = "any"
            /\ c.family = "inet" /\ c.port = p /\ c.addr = host
        BY <3>5, <4>1 DEF Inet
      <4> QED BY <2>2, <4>2, <4>3 DEF p, c
    <3> QED BY <3>1, <3>4, <3>5
  <2> QED BY <2>1, <2>2
<1>14. /\ cu = IF Peer(b).family = "none" THEN Peer(b)
                ELSE IF r THEN Ended("exit")
                ELSE IF Reaches(Peer(b), u) THEN Peer(b) ELSE Ended("error")
       /\ WinPeer(b) = w /\ w.family = "local" =>
              cw = IF r THEN Ended("error") ELSE IF Reaches(w, w) THEN w ELSE Ended("error")
       /\ WinPeer(b).family = "inet" /\ Reaches(WinPeer(b), w) => cw = Ended("error")
  BY DEF Connects, WinConnects
<1> HIDE DEF n, u, w, cu, cw
<1>9. /\ u.family = "inet" => u.port \in PortNumbers
      /\ w.family = "inet" => w.port \in PortNumbers
  BY <1>5, <1>7, <1>8, Zenon
<1>10. n \in PortNumbers => u.family # "local" /\ (u.family = "inet" => u.port = n)
  BY <1>4, <1>7
<1>11. Len(b.digits) <= 5 =>
           /\ n \in PortNumbers => w.family # "local" /\ (w.family = "inet" => w.port = n)
           /\ WinPort(b) = Port(b)
  BY <1>4, <1>8
<1>12. PortsKept'
  <2>1. 0 \notin PortNumbers
    BY SMT DEF PortNumbers
  <2>2. HasPort(u) /\ HasPort(w)
    BY <1>9, <2>1, Zenon DEF HasPort
  <2>3. KeepsPort(u, n)
    BY <1>10, Zenon DEF KeepsPort
  <2>4. Len(b.digits) <= 5 => KeepsPort(w, n) /\ WinPort(b) = Port(b)
    BY <1>11, Zenon DEF KeepsPort
  <2>5. Number(b.digits) = n
    BY DEF n
  <2> QED BY <1>3, <2>2, <2>3, <2>4, <2>5, Zenon DEF PortsKept
<1>13. u.family = "local" \/ (u.family = "inet" /\ b.host # "*") => r \/ cu.family = u.family
  <2> SUFFICES ASSUME u.family = "local" \/ (u.family = "inet" /\ b.host # "*"), ~r
               PROVE  cu.family = u.family
    OBVIOUS
  <2>1. Peer(b).family = u.family /\ Reaches(Peer(b), u)
    BY <1>7 DEF Reaches
  <2> QED BY <1>14, <2>1
<1>15. w.family = "local" => r \/ cw = w
  BY <1>8, <1>14 DEF Reaches
<1>16. w.family = "inet" /\ b.host # Elsewhere => Reaches(WinPeer(b), w) /\ cw = Ended("error")
  <2> SUFFICES ASSUME w.family = "inet", b.host # Elsewhere
               PROVE  Reaches(WinPeer(b), w) /\ cw = Ended("error")
    OBVIOUS
  <2>1. Reaches(WinPeer(b), w) /\ WinPeer(b).family = "inet"
    BY <1>8 DEF Reaches
  <2> QED BY <1>14, <2>1
<1> QED BY <1>3, <1>12, <1>13, <1>15, <1>16 DEF AgreeOnEndpoint

\* Where OS_CreateLocalIpcFd opens a listener for a bindPath, OS_FcgiConnect gets a connection
\* to it for the same bindPath, on Unix and over a pipe of Windows; over TCP/IP on Windows it
\* finds the listener and closes the connection.  A port of sixteen bits survives the short.
THEOREM ListenersAreReached == Spec => []AgreeOnEndpoint
<1>1. Init => AgreeOnEndpoint
  BY DEF Init, AgreeOnEndpoint, PortsKept, Called
<1>2. AgreeOnEndpoint /\ [Next]_vars => AgreeOnEndpoint'
  <2> SUFFICES ASSUME AgreeOnEndpoint, [Next]_vars PROVE AgreeOnEndpoint'
    OBVIOUS
  <2>1. CASE UNCHANGED vars
    <3>1. call' = call /\ result' = result
      BY <2>1 DEF vars
    <3>2. PortsKept' = PortsKept
      BY <3>1, SMT DEF PortsKept, Called
    <3> QED BY <3>1, <3>2, Zenon DEF AgreeOnEndpoint, Called
  <2>2. CASE Next /\ Called("Listens")'
    BY <2>2, EndpointKept
  <2>3. CASE ~Called("Listens")'
    <3>1. PortsKept'
      BY <2>3, Zenon DEF PortsKept, Called
    <3> QED BY <2>3, <3>1, Zenon DEF AgreeOnEndpoint
  <2> QED BY <2>1, <2>2, <2>3
<1> QED BY <1>1, <1>2, PTL DEF Spec

-----------------------------------------------------------------------------
(* Addresses in a list *)

\* The places of the separators in a text, and of its ends.
Edges(text, seps) == {0, Len(text) + 1} \cup {i \in 1..Len(text) : text[i] \in seps}

\* No other of them is between the two.
Neighbours(c, d, ends) == c < d /\ \A k \in ends : k <= c \/ d <= k

\* A piece of a text is what is between two neighbours of its edges.
LEMMA BetweenIs ==
    ASSUME NEW text, NEW seps, NEW x
    PROVE  x \in Between(text, seps) <=>
               \E c, d \in Edges(text, seps) :
                   Neighbours(c, d, Edges(text, seps)) /\ x = SubSeq(text, c + 1, d - 1)
<1> DEFINE E == Edges(text, seps)
<1>1. Between(text, seps) =
          {SubSeq(text, e[1] + 1, e[2] - 1) : e \in {d \in E \X E : Neighbours(d[1], d[2], E)}}
  BY DEF Between, Edges, Neighbours
<1> HIDE DEF E
<1>2. ASSUME x \in Between(text, seps)
      PROVE  \E c, d \in E : Neighbours(c, d, E) /\ x = SubSeq(text, c + 1, d - 1)
  <2>1. PICK e \in E \X E : Neighbours(e[1], e[2], E) /\ x = SubSeq(text, e[1] + 1, e[2] - 1)
    BY <1>1, <1>2
  <2> QED BY <2>1
<1>3. ASSUME NEW c \in E, NEW d \in E, Neighbours(c, d, E), x = SubSeq(text, c + 1, d - 1)
      PROVE  x \in Between(text, seps)
  <2> DEFINE e == <<c, d>>
  <2>1. e \in E \X E /\ e[1] = c /\ e[2] = d
    OBVIOUS
  <2> HIDE DEF e
  <2> QED BY <1>1, <1>3, <2>1
<1> QED BY <1>2, <1>3 DEF E

\* addr is in text at p.
AtPlace(addr, text, p) ==
    p \in 1..Len(text) /\ p + Len(addr) - 1 <= Len(text) /\ SubSeq(text, p, p + Len(addr) - 1) = addr

\* The characters between two places.
LEMMA PieceIs ==
    ASSUME NEW text \in Seq(STRING), NEW c \in Nat, NEW d \in Nat, c < d, d <= Len(text) + 1
    PROVE  /\ SubSeq(text, c + 1, d - 1) \in Seq(STRING)
           /\ Len(SubSeq(text, c + 1, d - 1)) = d - 1 - c
           /\ \A i \in 1..d - 1 - c : SubSeq(text, c + 1, d - 1)[i] = text[c + i]
<1>1. /\ Len(text) \in Nat /\ c + 1 \in Nat /\ d - 1 \in Nat
      /\ \A i \in 1..Len(text) : text[i] \in STRING
  OBVIOUS
<1>2. \A i \in c + 1..d - 1 : text[i] \in STRING
  BY <1>1
<1> DEFINE m == c + 1
           n == d - 1
           x == SubSeq(text, m, n)
<1>3. m \in Int /\ n \in Int /\ \A i \in m..n : text[i] \in STRING
  BY <1>1, <1>2
<1>4. n - m + 1 = d - 1 - c /\ (m <= n => n - m + 1 = d - 1 - c) /\ (~(m <= n) => d - 1 - c = 0)
      /\ \A i \in Int : m + i - 1 = c + i
  OBVIOUS
<1> HIDE DEF m, n
<1>5. /\ x \in Seq(STRING) /\ Len(x) = IF m <= n THEN n - m + 1 ELSE 0
      /\ \A i \in 1..n - m + 1 : x[i] = text[m + i - 1]
  BY <1>3, SubSeqProperties
<1> HIDE DEF x
<1>6. Len(x) = d - 1 - c
  BY <1>4, <1>5
<1>7. ASSUME NEW i \in 1..d - 1 - c PROVE x[i] = text[c + i]
  <2>1. i \in 1..n - m + 1 /\ i \in Int
    BY <1>4
  <2>2. x[i] = text[m + i - 1]
    BY <1>5, <2>1, Zenon
  <2>3. m + i - 1 = c + i
    BY <1>4, <2>1, Zenon
  <2> QED BY <2>2, <2>3
<1> QED BY <1>5, <1>6, <1>7 DEF x, m, n

\* Where addr stands, its characters are those of the text.
LEMMA PlaceIs ==
    ASSUME NEW text \in Seq(STRING), NEW addr \in Seq(STRING) \ {<<>>}, NEW p, AtPlace(addr, text, p)
    PROVE  /\ p \in Nat /\ p > 0 /\ Len(addr) \in Nat /\ Len(addr) > 0
           /\ p + Len(addr) - 1 <= Len(text) /\ Len(text) \in Nat
           /\ \A k \in p..p + Len(addr) - 1 : text[k] = addr[k - p + 1]
<1>1. p \in Nat /\ p > 0 /\ Len(addr) \in Nat /\ Len(addr) > 0 /\ Len(text) \in Nat
      /\ p + Len(addr) - 1 <= Len(text)
  <2>1. addr # <<>> /\ addr \in Seq(STRING)
    OBVIOUS
  <2>2. Len(addr) # 0
    BY <2>1, EmptySeq
  <2> QED BY <2>1, <2>2 DEF AtPlace
<1>2. SubSeq(text, p, p + Len(addr) - 1) = addr
  BY DEF AtPlace
<1> DEFINE c == p - 1
           d == p + Len(addr)
<1>3. c \in Nat /\ d \in Nat /\ c < d /\ d <= Len(text) + 1 /\ c + 1 = p /\ d - 1 = p + Len(addr) - 1
      /\ d - 1 - c = Len(addr)
  BY <1>1
<1> HIDE DEF c, d
<1>4. \A i \in 1..d - 1 - c : SubSeq(text, c + 1, d - 1)[i] = text[c + i]
  BY <1>3, PieceIs, Zenon
<1>5. \A i \in 1..Len(addr) : addr[i] = text[c + i]
  BY <1>2, <1>3, <1>4
<1>6. ASSUME NEW k \in p..p + Len(addr) - 1 PROVE text[k] = addr[k - p + 1]
  <2>1. k - p + 1 \in 1..Len(addr) /\ c + (k - p + 1) = k
    BY <1>1, <1>3
  <2> QED BY <1>5, <2>1
<1> QED BY <1>1, <1>6

\* The edges of a text, and which of its places are edges.
LEMMA EdgesAre ==
    ASSUME NEW text \in Seq(STRING), NEW seps
    PROVE  /\ Edges(text, seps) \in SUBSET (0..Len(text) + 1)
           /\ Len(text) \in Nat
           /\ 0 \in Edges(text, seps) /\ Len(text) + 1 \in Edges(text, seps)
           /\ \A k \in 1..Len(text) : k \in Edges(text, seps) <=> text[k] \in seps
  BY DEF Edges

\* addr, with none of the separators in it, is a piece of the text where it stands between
\* two of them, or the ends.
Bounded(addr, text, seps, p) ==
    /\ p = 1 \/ text[p - 1] \in seps
    /\ p + Len(addr) > Len(text) \/ text[p + Len(addr)] \in seps

\* Where it stands so, it is a piece.
LEMMA BoundedIsPiece ==
    ASSUME NEW text \in Seq(STRING), NEW seps, NEW addr \in Seq(STRING) \ {<<>>},
           \A i \in 1..Len(addr) : addr[i] \notin seps,
           NEW p, AtPlace(addr, text, p), Bounded(addr, text, seps, p)
    PROVE  addr \in Between(text, seps)
<1> DEFINE E == Edges(text, seps)
           c == p - 1
           d == p + Len(addr)
<1>1. /\ p \in Nat /\ p > 0 /\ Len(addr) \in Nat /\ Len(addr) > 0
      /\ p + Len(addr) - 1 <= Len(text) /\ Len(text) \in Nat
      /\ \A k \in p..p + Len(addr) - 1 : text[k] = addr[k - p + 1]
  BY PlaceIs, Zenon
<1>2. /\ E \in SUBSET (0..Len(text) + 1)
      /\ 0 \in E /\ Len(text) + 1 \in E
      /\ \A k \in 1..Len(text) : k \in E <=> text[k] \in seps
  BY EdgesAre, Zenon
<1> HIDE DEF E
<1>3. c \in E
  <2>1. CASE p = 1
    BY <1>2, <2>1
  <2>2. CASE text[p - 1] \in seps /\ p # 1
    <3>1. p - 1 \in 1..Len(text)
      BY <1>1, <2>2
    <3> QED BY <1>2, <2>2, <3>1
  <2> QED BY <2>1, <2>2 DEF Bounded
<1>4. d \in E
  <2>1. CASE p + Len(addr) > Len(text)
    <3> DEFINE l == Len(addr)
               m == Len(text)
    <3>a. p \in Nat /\ l \in Nat /\ m \in Nat /\ p + l - 1 <= m /\ p + l > m
      BY <1>1, <2>1
    <3> HIDE DEF l, m
    <3>b. p + l = m + 1
      BY <3>a
    <3>1. p + Len(addr) = Len(text) + 1
      BY <3>b DEF l, m
    <3> QED BY <1>2, <3>1
  <2>2. CASE text[p + Len(addr)] \in seps /\ ~(p + Len(addr) > Len(text))
    <3>1. p + Len(addr) \in 1..Len(text)
      BY <1>1, <2>2
    <3> QED BY <1>2, <2>2, <3>1
  <2> QED BY <2>1, <2>2 DEF Bounded
<1>5. Neighbours(c, d, E)
  <2> SUFFICES ASSUME NEW k \in E, ~(k <= c), ~(d <= k) PROVE FALSE
    BY <1>1 DEF Neighbours
  <2>1. k \in p..p + Len(addr) - 1 /\ k \in 1..Len(text) /\ k - p + 1 \in 1..Len(addr)
    BY <1>1, <1>2
  <2> QED BY <1>1, <1>2, <2>1
<1>6. addr = SubSeq(text, c + 1, d - 1)
  <2>1. c + 1 = p /\ d - 1 = p + Len(addr) - 1
    BY <1>1
  <2> HIDE DEF c, d
  <2> QED BY <2>1 DEF AtPlace
<1> HIDE DEF c, d
<1>7. \E x, y \in E : Neighbours(x, y, E) /\ addr = SubSeq(text, x + 1, y - 1)
  BY <1>3, <1>4, <1>5, <1>6
<1> QED BY <1>7, BetweenIs, Zenon DEF E

\* A piece that is addr stands where it is bounded.
LEMMA PieceIsBounded ==
    ASSUME NEW text \in Seq(STRING), NEW seps, NEW addr \in Seq(STRING) \ {<<>>},
           NEW c \in Edges(text, seps), NEW d \in Edges(text, seps),
           Neighbours(c, d, Edges(text, seps)), addr = SubSeq(text, c + 1, d - 1)
    PROVE  /\ AtPlace(addr, text, c + 1) /\ Bounded(addr, text, seps, c + 1)
           /\ d = c + 1 + Len(addr)
<1> DEFINE E == Edges(text, seps)
<1>1. /\ E \in SUBSET (0..Len(text) + 1) /\ Len(text) \in Nat
      /\ \A k \in 1..Len(text) : k \in E <=> text[k] \in seps
  BY EdgesAre, Zenon
<1>2. c \in E /\ d \in E /\ c < d
  BY DEF Neighbours
<1> HIDE DEF E
<1>3. c \in Nat /\ d \in Nat /\ c < d /\ d <= Len(text) + 1
  BY <1>1, <1>2
<1>4. Len(addr) = d - 1 - c
  BY <1>3, PieceIs
<1>5. Len(addr) # 0 /\ Len(addr) \in Nat
  BY EmptySeq
<1>6. c + 1 \in 1..Len(text) /\ c + 1 + Len(addr) - 1 = d - 1 /\ d - 1 <= Len(text)
  BY <1>1, <1>3, <1>4, <1>5
<1>7. AtPlace(addr, text, c + 1)
  BY <1>6 DEF AtPlace
<1>8. d = c + 1 + Len(addr)
  BY <1>3, <1>4
<1>9. c + 1 = 1 \/ text[c + 1 - 1] \in seps
  <2>1. CASE c # 0
    <3>1. c \in 1..Len(text) /\ c + 1 - 1 = c
      BY <1>3, <1>6, <2>1
    <3> QED BY <1>1, <1>2, <3>1
  <2> QED BY <1>3, <2>1
<1>10. d > Len(text) \/ text[d] \in seps
  <2>1. CASE ~(d > Len(text))
    <3>1. d \in 1..Len(text)
      BY <1>1, <1>3, <2>1
    <3> QED BY <1>1, <1>2, <3>1
  <2> QED BY <2>1
<1> QED BY <1>7, <1>8, <1>9, <1>10 DEF Bounded

\* Every place of a text lies between two neighbours.
LEMMA AroundIs ==
    ASSUME NEW text \in Seq(STRING), NEW seps, NEW p \in 1..Len(text)
    PROVE  \E c, d \in Edges(text, seps) : Neighbours(c, d, Edges(text, seps)) /\ c < p /\ p <= d
<1> DEFINE E == Edges(text, seps)
<1>1. E \in SUBSET (0..Len(text) + 1) /\ Len(text) \in Nat /\ 0 \in E /\ Len(text) + 1 \in E
  BY EdgesAre, Zenon
<1> HIDE DEF E
<1>2. p \in Nat /\ p > 0 /\ p <= Len(text) /\ E \subseteq Nat
  BY <1>1
<1> DEFINE B == {n \in Nat : p - n \in E /\ n > 0}
           A == {n \in Nat : n \in E /\ p <= n}
<1>3. p \in B /\ Len(text) + 1 \in A
  BY <1>1, <1>2
<1>4. PICK b \in B : \A m \in B : b <= m
  <2>1. B \in SUBSET Nat
    OBVIOUS
  <2> HIDE DEF B
  <2> QED BY <1>3, <2>1, LeastNumber
<1>5. PICK d \in A : \A m \in A : d <= m
  <2>1. A \in SUBSET Nat
    OBVIOUS
  <2> HIDE DEF A
  <2> QED BY <1>3, <2>1, LeastNumber
<1> DEFINE c == p - b
<1>6. c \in E /\ c \in Nat /\ c < p /\ d \in E /\ d \in Nat /\ p <= d
  BY <1>2, <1>4, <1>5
<1>7. ASSUME NEW k \in E PROVE k <= c \/ d <= k
  <2>1. k \in Nat
    BY <1>2
  <2>2. CASE p <= k
    BY <1>5, <2>1, <2>2
  <2>3. CASE k < p
    <3>1. p - k \in B
      <4>1. p - k \in Nat /\ p - (p - k) = k /\ p - k > 0
        BY <1>2, <2>1, <2>3
      <4> QED BY <4>1
    <3>2. b <= p - k /\ b \in Nat
      BY <1>4, <3>1
    <3> HIDE DEF B, A
    <3> QED BY <1>2, <2>1, <3>2
  <2> QED BY <1>2, <2>1, <2>2, <2>3
<1> HIDE DEF c, A, B
<1>8. Neighbours(c, d, E)
  BY <1>6, <1>7 DEF Neighbours
<1> QED BY <1>6, <1>8 DEF E

\* When no piece but addr itself holds addr, addr stands only between separators.
LEMMA OnlyAsPiece ==
    ASSUME NEW text \in Seq(STRING), NEW seps, NEW addr \in Seq(STRING) \ {<<>>},
           \A i \in 1..Len(addr) : addr[i] \notin seps,
           \A a \in Between(text, seps) : a = addr \/ ~Within(addr, a),
           NEW p, AtPlace(addr, text, p)
    PROVE  Bounded(addr, text, seps, p)
<1> DEFINE E == Edges(text, seps)
           l == Len(addr)
           m == Len(text)
<1>1. /\ p \in Nat /\ p > 0 /\ l \in Nat /\ l > 0 /\ p + l - 1 <= m /\ m \in Nat
      /\ \A k \in p..p + l - 1 : text[k] = addr[k - p + 1]
  BY PlaceIs, Zenon
<1>2. E \in SUBSET (0..m + 1) /\ \A k \in 1..m : k \in E <=> text[k] \in seps
  BY EdgesAre, Zenon
<1>3. p \in 1..m
  <2> HIDE DEF l, m
  <2> QED BY <1>1
<1>4. PICK c \in E, d \in E : Neighbours(c, d, E) /\ c < p /\ p <= d
  BY <1>3, AroundIs, Zenon
<1> DEFINE x == SubSeq(text, c + 1, d - 1)
<1>5. x \in Between(text, seps)
  BY <1>4, BetweenIs, Zenon
<1> HIDE DEF E
<1>6. c \in Nat /\ d \in Nat /\ c < d /\ d <= m + 1
  <2> HIDE DEF m
  <2> QED BY <1>1, <1>2, <1>4
<1>7. /\ x \in Seq(STRING) /\ Len(x) = d - 1 - c
      /\ \A i \in 1..d - 1 - c : x[i] = text[c + i]
  BY <1>6, PieceIs, Zenon
<1>8. p + l <= d
  <2> SUFFICES ASSUME ~(p + l <= d) PROVE FALSE
    OBVIOUS
  <2> HIDE DEF l, m, x
  <2>1. d \in p..p + l - 1 /\ d \in 1..m /\ d - p + 1 \in 1..l
    BY <1>1, <1>4, <1>6
  <2>2. text[d] \in seps /\ text[d] = addr[d - p + 1]
    BY <1>1, <1>2, <1>4, <2>1
  <2> QED BY <2>1, <2>2 DEF l
<1> DEFINE i == p - c
           y == SubSeq(x, (i - 1) + 1, (i - 1 + l + 1) - 1)
<1> HIDE DEF x
<1>9. i \in 1..Len(x) /\ i + l - 1 <= Len(x) /\ i - 1 \in Nat /\ i - 1 + l + 1 \in Nat
      /\ i - 1 < i - 1 + l + 1 /\ i - 1 + l + 1 <= Len(x) + 1
      /\ (i - 1 + l + 1) - 1 - (i - 1) = l
      /\ (i - 1) + 1 = i /\ (i - 1 + l + 1) - 1 = i + l - 1
  <2> HIDE DEF l, m
  <2> QED BY <1>1, <1>4, <1>6, <1>7, <1>8
<1>10. /\ y \in Seq(STRING) /\ Len(y) = (i - 1 + l + 1) - 1 - (i - 1)
       /\ \A j \in 1..(i - 1 + l + 1) - 1 - (i - 1) : y[j] = x[(i - 1) + j]
  <2> HIDE DEF i, l
  <2> QED BY <1>7, <1>9, PieceIs, ZenonT(60)
<1>11. y = addr
  <2>1. Len(y) = l
    BY <1>9, <1>10
  <2>2. ASSUME NEW j \in 1..l PROVE y[j] = addr[j]
    <3> HIDE DEF l, m, y
    <3>1. j \in Nat /\ (i - 1) + j \in 1..d - 1 - c /\ c + ((i - 1) + j) = p + j - 1
          /\ p + j - 1 \in p..p + l - 1 /\ (p + j - 1) - p + 1 = j
      BY <1>1, <1>4, <1>6, <1>8, <1>9
    <3>2. y[j] = x[(i - 1) + j]
      BY <1>9, <1>10
    <3>3. x[(i - 1) + j] = text[p + j - 1]
      BY <1>7, <3>1
    <3>4. text[p + j - 1] = addr[j]
      BY <1>1, <3>1
    <3> QED BY <3>2, <3>3, <3>4
  <2> HIDE DEF y
  <2> QED BY <1>10, <2>1, <2>2, SeqEqual
<1>12. SubSeq(x, i, i + l - 1) = addr
  BY <1>9, <1>11
<1>13. Within(addr, x)
  <2> HIDE DEF i, y
  <2> QED BY <1>9, <1>12 DEF Within
<1>14. x = addr
  BY <1>5, <1>13 DEF x
<1>15. Bounded(addr, text, seps, c + 1) /\ d = c + 1 + l
  BY <1>4, <1>14, PieceIsBounded, ZenonT(60) DEF E, x
<1>16. p = c + 1
  <2> HIDE DEF l, m, i, y
  <2> QED BY <1>1, <1>4, <1>6, <1>8, <1>15
<1> QED BY <1>15, <1>16

\* A piece of a text is somewhere in it.
LEMMA PieceStands ==
    ASSUME NEW text \in Seq(STRING), NEW seps, NEW addr \in Seq(STRING) \ {<<>>},
           addr \in Between(text, seps)
    PROVE  \E p : AtPlace(addr, text, p)
<1>1. \E c, d \in Edges(text, seps) :
          Neighbours(c, d, Edges(text, seps)) /\ addr = SubSeq(text, c + 1, d - 1)
  BY BetweenIs
<1>2. PICK c \in Edges(text, seps), d \in Edges(text, seps) :
          Neighbours(c, d, Edges(text, seps)) /\ addr = SubSeq(text, c + 1, d - 1)
  BY <1>1
<1>3. AtPlace(addr, text, c + 1)
  BY <1>2, PieceIsBounded, Zenon
<1> QED BY <1>3

\* strstr() and the characters around: who is let in is in the list between separators, and
\* who is there only between separators is let in.
LEMMA FoundIs ==
    ASSUME NEW addr \in Seq(STRING) \ {<<>>}, NEW text \in Seq(STRING),
           \A i \in 1..Len(addr) : addr[i] \notin Tokens
    PROVE  /\ Found(addr, text) =>
                  \E p : AtPlace(addr, text, p) /\ Bounded(addr, text, Tokens, p)
           /\ (\E p : AtPlace(addr, text, p))
              /\ (\A p : AtPlace(addr, text, p) => Bounded(addr, text, Tokens, p))
                  => Found(addr, text)
<1> DEFINE P == {i \in 1..Len(text) : i + Len(addr) - 1 <= Len(text)
                                      /\ SubSeq(text, i, i + Len(addr) - 1) = addr}
           p == CHOOSE i \in P : \A j \in P : i <= j
<1>1. Found(addr, text) <=>
          /\ P # {}
          /\ p = 1 \/ text[p - 1] \in Tokens
          /\ p + Len(addr) > Len(text) \/ text[p + Len(addr)] \in Tokens
  BY DEF Found
<1>2. \A i : i \in P <=> AtPlace(addr, text, i)
  BY DEF AtPlace
<1>3. P \in SUBSET Nat
  OBVIOUS
<1> HIDE DEF P
<1>4. P # {} => p \in P
  <2>1. P # {} => \E i \in P : \A j \in P : i <= j
    BY <1>3, LeastNumber
  <2> QED BY <2>1
<1> HIDE DEF p
<1> QED BY <1>1, <1>2, <1>4 DEF Bounded

\* What asking both systems for one client leaves.
LEMMA ListedKept == ASSUME Next, Called("AddrOK")' PROVE OnlyListedClients'
<1>1. CallAddrOK
  BY OnlyCall
<1>2. PICK c \in DOMAIN Ntoa, t \in ClientLists :
          Call([fn |-> "AddrOK", addr |-> c, list |-> t],
               [unix |-> ClientAddrOK(c, t), win |-> IsAddrOK(c, t)])
  BY <1>1 DEF CallAddrOK
<1>3. /\ call'.addr = c /\ call'.list = t
      /\ result'.unix = ClientAddrOK(c, t) /\ result'.win = IsAddrOK(c, t)
  BY <1>2 DEF Call
<1> DEFINE a == Ntoa[c]
<1>4. /\ a \in Seq(STRING) \ {<<>>} /\ t \in Seq(STRING) /\ \A i \in 1..Len(a) : a[i] \notin Tokens
      /\ a \in DOMAIN InetAddr /\ InetAddr[a] = c
  BY AlgorithmsAssumption
<1> DEFINE ok == IsAddrOK(c, t)
           unix == ClientAddrOK(c, t)
<1>a. ok = Found(a, t)
  BY DEF IsAddrOK
<1>b. unix <=> t = <<>> \/ \E x \in Between(t, {","}) : x \in DOMAIN InetAddr /\ InetAddr[x] = c
  BY DEF ClientAddrOK
<1>c. ok \in BOOLEAN /\ unix \in BOOLEAN
  BY DEF IsAddrOK, Found, ClientAddrOK
<1>d. call'.addr = c /\ Ntoa[c] = a /\ result'.unix = unix /\ result'.win = ok
  BY <1>3
<1> HIDE DEF a, ok, unix
<1>5. ok => \E p : AtPlace(a, t, p) /\ Bounded(a, t, Tokens, p)
  BY <1>4, <1>a, FoundIs, Zenon
<1>6. ok => a \in Between(t, Tokens)
  BY <1>4, <1>5, BoundedIsPiece, Zenon
<1>e. "," \in Tokens
  BY DEF Tokens
<1>f. \A i \in 1..Len(a) : a[i] \notin {","}
  BY <1>4, <1>e
<1> DEFINE Commas == \A i \in 1..Len(t) : t[i] \in Tokens => t[i] = ","
<1>7. ASSUME t # <<>>, Commas, ok PROVE unix
  <2>1. PICK p : AtPlace(a, t, p) /\ Bounded(a, t, Tokens, p)
    BY <1>5, <1>7
  <2>2. /\ p \in Nat /\ p > 0 /\ Len(a) \in Nat /\ Len(a) > 0
        /\ p + Len(a) - 1 <= Len(t) /\ Len(t) \in Nat
    BY <1>4, <2>1, PlaceIs, Zenon
  <2>3. Bounded(a, t, {","}, p)
    <3> DEFINE l == Len(a)
               m == Len(t)
    <3>1. p \in Nat /\ p > 0 /\ l \in Nat /\ l > 0 /\ p + l - 1 <= m /\ m \in Nat
      BY <2>2
    <3> HIDE DEF l, m
    <3>2. p = 1 \/ p - 1 \in 1..m
      BY <3>1
    <3>3. p + l > m \/ p + l \in 1..m
      BY <3>1
    <3> QED BY <1>7, <2>1, <3>2, <3>3 DEF Bounded, l, m
  <2> DEFINE seps == {","}
  <2>4. Bounded(a, t, seps, p) /\ \A i \in 1..Len(a) : a[i] \notin seps
    BY <1>f, <2>3
  <2> HIDE DEF seps
  <2>5. a \in Between(t, seps)
    BY <1>4, <2>1, <2>4, BoundedIsPiece, Zenon
  <2> QED BY <1>4, <1>b, <2>5, Zenon DEF seps
<1>8. ASSUME t # <<>>, unix,
             \A x \in Between(t, {","}) : x \in DOMAIN InetAddr /\ InetAddr[x] = c => x = a,
             \A x \in Between(t, {","}) : x = a \/ ~Within(a, x)
      PROVE  ok
  <2> DEFINE seps == {","}
  <2>0. PICK x \in Between(t, seps) : x \in DOMAIN InetAddr /\ InetAddr[x] = c
    BY <1>8, <1>b
  <2>1. a \in Between(t, seps)
    <3>1. \A y \in Between(t, {","}) : y \in DOMAIN InetAddr /\ InetAddr[y] = c => y = a
      BY <1>8
    <3>2. x = a
      BY <2>0, <3>1, Zenon
    <3> QED BY <2>0, <3>2, Zenon
  <2>2. \A y \in Between(t, seps) : y = a \/ ~Within(a, y)
    BY <1>8, Zenon
  <2>3. seps \subseteq Tokens /\ \A i \in 1..Len(a) : a[i] \notin seps
    BY <1>e, <1>f
  <2> HIDE DEF seps
  <2>4. \E p : AtPlace(a, t, p)
    BY <1>4, <2>1, PieceStands, Zenon
  <2>5. ASSUME NEW p, AtPlace(a, t, p) PROVE Bounded(a, t, Tokens, p)
    <3>1. Bounded(a, t, seps, p)
      BY <1>4, <2>2, <2>3, <2>5, OnlyAsPiece, Zenon
    <3> QED BY <2>3, <3>1 DEF Bounded
  <2> QED BY <1>4, <1>a, <2>4, <2>5, FoundIs, Zenon
<1>9. \A x, y \in BOOLEAN : (x => y) /\ (y => x) => x = y
  OBVIOUS
<1>10. ASSUME t # <<>>, Commas,
              \A x \in Between(t, {","}) : /\ x \in DOMAIN InetAddr /\ InetAddr[x] = c => x = a
                                           /\ x = a \/ ~Within(a, x)
       PROVE  ok = unix
  <2>1. ok => unix
    BY <1>7, <1>10
  <2>2. \A x \in Between(t, {","}) : x \in DOMAIN InetAddr /\ InetAddr[x] = c => x = a
    BY <1>10
  <2>3. \A x \in Between(t, {","}) : x = a \/ ~Within(a, x)
    BY <1>10
  <2>4. unix => ok
    BY <1>8, <1>10, <2>2, <2>3, Zenon
  <2> QED BY <1>c, <1>9, <2>1, <2>4, Zenon
<1> QED BY <1>3, <1>6, <1>7, <1>10, <1>d, Zenon DEF OnlyListedClients

\* Windows (IsAddrOK) lets in nobody whose address does not stand in the list, and with
\* commas nobody whom Unix (ClientAddrOK) does not; whom Unix lets in it does when the list
\* has him in the notation of inet_ntoa() only and no piece holds that text and more.  For
\* every address, every list and whatever else inet_addr() reads as an address.
THEOREM OnlyListedAreLetIn == Spec => []OnlyListedClients
<1>1. Init => OnlyListedClients
  <2>1. Init => ~Called("AddrOK")
    BY DEF Init, Called
  <2> QED BY <2>1, Zenon DEF OnlyListedClients
<1>2. OnlyListedClients /\ [Next]_vars => OnlyListedClients'
  <2> SUFFICES ASSUME OnlyListedClients, [Next]_vars PROVE OnlyListedClients'
    OBVIOUS
  <2>1. CASE UNCHANGED vars
    <3>1. call' = call /\ result' = result
      BY <2>1 DEF vars
    <3> QED BY <3>1, Zenon DEF OnlyListedClients, Called
  <2>2. CASE Next /\ Called("AddrOK")'
    BY <2>2, ListedKept
  <2>3. CASE ~Called("AddrOK")'
    BY <2>3 DEF OnlyListedClients
  <2> QED BY <2>1, <2>2, <2>3
<1> QED BY <1>1, <1>2, PTL DEF Spec

-----------------------------------------------------------------------------
(* Sequences and their parts *)

\* A sequence without its first n elements.
LEMMA TailIs ==
    ASSUME NEW S, NEW s \in Seq(S), NEW n \in 0..Len(s)
    PROVE  /\ From(s, n) \in Seq(S) /\ Len(From(s, n)) = Len(s) - n
           /\ \A i \in 1..Len(s) - n : From(s, n)[i] = s[n + i]
<1> DEFINE l == Len(s)
<1>1. l \in Nat /\ n \in Nat /\ n <= l /\ \A i \in 1..l : s[i] \in S
  OBVIOUS
<1>2. \A i \in n + 1..l : s[i] \in S
  BY <1>1
<1>3. /\ SubSeq(s, n + 1, l) \in Seq(S)
      /\ Len(SubSeq(s, n + 1, l)) = IF n + 1 <= l THEN l - (n + 1) + 1 ELSE 0
      /\ \A i \in 1..l - (n + 1) + 1 : SubSeq(s, n + 1, l)[i] = s[(n + 1) + i - 1]
  <2>1. n + 1 \in Nat /\ l \in Nat
    BY <1>1
  <2> HIDE DEF l
  <2> QED BY <1>2, <2>1, SubSeqProperties
<1> DEFINE x == SubSeq(s, n + 1, l)
<1>4. From(s, n) = x
  BY DEF From
<1> HIDE DEF x, l
<1>5. l - (n + 1) + 1 = l - n /\ (\A i \in Int : (n + 1) + i - 1 = n + i)
      /\ (IF n + 1 <= l THEN l - (n + 1) + 1 ELSE 0) = l - n
  BY <1>1
<1>6. x \in Seq(S) /\ Len(x) = l - n /\ \A i \in 1..l - n : x[i] = s[n + i]
  BY <1>3, <1>5 DEF x
<1> QED BY <1>4, <1>6 DEF l

\* The first n elements of a sequence.
LEMMA HeadIs ==
    ASSUME NEW S, NEW s \in Seq(S), NEW n \in 0..Len(s)
    PROVE  /\ SubSeq(s, 1, n) \in Seq(S) /\ Len(SubSeq(s, 1, n)) = n
           /\ \A i \in 1..n : SubSeq(s, 1, n)[i] = s[i]
<1>1. n \in Nat /\ 1 \in Nat /\ \A i \in 1..n : s[i] \in S
  OBVIOUS
<1>2. /\ SubSeq(s, 1, n) \in Seq(S)
      /\ Len(SubSeq(s, 1, n)) = IF 1 <= n THEN n - 1 + 1 ELSE 0
      /\ \A i \in 1..n - 1 + 1 : SubSeq(s, 1, n)[i] = s[1 + i - 1]
  BY <1>1, SubSeqProperties
<1>3. n - 1 + 1 = n /\ (IF 1 <= n THEN n - 1 + 1 ELSE 0) = n /\ \A i \in Int : 1 + i - 1 = i
  BY <1>1
<1> DEFINE x == SubSeq(s, 1, n)
<1> HIDE DEF x
<1>4. x \in Seq(S) /\ Len(x) = n /\ \A i \in 1..n : x[i] = s[i]
  BY <1>2, <1>3 DEF x
<1> QED BY <1>4 DEF x

-----------------------------------------------------------------------------
(* The value that FCGX_GetParam finds *)

\* A sequence of members of S is one of members of a larger set.
LEMMA WiderSeq ==
    ASSUME NEW S, NEW T, S \subseteq T, NEW s \in Seq(S)
    PROVE  s \in Seq(T)
<1>1. Len(s) \in Nat /\ s \in [1..Len(s) -> S]
  OBVIOUS
<1>2. s \in [1..Len(s) -> T]
  BY <1>1
<1> QED BY <1>1, <1>2, SeqDef

\* Where the name, the sign and the value are in an entry.
LEMMA EntryIs ==
    ASSUME NEW S, Equals \in S, NEW n \in Seq(S), NEW v \in Seq(S)
    PROVE  /\ Entry(n, v) \in Seq(S) /\ Len(Entry(n, v)) = Len(n) + 1 + Len(v)
           /\ \A i \in 1..Len(n) : Entry(n, v)[i] = n[i]
           /\ Entry(n, v)[Len(n) + 1] = Equals
           /\ From(Entry(n, v), Len(n) + 1) = v
<1> DEFINE h == n \o <<Equals>>
           e == h \o v
           l == Len(n)
           m == Len(v)
<1>1. Equals \in S /\ <<Equals>> \in Seq(S) /\ Len(<<Equals>>) = 1 /\ <<Equals>>[1] = Equals
  OBVIOUS
<1>2. l \in Nat /\ m \in Nat
  OBVIOUS
<1>3. h \in Seq(S) /\ Len(h) = l + 1 /\ \A i \in 1..l + 1 : h[i] = IF i <= l THEN n[i] ELSE Equals
  <2>1. h \in Seq(S) /\ Len(h) = l + Len(<<Equals>>)
        /\ \A i \in 1..l + Len(<<Equals>>) : h[i] = IF i <= l THEN n[i] ELSE <<Equals>>[i - l]
    BY <1>1, ConcatProperties
  <2>2. \A i \in 1..l + 1 : ~(i <= l) => i - l = 1
    BY <1>2
  <2> HIDE DEF h, l
  <2> QED BY <1>1, <1>2, <2>1, <2>2
<1>4. e \in Seq(S) /\ Len(e) = (l + 1) + m
      /\ \A i \in 1..(l + 1) + m : e[i] = IF i <= l + 1 THEN h[i] ELSE v[i - (l + 1)]
  <2>1. e \in Seq(S) /\ Len(e) = Len(h) + m
        /\ \A i \in 1..Len(h) + m : e[i] = IF i <= Len(h) THEN h[i] ELSE v[i - Len(h)]
    <3> HIDE DEF h
    <3> QED BY <1>3, ConcatProperties
  <2> QED BY <1>3, <2>1
<1>5. Entry(n, v) = e
  BY DEF Entry
<1> HIDE DEF h, e, l, m
<1>6. \A i \in 1..l : e[i] = n[i]
  <2> TAKE i \in 1..l
  <2>1. i \in 1..(l + 1) + m /\ i <= l + 1 /\ i \in 1..l + 1 /\ i <= l
    BY <1>2
  <2> QED BY <1>3, <1>4, <2>1
<1>7. e[l + 1] = Equals
  <2>1. l + 1 \in 1..(l + 1) + m /\ l + 1 <= l + 1 /\ l + 1 \in 1..l + 1 /\ ~(l + 1 <= l)
    BY <1>2
  <2> QED BY <1>3, <1>4, <2>1
<1>8. From(e, l + 1) = v
  <2> DEFINE f == From(e, l + 1)
  <2>1. l + 1 \in 0..Len(e) /\ Len(e) - (l + 1) = m
    BY <1>2, <1>4
  <2>2. f \in Seq(S) /\ Len(f) = m /\ \A i \in 1..m : f[i] = e[(l + 1) + i]
    BY <1>4, <2>1, TailIs
  <2>3. ASSUME NEW i \in 1..m PROVE f[i] = v[i]
    <3>1. (l + 1) + i \in 1..(l + 1) + m /\ ~((l + 1) + i <= l + 1) /\ ((l + 1) + i) - (l + 1) = i
      BY <1>2
    <3> HIDE DEF f
    <3>2. f[i] = e[(l + 1) + i]
      BY <2>2
    <3>3. e[(l + 1) + i] = v[((l + 1) + i) - (l + 1)]
      BY <1>4, <3>1
    <3> QED BY <3>1, <3>2, <3>3
  <2> HIDE DEF f
  <2>4. Len(v) = m
    BY DEF m
  <2>5. f = v
    BY <2>2, <2>3, <2>4, SeqEqual
  <2> QED BY <2>5 DEF f
<1>9. (l + 1) + m = l + 1 + m
  BY <1>2
<1> QED BY <1>4, <1>5, <1>6, <1>7, <1>8, <1>9 DEF l, m

\* A name without the sign.
Unsigned(name) == \A i \in 1..Len(name) : name[i] # Equals

\* An entry begins with the name and the sign when it is of that name.
LEMMA NamedIs ==
    ASSUME NEW S, Equals \in S, NEW name \in Seq(S), NEW n \in Seq(S), NEW v \in Seq(S),
           Unsigned(name), Unsigned(n)
    PROVE  Named(name, Entry(n, v)) <=> n = name
<1> DEFINE e == Entry(n, v)
           a == Len(name)
           l == Len(n)
           m == Len(v)
<1>1. /\ e \in Seq(S) /\ Len(e) = l + 1 + m
      /\ \A i \in 1..l : e[i] = n[i]
      /\ e[l + 1] = Equals
  BY EntryIs, Zenon
<1>2. a \in Nat /\ l \in Nat /\ m \in Nat
  OBVIOUS
<1> HIDE DEF e
<1>3. ASSUME a <= Len(e)
      PROVE  SubSeq(e, 1, a) \in Seq(S) /\ Len(SubSeq(e, 1, a)) = a
             /\ \A i \in 1..a : SubSeq(e, 1, a)[i] = e[i]
  <2>1. a \in 0..Len(e)
    BY <1>2, <1>3, <1>1
  <2> HIDE DEF a
  <2> QED BY <1>1, <2>1, HeadIs
<1>4. ASSUME n = name PROVE Named(name, e)
  <2>1. a = l
    BY <1>4
  <2> HIDE DEF l, m
  <2>2. a <= Len(e) /\ Len(e) > a
    BY <1>1, <1>2, <2>1
  <2> DEFINE x == SubSeq(e, 1, a)
  <2>3. x \in Seq(S) /\ Len(x) = a /\ \A i \in 1..a : x[i] = e[i]
    BY <1>3, <2>2
  <2>4. \A i \in 1..a : x[i] = name[i]
    BY <1>1, <1>4, <2>1, <2>3
  <2> HIDE DEF x
  <2>5. x = name
    BY <2>3, <2>4, SeqEqual
  <2>6. SubSeq(e, 1, Len(name)) = name
    BY <2>5 DEF x
  <2> QED BY <1>1, <2>1, <2>2, <2>6 DEF Named, StartsWith
<1>5. ASSUME Named(name, e) PROVE n = name
  <2>1. a <= Len(e) /\ SubSeq(e, 1, a) = name /\ Len(e) > a /\ e[a + 1] = Equals
    BY <1>5 DEF Named, StartsWith
  <2>2. \A i \in 1..a : name[i] = e[i]
    BY <1>3, <2>1
  <2>3. \A i \in 1..a : name[i] # Equals
    BY DEF Unsigned
  <2>4. \A i \in 1..l : n[i] # Equals
    BY DEF Unsigned
  <2> HIDE DEF a, l, m
  <2>5. ~(a < l)
    <3>1. a < l => a + 1 \in 1..l
      BY <1>2
    <3> QED BY <1>1, <2>1, <2>4, <3>1
  <2>6. ~(l < a)
    <3>1. l < a => l + 1 \in 1..a
      BY <1>2
    <3> QED BY <1>1, <2>2, <2>3, <3>1
  <2>7. a = l
    BY <1>2, <2>5, <2>6
  <2>8. \A i \in 1..l : n[i] = name[i]
    BY <1>1, <2>2, <2>7
  <2> QED BY <2>7, <2>8, SeqEqual DEF a, l
<1> QED BY <1>4, <1>5 DEF e

\* What a call of FCGX_GetParam leaves.
LEMMA ValueKept == ASSUME Next, Called("GetParam")' PROVE FirstIsFound'
<1>1. CallGetParam
  BY OnlyCall
<1>2. PICK name \in Names, list \in Pairs :
          Call([fn |-> "GetParam", name |-> name, list |-> list], GetParam(name, EntriesOf(list)))
  BY <1>1 DEF CallGetParam
<1>3. call'.name = name /\ call'.list = list /\ result' = GetParam(name, EntriesOf(list))
  BY <1>2 DEF Call
<1> DEFINE S == STRING \cup {Equals}
<1>4. name \in Seq(S) /\ list \in Seq(Seq(STRING) \X Seq(STRING)) /\ Equals \in S
  <2>1. name \in Seq(STRING) /\ list \in Seq(Seq(STRING) \X Seq(STRING))
    BY AlgorithmsAssumption
  <2> QED BY <2>1, WiderSeq
<1> DEFINE n == Len(list)
           envp == EntriesOf(list)
           Those == {i \in 1..n : list[i][1] = name}
           P == {i \in 1..Len(envp) : Named(name, envp[i])}
<1>5. n \in Nat /\ \A i \in 1..n : list[i][1] \in Seq(S) /\ list[i][2] \in Seq(S)
  <2>1. n \in Nat /\ \A i \in 1..n : list[i][1] \in Seq(STRING) /\ list[i][2] \in Seq(STRING)
    BY <1>4
  <2>2. \A x \in Seq(STRING) : x \in Seq(S)
    BY WiderSeq
  <2> QED BY <2>1, <2>2
<1> HIDE DEF S
<1>6. Len(envp) = n /\ \A i \in 1..n : envp[i] = Entry(list[i][1], list[i][2])
  BY <1>5 DEF EntriesOf
<1>7. GetParam(name, envp) =
          IF P = {} THEN None
          ELSE From(envp[CHOOSE j \in P : \A k \in P : j <= k], Len(name) + 1)
  BY DEF GetParam
<1> HIDE DEF envp
<1>8. ASSUME Unsigned(name), \A i \in 1..n : Unsigned(list[i][1])
      PROVE  result' = IF Those = {} THEN None
                       ELSE list[CHOOSE i \in Those : \A j \in Those : i <= j][2]
  <2>1. \A i \in 1..n : Named(name, envp[i]) <=> list[i][1] = name
    <3> TAKE i \in 1..n
    <3> DEFINE m == list[i][1]
               v == list[i][2]
    <3>1. /\ name \in Seq(S) /\ m \in Seq(S) /\ v \in Seq(S) /\ Equals \in S
          /\ Unsigned(name) /\ Unsigned(m) /\ envp[i] = Entry(m, v)
      BY <1>4, <1>5, <1>6, <1>8
    <3> HIDE DEF m, v
    <3>2. Named(name, Entry(m, v)) <=> m = name
      BY <3>1, NamedIs, Zenon
    <3> QED BY <3>1, <3>2 DEF m
  <2>2. P = Those
    BY <1>6, <2>1
  <2>3. Those \in SUBSET Nat /\ Those \subseteq 1..n
    OBVIOUS
  <2> HIDE DEF P
  <2>4. CASE Those = {}
    BY <1>3, <1>7, <2>2, <2>4 DEF envp
  <2>5. CASE Those # {}
    <3> DEFINE i == CHOOSE j \in Those : \A k \in Those : j <= k
    <3>1. \E j \in Those : \A k \in Those : j <= k
      <4> HIDE DEF Those
      <4> QED BY <2>3, <2>5, LeastNumber
    <3>2. i \in Those
      BY <3>1
    <3>3. i \in 1..n /\ list[i][1] = name
      BY <3>2
    <3>4. result' = From(envp[i], Len(name) + 1)
      BY <1>3, <1>7, <2>2, <2>5 DEF envp
    <3> HIDE DEF i
    <3>5. From(envp[i], Len(name) + 1) = list[i][2]
      <4>1. list[i][1] \in Seq(S) /\ list[i][2] \in Seq(S)
        BY <1>5, <3>3
      <4>2. envp[i] = Entry(list[i][1], list[i][2])
        BY <1>6, <3>3
      <4>3. From(Entry(list[i][1], list[i][2]), Len(list[i][1]) + 1) = list[i][2]
        BY <1>4, <4>1, EntryIs, Zenon
      <4> QED BY <3>3, <4>2, <4>3
    <3> QED BY <2>5, <3>4, <3>5 DEF i
  <2> QED BY <2>4, <2>5
<1> QED BY <1>3, <1>8, Zenon DEF FirstIsFound, Unsigned

-----------------------------------------------------------------------------
(* The length of a name or of a value *)

\* The least byte that says that a length has four of them.
Half == Byte \div 2

\* Half the values of a byte.
LEMMA HalfIs == Half \in Nat /\ Half > 0 /\ Byte = 2 * Half /\ Byte \in Nat /\ Byte > 0
<1>1. Byte \in Nat \ {0} /\ Byte % 2 = 0
  BY WordIs
<1> QED BY <1>1 DEF Half

\* A product grows with its factor.
LEMMA Bigger ==
    ASSUME NEW w \in Nat, NEW a \in Nat, NEW b \in Nat, a <= b
    PROVE  w * a \in Nat /\ w * b \in Nat /\ w * a <= w * b
<1>1. PICK d \in Nat : b = a + d
  <2>1. b - a \in Nat /\ b = a + (b - a)
    OBVIOUS
  <2> QED BY <2>1
<1>2. w * b = w * a + w * d
  BY <1>1
<1>3. w * a \in Nat /\ w * d \in Nat
  OBVIOUS
<1> QED BY <1>2, <1>3

\* The first of four bytes has room for the bit that tells them from one.
LEMMA TopIsSmall ==
    ASSUME NEW n3 \in Nat, NEW n2 \in Nat, NEW n1 \in Nat, NEW n \in 0..IntMax,
           Byte * n3 <= n2, Byte * n2 <= n1, Byte * n1 <= n
    PROVE  n3 < Half
<1> SUFFICES ASSUME Half <= n3 PROVE FALSE
  BY HalfIs
<1> DEFINE a == Byte * Half
           b == Byte * a
           c == Byte * b
<1>1. a \in Nat /\ a <= n2
  <2>1. Byte * Half \in Nat /\ Byte * n3 \in Nat /\ Byte * Half <= Byte * n3
    BY HalfIs, Bigger
  <2> QED BY <2>1
<1> HIDE DEF a
<1>2. b \in Nat /\ b <= n1
  <2>1. Byte * a \in Nat /\ Byte * n2 \in Nat /\ Byte * a <= Byte * n2
    BY <1>1, HalfIs, Bigger
  <2> QED BY <2>1
<1> HIDE DEF b
<1>3. c \in Nat /\ c <= n
  <2>1. Byte * b \in Nat /\ Byte * n1 \in Nat /\ Byte * b <= Byte * n1
    BY <1>2, HalfIs, Bigger
  <2>2. n \in Int
    BY WordIs
  <2> QED BY <2>1, <2>2
<1>4. 2 * c = Word
  <2>1. 2 * a = Byte * Byte
    BY HalfIs DEF a
  <2>2. 2 * b = Byte * (2 * a) /\ 2 * c = Byte * (2 * b)
    BY <1>1, <1>2, HalfIs DEF b
  <2>3. 2 * c = Byte * (Byte * (Byte * Byte))
    BY <2>1, <2>2
  <2>4. Byte * (Byte * (Byte * Byte)) = Byte * Byte * Byte * Byte
    BY HalfIs
  <2> QED BY <2>3, <2>4 DEF Word
<1> HIDE DEF c
<1>5. IntMax \in Nat /\ Word = 2 * (IntMax + 1) /\ n \in Nat /\ n <= IntMax
  BY WordIs
<1> QED BY <1>3, <1>4, <1>5

\* What the bytes say.
Says(b, n) ==
    \/ Len(b) = 1 /\ b[1] = n /\ n < Half
    \/ /\ Len(b) = 4 /\ ~(b[1] < Half)
       /\ (((b[1] - Half) * Byte + b[2]) * Byte + b[3]) * Byte + b[4] = n

\* The bytes that are written for a length say the length.
LEMMA LengthBytesSay ==
    ASSUME NEW n \in 0..IntMax, NEW wide \in BOOLEAN
    PROVE  LengthBytes(n, wide) \in Seq(Bytes) /\ Says(LengthBytes(n, wide), n)
<1>1. n \in Nat /\ IntMax \in Nat
  BY WordIs
<1>2. Half \in Nat /\ Half > 0 /\ Byte = 2 * Half /\ Byte \in Nat \ {0}
  BY HalfIs
<1>3. CASE ~wide /\ n < Half
  <2> DEFINE b == <<n>>
  <2>1. LengthBytes(n, wide) = b
    BY <1>3 DEF LengthBytes, Half
  <2>2. n \in Bytes
    BY <1>1, <1>2, <1>3 DEF Bytes
  <2>3. b \in Seq(Bytes) /\ Len(b) = 1 /\ b[1] = n
    BY <2>2
  <2> HIDE DEF b
  <2> QED BY <1>3, <2>1, <2>3 DEF Says
<1>4. CASE ~(~wide /\ n < Half)
  <2> DEFINE n1 == n \div Byte
             n2 == n1 \div Byte
             n3 == n2 \div Byte
             b == <<Half + n3, n2 % Byte, n1 % Byte, n % Byte>>
  <2>1. LengthBytes(n, wide) = b
    BY <1>4 DEF LengthBytes, Half
  <2>2. n1 \in Nat /\ n % Byte \in 0..Byte - 1 /\ n = Byte * n1 + (n % Byte)
    <3>a. n \in Int /\ Byte \in Nat \ {0}
      BY <1>1, <1>2
    <3>b. /\ n \div Byte \in Int /\ n % Byte \in 0..Byte - 1
          /\ n = Byte * (n \div Byte) + (n % Byte)
      BY <3>a, Division, Zenon
    <3>1. n1 \in Int /\ n % Byte \in 0..Byte - 1 /\ n = Byte * n1 + (n % Byte)
      BY <3>b, Zenon
    <3>2. n1 \in Nat
      BY <1>1, <1>2
    <3> QED BY <3>1, <3>2
  <2> HIDE DEF n1
  <2>3. n2 \in Nat /\ n1 % Byte \in 0..Byte - 1 /\ n1 = Byte * n2 + (n1 % Byte)
    <3>a. n1 \in Int /\ Byte \in Nat \ {0}
      BY <1>2, <2>2
    <3>b. /\ n1 \div Byte \in Int /\ n1 % Byte \in 0..Byte - 1
          /\ n1 = Byte * (n1 \div Byte) + (n1 % Byte)
      BY <3>a, Division, Zenon
    <3>1. n2 \in Int /\ n1 % Byte \in 0..Byte - 1 /\ n1 = Byte * n2 + (n1 % Byte)
      BY <3>b, Zenon
    <3>2. n2 \in Nat
      BY <1>2, <2>2
    <3> QED BY <3>1, <3>2
  <2> HIDE DEF n2
  <2>4. n3 \in Nat /\ n2 % Byte \in 0..Byte - 1 /\ n2 = Byte * n3 + (n2 % Byte)
    <3>a. n2 \in Int /\ Byte \in Nat \ {0}
      BY <1>2, <2>3
    <3>b. /\ n2 \div Byte \in Int /\ n2 % Byte \in 0..Byte - 1
          /\ n2 = Byte * (n2 \div Byte) + (n2 % Byte)
      BY <3>a, Division, Zenon
    <3>1. n3 \in Int /\ n2 % Byte \in 0..Byte - 1 /\ n2 = Byte * n3 + (n2 % Byte)
      BY <3>b, Zenon
    <3>2. n3 \in Nat
      BY <1>2, <2>3
    <3> QED BY <3>1, <3>2
  <2> HIDE DEF n3
  <2> DEFINE r0 == n % Byte
             r1 == n1 % Byte
             r2 == n2 % Byte
  <2>5. /\ r0 \in Nat /\ r1 \in Nat /\ r2 \in Nat /\ r0 < Byte /\ r1 < Byte /\ r2 < Byte
        /\ n = Byte * n1 + r0 /\ n1 = Byte * n2 + r1 /\ n2 = Byte * n3 + r2
        /\ n1 \in Nat /\ n2 \in Nat /\ n3 \in Nat
    BY <1>2, <2>2, <2>3, <2>4
  <2>6. b = <<Half + n3, r2, r1, r0>>
    OBVIOUS
  <2> HIDE DEF r0, r1, r2, b
  <2>7. Byte * n3 <= n2 /\ Byte * n2 <= n1 /\ Byte * n1 <= n
    <3>1. Byte * n3 \in Nat /\ Byte * n2 \in Nat /\ Byte * n1 \in Nat
      BY <1>2, <2>5
    <3> QED BY <2>5, <3>1
  <2>8. n3 < Half
    BY <2>5, <2>7, TopIsSmall
  <2>9. Half + n3 \in Bytes /\ r2 \in Bytes /\ r1 \in Bytes /\ r0 \in Bytes
    BY <1>2, <2>5, <2>8 DEF Bytes
  <2>10. b \in Seq(Bytes) /\ Len(b) = 4
         /\ b[1] = Half + n3 /\ b[2] = r2 /\ b[3] = r1 /\ b[4] = r0
    BY <2>6, <2>9
  <2>11. ((((Half + n3) - Half) * Byte + r2) * Byte + r1) * Byte + r0 = n
    <3>1. (Half + n3) - Half = n3
      BY <1>2, <2>5
    <3>2. n3 * Byte + r2 = n2 /\ n2 * Byte + r1 = n1 /\ n1 * Byte + r0 = n
      BY <1>2, <2>5
    <3> QED BY <3>1, <3>2
  <2>12. ~(Half + n3 < Half)
    BY <1>2, <2>5
  <2>13. Says(b, n)
    BY <2>10, <2>11, <2>12 DEF Says
  <2> QED BY <2>1, <2>10, <2>13
<1> QED BY <1>3, <1>4

\* t begins with b, or ends within it.
Along(t, b) == \A i \in 1..Len(b) : i <= Len(t) => t[i] = b[i]

\* Where a stream begins with the bytes of a length, the length is read; where it ends within
\* them, it is not.
LEMMA LengthIs ==
    ASSUME NEW t \in Seq(Bytes), NEW b \in Seq(Bytes), NEW n, Says(b, n), Along(t, b)
    PROVE  /\ Len(b) <= Len(t) => Length(t) = [len |-> n, size |-> Len(b)]
           /\ Len(t) < Len(b) => Length(t) = NoLength
<1>1. Len(t) \in Nat /\ (Len(t) = 0 <=> t = <<>>) /\ (Len(b) = 1 \/ Len(b) = 4)
  BY EmptySeq DEF Says
<1>2. t # <<>> => t[1] = b[1]
  BY <1>1 DEF Along
<1>3. CASE Len(b) = 1
  <2>1. b[1] = n /\ n < Half
    BY <1>3 DEF Says
  <2>2. CASE t = <<>>
    BY <1>1, <1>3, <2>2 DEF Length
  <2>3. CASE t # <<>>
    <3>1. Length(t) = [len |-> n, size |-> 1]
      BY <1>2, <2>1, <2>3 DEF Length, Half
    <3> QED BY <1>1, <1>3, <2>3, <3>1
  <2> QED BY <2>2, <2>3
<1>4. CASE Len(b) = 4
  <2>1. ~(b[1] < Half) /\ (((b[1] - Half) * Byte + b[2]) * Byte + b[3]) * Byte + b[4] = n
    BY <1>4 DEF Says
  <2>2. CASE t = <<>>
    BY <1>1, <1>4, <2>2 DEF Length
  <2>3. CASE t # <<>> /\ Len(t) < 4
    <3>1. Length(t) = NoLength
      BY <1>2, <2>1, <2>3 DEF Length, Half
    <3> QED BY <1>4, <1>1, <2>3, <3>1
  <2>4. CASE t # <<>> /\ ~(Len(t) < 4)
    <3>1. t[1] = b[1] /\ t[2] = b[2] /\ t[3] = b[3] /\ t[4] = b[4]
      BY <1>1, <1>4, <2>4 DEF Along
    <3>2. Length(t) =
              [len |-> (((t[1] - Half) * Byte + t[2]) * Byte + t[3]) * Byte + t[4], size |-> 4]
      BY <2>1, <2>4, <3>1 DEF Length, Half
    <3>3. Length(t) = [len |-> n, size |-> 4]
      BY <2>1, <3>1, <3>2
    <3> QED BY <1>1, <1>4, <2>4, <3>3
  <2> QED BY <2>2, <2>3, <2>4
<1> QED BY <1>1, <1>3, <1>4

\* What is read of any stream is a length, of bytes that are there.
LEMMA LengthType ==
    ASSUME NEW t \in Seq(Bytes)
    PROVE  /\ Length(t).len \in Nat /\ Length(t).size \in Nat /\ Length(t).size <= Len(t)
           /\ Length(t).size = 0 \/ Length(t).size >= 1
<1>1. Len(t) \in Nat /\ (Len(t) = 0 <=> t = <<>>) /\ \A i \in 1..Len(t) : t[i] \in Nat
  BY EmptySeq, HalfIs DEF Bytes
<1>2. CASE t = <<>>
  BY <1>1, <1>2 DEF Length, NoLength
<1>3. CASE t # <<>> /\ t[1] < Byte \div 2
  BY <1>1, <1>3 DEF Length
<1>4. CASE t # <<>> /\ ~(t[1] < Byte \div 2) /\ Len(t) < 4
  BY <1>1, <1>4 DEF Length, NoLength
<1>5. CASE t # <<>> /\ ~(t[1] < Byte \div 2) /\ ~(Len(t) < 4)
  <2> DEFINE x == t[1] - Half
  <2>1. t[1] \in Nat /\ t[2] \in Nat /\ t[3] \in Nat /\ t[4] \in Nat /\ ~(t[1] < Half)
    BY <1>1, <1>5 DEF Half
  <2>2. x \in Nat
    BY <2>1, HalfIs
  <2> HIDE DEF x
  <2> DEFINE y == x * Byte + t[2]
  <2>3. y \in Nat
    BY <2>1, <2>2, HalfIs
  <2> HIDE DEF y
  <2> DEFINE z == y * Byte + t[3]
  <2>4. z \in Nat
    BY <2>1, <2>3, HalfIs
  <2> HIDE DEF z
  <2>5. z * Byte + t[4] \in Nat
    BY <2>1, <2>4, HalfIs
  <2>6. Length(t) = [len |-> z * Byte + t[4], size |-> 4]
    BY <1>5 DEF Length, x, y, z, Half
  <2> QED BY <1>1, <1>5, <2>5, <2>6
<1> QED BY <1>2, <1>3, <1>4, <1>5

\* The elements from place c to place d.
LEMMA MidIs ==
    ASSUME NEW S, NEW s \in Seq(S), NEW c \in Nat, NEW d \in Nat, c <= d, d <= Len(s)
    PROVE  /\ SubSeq(s, c + 1, d) \in Seq(S) /\ Len(SubSeq(s, c + 1, d)) = d - c
           /\ \A i \in 1..d - c : SubSeq(s, c + 1, d)[i] = s[c + i]
<1>1. Len(s) \in Nat /\ c + 1 \in Nat /\ \A i \in 1..Len(s) : s[i] \in S
  OBVIOUS
<1>2. \A i \in c + 1..d : s[i] \in S
  BY <1>1
<1> DEFINE x == SubSeq(s, c + 1, d)
<1>3. /\ x \in Seq(S)
      /\ Len(x) = IF c + 1 <= d THEN d - (c + 1) + 1 ELSE 0
      /\ \A i \in 1..d - (c + 1) + 1 : x[i] = s[(c + 1) + i - 1]
  BY <1>1, <1>2, SubSeqProperties
<1> HIDE DEF x
<1>4. d - (c + 1) + 1 = d - c /\ (\A i \in Int : (c + 1) + i - 1 = c + i)
      /\ (IF c + 1 <= d THEN d - (c + 1) + 1 ELSE 0) = d - c
  OBVIOUS
<1>a. Len(x) = d - c
  BY <1>3, <1>4
<1>b. ASSUME NEW i \in 1..d - c PROVE x[i] = s[c + i]
  <2>1. i \in 1..d - (c + 1) + 1 /\ (c + 1) + i - 1 = c + i
    BY <1>4
  <2>2. x[i] = s[(c + 1) + i - 1]
    BY <1>3, <2>1
  <2> QED BY <2>1, <2>2
<1>5. x \in Seq(S) /\ Len(x) = d - c /\ \A i \in 1..d - c : x[i] = s[c + i]
  BY <1>3, <1>a, <1>b
<1> QED BY <1>5 DEF x

\* Where the elements of two sequences are when one follows the other.
LEMMA ConcatIs ==
    ASSUME NEW S, NEW a \in Seq(S), NEW b \in Seq(S)
    PROVE  /\ a \o b \in Seq(S) /\ Len(a \o b) = Len(a) + Len(b)
           /\ Len(a) \in Nat /\ Len(b) \in Nat
           /\ \A i \in 1..Len(a) : (a \o b)[i] = a[i]
           /\ \A i \in 1..Len(b) : (a \o b)[Len(a) + i] = b[i]
<1> DEFINE x == a \o b
           l == Len(a)
           m == Len(b)
<1>1. x \in Seq(S) /\ Len(x) = l + m
      /\ \A i \in 1..l + m : x[i] = IF i <= l THEN a[i] ELSE b[i - l]
  BY ConcatProperties
<1>2. l \in Nat /\ m \in Nat
  OBVIOUS
<1> HIDE DEF x, l, m
<1>3. ASSUME NEW i \in 1..l PROVE x[i] = a[i]
  BY <1>1, <1>2
<1>4. ASSUME NEW i \in 1..m PROVE x[l + i] = b[i]
  <2>1. l + i \in 1..l + m /\ ~(l + i <= l) /\ (l + i) - l = i
    BY <1>2
  <2>2. x[l + i] = b[(l + i) - l]
    BY <1>1, <2>1
  <2> QED BY <2>1, <2>2
<1> QED BY <1>1, <1>2, <1>3, <1>4 DEF x, l, m

\* x is a, b, c and d one after the other.
Laid(x, a, b, c, d) ==
    /\ Len(x) = Len(a) + Len(b) + Len(c) + Len(d)
    /\ Len(a) \in Nat /\ Len(b) \in Nat /\ Len(c) \in Nat /\ Len(d) \in Nat
    /\ \A i \in 1..Len(a) : x[i] = a[i]
    /\ \A i \in 1..Len(b) : x[Len(a) + i] = b[i]
    /\ \A i \in 1..Len(c) : x[Len(a) + Len(b) + i] = c[i]
    /\ \A i \in 1..Len(d) : x[Len(a) + Len(b) + Len(c) + i] = d[i]

\* Where those of four are.
LEMMA FourIs ==
    ASSUME NEW S, NEW a \in Seq(S), NEW b \in Seq(S), NEW c \in Seq(S), NEW d \in Seq(S)
    PROVE  a \o b \o c \o d \in Seq(S) /\ Laid(a \o b \o c \o d, a, b, c, d)
<1> DEFINE ab == a \o b
           abc == ab \o c
           x == abc \o d
           k == Len(a)
           l == Len(b)
           m == Len(c)
           n == Len(d)
<1>1. /\ ab \in Seq(S) /\ Len(ab) = k + l /\ k \in Nat /\ l \in Nat
      /\ \A i \in 1..k : ab[i] = a[i]
      /\ \A i \in 1..l : ab[k + i] = b[i]
  BY ConcatIs
<1>b. ab \in Seq(S)
  BY <1>1
<1> HIDE DEF ab
<1>2. /\ abc \in Seq(S) /\ Len(abc) = Len(ab) + m /\ m \in Nat
      /\ \A i \in 1..Len(ab) : abc[i] = ab[i]
      /\ \A i \in 1..m : abc[Len(ab) + i] = c[i]
  BY <1>b, ConcatIs
<1>c. abc \in Seq(S)
  BY <1>2
<1> HIDE DEF abc
<1>3. /\ x \in Seq(S) /\ Len(x) = Len(abc) + n /\ n \in Nat
      /\ \A i \in 1..Len(abc) : x[i] = abc[i]
      /\ \A i \in 1..n : x[Len(abc) + i] = d[i]
  BY <1>c, ConcatIs
<1> HIDE DEF x, k, l, m, n
<1>4. Len(ab) = k + l /\ Len(abc) = k + l + m
  BY <1>1, <1>2
<1>5. ASSUME NEW i \in 1..k PROVE x[i] = a[i]
  <2>1. i \in 1..Len(ab) /\ i \in 1..Len(abc)
    BY <1>1, <1>2, <1>4
  <2> QED BY <1>1, <1>2, <1>3, <2>1
<1>6. ASSUME NEW i \in 1..l PROVE x[k + i] = b[i]
  <2>1. k + i \in 1..Len(ab) /\ k + i \in 1..Len(abc)
    BY <1>1, <1>2, <1>4
  <2> QED BY <1>1, <1>2, <1>3, <2>1
<1>7. ASSUME NEW i \in 1..m PROVE x[k + l + i] = c[i]
  <2>1. Len(ab) + i \in 1..Len(abc) /\ Len(ab) + i = k + l + i
    BY <1>1, <1>2, <1>4
  <2> QED BY <1>2, <1>3, <2>1
<1>8. ASSUME NEW i \in 1..n PROVE x[k + l + m + i] = d[i]
  <2>1. Len(abc) + i = k + l + m + i
    BY <1>1, <1>2, <1>4
  <2> QED BY <1>3, <2>1
<1>9. Len(x) = k + l + m + n
  BY <1>1, <1>2, <1>3, <1>4
<1>10. x = a \o b \o c \o d
  BY DEF x, abc, ab
<1> HIDE DEF x
<1>11. Laid(x, a, b, c, d)
  BY <1>1, <1>2, <1>3, <1>5, <1>6, <1>7, <1>8, <1>9 DEF k, l, m, n, Laid
<1> QED BY <1>3, <1>10, <1>11

-----------------------------------------------------------------------------
(* ReadParams *)

\* A name and a value, as bytes.
Pair == Seq(Bytes) \X Seq(Bytes)

\* Each has a length of 31 bits at most.
Short31(pair) == Len(pair[1]) <= IntMax /\ Len(pair[2]) <= IntMax

\* The bytes of a pair are two lengths, a name and a value.
LEMMA PairIs ==
    ASSUME NEW pair \in Pair, Short31(pair), NEW wide \in BOOLEAN
    PROVE  /\ PairBytes(pair, wide) \in Seq(Bytes)
           /\ \E nb, vb \in Seq(Bytes) :
                  /\ Says(nb, Len(pair[1])) /\ Says(vb, Len(pair[2]))
                  /\ Laid(PairBytes(pair, wide), nb, vb, pair[1], pair[2])
<1> DEFINE name == pair[1]
           value == pair[2]
           nb == LengthBytes(Len(name), wide)
           vb == LengthBytes(Len(value), wide)
<1>1. name \in Seq(Bytes) /\ value \in Seq(Bytes)
  BY DEF Pair
<1>2. Len(name) \in 0..IntMax /\ Len(value) \in 0..IntMax
  BY <1>1, WordIs DEF Short31
<1>3. nb \in Seq(Bytes) /\ Says(nb, Len(name)) /\ vb \in Seq(Bytes) /\ Says(vb, Len(value))
  BY <1>2, LengthBytesSay, Zenon
<1>4. PairBytes(pair, wide) = nb \o vb \o name \o value
  BY DEF PairBytes
<1> HIDE DEF nb, vb, name, value
<1>5. /\ nb \o vb \o name \o value \in Seq(Bytes)
      /\ Laid(nb \o vb \o name \o value, nb, vb, name, value)
  BY <1>1, <1>3, FourIs, Zenon
<1>6. PairBytes(pair, wide) \in Seq(Bytes) /\ Laid(PairBytes(pair, wide), nb, vb, name, value)
  BY <1>4, <1>5, Zenon
<1> QED BY <1>3, <1>6, Zenon DEF name, value

\* A round of ReadParams stays within the stream.
LEMMA ReadPairType ==
    ASSUME NEW s \in Seq(Bytes), NEW p \in Params(s)
    PROVE  ReadPair(s, p) \in Params(s)
<1> DEFINE name == Length(From(s, p.at))
           value == Length(From(s, p.at + name.size))
           head == p.at + name.size + value.size
           all == head + name.len + value.len
<1>1. p.at \in 0..Len(s) /\ Len(s) \in Nat /\ p.pairs \in Seq(Pair) /\ p.result \in {0, -1}
  BY DEF Params, Pair
<1>2. name.len \in Nat /\ name.size \in Nat /\ name.size <= Len(s) - p.at
  <2>1. From(s, p.at) \in Seq(Bytes) /\ Len(From(s, p.at)) = Len(s) - p.at
    BY <1>1, TailIs
  <2> QED BY <2>1, LengthType
<1> HIDE DEF name
<1>3. value.len \in Nat /\ value.size \in Nat
  <2>1. p.at + name.size \in 0..Len(s)
    BY <1>1, <1>2
  <2>2. From(s, p.at + name.size) \in Seq(Bytes)
    BY <2>1, TailIs
  <2> QED BY <2>2, LengthType
<1> HIDE DEF value
<1>4. p = [at |-> p.at, pairs |-> p.pairs, result |-> p.result]
  BY DEF Params
<1>5. CASE p.at = Len(s) \/ p.result = -1
  BY <1>5 DEF ReadPair
<1>6. CASE ~(p.at = Len(s) \/ p.result = -1) /\ (name.size = 0 \/ value.size = 0 \/ Len(s) < all)
  <2>1. ReadPair(s, p) = [p EXCEPT !.result = -1]
    BY <1>6 DEF ReadPair, name, value
  <2> QED BY <2>1 DEF Params
<1>7. CASE ~(p.at = Len(s) \/ p.result = -1) /\ ~(name.size = 0 \/ value.size = 0 \/ Len(s) < all)
  <2> DEFINE x == <<SubSeq(s, head + 1, head + name.len), SubSeq(s, head + name.len + 1, all)>>
  <2>1. ReadPair(s, p) = [p EXCEPT !.at = all, !.pairs = Append(p.pairs, x)]
    BY <1>7 DEF ReadPair, name, value
  <2>2. head \in Nat /\ head + name.len \in Nat /\ all \in Nat /\ all <= Len(s)
        /\ head <= head + name.len /\ head + name.len <= all /\ head + name.len <= Len(s)
    <3>1. p.at \in Nat /\ name.len \in Nat /\ name.size \in Nat /\ value.len \in Nat
          /\ value.size \in Nat /\ Len(s) \in Nat
      BY <1>1, <1>2, <1>3
    <3>2. head \in Nat
      BY <3>1
    <3>3. ~(Len(s) < all)
      BY <1>7
    <3> HIDE DEF head
    <3> QED BY <3>1, <3>2, <3>3
  <2> HIDE DEF head, all
  <2>3. x \in Pair
    <3>1. SubSeq(s, head + 1, head + name.len) \in Seq(Bytes)
      BY <2>2, MidIs
    <3>2. SubSeq(s, head + name.len + 1, all) \in Seq(Bytes)
      BY <2>2, MidIs, Zenon
    <3> QED BY <3>1, <3>2 DEF Pair
  <2> HIDE DEF x
  <2>4. Append(p.pairs, x) \in Seq(Pair) /\ all \in 0..Len(s)
    BY <1>1, <2>2, <2>3
  <2> QED BY <1>1, <2>1, <2>4 DEF Params, Pair
<1> QED BY <1>5, <1>6, <1>7

\* x lies in s behind the place at, or s ends within it.
Lies(x, s, at) == \A i \in 1..Len(x) : at + i <= Len(s) => s[at + i] = x[i]

\* The two outcomes of a round.
Taken(p, next, pair) == [p EXCEPT !.at = next, !.pairs = Append(p.pairs, pair)]
Failed(p) == [p EXCEPT !.result = -1]

\* The rest of a stream along the pair: what a round of the loop does there.
LEMMA ReadPairIs ==
    ASSUME NEW s \in Seq(Bytes), NEW p \in Params(s), p.at < Len(s), p.result = 0,
           NEW pair \in Pair, Short31(pair), NEW wide \in BOOLEAN,
           Lies(PairBytes(pair, wide), s, p.at),
           NEW next, next = p.at + Len(PairBytes(pair, wide))
    PROVE  /\ next \in Nat /\ next > p.at
           /\ next <= Len(s) => ReadPair(s, p) = Taken(p, next, pair)
           /\ next > Len(s) => ReadPair(s, p) = Failed(p)
<1> DEFINE x == PairBytes(pair, wide)
           name == pair[1]
           value == pair[2]
<1>1. PICK nb \in Seq(Bytes), vb \in Seq(Bytes) :
          Says(nb, Len(name)) /\ Says(vb, Len(value)) /\ Laid(x, nb, vb, name, value)
  BY PairIs
<1>2. \A i \in 1..Len(x) : p.at + i <= Len(s) => s[p.at + i] = x[i]
  BY DEF Lies
<1>a. next = p.at + Len(x)
  OBVIOUS
<1> HIDE DEF x
<1> DEFINE a == Len(nb)
           b == Len(vb)
           c == Len(name)
           d == Len(value)
           l == Len(s)
<1>3. /\ Len(x) = a + b + c + d
      /\ a \in Nat /\ b \in Nat /\ c \in Nat /\ d \in Nat /\ l \in Nat
      /\ \A i \in 1..a : x[i] = nb[i]
      /\ \A i \in 1..b : x[a + i] = vb[i]
      /\ \A i \in 1..c : x[a + b + i] = name[i]
      /\ \A i \in 1..d : x[a + b + c + i] = value[i]
  <2>1. Laid(x, nb, vb, name, value)
    BY <1>1
  <2>2. l \in Nat
    OBVIOUS
  <2> HIDE DEF name, value, l
  <2> QED BY <2>1, <2>2, Zenon DEF Laid
<1>4. a >= 1 /\ b >= 1
  BY <1>1 DEF Says
<1>5. p.at \in Nat /\ p.at < l /\ name \in Seq(Bytes) /\ value \in Seq(Bytes)
      /\ pair = <<name, value>>
  BY DEF Params, Pair
<1> DEFINE at == p.at
           t1 == From(s, at)
           t2 == From(s, at + a)
           n == Length(t1)
<1>6. /\ t1 \in Seq(Bytes) /\ Len(t1) = l - at
      /\ \A i \in 1..l - at : t1[i] = s[at + i]
  <2>1. at \in 0..Len(s)
    BY <1>3, <1>5
  <2> HIDE DEF at
  <2>2. /\ From(s, at) \in Seq(Bytes) /\ Len(From(s, at)) = Len(s) - at
        /\ \A i \in 1..Len(s) - at : From(s, at)[i] = s[at + i]
    BY <2>1, TailIs
  <2> QED BY <2>2
<1> HIDE DEF a, b, c, d, l, at, name, value
<1>b. at \in Nat /\ at < l
  BY <1>5 DEF at, l
<1>7. Along(t1, nb)
  <2> SUFFICES ASSUME NEW i \in 1..a, i <= Len(t1) PROVE t1[i] = nb[i]
    BY DEF Along, a
  <2>1. i \in 1..l - at /\ i \in 1..Len(x) /\ at + i <= l
    BY <1>3, <1>5, <1>6, SMTT(30) DEF at
  <2> QED BY <1>2, <1>3, <1>6, <2>1 DEF l, at
<1>8. /\ a <= l - at => n = [len |-> c, size |-> a]
      /\ l - at < a => n = NoLength
  <2>1. /\ Len(nb) <= Len(t1) => Length(t1) = [len |-> Len(name), size |-> Len(nb)]
        /\ Len(t1) < Len(nb) => Length(t1) = NoLength
    BY <1>1, <1>6, <1>7, LengthIs
  <2> HIDE DEF t1
  <2> QED BY <1>6, <2>1 DEF a, c
<1>9. ASSUME a <= l - at
      PROVE  /\ b <= l - (at + a) => Length(t2) = [len |-> d, size |-> b]
             /\ l - (at + a) < b => Length(t2) = NoLength
  <2>1. at + a \in 0..Len(s) /\ at \in Nat
    <3>1. at + a \in 0..l
      BY <1>3, <1>9, <1>b
    <3> QED BY <1>b, <3>1 DEF l
  <2>2. /\ t2 \in Seq(Bytes) /\ Len(t2) = l - (at + a)
        /\ \A i \in 1..l - (at + a) : t2[i] = s[at + a + i]
    <3> DEFINE k == at + a
    <3>1. k \in 0..Len(s)
      BY <2>1
    <3> HIDE DEF k
    <3>2. /\ From(s, k) \in Seq(Bytes) /\ Len(From(s, k)) = Len(s) - k
          /\ \A i \in 1..Len(s) - k : From(s, k)[i] = s[k + i]
      BY <3>1, TailIs
    <3> QED BY <3>2 DEF k, l
  <2>3. Along(t2, vb)
    <3> SUFFICES ASSUME NEW i \in 1..b, i <= Len(t2) PROVE t2[i] = vb[i]
      BY DEF Along, b
    <3>1. /\ i \in 1..l - (at + a) /\ a + i \in 1..Len(x)
          /\ at + (a + i) <= l /\ at + a + i = at + (a + i)
      BY <1>3, <1>5, <2>1, <2>2
    <3>2. s[at + (a + i)] = x[a + i]
      BY <1>2, <3>1 DEF l, at
    <3>3. t2[i] = s[at + a + i]
      BY <2>2, <3>1
    <3> HIDE DEF t2
    <3> QED BY <1>3, <3>1, <3>2, <3>3
  <2>4. /\ Len(vb) <= Len(t2) => Length(t2) = [len |-> Len(value), size |-> Len(vb)]
        /\ Len(t2) < Len(vb) => Length(t2) = NoLength
    BY <1>1, <2>2, <2>3, LengthIs
  <2> HIDE DEF t2
  <2> QED BY <2>2, <2>4 DEF b, d
<1> DEFINE m == Length(From(s, at + n.size))
           head == at + n.size + m.size
           all == head + n.len + m.len
<1>10. p.at # l /\ p.result # -1
  BY <1>3, <1>5
<1>11. ReadPair(s, p) =
           IF n.size = 0 \/ m.size = 0 \/ l < all THEN [p EXCEPT !.result = -1]
           ELSE [p EXCEPT !.at = all,
                          !.pairs = Append(p.pairs, <<SubSeq(s, head + 1, head + n.len),
                                                      SubSeq(s, head + n.len + 1, all)>>)]
  BY <1>10 DEF ReadPair, l, at
<1>12. next \in Nat /\ next > at /\ next = at + a + b + c + d
  <2>1. at \in Nat
    BY <1>5 DEF at
  <2>2. Len(x) = a + b + c + d
    BY <1>3
  <2>3. next = at + Len(x)
    BY <1>a DEF at
  <2> QED BY <1>3, <1>4, <2>1, <2>2, <2>3
<1>13. ASSUME next <= l
       PROVE  ReadPair(s, p) = [p EXCEPT !.at = next, !.pairs = Append(p.pairs, pair)]
  <2>1. a <= l - at /\ b <= l - (at + a) /\ at \in Nat
    BY <1>3, <1>b, <1>12, <1>13
  <2>2. n = [len |-> c, size |-> a]
    BY <1>8, <2>1
  <2>3. Length(t2) = [len |-> d, size |-> b]
    BY <1>9, <2>1
  <2>4. n.size = a /\ n.len = c
    BY <2>2
  <2>5. m.size = b /\ m.len = d
    BY <2>3, <2>4
  <2> HIDE DEF n, m
  <2>6. head = at + a + b /\ all = next
    BY <1>3, <1>12, <2>1, <2>4, <2>5
  <2>7. SubSeq(s, head + 1, head + n.len) = name
    <3> DEFINE y == SubSeq(s, head + 1, head + c)
    <3>1. head \in Nat /\ head + c \in Nat /\ head <= head + c /\ head + c <= Len(s)
          /\ (head + c) - head = c
      BY <1>3, <1>12, <1>13, <2>1, <2>6 DEF l
    <3> HIDE DEF head
    <3>2. y \in Seq(Bytes) /\ Len(y) = c /\ \A i \in 1..c : y[i] = s[head + i]
      BY <3>1, MidIs
    <3>3. ASSUME NEW i \in 1..c PROVE y[i] = name[i]
      <4>1. a + b + i \in 1..Len(x) /\ at + (a + b + i) = head + i /\ at + (a + b + i) <= l
        BY <1>3, <1>12, <1>13, <2>1, <2>6
      <4>2. s[at + (a + b + i)] = x[a + b + i]
        BY <1>2, <4>1 DEF at, l
      <4> HIDE DEF y
      <4> QED BY <1>3, <3>2, <4>1, <4>2
    <3> HIDE DEF y
    <3>4. y = name
      BY <1>5, <3>2, <3>3, SeqEqual DEF c
    <3> QED BY <2>4, <3>4 DEF y
  <2>8. SubSeq(s, head + n.len + 1, all) = value
    <3> DEFINE h == head + c
               y == SubSeq(s, h + 1, all)
    <3>1. h \in Nat /\ all \in Nat /\ h <= all /\ all <= Len(s) /\ all - h = d
      BY <1>3, <1>12, <1>13, <2>1, <2>6 DEF l
    <3>a. h = at + a + b + c
      BY <1>3, <2>1, <2>6
    <3>b. head + n.len + 1 = h + 1
      BY <2>4
    <3> HIDE DEF head, all, h
    <3>2. y \in Seq(Bytes) /\ Len(y) = d /\ \A i \in 1..d : y[i] = s[h + i]
      BY <3>1, MidIs
    <3>3. ASSUME NEW i \in 1..d PROVE y[i] = value[i]
      <4>1. a + b + c + i \in 1..Len(x) /\ at + (a + b + c + i) = h + i /\ at + (a + b + c + i) <= l
        BY <1>3, <1>12, <1>13, <2>1, <3>a
      <4>2. s[at + (a + b + c + i)] = x[a + b + c + i]
        BY <1>2, <4>1 DEF at, l
      <4> HIDE DEF y
      <4> QED BY <1>3, <3>2, <4>1, <4>2
    <3> HIDE DEF y
    <3>4. y = value
      BY <1>5, <3>2, <3>3, SeqEqual DEF d
    <3> QED BY <3>b, <3>4 DEF y
  <2>9. ~(n.size = 0 \/ m.size = 0 \/ l < all)
    BY <1>3, <1>4, <1>12, <1>13, <2>4, <2>5, <2>6
  <2> HIDE DEF head, all
  <2> QED BY <1>5, <1>11, <2>6, <2>7, <2>8, <2>9
<1>14. ASSUME next > l PROVE ReadPair(s, p) = [p EXCEPT !.result = -1]
  <2>1. CASE l - at < a
    <3>1. n.size = 0
      BY <1>8, <2>1 DEF NoLength
    <3> QED BY <1>11, <3>1
  <2>2. CASE a <= l - at /\ l - (at + a) < b
    <3>1. n.size = a
      BY <1>8, <2>2
    <3>2. m.size = 0
      BY <1>9, <2>2, <3>1 DEF NoLength
    <3> QED BY <1>11, <3>2
  <2>3. CASE a <= l - at /\ b <= l - (at + a)
    <3>1. n.size = a /\ n.len = c
      BY <1>8, <2>3
    <3>2. m.size = b /\ m.len = d
      BY <1>9, <2>3, <3>1
    <3> HIDE DEF n, m
    <3>3. all = next
      BY <1>3, <1>5, <1>12, <3>1, <3>2 DEF at
    <3>4. l < all
      BY <1>3, <1>12, <1>14, <3>3
    <3> QED BY <1>11, <3>4
  <2>4. at \in Nat
    BY <1>5 DEF at
  <2> QED BY <1>3, <2>1, <2>2, <2>3, <2>4
<1> QED BY <1>12, <1>13, <1>14 DEF at, l, Taken, Failed

\* The pairs that a web server can write.
Writable(list) == list \in Seq(Pair) /\ \A i \in 1..Len(list) : Short31(list[i])

\* The bytes of the first j pairs, and how many they are.
Upto(list, wide, j) == Stream(SubSeq(list, 1, j), wide)
End(list, wide, j) == Len(Upto(list, wide, j))

\* The rounds that write the first j pairs.
Body(list, wide, j) ==
    [k \in 1..j |-> [s \in Seq(Bytes) |-> s \o PairBytes(SubSeq(list, 1, j)[k], wide)]]

\* The loop that writes them.
LEMMA BodyIs ==
    ASSUME NEW list, Writable(list), NEW wide \in BOOLEAN, NEW j \in 0..Len(list)
    PROVE  /\ Upto(list, wide, j) = For(j, Body(list, wide, j), <<>>)
           /\ Body(list, wide, j) \in [1..j -> [Seq(Bytes) -> Seq(Bytes)]]
           /\ \A k \in 1..j : \A s \in Seq(Bytes) :
                  Body(list, wide, j)[k][s] = s \o PairBytes(list[k], wide)
<1>1. list \in Seq(Pair) /\ Len(list) \in Nat /\ j \in Nat
      /\ \A i \in 1..j : i \in 1..Len(list) /\ list[i] \in Pair /\ Short31(list[i])
  BY DEF Writable
<1>2. Len(SubSeq(list, 1, j)) = j /\ \A k \in 1..j : SubSeq(list, 1, j)[k] = list[k]
  BY <1>1, HeadIs
<1>3. Upto(list, wide, j) = For(j, Body(list, wide, j), <<>>)
  BY <1>2 DEF Upto, Stream, Body
<1>4. \A k \in 1..j : \A s \in Seq(Bytes) :
          Body(list, wide, j)[k][s] = s \o PairBytes(list[k], wide)
  BY <1>2 DEF Body
<1>5. ASSUME NEW k \in 1..j PROVE Body(list, wide, j)[k] \in [Seq(Bytes) -> Seq(Bytes)]
  <2>1. PairBytes(list[k], wide) \in Seq(Bytes) /\ SubSeq(list, 1, j)[k] = list[k]
    BY <1>1, <1>2, PairIs
  <2>2. Body(list, wide, j)[k] = [s \in Seq(Bytes) |-> s \o PairBytes(list[k], wide)]
    BY <2>1 DEF Body
  <2>3. \A s \in Seq(Bytes) : s \o PairBytes(list[k], wide) \in Seq(Bytes)
    BY <2>1, ConcatIs
  <2> QED BY <2>2, <2>3
<1>6. Body(list, wide, j) = [k \in 1..j |-> Body(list, wide, j)[k]]
  BY DEF Body
<1> QED BY <1>3, <1>4, <1>5, <1>6

\* The bytes of j pairs are those of j - 1 and those of the last.
LEMMA UptoStep ==
    ASSUME NEW list, Writable(list), NEW wide \in BOOLEAN, NEW j \in 1..Len(list)
    PROVE  /\ Upto(list, wide, j - 1) \in Seq(Bytes)
           /\ Upto(list, wide, j) = Upto(list, wide, j - 1) \o PairBytes(list[j], wide)
<1> DEFINE body == Body(list, wide, j)
           most == Body(list, wide, j - 1)
<1>1. Len(list) \in Nat /\ j \in Nat /\ j # 0 /\ j \in 0..Len(list) /\ j - 1 \in 0..Len(list)
      /\ j \in 1..j
  BY DEF Writable
<1>2. /\ Upto(list, wide, j) = For(j, body, <<>>)
      /\ body \in [1..j -> [Seq(Bytes) -> Seq(Bytes)]]
      /\ \A k \in 1..j : \A s \in Seq(Bytes) : body[k][s] = s \o PairBytes(list[k], wide)
  BY <1>1, BodyIs, Zenon
<1>3. /\ Upto(list, wide, j - 1) = For(j - 1, most, <<>>)
      /\ most \in [1..j - 1 -> [Seq(Bytes) -> Seq(Bytes)]]
      /\ \A k \in 1..j - 1 : \A s \in Seq(Bytes) : most[k][s] = s \o PairBytes(list[k], wide)
  BY <1>1, BodyIs, Zenon
<1> HIDE DEF body, most
<1>4. \A k \in 1..j - 1 : \A s \in Seq(Bytes) : most[k][s] = body[k][s]
  <2>1. \A k \in 1..j - 1 : k \in 1..j
    BY <1>1
  <2> QED BY <1>2, <1>3, <2>1, Zenon
<1>5. <<>> \in Seq(Bytes)
  OBVIOUS
<1>6. For(j, body, <<>>) = body[j][For(j - 1, most, <<>>)] /\ For(j - 1, most, <<>>) \in Seq(Bytes)
  BY <1>1, <1>2, <1>3, <1>4, <1>5, ForStep
<1> QED BY <1>1, <1>2, <1>3, <1>6

\* No pairs have no bytes.
LEMMA UptoFirst ==
    ASSUME NEW list, Writable(list), NEW wide \in BOOLEAN
    PROVE  Upto(list, wide, 0) = <<>> /\ Len(list) \in Nat
<1>1. Len(list) \in Nat /\ 0 \in 0..Len(list) /\ 0 \in Nat
  BY DEF Writable
<1> DEFINE body == Body(list, wide, 0)
           I == [k \in 0..0 |-> {<<>>}]
<1>2. Upto(list, wide, 0) = For(0, body, <<>>) /\ body \in [1..0 -> [Seq(Bytes) -> Seq(Bytes)]]
  BY <1>1, BodyIs, Zenon
<1> HIDE DEF body
<1>3. I \in [0..0 -> SUBSET Seq(Bytes)] /\ <<>> \in I[0] /\ <<>> \in Seq(Bytes)
      /\ \A k \in 1..0 : \A x \in I[k - 1] : body[k][x] \in I[k]
  OBVIOUS
<1> HIDE DEF I
<1>4. For(0, body, <<>>) \in I[0]
  BY <1>1, <1>2, <1>3, ForRule
<1> QED BY <1>1, <1>2, <1>4 DEF I

\* The streams are one another's beginnings.
LEMMA Prefixes ==
    ASSUME NEW list, Writable(list), NEW wide \in BOOLEAN
    PROVE  \A m \in 0..Len(list) :
               /\ Upto(list, wide, m) \in Seq(Bytes) /\ End(list, wide, m) \in Nat
               /\ \A j \in 0..m : /\ j < m => End(list, wide, j) < End(list, wide, m)
                                  /\ End(list, wide, j) <= End(list, wide, m)
                                  /\ End(list, wide, j) \in Nat
                                  /\ \A i \in 1..End(list, wide, j) :
                                         Upto(list, wide, m)[i] = Upto(list, wide, j)[i]
<1> DEFINE U(m) == Upto(list, wide, m)
           E(m) == End(list, wide, m)
           Good(m) == /\ U(m) \in Seq(Bytes) /\ E(m) \in Nat
                      /\ \A j \in 0..m : /\ j < m => E(j) < E(m)
                                         /\ E(j) <= E(m)
                                         /\ E(j) \in Nat
                                         /\ \A i \in 1..E(j) : U(m)[i] = U(j)[i]
           T == {m \in Nat : m <= Len(list) => Good(m)}
<1>1. U(0) = <<>> /\ Len(list) \in Nat
  BY UptoFirst
<1>2. \A m : E(m) = Len(U(m))
  BY DEF End
<1>3. ASSUME NEW j \in 1..Len(list)
      PROVE  /\ U(j - 1) \in Seq(Bytes) /\ U(j) \in Seq(Bytes)
             /\ E(j - 1) \in Nat /\ E(j) \in Nat /\ E(j) > E(j - 1)
             /\ \A i \in 1..E(j - 1) : U(j)[i] = U(j - 1)[i]
  <2> DEFINE x == PairBytes(list[j], wide)
  <2>1. U(j - 1) \in Seq(Bytes) /\ U(j) = U(j - 1) \o x
    BY UptoStep
  <2>2. list[j] \in Pair /\ Short31(list[j])
    BY DEF Writable
  <2>3. x \in Seq(Bytes) /\ Len(x) > 0
    <3>1. PICK nb \in Seq(Bytes), vb \in Seq(Bytes) :
              Says(nb, Len(list[j][1])) /\ Laid(x, nb, vb, list[j][1], list[j][2])
      BY <2>2, PairIs
    <3>2. x \in Seq(Bytes)
      BY <2>2, PairIs
    <3> HIDE DEF x
    <3>3. Len(nb) = 1 \/ Len(nb) = 4
      BY <3>1 DEF Says
    <3> DEFINE a == Len(nb)
               b == Len(vb)
               c == Len(list[j][1])
               d == Len(list[j][2])
    <3>4. Len(x) = a + b + c + d /\ a \in Nat /\ b \in Nat /\ c \in Nat /\ d \in Nat
      BY <3>1 DEF Laid
    <3>5. a = 1 \/ a = 4
      BY <3>3
    <3> HIDE DEF a, b, c, d
    <3> QED BY <3>2, <3>4, <3>5
  <2> HIDE DEF x, U, E
  <2>4. /\ U(j) \in Seq(Bytes) /\ Len(U(j)) = Len(U(j - 1)) + Len(x)
        /\ Len(U(j - 1)) \in Nat /\ Len(x) \in Nat
        /\ \A i \in 1..Len(U(j - 1)) : U(j)[i] = U(j - 1)[i]
    BY <2>1, <2>3, ConcatIs
  <2> QED BY <1>2, <2>1, <2>3, <2>4
<1> HIDE DEF U, E
<1>4. 0 \in T
  <2>1. U(0) \in Seq(Bytes) /\ E(0) \in Nat
    <3>1. <<>> \in Seq(Bytes) /\ Len(<<>>) = 0 /\ 0 \in Nat
      OBVIOUS
    <3>2. E(0) = Len(U(0))
      BY <1>2
    <3> QED BY <1>1, <3>1, <3>2
  <2>2. Good(0)
    <3>1. \A j \in 0..0 : j = 0
      OBVIOUS
    <3> QED BY <2>1, <3>1
  <2> QED BY <2>2
<1>5. ASSUME NEW m \in T PROVE m + 1 \in T
  <2>1. m \in Nat
    BY <1>5
  <2> SUFFICES ASSUME m + 1 <= Len(list) PROVE Good(m + 1)
    BY <2>1
  <2>2. Good(m) /\ m + 1 \in 1..Len(list) /\ (m + 1) - 1 = m
    BY <1>1, <1>5, <2>1
  <2>3. /\ U(m + 1) \in Seq(Bytes)
        /\ E(m) \in Nat /\ E(m + 1) \in Nat /\ E(m + 1) > E(m)
        /\ \A i \in 1..E(m) : U(m + 1)[i] = U(m)[i]
    BY <1>3, <2>2
  <2>4. ASSUME NEW j \in 0..m + 1
        PROVE  /\ j < m + 1 => E(j) < E(m + 1)
               /\ E(j) <= E(m + 1) /\ E(j) \in Nat
               /\ \A i \in 1..E(j) : U(m + 1)[i] = U(j)[i]
    <3>1. CASE j = m + 1
      BY <2>1, <2>3, <3>1
    <3>2. CASE j \in 0..m
      <4>1. E(j) <= E(m) /\ E(j) \in Nat /\ \A i \in 1..E(j) : U(m)[i] = U(j)[i]
        BY <2>2, <3>2
      <4>2. \A i \in 1..E(j) : i \in 1..E(m)
        BY <2>3, <4>1
      <4> QED BY <2>3, <4>1, <4>2
    <3> QED BY <2>1, <3>1, <3>2
  <2> QED BY <2>3, <2>4
<1>6. T \in SUBSET Nat
  OBVIOUS
<1> HIDE DEF T
<1>7. T = Nat
  BY <1>4, <1>5, <1>6, SetInduction
<1>8. \A m \in 0..Len(list) : Good(m)
  <2> HIDE DEF Good
  <2> QED BY <1>1, <1>7 DEF T
<1> QED BY <1>8 DEF U, E

\* ReadParams takes the pairs that the stream, cut off, holds as a whole.
LEMMA ReadParamsIs ==
    ASSUME NEW list, Writable(list), NEW wide \in BOOLEAN,
           NEW cut \in 0..End(list, wide, Len(list))
    PROVE  LET r == ReadParams(SubSeq(Upto(list, wide, Len(list)), 1, cut))
           IN  \E j \in 0..Len(list) :
                   /\ End(list, wide, j) <= cut
                   /\ \A m \in j + 1..Len(list) : End(list, wide, m) > cut
                   /\ r.pairs = SubSeq(list, 1, j)
                   /\ r.result = IF End(list, wide, j) = cut THEN 0 ELSE -1
<1> DEFINE n == Len(list)
           U(m) == Upto(list, wide, m)
           E(m) == End(list, wide, m)
           s == U(n)
           c == SubSeq(s, 1, cut)
<1>1. n \in Nat /\ list \in Seq(Pair) /\ (\A i \in 1..n : list[i] \in Pair /\ Short31(list[i]))
  BY DEF Writable
<1>2. \A m \in 0..n :
          /\ U(m) \in Seq(Bytes) /\ E(m) \in Nat
          /\ \A j \in 0..m : /\ j < m => E(j) < E(m)
                             /\ E(j) <= E(m) /\ E(j) \in Nat
                             /\ \A i \in 1..E(j) : U(m)[i] = U(j)[i]
  BY Prefixes, Zenon
<1>3. \A j \in 1..n : U(j - 1) \in Seq(Bytes) /\ U(j) = U(j - 1) \o PairBytes(list[j], wide)
  BY UptoStep, Zenon
<1>4. E(0) = 0
  <2>1. Upto(list, wide, 0) = <<>> /\ Len(<<>>) = 0
    BY UptoFirst
  <2> QED BY <2>1 DEF End
<1>5. \A m : E(m) = Len(U(m))
  BY DEF End
<1>6. cut \in 0..E(n)
  OBVIOUS
<1> HIDE DEF U, E, n
<1>7. s \in Seq(Bytes) /\ cut \in 0..Len(s) /\ cut \in Nat
  <2>1. n \in 0..n
    BY <1>1
  <2>2. s \in Seq(Bytes) /\ E(n) \in Nat
    BY <1>2, <2>1
  <2> QED BY <1>5, <1>6, <2>2
<1>8. c \in Seq(Bytes) /\ Len(c) = cut /\ \A i \in 1..cut : c[i] = s[i]
  <2> HIDE DEF s
  <2> QED BY <1>7, HeadIs
<1> HIDE DEF c
<1> DEFINE body == [p \in Params(c) |-> ReadPair(c, p)]
           IsAt(p, j) == /\ p.at = E(j) /\ E(j) <= cut /\ p.pairs = SubSeq(list, 1, j)
                         /\ p.result = -1 => j < n /\ E(j) < cut /\ cut < E(j + 1)
           I == {p \in Params(c) : \E j \in 0..n : IsAt(p, j)}
           mu == [p \in I |-> (cut - p.at) + (1 + p.result)]
           first == [at |-> 0, pairs |-> <<>>, result |-> 0]
<1>9. body \in [Params(c) -> Params(c)] /\ I \in SUBSET Params(c)
  <2>1. \A p \in Params(c) : ReadPair(c, p) \in Params(c)
    BY <1>8, ReadPairType
  <2> QED BY <2>1
<1>10. first \in I
  <2>1. first \in Params(c)
    BY <1>7, <1>8 DEF Params
  <2>2. SubSeq(list, 1, 0) = <<>>
    BY SubSeqEmpty
  <2>3. IsAt(first, 0) /\ 0 \in 0..n
    BY <1>1, <1>4, <1>7, <2>2
  <2> HIDE DEF first
  <2> QED BY <2>1, <2>3
<1>11. \A p \in Params(c) : /\ p.at \in Nat /\ p.at <= cut /\ p.result \in {0, -1}
                            /\ p.pairs \in Seq(Pair)
  BY <1>7, <1>8 DEF Params, Pair
<1>12. mu \in [I -> Nat] /\ \A p \in I : mu[p] = (cut - p.at) + (1 + p.result)
  <2>1. ASSUME NEW p \in I PROVE (cut - p.at) + (1 + p.result) \in Nat
    <3>1. p \in Params(c)
      OBVIOUS
    <3> HIDE DEF I
    <3> QED BY <1>7, <1>11, <3>1
  <2> HIDE DEF I
  <2> QED BY <2>1
<1>13. ASSUME NEW p \in Params(c), NEW j \in 0..n, IsAt(p, j), p.result = 0, E(j) # cut
       PROVE  /\ j + 1 \in 1..n
              /\ E(j + 1) <= cut =>
                     body[p] = [p EXCEPT !.at = E(j + 1), !.pairs = SubSeq(list, 1, j + 1)]
              /\ E(j + 1) > cut => body[p] = [p EXCEPT !.result = -1]
              /\ E(j + 1) \in Nat /\ E(j) \in Nat /\ E(j) < E(j + 1)
  <2>1. p.at = E(j) /\ E(j) <= cut /\ p.pairs = SubSeq(list, 1, j)
    BY <1>13
  <2>2. j \in Nat /\ E(j) \in Nat
    BY <1>1, <1>2
  <2>3. j # n
    BY <1>6, <1>13, <2>1, <2>2
  <2>4. j + 1 \in 1..n /\ j + 1 \in 0..n /\ (j + 1) - 1 = j /\ n \in 0..n /\ j \in 0..j + 1
    BY <1>1, <2>2, <2>3
  <2> DEFINE pair == list[j + 1]
             x == PairBytes(pair, wide)
  <2>5. pair \in Pair /\ Short31(pair) /\ U(j) \in Seq(Bytes) /\ U(j + 1) = U(j) \o x
    BY <1>1, <1>3, <2>4
  <2>6. x \in Seq(Bytes)
    BY <2>5, PairIs
  <2>7. /\ Len(U(j + 1)) = Len(U(j)) + Len(x) /\ Len(x) \in Nat
        /\ \A i \in 1..Len(x) : U(j + 1)[Len(U(j)) + i] = x[i]
    <3> HIDE DEF x, pair
    <3> QED BY <2>5, <2>6, ConcatIs
  <2>8. E(j + 1) = E(j) + Len(x) /\ E(j + 1) \in Nat
    <3> HIDE DEF x, pair
    <3>1. E(j + 1) = Len(U(j + 1)) /\ E(j) = Len(U(j))
      BY <1>5
    <3> QED BY <2>2, <2>7, <3>1
  <2> HIDE DEF pair
  <2>9. Lies(x, c, p.at)
    <3> SUFFICES ASSUME NEW i \in 1..Len(x), p.at + i <= Len(c) PROVE c[p.at + i] = x[i]
      BY DEF Lies
    <3> HIDE DEF x
    <3>1. E(j) + i \in 1..cut /\ E(j) + i \in 1..E(j + 1)
      BY <1>7, <1>8, <2>1, <2>2, <2>7, <2>8
    <3>2. c[E(j) + i] = s[E(j) + i]
      BY <1>8, <3>1
    <3>3. s[E(j) + i] = U(j + 1)[E(j) + i]
      BY <1>2, <2>4, <3>1
    <3>4. U(j + 1)[E(j) + i] = x[i]
      BY <1>5, <2>7
    <3> QED BY <2>1, <3>2, <3>3, <3>4
  <2>10. p.at < Len(c)
    BY <1>7, <1>8, <1>13, <2>1, <2>2
  <2> DEFINE next == p.at + Len(x)
  <2>11. /\ next \in Nat /\ next > p.at
         /\ next <= Len(c) => ReadPair(c, p) = Taken(p, next, pair)
         /\ next > Len(c) => ReadPair(c, p) = Failed(p)
    <3>1. c \in Seq(Bytes) /\ p \in Params(c) /\ p.result = 0
      BY <1>8, <1>13
    <3>2. next = p.at + Len(x)
      OBVIOUS
    <3> HIDE DEF next
    <3> QED BY <2>5, <2>9, <2>10, <3>1, <3>2, ReadPairIs, Zenon
  <2>12. body[p] = ReadPair(c, p)
    BY <1>13
  <2>13. Append(p.pairs, pair) = SubSeq(list, 1, j + 1)
    <3> DEFINE a == SubSeq(list, 1, j)
               b == SubSeq(list, 1, j + 1)
               d == Append(a, pair)
    <3>1. a \in Seq(Pair) /\ Len(a) = j /\ \A i \in 1..j : a[i] = list[i]
      BY <1>1, HeadIs DEF n
    <3>2. b \in Seq(Pair) /\ Len(b) = j + 1 /\ \A i \in 1..j + 1 : b[i] = list[i]
      BY <1>1, <2>4, HeadIs DEF n
    <3> HIDE DEF a, b
    <3>3. d \in Seq(Pair) /\ Len(d) = j + 1 /\ (\A i \in 1..j : d[i] = a[i]) /\ d[j + 1] = pair
      BY <2>2, <2>5, <3>1
    <3> HIDE DEF d
    <3>4. \A i \in 1..j + 1 : i \in 1..j \/ i = j + 1
      BY <2>2
    <3>5. \A i \in 1..j + 1 : d[i] = b[i]
      BY <3>1, <3>2, <3>3, <3>4 DEF pair
    <3>6. d = b
      BY <3>2, <3>3, <3>5, SeqEqual
    <3> QED BY <2>1, <3>6 DEF a, b, d
  <2>14. next = E(j + 1)
    BY <2>1, <2>8
  <2> HIDE DEF x, body, IsAt, next
  <2> QED BY <1>8, <2>1, <2>2, <2>4, <2>8, <2>11, <2>12, <2>13, <2>14 DEF Taken, Failed
<1>14. ASSUME NEW p \in I PROVE body[p] = p \/ (body[p] \in I /\ mu[body[p]] < mu[p])
  <2>1. p \in Params(c)
    OBVIOUS
  <2>2. PICK j \in 0..n : IsAt(p, j)
    OBVIOUS
  <2>3. p.at = E(j) /\ p.pairs = SubSeq(list, 1, j) /\ body[p] \in Params(c)
    BY <1>9, <2>1, <2>2
  <2>4. p = [at |-> p.at, pairs |-> p.pairs, result |-> p.result]
    BY <2>1 DEF Params
  <2>5. CASE p.at = cut \/ p.result = -1
    BY <1>8, <2>1, <2>5 DEF ReadPair
  <2>6. CASE p.at # cut /\ p.result = 0
    <3>1. /\ j + 1 \in 1..n
          /\ E(j + 1) <= cut =>
                 body[p] = [p EXCEPT !.at = E(j + 1), !.pairs = SubSeq(list, 1, j + 1)]
          /\ E(j + 1) > cut => body[p] = [p EXCEPT !.result = -1]
          /\ E(j + 1) \in Nat /\ E(j) \in Nat /\ E(j) < E(j + 1)
      BY <1>13, <2>1, <2>2, <2>3, <2>6
    <3> DEFINE q == body[p]
    <3> HIDE DEF body
    <3>2. CASE E(j + 1) <= cut
      <4>1. q.at = E(j + 1) /\ q.pairs = SubSeq(list, 1, j + 1) /\ q.result = 0
        BY <2>4, <2>6, <3>1, <3>2
      <4>2. IsAt(q, j + 1) /\ j + 1 \in 0..n
        BY <3>1, <3>2, <4>1
      <4>3. q \in I
        BY <2>3, <4>2
      <4>4. mu[q] = (cut - q.at) + (1 + q.result) /\ mu[p] = (cut - p.at) + (1 + p.result)
        BY <1>12, <4>3
      <4> HIDE DEF q, mu, I
      <4>5. mu[q] < mu[p]
        BY <1>7, <2>3, <2>6, <3>1, <4>1, <4>4
      <4> QED BY <4>3, <4>5 DEF q
    <3>3. CASE E(j + 1) > cut
      <4>1. q.at = E(j) /\ q.pairs = SubSeq(list, 1, j) /\ q.result = -1
        BY <2>3, <2>4, <3>1, <3>3
      <4>2. IsAt(q, j)
        <5>1. j < n /\ E(j) <= cut /\ E(j) # cut
          BY <1>1, <2>2, <2>3, <2>6, <3>1
        <5>2. E(j) < cut /\ cut < E(j + 1)
          BY <1>7, <3>1, <3>3, <5>1
        <5> QED BY <4>1, <5>1, <5>2
      <4>3. q \in I
        BY <2>3, <4>2
      <4>4. mu[q] = (cut - q.at) + (1 + q.result) /\ mu[p] = (cut - p.at) + (1 + p.result)
        BY <1>12, <4>3
      <4> HIDE DEF q, mu, I
      <4>5. mu[q] < mu[p]
        BY <1>7, <2>3, <2>6, <3>1, <4>1, <4>4
      <4> QED BY <4>3, <4>5 DEF q
    <3>4. E(j + 1) <= cut \/ E(j + 1) > cut
      BY <1>7, <3>1
    <3> HIDE DEF I, mu, q
    <3> QED BY <3>2, <3>3, <3>4 DEF q
  <2>7. p.result \in {0, -1}
    BY <1>11, <2>1
  <2> QED BY <2>5, <2>6, <2>7
<1> DEFINE r == While(body, first)
<1>15. r \in I /\ body[r] = r
  <2> HIDE DEF body, I, mu, first
  <2> QED BY <1>9, <1>10, <1>12, <1>14, WhileRule
<1>16. ReadParams(c) = r
  BY DEF ReadParams
<1> HIDE DEF r
<1>17. PICK j \in 0..n : IsAt(r, j)
  BY <1>15
<1>18. r \in Params(c)
  BY <1>15
<1> HIDE DEF I, mu, first
<1>19. ASSUME r.result = 0 PROVE E(j) = cut
  <2> SUFFICES ASSUME E(j) # cut PROVE FALSE
    OBVIOUS
  <2>1. /\ E(j + 1) <= cut =>
               body[r] = [r EXCEPT !.at = E(j + 1), !.pairs = SubSeq(list, 1, j + 1)]
        /\ E(j + 1) > cut => body[r] = [r EXCEPT !.result = -1]
        /\ E(j + 1) \in Nat /\ E(j) \in Nat /\ E(j) < E(j + 1)
    BY <1>13, <1>17, <1>18, <1>19
  <2>2. r.at = E(j)
    BY <1>17
  <2>3. r = [at |-> r.at, pairs |-> r.pairs, result |-> r.result]
    BY <1>18 DEF Params
  <2> HIDE DEF body, IsAt
  <2>4. CASE E(j + 1) <= cut
    <3>1. r.at = E(j + 1)
      BY <1>15, <2>1, <2>3, <2>4
    <3> QED BY <2>1, <2>2, <3>1
  <2>5. CASE E(j + 1) > cut
    <3>1. r.result = -1
      BY <1>15, <2>1, <2>3, <2>5
    <3> QED BY <1>19, <3>1
  <2> QED BY <1>7, <2>1, <2>4, <2>5
<1>20. r.result \in {0, -1} /\ E(j) <= cut /\ r.pairs = SubSeq(list, 1, j)
       /\ (r.result = -1 => j < n /\ E(j) < cut /\ cut < E(j + 1))
  BY <1>11, <1>17, <1>18
<1> HIDE DEF body, IsAt
<1>21. ASSUME NEW m \in j + 1..n PROVE E(m) > cut
  <2>1. j \in Nat /\ m \in 0..n /\ j \in 0..m /\ j < m
    BY <1>1, <1>17
  <2>2. E(j) < E(m) /\ E(j) \in Nat /\ E(m) \in Nat
    BY <1>2, <2>1
  <2>3. CASE r.result = 0
    BY <1>19, <2>2, <2>3
  <2>4. CASE r.result = -1
    <3>1. j + 1 \in 0..m /\ j + 1 \in Nat
      BY <2>1
    <3>2. E(j + 1) <= E(m) /\ E(j + 1) \in Nat
      BY <1>2, <2>1, <3>1
    <3> QED BY <1>7, <1>20, <2>2, <2>4, <3>2
  <2> QED BY <1>20, <2>3, <2>4
<1>22. r.result = IF E(j) = cut THEN 0 ELSE -1
  <2>1. j \in 0..n /\ E(j) \in Nat
    BY <1>1, <1>2
  <2>2. CASE r.result = 0
    BY <1>19, <2>2
  <2>3. CASE r.result = -1
    BY <1>7, <1>20, <2>1, <2>3
  <2> QED BY <1>20, <2>2, <2>3
<1>23. \E k \in 0..n : /\ E(k) <= cut /\ \A m \in k + 1..n : E(m) > cut
                       /\ r.pairs = SubSeq(list, 1, k)
                       /\ r.result = IF E(k) = cut THEN 0 ELSE -1
  BY <1>17, <1>20, <1>21, <1>22
<1> QED BY <1>16, <1>23, Zenon DEF E, n, c, s, U

\* The number of whole pairs in a stream that is cut off.
Whole(list, wide, cut) ==
    CHOOSE n \in 0..Len(list) :
        End(list, wide, n) <= cut /\ \A m \in n + 1..Len(list) : End(list, wide, m) > cut

\* There is only one such number.
LEMMA WholeIs ==
    ASSUME NEW list, Writable(list), NEW wide \in BOOLEAN, NEW cut \in Nat,
           NEW j \in 0..Len(list), End(list, wide, j) <= cut,
           \A m \in j + 1..Len(list) : End(list, wide, m) > cut
    PROVE  Whole(list, wide, cut) = j
<1> DEFINE n == Len(list)
           E(m) == End(list, wide, m)
           w == Whole(list, wide, cut)
<1>1. n \in Nat
  BY DEF Writable
<1>2. \A m \in 0..n : E(m) \in Nat
  BY Prefixes
<1>3. w \in 0..n /\ E(w) <= cut /\ \A m \in w + 1..n : E(m) > cut
  BY DEF Whole
<1>4. j \in 0..n /\ E(j) <= cut /\ \A m \in j + 1..n : E(m) > cut
  OBVIOUS
<1> HIDE DEF n, E, w
<1>5. E(w) \in Nat /\ E(j) \in Nat
  BY <1>2, <1>3, <1>4
<1>6. ~(w < j)
  <2>1. w < j => j \in w + 1..n
    BY <1>1, <1>3, <1>4
  <2> QED BY <1>3, <1>4, <1>5, <2>1
<1>7. ~(j < w)
  <2>1. j < w => w \in j + 1..n
    BY <1>1, <1>3, <1>4
  <2> QED BY <1>3, <1>4, <1>5, <2>1
<1>8. w = j
  BY <1>1, <1>3, <1>4, <1>6, <1>7
<1> QED BY <1>8 DEF w

\* What a call of ReadParams leaves.
LEMMA PairsKept == ASSUME Next, Called("ReadParams")' PROVE PairsAreRead'
<1>1. CallReadParams
  BY OnlyCall
<1>a. PICK list \in Lists, wide \in BOOLEAN :
          LET s == Stream(list, wide)
          IN  \E cut \in 0..Len(s) :
                  Call([fn |-> "ReadParams", list |-> list, wide |-> wide, cut |-> cut],
                       ReadParams(SubSeq(s, 1, cut)))
  BY <1>1 DEF CallReadParams
<1>2. PICK cut \in 0..Len(Stream(list, wide)) :
          Call([fn |-> "ReadParams", list |-> list, wide |-> wide, cut |-> cut],
               ReadParams(SubSeq(Stream(list, wide), 1, cut)))
  BY <1>a
<1>3. /\ call'.list = list /\ call'.wide = wide /\ call'.cut = cut
      /\ result' = ReadParams(SubSeq(Stream(list, wide), 1, cut))
  BY <1>2 DEF Call
<1>4. Writable(list)
  BY AlgorithmsAssumption DEF Writable, Pair, Short31
<1>5. Upto(list, wide, Len(list)) = Stream(list, wide)
  <2>1. list \in Seq(Pair)
    BY <1>4 DEF Writable
  <2>2. SubSeq(list, 1, Len(list)) = list
    BY <2>1, SubSeqFull
  <2> QED BY <2>2 DEF Upto
<1>6. cut \in 0..End(list, wide, Len(list))
  BY <1>5 DEF End
<1>7. PICK j \in 0..Len(list) :
          /\ End(list, wide, j) <= cut
          /\ \A m \in j + 1..Len(list) : End(list, wide, m) > cut
          /\ result'.pairs = SubSeq(list, 1, j)
          /\ result'.result = IF End(list, wide, j) = cut THEN 0 ELSE -1
  BY <1>3, <1>4, <1>5, <1>6, ReadParamsIs
<1>8. cut \in Nat
  OBVIOUS
<1>9. Whole(list, wide, cut) = j
  BY <1>4, <1>7, <1>8, WholeIs, Zenon
<1>10. /\ result'.pairs = SubSeq(list, 1, Whole(list, wide, cut))
       /\ result'.result = IF End(list, wide, Whole(list, wide, cut)) = cut THEN 0 ELSE -1
  BY <1>7, <1>9
<1> QED BY <1>3, <1>10, Zenon DEF PairsAreRead, Whole, End, Upto

\* The parameters are those that the web server sent: ReadParams takes the pairs of the stream
\* and tells one that ends within a pair, and FCGX_GetParam finds the first value of a name,
\* for every list of pairs, both forms of length and every place where the stream ends.
THEOREM ParametersAreThose == Spec => []ParamsAreThose
<1>1. Init => ParamsAreThose
  <2>1. Init => ~Called("ReadParams") /\ ~Called("GetParam")
    BY DEF Init, Called
  <2> QED BY <2>1, Zenon DEF ParamsAreThose, PairsAreRead, FirstIsFound
<1>2. ParamsAreThose /\ [Next]_vars => ParamsAreThose'
  <2> SUFFICES ASSUME ParamsAreThose, [Next]_vars PROVE ParamsAreThose'
    OBVIOUS
  <2>1. CASE UNCHANGED vars
    <3>1. call' = call /\ result' = result
      BY <2>1 DEF vars
    <3>2. PairsAreRead'
      BY <3>1, Zenon DEF ParamsAreThose, PairsAreRead, Called
    <3>3. FirstIsFound'
      BY <3>1, Zenon DEF ParamsAreThose, FirstIsFound, Called
    <3> QED BY <3>2, <3>3 DEF ParamsAreThose
  <2>2. CASE Next
    <3>1. PairsAreRead'
      <4>1. CASE Called("ReadParams")'
        BY <2>2, <4>1, PairsKept
      <4>2. CASE ~Called("ReadParams")'
        BY <4>2, Zenon DEF PairsAreRead
      <4> QED BY <4>1, <4>2
    <3>2. FirstIsFound'
      <4>1. CASE Called("GetParam")'
        BY <2>2, <4>1, ValueKept
      <4>2. CASE ~Called("GetParam")'
        BY <4>2, Zenon DEF FirstIsFound
      <4> QED BY <4>1, <4>2
    <3> QED BY <3>1, <3>2 DEF ParamsAreThose
  <2> QED BY <2>1, <2>2
<1> QED BY <1>1, <1>2, PTL DEF Spec

-----------------------------------------------------------------------------
(* What a loop over the places of a text builds *)

\* What becomes of a text from each place p on: put[p], and what becomes of the rest
\* after the skip[p] characters that it stands for.
Steps(l, skip) ==
    /\ l \in Nat /\ skip \in [0..l - 1 -> Nat]
    /\ \A p \in 0..l - 1 : skip[p] >= 1 /\ p + skip[p] <= l

\* f[p] is what becomes of the text from p on.
Builds(f, l, skip, put) == f[l] = <<>> /\ \A p \in 0..l - 1 : f[p] = put[p] \o f[p + skip[p]]

Built(f, C, l, skip, put) == f \in [0..l -> Seq(C)] /\ Builds(f, l, skip, put)

\* Putting texts together is associative.
LEMMA Regrouped == \A a, b, c \in Seq(Chars) : (a \o b) \o c = a \o (b \o c)
<1> TAKE a, b, c \in Seq(Chars)
<1> QED BY ConcatAssociative

\* There is such a function.
LEMMA BuiltExists ==
    \A C, l, skip, put :
        Steps(l, skip) /\ put \in [0..l - 1 -> Seq(C)] => \E f : Built(f, C, l, skip, put)
<1> SUFFICES ASSUME NEW C, NEW l, NEW skip, NEW put, Steps(l, skip), put \in [0..l - 1 -> Seq(C)]
             PROVE  \E f : Built(f, C, l, skip, put)
  OBVIOUS
<1> DEFINE S == 0..l
           mu == [p \in S |-> l - p]
           next == [p \in S |-> IF p = l THEN l ELSE p + skip[p]]
           piece == [p \in S |-> IF p = l THEN <<>> ELSE put[p]]
<1>1. l \in Nat
  BY DEF Steps
<1>2. \A p \in 0..l - 1 : /\ skip[p] \in Nat /\ skip[p] >= 1 /\ p + skip[p] <= l
                          /\ put[p] \in Seq(C)
  BY DEF Steps
<1>3. mu \in [S -> Nat]
  BY <1>1
<1>4. next \in [S -> S]
  <2>1. ASSUME NEW p \in S, p # l PROVE p + skip[p] \in S
    <3>1. p \in 0..l - 1
      BY <1>1, <2>1
    <3> QED BY <1>1, <1>2, <3>1
  <2> QED BY <1>1, <2>1
<1>5. piece \in [S -> Seq(C)]
  <2>1. ASSUME NEW p \in S, p # l PROVE put[p] \in Seq(C)
    <3>1. p \in 0..l - 1
      BY <1>1, <2>1
    <3> QED BY <1>2, <3>1
  <2> QED BY <2>1
<1>6. \A p \in S : mu[p] # 0 => mu[next[p]] < mu[p]
  <2> TAKE p \in S
  <2> HAVE mu[p] # 0
  <2>1. p \in 0..l - 1 /\ p # l
    BY <1>1
  <2>2. next[p] = p + skip[p] /\ next[p] \in S
    BY <1>4, <2>1
  <2>3. mu[p] = l - p /\ mu[next[p]] = l - (p + skip[p])
    BY <2>2
  <2> HIDE DEF mu, next
  <2> QED BY <1>1, <1>2, <2>1, <2>3
<1>7. \A p \in S : mu[p] = 0 <=> p = l
  BY <1>1
<1>8. \A p \in S : p # l => next[p] = p + skip[p] /\ piece[p] = put[p]
  OBVIOUS
<1> HIDE DEF S, mu, next, piece
<1>9. \E f : Unrolls(f, S, C, next, piece, mu)
  <2>1. Descends(S, C, next, piece, mu)
    BY <1>3, <1>4, <1>5, <1>6 DEF Descends
  <2> QED BY <2>1, Unrolled, Zenon
<1>10. PICK f : Unrolls(f, S, C, next, piece, mu)
  BY <1>9
<1>11. /\ f \in [S -> Seq(C)]
       /\ \A p \in S : f[p] = IF mu[p] = 0 THEN <<>> ELSE piece[p] \o f[next[p]]
  BY <1>10 DEF Unrolls
<1>12. \A p \in S : f[p] = IF p = l THEN <<>> ELSE put[p] \o f[p + skip[p]]
  <2> TAKE p \in S
  <2>1. f[p] = IF mu[p] = 0 THEN <<>> ELSE piece[p] \o f[next[p]]
    BY <1>11
  <2> QED BY <1>7, <1>8, <2>1
<1>13. l \in S /\ \A p \in 0..l - 1 : p \in S /\ p # l
  BY <1>1 DEF S
<1>14. f[l] = <<>> /\ \A p \in 0..l - 1 : f[p] = put[p] \o f[p + skip[p]]
  BY <1>12, <1>13
<1>15. Built(f, C, l, skip, put)
  BY <1>11, <1>14 DEF Built, Builds, S
<1> QED BY <1>15

\* f and g are the same at every place.
Agree(f, g, l) == \A p \in 0..l : f[p] = g[p]

\* There is only one.
LEMMA BuiltOnce ==
    \A l, skip, put, f, g :
        Steps(l, skip) /\ Builds(f, l, skip, put) /\ Builds(g, l, skip, put)
            => Agree(f, g, l)
<1> SUFFICES ASSUME NEW l, NEW skip, NEW put, NEW f, NEW g,
                    Steps(l, skip), Builds(f, l, skip, put), Builds(g, l, skip, put)
             PROVE  \A p \in 0..l : f[p] = g[p]
  BY DEF Agree
<1> DEFINE B == {n \in Nat : n <= l /\ f[l - n] # g[l - n]}
<1>1. l \in Nat
  BY DEF Steps
<1>2. B = {}
  <2> SUFFICES ASSUME B # {} PROVE FALSE
    OBVIOUS
  <2>1. PICK n \in B : \A m \in B : n <= m
    <3>1. B \in SUBSET Nat
      OBVIOUS
    <3> HIDE DEF B
    <3> QED BY <3>1, LeastNumber
  <2> DEFINE p == l - n
             q == p + skip[p]
             m == l - q
  <2>2. n \in Nat /\ n <= l /\ f[p] # g[p]
    BY <2>1
  <2>3. n # 0
    <3>1. f[l] = g[l]
      BY DEF Builds
    <3>2. n = 0 => p = l
      BY <1>1
    <3> QED BY <2>2, <3>1, <3>2
  <2>4. p \in 0..l - 1
    BY <1>1, <2>2, <2>3
  <2> HIDE DEF p
  <2>5. skip[p] \in Nat /\ skip[p] >= 1 /\ p + skip[p] <= l
    BY <2>4 DEF Steps
  <2>6. m \in Nat /\ m <= l /\ m < n /\ l - m = q
    BY <1>1, <2>2, <2>4, <2>5 DEF p
  <2>7. f[p] = put[p] \o f[q] /\ g[p] = put[p] \o g[q]
    BY <2>4 DEF Builds
  <2>8. m \notin B
    <3> HIDE DEF B, m
    <3> QED BY <2>1, <2>2, <2>6
  <2>9. f[q] = g[q]
    BY <2>6, <2>8
  <2> QED BY <2>2, <2>7, <2>9
<1>3. ASSUME NEW p \in 0..l PROVE f[p] = g[p]
  <2>1. l - p \in Nat /\ l - p <= l /\ l - (l - p) = p
    BY <1>1
  <2> QED BY <1>2, <2>1
<1> QED BY <1>3

\* The text from q on is a piece of d characters and the rest.
Splits(C, text, q, d) ==
    /\ Piece(text, q, d) \in Seq(C) /\ Len(Piece(text, q, d)) = d
    /\ \A i \in 1..d : Piece(text, q, d)[i] = text[q + i]
    /\ Piece(text, q, d) \o From(text, q + d) = From(text, q)

\* It is for every d within the text.
LEMMA PieceAndTail ==
    ASSUME NEW C, NEW text \in Seq(C), NEW q \in Nat, NEW d \in Nat, q + d <= Len(text)
    PROVE  Splits(C, text, q, d)
<1> DEFINE l == Len(text)
           e == q + d
           a == From(text, q)
           b == From(text, e)
           h == Piece(text, q, d)
<1>1. /\ l \in Nat /\ e \in Nat /\ q <= e /\ e <= l /\ e - q = d
      /\ q \in 0..Len(text) /\ e \in 0..Len(text)
  OBVIOUS
<1>2. /\ a \in Seq(C) /\ Len(a) = l - q /\ \A i \in 1..l - q : a[i] = text[q + i]
  BY <1>1, TailIs
<1>3. /\ b \in Seq(C) /\ Len(b) = l - e /\ \A i \in 1..l - e : b[i] = text[e + i]
  BY <1>1, TailIs
<1>4. h \in Seq(C) /\ Len(h) = d /\ \A i \in 1..d : h[i] = text[q + i]
  <2>1. h = SubSeq(text, q + 1, e)
    BY DEF Piece
  <2>2. e \in Nat /\ q <= e /\ e <= Len(text)
    BY <1>1
  <2> HIDE DEF e, l, h
  <2>3. SubSeq(text, q + 1, e) \in Seq(C) /\ Len(SubSeq(text, q + 1, e)) = e - q
        /\ \A i \in 1..e - q : SubSeq(text, q + 1, e)[i] = text[q + i]
    BY <2>2, MidIs
  <2> QED BY <1>1, <2>1, <2>3
<1>5. e = q + d
  OBVIOUS
<1> HIDE DEF a, b, h, l, e
<1>6. h \in Seq(C) /\ b \in Seq(C)
  BY <1>3, <1>4
<1>7. /\ h \o b \in Seq(C) /\ Len(h \o b) = Len(h) + Len(b)
      /\ \A i \in 1..Len(h) : (h \o b)[i] = h[i]
      /\ \A i \in 1..Len(b) : (h \o b)[Len(h) + i] = b[i]
  BY <1>6, ConcatIs
<1>8. ASSUME NEW i \in 1..l - q PROVE (h \o b)[i] = a[i]
  <2>1. CASE i <= d
    <3>1. i \in 1..Len(h) /\ i \in 1..d
      BY <1>4, <1>8, <2>1
    <3> QED BY <1>2, <1>4, <1>7, <1>8, <3>1
  <2>2. CASE ~(i <= d)
    <3>1. i - d \in 1..Len(b) /\ d + (i - d) = i /\ e + (i - d) = q + i /\ i - d \in 1..l - e
      BY <1>1, <1>3, <1>5, <1>8, <2>2
    <3>2. (h \o b)[d + (i - d)] = b[i - d]
      BY <1>4, <1>7, <3>1
    <3> QED BY <1>2, <1>3, <1>8, <3>1, <3>2
  <2> QED BY <2>1, <2>2
<1>9. Len(h \o b) = Len(a)
  BY <1>1, <1>2, <1>3, <1>4, <1>5, <1>7
<1>10. h \o b = a
  <2>1. \A i \in 1..Len(h \o b) : (h \o b)[i] = a[i]
    BY <1>2, <1>8, <1>9
  <2> DEFINE hb == h \o b
  <2>2. hb \in Seq(C) /\ a \in Seq(C) /\ Len(hb) = Len(a) /\ \A i \in 1..Len(hb) : hb[i] = a[i]
    BY <1>2, <1>7, <1>9, <2>1
  <2> HIDE DEF hb
  <2>3. hb = a
    BY <2>2, SeqEqual
  <2> QED BY <2>3 DEF hb
<1> QED BY <1>4, <1>10 DEF Splits, a, b, h, e

\* A piece of one character is the character.
LEMMA PieceOne ==
    ASSUME NEW C, NEW text \in Seq(C), NEW q \in 0..Len(text) - 1
    PROVE  Piece(text, q, 1) = <<At(text, q)>>
<1> DEFINE x == Piece(text, q, 1)
           y == <<At(text, q)>>
<1>1. q \in Nat /\ 1 \in Nat /\ q + 1 <= Len(text) /\ q + 1 \in 1..Len(text) /\ 1 \in 1..1
  OBVIOUS
<1>2. x \in Seq(C) /\ Len(x) = 1 /\ \A i \in 1..1 : x[i] = text[q + i]
  <2>1. Splits(C, text, q, 1)
    BY <1>1, PieceAndTail, Zenon
  <2> QED BY <2>1 DEF Splits
<1>3. y \in Seq(C) /\ Len(y) = 1 /\ y[1] = text[q + 1]
  <2>1. text[q + 1] \in C
    BY <1>1
  <2> QED BY <2>1 DEF At
<1> HIDE DEF x, y
<1>4. \A i \in 1..Len(x) : x[i] = y[i]
  BY <1>2, <1>3
<1>5. x = y
  BY <1>2, <1>3, <1>4, SeqEqual
<1> QED BY <1>5 DEF x, y

\* From a place in G on, each round keeps what is there and stays in G.
Keeps(G, text, skip, put) ==
    /\ G \in SUBSET (0..Len(text))
    /\ \A q \in G : q # Len(text) => q + skip[q] \in G /\ put[q] = Piece(text, q, skip[q])

\* From these places on the text stays.
Kept(f, G, text) == \A p \in G : f[p] = From(text, p)

\* Then the text stays.
LEMMA BuiltPieces ==
    \A C, text, skip, put, f, G :
           /\ text \in Seq(C) /\ Steps(Len(text), skip) /\ Builds(f, Len(text), skip, put)
           /\ Keeps(G, text, skip, put)
        => Kept(f, G, text)
<1> SUFFICES ASSUME NEW C, NEW text, NEW skip, NEW put, NEW f, NEW G,
                    text \in Seq(C), Steps(Len(text), skip), Builds(f, Len(text), skip, put),
                    Keeps(G, text, skip, put)
             PROVE  Kept(f, G, text)
  OBVIOUS
<1>4. /\ G \in SUBSET (0..Len(text))
      /\ \A q \in G : q # Len(text) => q + skip[q] \in G /\ put[q] = Piece(text, q, skip[q])
  BY DEF Keeps
<1> DEFINE l == Len(text)
           B == {n \in Nat : n <= l /\ l - n \in G /\ f[l - n] # From(text, l - n)}
<1>1. l \in Nat
  OBVIOUS
<1>2. B = {}
  <2> SUFFICES ASSUME B # {} PROVE FALSE
    OBVIOUS
  <2>1. PICK n \in B : \A m \in B : n <= m
    <3>1. B \in SUBSET Nat
      OBVIOUS
    <3> HIDE DEF B
    <3> QED BY <3>1, LeastNumber
  <2> DEFINE q == l - n
             e == q + skip[q]
             k == l - e
  <2>2. n \in Nat /\ n <= l /\ q \in G /\ f[q] # From(text, q)
    BY <2>1
  <2>3. q # l
    <3>1. f[l] = <<>>
      BY DEF Builds
    <3>2. From(text, l) = <<>>
      <4>1. l \in 0..Len(text)
        BY <1>1
      <4> DEFINE x == From(text, l)
      <4>2. Len(x) = l - l /\ x \in Seq(C)
        BY <4>1, TailIs
      <4> HIDE DEF x
      <4>3. Len(x) = 0
        BY <1>1, <4>2
      <4>4. x = <<>>
        BY <4>2, <4>3, EmptySeq
      <4> QED BY <4>4 DEF x
    <3> QED BY <2>2, <3>1, <3>2
  <2>4. q \in 0..l - 1 /\ q \in Nat /\ l - q = n
    BY <1>1, <2>2, <2>3
  <2> HIDE DEF q
  <2>5. skip[q] \in Nat /\ skip[q] >= 1 /\ q + skip[q] <= l
    BY <2>4 DEF Steps
  <2>6. f[q] = put[q] \o f[e]
    BY <2>4 DEF Builds
  <2>7. e \in G /\ put[q] = Piece(text, q, skip[q])
    BY <1>4, <2>2, <2>3
  <2>8. k \in Nat /\ k <= l /\ k < n /\ l - k = e
    BY <1>1, <2>4, <2>5
  <2>9. f[e] = From(text, e)
    <3>1. k \notin B
      <4> HIDE DEF B, k
      <4> QED BY <2>1, <2>2, <2>8
    <3> QED BY <2>7, <2>8, <3>1
  <2>10. Piece(text, q, skip[q]) \o From(text, q + skip[q]) = From(text, q)
    <3> DEFINE d == skip[q]
    <3>1. q \in Nat /\ d \in Nat /\ q + d <= Len(text)
      BY <2>4, <2>5
    <3> HIDE DEF d
    <3>2. Piece(text, q, d) \o From(text, q + d) = From(text, q)
      <4>1. Splits(C, text, q, d)
        BY <1>4, <3>1, PieceAndTail, Zenon
      <4> QED BY <4>1 DEF Splits
    <3> QED BY <3>2 DEF d
  <2> QED BY <2>2, <2>6, <2>7, <2>9, <2>10
<1>3. ASSUME NEW p \in G PROVE f[p] = From(text, p)
  <2>1. l - p \in Nat /\ l - p <= l /\ l - (l - p) = p
    BY <1>1, <1>4
  <2> QED BY <1>2, <2>1
<1> QED BY <1>3 DEF Kept

\* The least of a set of numbers, if there is one.
LEMMA LeastIs ==
    ASSUME NEW K \in SUBSET Nat
    PROVE  /\ K = {} => LeastOr0(K) = 0
           /\ K # {} => LeastOr0(K) \in K /\ \A j \in K : LeastOr0(K) <= j
<1>1. K # {} => \E k \in K : \A j \in K : k <= j
  BY LeastNumber
<1> QED BY <1>1 DEF LeastOr0

-----------------------------------------------------------------------------
(* EL_STRREPLACE *)

\* Without regard to the kind of the sources: what is there begins with the character.
LEMMA FitsIs ==
    ASSUME NEW text \in Seq(Chars), NEW key \in Seq(Chars), NEW p \in 0..Len(text) - 1
    PROVE  /\ Fits(text, key, p, 0) => Len(key) > 0 /\ key[1] = At(text, p)
           /\ Len(key) = 1 => (Fits(text, key, p, 0) <=> key[1] = At(text, p))
<1> DEFINE l == Len(text)
           n == Len(key)
           x == Piece(text, p, n)
<1>1. l \in Nat /\ n \in Nat /\ p \in Nat /\ p < l
  OBVIOUS
<1> HIDE DEF x
<1>2. ASSUME n > 0, n <= l - p PROVE Len(x) = n /\ \A i \in 1..n : x[i] = text[p + i]
  <2> DEFINE d == p + n
  <2>1. d \in Nat /\ p <= d /\ d <= Len(text) /\ d - p = n
    BY <1>1, <1>2
  <2>2. x = SubSeq(text, p + 1, d)
    BY DEF Piece, x
  <2> HIDE DEF l, n, d
  <2>3. Len(SubSeq(text, p + 1, d)) = d - p
        /\ \A i \in 1..d - p : SubSeq(text, p + 1, d)[i] = text[p + i]
    BY <1>1, <2>1, MidIs
  <2> QED BY <2>1, <2>2, <2>3
<1>3. Fits(text, key, p, 0) <=> n > 0 /\ n <= l - p /\ SameText(x, key, 0)
  BY DEF Fits, x
<1>4. SameText(x, key, 0) <=> Len(x) = n /\ \A i \in 1..Len(x) : x[i] = key[i]
  BY DEF SameText, Same
<1>5. At(text, p) = text[p + 1]
  BY DEF At
<1> HIDE DEF l, n
<1>6. ASSUME Fits(text, key, p, 0) PROVE n > 0 /\ key[1] = At(text, p)
  <2>1. n > 0 /\ n <= l - p /\ Len(x) = n /\ \A i \in 1..n : x[i] = key[i]
    BY <1>3, <1>4, <1>6
  <2>2. 1 \in 1..n
    BY <1>1, <2>1
  <2> QED BY <1>2, <1>5, <2>1, <2>2
<1>7. ASSUME n = 1, key[1] = At(text, p) PROVE Fits(text, key, p, 0)
  <2>1. n > 0 /\ n <= l - p
    BY <1>1, <1>7
  <2>2. Len(x) = 1 /\ x[1] = text[p + 1]
    BY <1>2, <1>7, <2>1
  <2>3. \A i \in 1..Len(x) : i = 1
    BY <2>2
  <2> QED BY <1>3, <1>4, <1>5, <1>7, <2>1, <2>2, <2>3
<1> QED BY <1>6, <1>7 DEF n

\* The keys that are at p, and those that begin with the character at p.
There(text, src, flag, p) == {k \in 1..Len(src) : Fits(text, src[k], p, flag)}
Beginning(text, src, p) == {k \in 1..Len(src) : Len(src[k]) > 0 /\ src[k][1] = At(text, p)}

\* The key of a place is there, and but for the letter case it is the first that is.
LEMMA KeyIs ==
    ASSUME NEW text \in Seq(Chars), NEW src \in Seq(Seq(Chars)), NEW chars \in BOOLEAN,
           chars => \A k \in 1..Len(src) : Len(src[k]) = 1,
           NEW flag \in {0, 1}, NEW p \in 0..Len(text) - 1
    PROVE  LET nAt == Key(text, src, chars, flag, p)
           IN  /\ nAt \in 0..Len(src)
               /\ nAt # 0 => Len(src[nAt]) >= 1 /\ p + Len(src[nAt]) <= Len(text)
               /\ flag = 0 \/ (Len(text) <= OptLimit /\ ~chars)
                      => nAt = LeastOr0(There(text, src, flag, p))
<1> DEFINE F == There(text, src, flag, p)
           K == Beginning(text, src, p)
           first == LeastOr0(K)
           nAt == Key(text, src, chars, flag, p)
           G == {k \in IF SharedFirst(src) THEN first..Len(src) ELSE {first} :
                     Fits(text, src[k], p, flag)}
<1>1. Len(src) \in Nat /\ Len(text) \in Nat /\ p \in Nat /\ p < Len(text)
      /\ \A k \in 1..Len(src) : src[k] \in Seq(Chars) /\ Len(src[k]) \in Nat
  OBVIOUS
<1>2. FirstKey(src, At(text, p)) = first
  BY DEF FirstKey, Beginning
<1>3. nAt = IF Len(text) > OptLimit
            THEN IF first = 0 \/ chars THEN first ELSE LeastOr0(G)
            ELSE IF chars THEN first ELSE LeastOr0(F)
  BY <1>2 DEF Key, There
<1>4. F \in SUBSET Nat /\ K \in SUBSET Nat /\ F \subseteq 1..Len(src) /\ K \subseteq 1..Len(src)
  BY DEF There, Beginning
<1>5. /\ K = {} => first = 0
      /\ K # {} => first \in K /\ \A j \in K : first <= j
  BY <1>4, LeastIs
<1>6. ASSUME NEW k \in F PROVE Len(src[k]) >= 1 /\ p + Len(src[k]) <= Len(text)
  <2>1. k \in 1..Len(src) /\ Len(src[k]) > 0 /\ Len(src[k]) <= Len(text) - p
    BY DEF There, Fits
  <2> QED BY <1>1, <2>1
<1>7. ASSUME chars, NEW k \in K PROVE Len(src[k]) >= 1 /\ p + Len(src[k]) <= Len(text)
  <2>1. k \in 1..Len(src) /\ Len(src[k]) = 1
    BY <1>4, <1>7
  <2> QED BY <1>1, <2>1
<1>8. /\ F = {} => LeastOr0(F) = 0
      /\ F # {} => LeastOr0(F) \in F
  BY <1>4, LeastIs
<1>9. first # 0 => first \in K /\ K # {}
  BY <1>5
<1>10. first # 0 => G \subseteq F
  <2>1. ASSUME first # 0, NEW k \in G PROVE k \in F
    <3>1. first \in 1..Len(src)
      BY <1>4, <1>9, <2>1
    <3>2. k \in 1..Len(src)
      <4>1. k \in first..Len(src) \/ k = first
        BY <2>1
      <4> HIDE DEF first, G
      <4> QED BY <1>1, <3>1, <4>1
    <3> QED BY <2>1, <3>2 DEF There
  <2> QED BY <2>1
<1> HIDE DEF F, K, first, G, nAt
<1>11. first # 0 => /\ G = {} => LeastOr0(G) = 0
                    /\ G # {} => LeastOr0(G) \in F
  <2>1. first # 0 => G \in SUBSET Nat
    BY <1>4, <1>10
  <2> QED BY <1>10, <2>1, LeastIs
<1>12. nAt = 0 \/ nAt \in F \/ (chars /\ nAt \in K)
  BY <1>3, <1>8, <1>9, <1>11
<1>13. nAt \in 0..Len(src)
  <2>1. nAt = 0 \/ nAt \in 1..Len(src)
    BY <1>4, <1>12
  <2> QED BY <1>1, <2>1
<1>14. nAt # 0 => Len(src[nAt]) >= 1 /\ p + Len(src[nAt]) <= Len(text)
  BY <1>6, <1>7, <1>12
<1>15. ASSUME flag = 0 PROVE nAt = LeastOr0(F)
  <2>1. F \subseteq K
    BY <1>1, <1>15, FitsIs DEF F, K, There, Beginning
  <2>2. chars => F = K
    BY <1>1, <1>15, FitsIs DEF F, K, There, Beginning
  <2>3. first = 0 => K = {}
    BY <1>4, <1>5
  <2>4. ASSUME first # 0 PROVE G = F
    <3>1. first \in K /\ (\A j \in K : first <= j) /\ first \in 1..Len(src)
      BY <1>4, <1>5, <2>4
    <3>2. CASE SharedFirst(src)
      <4>1. \A k \in F : k \in first..Len(src)
        <5> TAKE k \in F
        <5>1. k \in 1..Len(src) /\ first <= k
          BY <1>4, <2>1, <3>1
        <5> QED BY <1>1, <3>1, <5>1
      <4>2. G = {k \in first..Len(src) : Fits(text, src[k], p, flag)}
        BY <3>2 DEF G
      <4>3. F \subseteq G
        BY <4>1, <4>2 DEF F, There
      <4> QED BY <1>10, <2>4, <4>3
    <3>3. CASE ~SharedFirst(src)
      <4>1. \A k \in K : k = first
        BY <1>4, <3>1, <3>3 DEF SharedFirst, K, Beginning
      <4>2. G = {k \in {first} : Fits(text, src[k], p, flag)}
        BY <3>3 DEF G
      <4>3. F \subseteq G
        BY <2>1, <4>1, <4>2 DEF F, There
      <4> QED BY <1>10, <2>4, <4>3
    <3> QED BY <3>2, <3>3
  <2>5. CASE first = 0
    <3>1. F = {} /\ LeastOr0(F) = 0
      BY <1>8, <2>1, <2>3, <2>5
    <3> QED BY <1>3, <2>5, <3>1
  <2>6. CASE first # 0
    <3>1. chars => LeastOr0(F) = first
      BY <2>2 DEF first
    <3> QED BY <1>3, <2>4, <2>6, <3>1
  <2> QED BY <2>5, <2>6
<1>16. Len(text) <= OptLimit /\ ~chars => nAt = LeastOr0(F)
  <2>1. OptLimit \in Nat
    BY AlgorithmsAssumption
  <2> QED BY <1>1, <1>3, <2>1
<1> QED BY <1>13, <1>14, <1>15, <1>16 DEF nAt, F

\* The characters that a round takes from the text, and what it puts in their place.
Skip(text, src, chars, flag, p) ==
    LET nAt == Key(text, src, chars, flag, p)
    IN  IF nAt = 0 THEN 1 ELSE Len(src[nAt])
Put1(text, src, dst, chars, flag, p) == Dest(text, src, dst, p, Key(text, src, chars, flag, p))

\* What el_StrReplace is called with.
Replaceable(text, src, dst, chars, flag) ==
    /\ text \in Seq(Chars) /\ src \in Seq(Seq(Chars)) /\ dst \in Seq(Seq(Chars))
    /\ chars \in BOOLEAN /\ flag \in {0, 1}
    /\ chars => \A k \in 1..Len(src) : Len(src[k]) = 1

\* A round goes on, and not beyond the end.
LEMMA RoundIs ==
    ASSUME NEW text, NEW src, NEW dst, NEW chars, NEW flag, Replaceable(text, src, dst, chars, flag),
           NEW p \in 0..Len(text) - 1
    PROVE  /\ Skip(text, src, chars, flag, p) \in Nat /\ Skip(text, src, chars, flag, p) >= 1
           /\ p + Skip(text, src, chars, flag, p) <= Len(text)
           /\ Put1(text, src, dst, chars, flag, p) \in Seq(Chars)
<1> DEFINE nAt == Key(text, src, chars, flag, p)
<1>1. /\ text \in Seq(Chars) /\ src \in Seq(Seq(Chars)) /\ dst \in Seq(Seq(Chars))
      /\ chars \in BOOLEAN /\ flag \in {0, 1}
      /\ chars => \A k \in 1..Len(src) : Len(src[k]) = 1
  BY DEF Replaceable
<1>2. /\ nAt \in 0..Len(src)
      /\ nAt # 0 => Len(src[nAt]) >= 1 /\ p + Len(src[nAt]) <= Len(text)
  BY <1>1, KeyIs
<1>3. Len(text) \in Nat /\ p \in Nat /\ p < Len(text) /\ Len(src) \in Nat
  BY <1>1
<1> HIDE DEF nAt
<1>4. nAt # 0 => nAt \in 1..Len(src) /\ Len(src[nAt]) \in Nat
  BY <1>1, <1>2, <1>3
<1>5. Skip(text, src, chars, flag, p) = IF nAt = 0 THEN 1 ELSE Len(src[nAt])
  BY DEF Skip, nAt
<1>6. Put1(text, src, dst, chars, flag, p) \in Seq(Chars)
  <2>1. Put1(text, src, dst, chars, flag, p) =
            IF nAt = 0 THEN <<At(text, p)>> ELSE IF nAt <= Len(dst) THEN dst[nAt] ELSE <<>>
    BY DEF Put1, Dest, nAt
  <2>2. At(text, p) \in Chars
    <3>1. p + 1 \in 1..Len(text)
      BY <1>3
    <3> QED BY <1>1, <3>1 DEF At
  <2>3. <<At(text, p)>> \in Seq(Chars) /\ <<>> \in Seq(Chars)
    BY <2>2
  <2>4. nAt # 0 /\ nAt <= Len(dst) => dst[nAt] \in Seq(Chars)
    <3>1. nAt # 0 /\ nAt <= Len(dst) => nAt \in 1..Len(dst)
      BY <1>1, <1>2, <1>3
    <3> QED BY <1>1, <3>1
  <2> QED BY <2>1, <2>3, <2>4
<1> QED BY <1>2, <1>3, <1>4, <1>5, <1>6

\* from[p] is what becomes of the text from p on.
Filled(text, src, dst, chars, flag, from) ==
    /\ from \in [0..Len(text) -> Seq(Chars)]
    /\ from[Len(text)] = <<>>
    /\ \A p \in 0..Len(text) - 1 :
           from[p] = Put1(text, src, dst, chars, flag, p)
                     \o from[p + Skip(text, src, chars, flag, p)]

\* The same, as functions of the place.
Skips(text, src, chars, flag) == [p \in 0..Len(text) - 1 |-> Skip(text, src, chars, flag, p)]
Puts(text, src, dst, chars, flag) ==
    [p \in 0..Len(text) - 1 |-> Put1(text, src, dst, chars, flag, p)]

\* There is such a function, and it is what the rounds build.
LEMMA FilledIs ==
    ASSUME NEW text, NEW src, NEW dst, NEW chars, NEW flag, Replaceable(text, src, dst, chars, flag)
    PROVE  /\ Steps(Len(text), Skips(text, src, chars, flag))
           /\ \E from : Filled(text, src, dst, chars, flag, from)
           /\ \A from : Filled(text, src, dst, chars, flag, from) <=>
                 Built(from, Chars, Len(text), Skips(text, src, chars, flag),
                       Puts(text, src, dst, chars, flag))
<1> DEFINE l == Len(text)
           skip(p) == Skip(text, src, chars, flag, p)
           put(p) == Put1(text, src, dst, chars, flag, p)
           skips == Skips(text, src, chars, flag)
           puts == Puts(text, src, dst, chars, flag)
<1>1. l \in Nat
  BY DEF Replaceable
<1>2. \A p \in 0..l - 1 : /\ skip(p) \in Nat /\ skip(p) >= 1 /\ p + skip(p) <= l
                          /\ put(p) \in Seq(Chars)
  BY RoundIs
<1>3. skips = [p \in 0..l - 1 |-> skip(p)] /\ puts = [p \in 0..l - 1 |-> put(p)]
  BY DEF Skips, Puts
<1> HIDE DEF skip, put, skips, puts, l
<1>4. Steps(l, skips) /\ puts \in [0..l - 1 -> Seq(Chars)]
  BY <1>1, <1>2, <1>3 DEF Steps
<1>5. \E from : Built(from, Chars, l, skips, puts)
  BY <1>4, BuiltExists, Zenon
<1>6. ASSUME NEW from
      PROVE  Filled(text, src, dst, chars, flag, from) <=> Built(from, Chars, l, skips, puts)
  <2>1. \A p \in 0..l - 1 : skips[p] = skip(p) /\ puts[p] = put(p)
    BY <1>3
  <2>2. (\A p \in 0..l - 1 : from[p] = put(p) \o from[p + skip(p)])
            <=> (\A p \in 0..l - 1 : from[p] = puts[p] \o from[p + skips[p]])
    BY <2>1
  <2> QED BY <2>2 DEF Filled, Built, Builds, put, skip, l
<1> QED BY <1>4, <1>5, <1>6 DEF l, skips, puts

\* Both passes do what from says.
LEMMA StrReplaceIs ==
    ASSUME NEW text, NEW src, NEW dst, NEW chars, NEW flag, Replaceable(text, src, dst, chars, flag),
           NEW from, Filled(text, src, dst, chars, flag, from), text # <<>>, src # <<>>
    PROVE  StrReplace(text, src, dst, chars, flag) = [text |-> from[0], room |-> Len(from[0])]
<1> DEFINE l == Len(text)
           skip(p) == Skip(text, src, chars, flag, p)
           put(p) == Put1(text, src, dst, chars, flag, p)
           S == FillStates(text)
           body == [s \in S |-> FillRound(text, src, dst, chars, flag, s)]
           first == [nPos |-> 0, second |-> FALSE, nSize |-> 0, result |-> <<>>]
<1>1. l \in Nat /\ l # 0
  BY EmptySeq DEF Replaceable
<1>2. \A p \in 0..l - 1 : /\ skip(p) \in Nat /\ skip(p) >= 1 /\ p + skip(p) <= l
                          /\ put(p) \in Seq(Chars)
  BY RoundIs
<1>3. /\ from \in [0..l -> Seq(Chars)]
      /\ from[l] = <<>>
      /\ \A p \in 0..l - 1 : from[p] = put(p) \o from[p + skip(p)]
  BY DEF Filled
<1>4. \A s \in S : FillRound(text, src, dst, chars, flag, s) =
          IF s.nPos >= l THEN s
          ELSE IF s.second
          THEN [s EXCEPT !.nPos = s.nPos + skip(s.nPos), !.result = s.result \o put(s.nPos)]
          ELSE IF s.nPos + skip(s.nPos) = l
          THEN [s EXCEPT !.nPos = 0, !.second = TRUE, !.nSize = s.nSize + Len(put(s.nPos))]
          ELSE [s EXCEPT !.nPos = s.nPos + skip(s.nPos), !.nSize = s.nSize + Len(put(s.nPos))]
  BY DEF FillRound, Skip, Put1
<1> HIDE DEF skip, put, l
<1>5. S = [nPos : 0..l, second : BOOLEAN, nSize : Nat, result : Seq(Chars)]
  BY DEF FillStates, l
<1> HIDE DEF S
<1>6. ASSUME NEW s \in S, s.nPos < l
      PROVE  LET p == s.nPos
             IN  /\ p \in 0..l - 1 /\ p + skip(p) \in 0..l /\ put(p) \in Seq(Chars)
                 /\ Len(put(p)) \in Nat /\ s.result \o put(p) \in Seq(Chars)
                 /\ from[p + skip(p)] \in Seq(Chars) /\ from[p] \in Seq(Chars)
                 /\ from[p] = put(p) \o from[p + skip(p)]
                 /\ Len(from[p]) = Len(put(p)) + Len(from[p + skip(p)])
                 /\ Len(from[p + skip(p)]) \in Nat
                 /\ skip(p) \in Nat /\ skip(p) >= 1
  <2> DEFINE p == s.nPos
  <2>1. p \in 0..l /\ s.result \in Seq(Chars) /\ p < l
    BY <1>5, <1>6
  <2> HIDE DEF p
  <2>2. p \in 0..l - 1 /\ p \in 0..l
    BY <1>1, <2>1
  <2>3. skip(p) \in Nat /\ skip(p) >= 1 /\ p + skip(p) <= l /\ put(p) \in Seq(Chars)
    BY <1>2, <2>2
  <2>4. p + skip(p) \in 0..l
    BY <1>1, <2>2, <2>3
  <2>5. from[p + skip(p)] \in Seq(Chars) /\ from[p] \in Seq(Chars)
    BY <1>3, <2>2, <2>4
  <2>6. from[p] = put(p) \o from[p + skip(p)]
    BY <1>3, <2>2
  <2>7. s.result \o put(p) \in Seq(Chars)
    BY <2>1, <2>3, ConcatIs
  <2>8. /\ Len(put(p) \o from[p + skip(p)]) = Len(put(p)) + Len(from[p + skip(p)])
        /\ Len(put(p)) \in Nat /\ Len(from[p + skip(p)]) \in Nat
    BY <2>3, <2>5, ConcatIs
  <2> QED BY <2>2, <2>3, <2>4, <2>5, <2>6, <2>7, <2>8 DEF p
<1>7. \A s \in S : /\ s.nPos \in 0..l /\ s.second \in BOOLEAN /\ s.nSize \in Nat
                   /\ s.result \in Seq(Chars)
  BY <1>5
<1>8. body \in [S -> S]
  <2>1. ASSUME NEW s \in S PROVE FillRound(text, src, dst, chars, flag, s) \in S
    <3>1. CASE s.nPos >= l
      BY <1>4, <3>1
    <3>2. CASE ~(s.nPos >= l)
      <4> DEFINE p == s.nPos
      <4>1. p + skip(p) \in 0..l /\ Len(put(p)) \in Nat /\ s.result \o put(p) \in Seq(Chars)
        <5>1. s.nPos < l
          BY <1>1, <1>7, <3>2
        <5> QED BY <1>6, <5>1
      <4>2. 0 \in 0..l /\ s.nSize + Len(put(p)) \in Nat
        BY <1>1, <1>7, <4>1
      <4> HIDE DEF p
      <4>3. FillRound(text, src, dst, chars, flag, s) =
                IF s.second THEN [s EXCEPT !.nPos = p + skip(p), !.result = s.result \o put(p)]
                ELSE IF p + skip(p) = l
                THEN [s EXCEPT !.nPos = 0, !.second = TRUE, !.nSize = s.nSize + Len(put(p))]
                ELSE [s EXCEPT !.nPos = p + skip(p), !.nSize = s.nSize + Len(put(p))]
        BY <1>4, <3>2 DEF p
      <4> QED BY <1>5, <4>1, <4>2, <4>3
    <3> QED BY <3>1, <3>2
  <2> QED BY <2>1
<1> DEFINE I == {s \in S :
                    IF s.second
                    THEN s.nSize = Len(from[0]) /\ s.result \o from[s.nPos] = from[0]
                    ELSE s.nPos < l /\ s.result = <<>> /\ s.nSize + Len(from[s.nPos]) = Len(from[0])}
           mu == [s \in I |-> (IF s.second THEN 0 ELSE l + 1) + (l - s.nPos)]
<1>9. I \in SUBSET S
  OBVIOUS
<1>10. from[0] \in Seq(Chars) /\ Len(from[0]) \in Nat
  <2>1. 0 \in 0..l
    BY <1>1
  <2>2. from[0] \in Seq(Chars)
    BY <1>3, <2>1
  <2> QED BY <2>2
<1>11. first \in I
  <2>1. first \in S
    BY <1>1, <1>5
  <2> QED BY <1>1, <1>10, <2>1
<1>12. mu \in [I -> Nat] /\ \A s \in I : mu[s] = (IF s.second THEN 0 ELSE l + 1) + (l - s.nPos)
  <2>1. ASSUME NEW s \in I PROVE (IF s.second THEN 0 ELSE l + 1) + (l - s.nPos) \in Nat
    <3>1. s.nPos \in 0..l
      BY <1>7, <1>9, <2>1
    <3> HIDE DEF I
    <3> QED BY <1>1, <3>1
  <2> HIDE DEF I
  <2> QED BY <2>1
<1>13. ASSUME NEW s \in I, s.nPos < l
       PROVE  body[s] \in I /\ mu[body[s]] < mu[s] /\ body[s] # s
  <2> DEFINE p == s.nPos
             q == p + skip(p)
             t == body[s]
  <2>1. s \in S /\ t \in S
    BY <1>8, <1>9
  <2>2. /\ p \in 0..l - 1 /\ q \in 0..l /\ put(p) \in Seq(Chars)
        /\ Len(put(p)) \in Nat /\ from[q] \in Seq(Chars)
        /\ from[p] = put(p) \o from[q]
        /\ Len(from[p]) = Len(put(p)) + Len(from[q])
        /\ Len(from[q]) \in Nat /\ q > p
    <3>1. /\ p \in 0..l - 1 /\ q \in 0..l /\ put(p) \in Seq(Chars)
          /\ Len(put(p)) \in Nat /\ from[q] \in Seq(Chars)
          /\ from[p] = put(p) \o from[q]
          /\ Len(from[p]) = Len(put(p)) + Len(from[q])
          /\ Len(from[q]) \in Nat /\ skip(p) \in Nat /\ skip(p) >= 1
      BY <1>6, <1>13, <2>1
    <3>2. q > p
      BY <1>1, <3>1
    <3> HIDE DEF p, q
    <3> QED BY <3>1, <3>2
  <2>3. t = IF s.second THEN [s EXCEPT !.nPos = q, !.result = s.result \o put(p)]
            ELSE IF q = l
            THEN [s EXCEPT !.nPos = 0, !.second = TRUE, !.nSize = s.nSize + Len(put(p))]
            ELSE [s EXCEPT !.nPos = q, !.nSize = s.nSize + Len(put(p))]
    <3>1. ~(s.nPos >= l)
      BY <1>1, <1>7, <1>13, <2>1
    <3>2. t = FillRound(text, src, dst, chars, flag, s)
      BY <2>1
    <3> HIDE DEF t, p
    <3> QED BY <1>4, <2>1, <3>1, <3>2 DEF p
  <2>4. s = [nPos |-> s.nPos, second |-> s.second, nSize |-> s.nSize, result |-> s.result]
    BY <1>5, <2>1
  <2>5. mu[s] = (IF s.second THEN 0 ELSE l + 1) + (l - p)
        /\ (t \in I => mu[t] = (IF t.second THEN 0 ELSE l + 1) + (l - t.nPos))
    BY <1>12
  <2>6. s.nSize \in Nat /\ s.result \in Seq(Chars)
    BY <1>7, <2>1
  <2> HIDE DEF t, q, mu, body
  <2>7. CASE s.second
    <3>1. s.nSize = Len(from[0]) /\ s.result \o from[p] = from[0]
      BY <2>7
    <3>2. t.second /\ t.nPos = q /\ t.nSize = s.nSize /\ t.result = s.result \o put(p)
      BY <2>3, <2>4, <2>7
    <3>3. t.result \o from[q] = s.result \o (put(p) \o from[q])
      <4> DEFINE a == s.result
                 b == put(p)
                 c == from[q]
      <4>1. a \in Seq(Chars) /\ b \in Seq(Chars) /\ c \in Seq(Chars)
        BY <2>2, <2>6
      <4>2. t.result = a \o b
        BY <3>2
      <4> HIDE DEF a, b, c
      <4>3. (a \o b) \o c = a \o (b \o c)
        BY <4>1, Regrouped, Zenon
      <4>4. t.result \o c = a \o (b \o c)
        BY <4>2, <4>3
      <4> QED BY <4>4 DEF a, b, c
    <3>4. t \in I
      BY <2>1, <2>2, <3>1, <3>2, <3>3
    <3> HIDE DEF I, p
    <3>5. mu[t] < mu[s]
      BY <1>1, <2>2, <2>5, <2>7, <3>2, <3>4
    <3>6. t # s
      BY <2>2, <3>2 DEF p
    <3> QED BY <3>4, <3>5, <3>6 DEF t
  <2>8. CASE ~s.second /\ q = l
    <3>1. s.result = <<>> /\ s.nSize + Len(from[p]) = Len(from[0])
      BY <2>8
    <3>2. t.second /\ t.nPos = 0 /\ t.nSize = s.nSize + Len(put(p)) /\ t.result = s.result
      BY <2>3, <2>4, <2>8
    <3>3. Len(from[q]) = 0
      BY <1>3, <2>8
    <3>4. t.nSize = Len(from[0])
      <4> HIDE DEF p
      <4> QED BY <2>2, <2>6, <3>1, <3>2, <3>3
    <3>5. t.result \o from[0] = from[0]
      BY <1>10, <3>1, <3>2, ConcatEmptySeq
    <3>6. t \in I
      BY <2>1, <3>2, <3>4, <3>5
    <3> HIDE DEF I, p
    <3>7. mu[t] < mu[s]
      BY <1>1, <2>2, <2>5, <2>8, <3>2, <3>6
    <3>8. t # s
      BY <2>8, <3>2
    <3> QED BY <3>6, <3>7, <3>8 DEF t
  <2>9. CASE ~s.second /\ q # l
    <3>1. s.result = <<>> /\ s.nSize + Len(from[p]) = Len(from[0])
      BY <2>9
    <3>2. t.second = s.second /\ t.nPos = q /\ t.nSize = s.nSize + Len(put(p)) /\ t.result = s.result
      BY <2>3, <2>4, <2>9
    <3>3. t.nSize + Len(from[q]) = Len(from[0])
      <4> HIDE DEF p
      <4> QED BY <2>2, <2>6, <3>1, <3>2
    <3>4. q < l
      <4> HIDE DEF p
      <4> QED BY <1>1, <2>2, <2>9
    <3>5. t \in I
      BY <2>1, <2>9, <3>1, <3>2, <3>3, <3>4
    <3> HIDE DEF I, p
    <3>6. mu[t] < mu[s]
      BY <1>1, <2>2, <2>5, <2>9, <3>2, <3>5
    <3>7. t # s
      BY <2>2, <3>2 DEF p
    <3> QED BY <3>5, <3>6, <3>7 DEF t
  <2> QED BY <2>7, <2>8, <2>9
<1>14. ASSUME NEW s \in I PROVE body[s] = s \/ (body[s] \in I /\ mu[body[s]] < mu[s])
  <2>1. s \in S
    BY <1>9
  <2>2. CASE s.nPos < l
    BY <1>13, <2>2
  <2>3. CASE ~(s.nPos < l)
    <3>1. s.nPos >= l
      BY <1>1, <1>7, <2>1, <2>3
    <3> QED BY <1>4, <2>1, <3>1
  <2> QED BY <2>2, <2>3
<1> DEFINE end == While(body, first)
<1>15. end \in I /\ body[end] = end
  <2> HIDE DEF body, I, mu, first
  <2> QED BY <1>8, <1>9, <1>11, <1>12, <1>14, WhileRule
<1>16. StrReplace(text, src, dst, chars, flag) = [text |-> end.result, room |-> end.nSize]
  BY DEF StrReplace, S
<1> HIDE DEF end, body, mu, first
<1>17. end \in S /\ end.nPos \in 0..l /\ end.result \in Seq(Chars)
  BY <1>7, <1>15
<1>18. ~(end.nPos < l)
  <2> HIDE DEF I
  <2> QED BY <1>13, <1>15
<1>19. end.nPos = l
  BY <1>1, <1>17, <1>18
<1>20. end.nSize = Len(from[0]) /\ end.result \o from[l] = from[0]
  BY <1>15, <1>18, <1>19
<1>21. end.result \o <<>> = end.result
  BY <1>17, ConcatEmptySeq
<1> QED BY <1>3, <1>16, <1>20, <1>21

\* With the first source that is there, a round takes and puts what the reference says.
LEMMA FirstIs ==
    ASSUME NEW text, NEW src, NEW dst, NEW chars, NEW flag, Replaceable(text, src, dst, chars, flag),
           flag = 0 \/ (Len(text) <= OptLimit /\ ~chars), NEW p \in 0..Len(text) - 1
    PROVE  LET n == LeastOr0({k \in 1..Len(src) : Fits(text, src[k], p, flag)})
           IN  /\ Skip(text, src, chars, flag, p) = IF n = 0 THEN 1 ELSE Len(src[n])
               /\ Put1(text, src, dst, chars, flag, p) =
                      IF n = 0 THEN <<At(text, p)>> ELSE IF n \in 1..Len(dst) THEN dst[n] ELSE <<>>
<1> DEFINE nAt == Key(text, src, chars, flag, p)
           n == LeastOr0({k \in 1..Len(src) : Fits(text, src[k], p, flag)})
<1>1. /\ text \in Seq(Chars) /\ src \in Seq(Seq(Chars)) /\ dst \in Seq(Seq(Chars))
      /\ chars \in BOOLEAN /\ flag \in {0, 1}
      /\ chars => \A k \in 1..Len(src) : Len(src[k]) = 1
  BY DEF Replaceable
<1>2. nAt \in 0..Len(src) /\ nAt = LeastOr0(There(text, src, flag, p))
  BY <1>1, KeyIs
<1>3. nAt = n
  BY <1>2 DEF There
<1>4. Skip(text, src, chars, flag, p) = IF nAt = 0 THEN 1 ELSE Len(src[nAt])
  BY DEF Skip
<1>5. Put1(text, src, dst, chars, flag, p) =
          IF nAt = 0 THEN <<At(text, p)>> ELSE IF nAt <= Len(dst) THEN dst[nAt] ELSE <<>>
  BY DEF Put1, Dest
<1> HIDE DEF nAt, n
<1>6. nAt # 0 => (nAt <= Len(dst) <=> nAt \in 1..Len(dst))
  <2>1. Len(dst) \in Nat /\ Len(src) \in Nat
    BY <1>1
  <2> QED BY <1>2, <2>1
<1>7. Put1(text, src, dst, chars, flag, p) =
          IF nAt = 0 THEN <<At(text, p)>> ELSE IF nAt \in 1..Len(dst) THEN dst[nAt] ELSE <<>>
  BY <1>5, <1>6, Zenon
<1> QED BY <1>3, <1>4, <1>7, Zenon DEF n

\* The reference builds the same text.
LEMMA SubstitutedIs ==
    ASSUME NEW text, NEW src, NEW dst, NEW chars, NEW flag, Replaceable(text, src, dst, chars, flag),
           flag = 0 \/ (Len(text) <= OptLimit /\ ~chars),
           NEW from, Filled(text, src, dst, chars, flag, from)
    PROVE  Substituted(text, src, dst, flag) = from[0]
<1> DEFINE l == Len(text)
           First(p) == LeastOr0({k \in 1..Len(src) : Fits(text, src[k], p, flag)})
           Gives(p) == IF First(p) \in 1..Len(dst) THEN dst[First(p)] ELSE <<>>
           Is(f) == f = [p \in 0..l |->
                            IF p = l THEN <<>>
                            ELSE IF First(p) = 0 THEN <<At(text, p)>> \o f[p + 1]
                            ELSE Gives(p) \o f[p + Len(src[First(p)])]]
           skip == Skips(text, src, chars, flag)
           put == Puts(text, src, dst, chars, flag)
           g == CHOOSE f : Is(f)
<1>1. Substituted(text, src, dst, flag) = g[0]
  BY Zenon DEF Substituted
<1>2. l \in Nat
  BY DEF Replaceable
<1>3. \A p \in 0..l - 1 :
          /\ skip[p] = IF First(p) = 0 THEN 1 ELSE Len(src[First(p)])
          /\ put[p] = IF First(p) = 0 THEN <<At(text, p)>> ELSE Gives(p)
  BY FirstIs DEF Skips, Puts
<1>4. Steps(l, skip) /\ Built(from, Chars, l, skip, put)
  BY FilledIs
<1> HIDE DEF l, First, Gives, skip, put
<1>5. ASSUME NEW f,
             NEW p \in 0..l - 1
      PROVE  put[p] \o f[p + skip[p]] =
                 IF First(p) = 0 THEN <<At(text, p)>> \o f[p + 1]
                 ELSE Gives(p) \o f[p + Len(src[First(p)])]
  BY <1>3
<1>6. Is(from)
  <2>1. from \in [0..l -> Seq(Chars)] /\ from[l] = <<>>
        /\ \A p \in 0..l - 1 : from[p] = put[p] \o from[p + skip[p]]
    BY <1>4 DEF Built, Builds
  <2>2. ASSUME NEW p \in 0..l
        PROVE  from[p] = IF p = l THEN <<>>
                         ELSE IF First(p) = 0 THEN <<At(text, p)>> \o from[p + 1]
                         ELSE Gives(p) \o from[p + Len(src[First(p)])]
    <3>1. CASE p = l
      BY <2>1, <3>1
    <3>2. CASE p # l
      <4>1. p \in 0..l - 1
        BY <1>2, <3>2
      <4> QED BY <1>5, <2>1, <3>2, <4>1
    <3> QED BY <3>1, <3>2
  <2>3. from = [p \in 0..l |-> from[p]]
    BY <2>1
  <2> QED BY <2>2, <2>3
<1>7. Is(g)
  BY <1>6
<1> HIDE DEF g
<1>8. Builds(g, l, skip, put)
  <2>1. l \in 0..l /\ \A p \in 0..l - 1 : p \in 0..l /\ p # l
    BY <1>2
  <2>2. g[l] = <<>>
    BY <1>7, <2>1
  <2>3. ASSUME NEW p \in 0..l - 1 PROVE g[p] = put[p] \o g[p + skip[p]]
    <3>1. g[p] = IF First(p) = 0 THEN <<At(text, p)>> \o g[p + 1]
                 ELSE Gives(p) \o g[p + Len(src[First(p)])]
      BY <1>7, <2>1
    <3> QED BY <1>5, <3>1
  <2> QED BY <2>2, <2>3 DEF Builds
<1>9. g[0] = from[0]
  <2>1. 0 \in 0..l
    BY <1>2
  <2>2. Builds(from, l, skip, put)
    BY <1>4 DEF Built
  <2>3. Steps(l, skip)
    BY <1>4
  <2>4. Agree(g, from, l)
    BY <1>8, <2>2, <2>3, BuiltOnce, Zenon
  <2> QED BY <2>1, <2>4 DEF Agree
<1> QED BY <1>1, <1>9

\* Without a source the text stays.
LEMMA NothingFilled ==
    ASSUME NEW text, NEW src, NEW dst, NEW chars, NEW flag, Replaceable(text, src, dst, chars, flag),
           NEW from, Filled(text, src, dst, chars, flag, from), text = <<>> \/ src = <<>>
    PROVE  from[0] = text
<1> DEFINE skip == Skips(text, src, chars, flag)
           put == Puts(text, src, dst, chars, flag)
<1>1. /\ text \in Seq(Chars) /\ src \in Seq(Seq(Chars)) /\ chars \in BOOLEAN /\ flag \in {0, 1}
      /\ chars => \A k \in 1..Len(src) : Len(src[k]) = 1
  BY DEF Replaceable
<1>2. Len(text) \in Nat /\ 0 \in 0..Len(text)
  BY <1>1
<1>3. Steps(Len(text), skip) /\ Builds(from, Len(text), skip, put)
  BY FilledIs DEF Built
<1>4. ASSUME NEW q \in 0..Len(text) - 1 PROVE skip[q] = 1 /\ put[q] = <<At(text, q)>>
  <2>1. Key(text, src, chars, flag, q) = 0
    <3>1. text # <<>>
      BY <1>2, <1>4
    <3>2. Len(src) = 0
      BY <3>1
    <3>3. Key(text, src, chars, flag, q) \in 0..Len(src)
      BY <1>1, KeyIs
    <3> QED BY <3>2, <3>3
  <2>2. Skip(text, src, chars, flag, q) = 1
    BY <2>1 DEF Skip
  <2>3. Put1(text, src, dst, chars, flag, q) = <<At(text, q)>>
    BY <2>1 DEF Put1, Dest
  <2> QED BY <2>2, <2>3 DEF Skips, Puts
<1> HIDE DEF skip, put
<1>5. from[0] = From(text, 0)
  <2> DEFINE G == 0..Len(text)
  <2>1. ASSUME NEW q \in G, q # Len(text)
        PROVE  q + skip[q] \in G /\ put[q] = Piece(text, q, skip[q])
    <3>1. q \in 0..Len(text) - 1
      BY <1>2, <2>1
    <3>2. skip[q] = 1 /\ put[q] = <<At(text, q)>> /\ q + 1 \in G
      BY <1>2, <1>4, <3>1
    <3>3. Piece(text, q, 1) = <<At(text, q)>>
      BY <1>1, <3>1, PieceOne
    <3> QED BY <3>2, <3>3
  <2>2. 0 \in G /\ G \in SUBSET (0..Len(text))
    BY <1>2
  <2> HIDE DEF G
  <2>3. Keeps(G, text, skip, put)
    BY <2>1, <2>2 DEF Keeps
  <2>4. Kept(from, G, text)
    BY <1>1, <1>3, <2>3, BuiltPieces, Zenon
  <2> QED BY <2>2, <2>4 DEF Kept
<1>6. From(text, 0) = text
  BY <1>1, SubSeqFull DEF From
<1> QED BY <1>5, <1>6

\* What a call of el_StrReplace leaves.
LEMMA SubstitutionKept == ASSUME Next, Called("StrReplace")' PROVE StrReplaceSubstitutes'
<1>1. CallStrReplace
  BY Zenon, OnlyCall
<1>2. PICK text \in Texts, src \in Sources, dst \in Destinations, chars \in BOOLEAN,
           flag \in {0, 1} :
          /\ chars => \A k \in 1..Len(src) : Len(src[k]) = 1
          /\ Call([fn |-> "StrReplace", text |-> text, src |-> src, dst |-> dst, chars |-> chars,
                   flag |-> flag],
                  StrReplace(text, src, dst, chars, flag))
  BY <1>1 DEF CallStrReplace
<1>3. /\ call'.text = text /\ call'.src = src /\ call'.dst = dst /\ call'.chars = chars
      /\ call'.flag = flag /\ result' = StrReplace(text, src, dst, chars, flag)
  BY <1>2 DEF Call
<1>4. Replaceable(text, src, dst, chars, flag)
  BY <1>2, AlgorithmsAssumption DEF Replaceable
<1>5. PICK from : Filled(text, src, dst, chars, flag, from)
  BY <1>4, FilledIs, Zenon
<1>6. result'.text = from[0] /\ result'.room = Len(from[0])
  <2>1. CASE text = <<>> \/ src = <<>>
    <3>1. from[0] = text
      BY <1>4, <1>5, <2>1, NothingFilled
    <3>2. StrReplace(text, src, dst, chars, flag) = [text |-> text, room |-> Len(text)]
      BY <2>1 DEF StrReplace
    <3> QED BY <1>3, <3>1, <3>2
  <2>2. CASE ~(text = <<>> \/ src = <<>>)
    <3>1. StrReplace(text, src, dst, chars, flag) = [text |-> from[0], room |-> Len(from[0])]
      BY <1>4, <1>5, <2>2, StrReplaceIs
    <3> QED BY <1>3, <3>1
  <2> QED BY <2>1, <2>2
<1>7. flag = 0 \/ (Len(text) <= OptLimit /\ ~chars) => Substituted(text, src, dst, flag) = from[0]
  BY <1>4, <1>5, SubstitutedIs
<1> QED BY <1>3, <1>6, <1>7, Zenon DEF StrReplaceSubstitutes

\* el_StrReplace puts the destination of the first source that is at a position in its place,
\* with the table of first characters as without it, and its second pass fills exactly the
\* room the first has added up, for every text, sources and destinations.
THEOREM SourcesAreSubstituted == Spec => []StrReplaceSubstitutes
<1>1. Init => StrReplaceSubstitutes
  <2>1. Init => ~Called("StrReplace")
    BY DEF Init, Called
  <2> QED BY <2>1, Zenon DEF StrReplaceSubstitutes
<1>2. StrReplaceSubstitutes /\ [Next]_vars => StrReplaceSubstitutes'
  <2> SUFFICES ASSUME StrReplaceSubstitutes, [Next]_vars PROVE StrReplaceSubstitutes'
    OBVIOUS
  <2>1. CASE UNCHANGED vars
    <3>1. call' = call /\ result' = result
      BY <2>1 DEF vars
    <3> QED BY <3>1, Zenon DEF StrReplaceSubstitutes, Called
  <2>2. CASE Next
    <3>1. CASE Called("StrReplace")'
      BY <2>2, <3>1, SubstitutionKept
    <3>2. CASE ~Called("StrReplace")'
      BY <3>2, Zenon DEF StrReplaceSubstitutes
    <3> QED BY <3>1, <3>2
  <2> QED BY <2>1, <2>2
<1> QED BY <1>1, <1>2, PTL DEF Spec

-----------------------------------------------------------------------------
(* EL_STRTRAN *)

\* A text, and what is looked for in it.
Searched(text, seek, flag) == text \in Seq(Chars) /\ seek \in Seq(Chars) /\ flag \in {0, 1}

\* A key is at p when it ends within the text and agrees character by character.
LEMMA FitsAre ==
    ASSUME NEW text, NEW key, NEW flag, Searched(text, key, flag), NEW p \in 0..Len(text)
    PROVE  Fits(text, key, p, flag) <=>
               /\ Len(key) > 0 /\ p + Len(key) <= Len(text)
               /\ \A i \in 1..Len(key) : Same(text[p + i], key[i], flag)
<1> DEFINE l == Len(text)
           n == Len(key)
           x == Piece(text, p, n)
<1>1. l \in Nat /\ n \in Nat /\ p \in Nat /\ p <= l /\ text \in Seq(Chars)
  BY DEF Searched
<1>2. Fits(text, key, p, flag) <=> n > 0 /\ n <= l - p /\ SameText(x, key, flag)
  BY DEF Fits
<1> HIDE DEF x
<1>3. ASSUME n <= l - p PROVE Len(x) = n /\ \A i \in 1..n : x[i] = text[p + i]
  <2> DEFINE d == p + n
  <2>1. d \in Nat /\ p <= d /\ d <= Len(text) /\ d - p = n
    BY <1>1, <1>3
  <2>2. x = SubSeq(text, p + 1, d)
    BY DEF Piece, x
  <2> HIDE DEF l, n, d
  <2>3. Len(SubSeq(text, p + 1, d)) = d - p
        /\ \A i \in 1..d - p : SubSeq(text, p + 1, d)[i] = text[p + i]
    BY <1>1, <2>1, MidIs
  <2> QED BY <2>1, <2>2, <2>3
<1>4. SameText(x, key, flag) <=> Len(x) = n /\ \A i \in 1..Len(x) : Same(x[i], key[i], flag)
  BY DEF SameText
<1>5. n <= l - p <=> p + n <= l
  BY <1>1
<1> HIDE DEF l, n
<1>6. n <= l - p => (SameText(x, key, flag) <=> \A i \in 1..n : Same(text[p + i], key[i], flag))
  BY <1>3, <1>4
<1> QED BY <1>2, <1>5, <1>6, Zenon DEF l, n

\* The number of occurrences from p on.
Ahead(text, seek, flag, p) == Len(Occurrences(text, seek, flag)[p])

\* How the number of occurrences goes down along the text.
LEMMA AheadIs ==
    ASSUME NEW text, NEW seek, NEW flag, Searched(text, seek, flag)
    PROVE  /\ \A p \in 0..Len(text) : Ahead(text, seek, flag, p) \in Nat
           /\ \A p \in 0..Len(text) - 1 :
                  Ahead(text, seek, flag, p) =
                      IF Fits(text, seek, p, flag) THEN 1 + Ahead(text, seek, flag, p + Len(seek))
                      ELSE Ahead(text, seek, flag, p + 1)
           /\ \A p \in 0..Len(text) - 1 :
                  Fits(text, seek, p, flag) => Len(seek) >= 1 /\ p + Len(seek) <= Len(text)
           /\ \A p \in 0..Len(text) :
                  p + Len(seek) > Len(text) => Ahead(text, seek, flag, p) = 0
<1> DEFINE l == Len(text)
           m == Len(seek)
           Fit(p) == Fits(text, seek, p, flag)
           Is(f) == f = [p \in 0..l |-> IF p = l THEN <<>>
                                        ELSE IF Fit(p) THEN <<p>> \o f[p + m]
                                        ELSE f[p + 1]]
           skip == [p \in 0..l - 1 |-> IF Fit(p) THEN m ELSE 1]
           put == [p \in 0..l - 1 |-> IF Fit(p) THEN <<p>> ELSE <<>>]
           g == CHOOSE f : Is(f)
<1>1. l \in Nat /\ m \in Nat
  BY DEF Searched
<1>2. Occurrences(text, seek, flag) = g
  BY Zenon DEF Occurrences
<1>3. \A p \in 0..l - 1 : Fit(p) => m >= 1 /\ p + m <= l
  <2> TAKE p \in 0..l - 1
  <2>1. p \in 0..Len(text)
    BY <1>1
  <2>2. Fit(p) => m > 0 /\ p + m <= l
    BY <2>1, FitsAre, Zenon
  <2> QED BY <1>1, <2>2
<1> HIDE DEF l, m, Fit
<1>4. Steps(l, skip) /\ put \in [0..l - 1 -> Seq(Nat)]
  <2>1. ASSUME NEW p \in 0..l - 1
        PROVE  /\ (IF Fit(p) THEN m ELSE 1) \in Nat /\ (IF Fit(p) THEN m ELSE 1) >= 1
               /\ p + (IF Fit(p) THEN m ELSE 1) <= l
               /\ (IF Fit(p) THEN <<p>> ELSE <<>>) \in Seq(Nat)
    <3>1. p \in Nat /\ p + 1 <= l
      BY <1>1
    <3>2. <<p>> \in Seq(Nat) /\ <<>> \in Seq(Nat)
      BY <3>1
    <3> QED BY <1>1, <1>3, <3>1, <3>2
  <2> QED BY <1>1, <2>1 DEF Steps
<1>5. PICK f : Built(f, Nat, l, skip, put)
  <2>1. \E f : Built(f, Nat, l, skip, put)
    <3> HIDE DEF skip, put
    <3> QED BY <1>4, BuiltExists, Zenon
  <2> QED BY <2>1
<1>6. f \in [0..l -> Seq(Nat)] /\ f[l] = <<>>
      /\ \A p \in 0..l - 1 : f[p] = put[p] \o f[p + skip[p]]
  BY <1>5 DEF Built, Builds
<1>7. Is(f)
  <2>1. ASSUME NEW p \in 0..l
        PROVE  f[p] = IF p = l THEN <<>> ELSE IF Fit(p) THEN <<p>> \o f[p + m] ELSE f[p + 1]
    <3>1. CASE p = l
      BY <1>6, <3>1
    <3>2. CASE p # l
      <4>1. p \in 0..l - 1 /\ p + 1 \in 0..l
        BY <1>1, <3>2
      <4>2. f[p] = put[p] \o f[p + skip[p]]
        BY <1>6, <4>1
      <4>3. CASE Fit(p)
        BY <3>2, <4>1, <4>2, <4>3
      <4>4. CASE ~Fit(p)
        <5>1. f[p] = <<>> \o f[p + 1]
          BY <4>1, <4>2, <4>4
        <5>2. f[p + 1] \in Seq(Nat)
          BY <1>6, <4>1
        <5>3. <<>> \o f[p + 1] = f[p + 1]
          BY <5>2, ConcatEmptySeq
        <5> QED BY <3>2, <4>4, <5>1, <5>3
      <4> QED BY <4>3, <4>4
    <3> QED BY <3>1, <3>2
  <2>2. f = [p \in 0..l |-> f[p]]
    BY <1>6
  <2> QED BY <2>1, <2>2
<1>8. Is(g)
  BY <1>7
<1> HIDE DEF g
<1>9. /\ g[l] = <<>>
      /\ \A p \in 0..l - 1 : g[p] = IF Fit(p) THEN <<p>> \o g[p + m] ELSE g[p + 1]
  <2>1. l \in 0..l /\ \A p \in 0..l - 1 : p \in 0..l /\ p # l
    BY <1>1
  <2> QED BY <1>8, <2>1
<1> HIDE DEF Is, skip, put
<1>10. \A p \in 0..l : g[p] \in Seq(Nat)
  <2> DEFINE B == {n \in Nat : n <= l /\ g[l - n] \notin Seq(Nat)}
  <2>1. B = {}
    <3> SUFFICES ASSUME B # {} PROVE FALSE
      OBVIOUS
    <3>1. PICK n \in B : \A k \in B : n <= k
      <4>1. B \in SUBSET Nat
        OBVIOUS
      <4> HIDE DEF B
      <4> QED BY <4>1, LeastNumber
    <3> DEFINE p == l - n
    <3>2. n \in Nat /\ n <= l /\ g[p] \notin Seq(Nat)
      BY <3>1
    <3>3. n # 0
      <4>1. n = 0 => p = l
        BY <1>1
      <4>2. <<>> \in Seq(Nat)
        OBVIOUS
      <4> QED BY <1>9, <3>2, <4>1, <4>2
    <3>4. p \in 0..l - 1 /\ p \in Nat /\ l - p = n
      BY <1>1, <3>2, <3>3
    <3> HIDE DEF p
    <3>5. \A k \in Nat : k < n => g[l - k] \in Seq(Nat)
      <4> TAKE k \in Nat
      <4> HAVE k < n
      <4>1. k \notin B
        <5> HIDE DEF B
        <5> QED BY <3>1, <3>2
      <4> QED BY <1>1, <3>2, <4>1
    <3>6. CASE Fit(p)
      <4>1. m >= 1 /\ p + m <= l
        BY <1>3, <3>4, <3>6
      <4>2. l - (p + m) \in Nat /\ l - (p + m) < n /\ l - (l - (p + m)) = p + m
        BY <1>1, <3>4, <4>1
      <4>3. g[p + m] \in Seq(Nat)
        BY <3>5, <4>2
      <4>4. <<p>> \in Seq(Nat)
        BY <3>4
      <4>5. <<p>> \o g[p + m] \in Seq(Nat)
        BY <4>3, <4>4, ConcatProperties
      <4> QED BY <1>9, <3>2, <3>4, <3>6, <4>5
    <3>7. CASE ~Fit(p)
      <4>1. l - (p + 1) \in Nat /\ l - (p + 1) < n /\ l - (l - (p + 1)) = p + 1
        BY <1>1, <3>4
      <4>2. g[p + 1] \in Seq(Nat)
        BY <3>5, <4>1
      <4> QED BY <1>9, <3>2, <3>4, <3>7, <4>2
    <3> QED BY <3>6, <3>7
  <2>2. ASSUME NEW p \in 0..l PROVE g[p] \in Seq(Nat)
    <3>1. l - p \in Nat /\ l - p <= l /\ l - (l - p) = p
      BY <1>1
    <3> QED BY <2>1, <3>1
  <2> QED BY <2>2
<1> DEFINE N(p) == Len(g[p])
<1>11. \A p \in 0..l : N(p) \in Nat
  BY <1>10
<1>12. \A p \in 0..l - 1 : N(p) = IF Fit(p) THEN 1 + N(p + m) ELSE N(p + 1)
  <2> TAKE p \in 0..l - 1
  <2>1. CASE Fit(p)
    <3>1. m >= 1 /\ p + m <= l /\ p \in Nat
      BY <1>1, <1>3, <2>1
    <3>2. p + m \in 0..l
      BY <1>1, <3>1
    <3> DEFINE a == <<p>>
               b == g[p + m]
    <3>3. a \in Seq(Nat) /\ b \in Seq(Nat) /\ Len(a) = 1
      BY <1>10, <3>1, <3>2
    <3>4. g[p] = a \o b
      BY <1>9, <2>1
    <3> HIDE DEF a, b
    <3>5. Len(a \o b) = Len(a) + Len(b)
      BY <3>3, ConcatIs
    <3>6. N(p) = 1 + Len(b)
      BY <3>3, <3>4, <3>5
    <3> QED BY <2>1, <3>6 DEF b
  <2>2. CASE ~Fit(p)
    BY <1>9, <2>2
  <2> QED BY <2>1, <2>2
<1>13. N(l) = 0
  BY <1>9
<1> HIDE DEF N
<1>14. \A p \in 0..l : p + m > l => N(p) = 0
  <2> DEFINE B == {n \in Nat : n <= l /\ (l - n) + m > l /\ N(l - n) # 0}
  <2>1. B = {}
    <3> SUFFICES ASSUME B # {} PROVE FALSE
      OBVIOUS
    <3>1. PICK n \in B : \A k \in B : n <= k
      <4>1. B \in SUBSET Nat
        OBVIOUS
      <4> HIDE DEF B
      <4> QED BY <4>1, LeastNumber
    <3> DEFINE p == l - n
    <3>2. n \in Nat /\ n <= l /\ p + m > l /\ N(p) # 0
      BY <3>1
    <3>3. n # 0
      <4>1. n = 0 => p = l
        BY <1>1
      <4> QED BY <1>13, <3>2, <4>1
    <3>4. p \in 0..l - 1 /\ p \in Nat /\ n - 1 \in Nat /\ n - 1 <= l /\ l - (n - 1) = p + 1
          /\ ~(p + m <= l) /\ (p + 1) + m > l /\ n - 1 < n
      BY <1>1, <3>2, <3>3
    <3> HIDE DEF p
    <3>5. N(p) = N(p + 1)
      BY <1>3, <1>12, <3>4
    <3>6. n - 1 \in B
      BY <3>2, <3>4, <3>5
    <3> HIDE DEF B
    <3> QED BY <3>1, <3>2, <3>4, <3>6
  <2>2. ASSUME NEW p \in 0..l, p + m > l PROVE N(p) = 0
    <3>1. l - p \in Nat /\ l - p <= l /\ l - (l - p) = p
      BY <1>1
    <3> QED BY <2>1, <2>2, <3>1
  <2> QED BY <2>2
<1>15. \A p : Ahead(text, seek, flag, p) = N(p)
  BY <1>2 DEF Ahead, N
<1> QED BY <1>3, <1>11, <1>12, <1>14, <1>15, Zenon DEF Fit, l, m

\* Of the occurrences, those that are to be replaced: all but the first n, at most m.
Chosen(text, seek, n, m, flag, p) ==
    LET nth == Ahead(text, seek, flag, 0) - Ahead(text, seek, flag, p)
    IN  nth >= n /\ (m < 0 \/ nth < n + m)

\* What a place of the text stands for, and what becomes of it.
Leaps(text, seek, flag) ==
    [p \in 0..Len(text) - 1 |-> IF Fits(text, seek, p, flag) THEN Len(seek) ELSE 1]
Turns(text, seek, replace, n, m, flag) ==
    [p \in 0..Len(text) - 1 |->
        IF Fits(text, seek, p, flag)
        THEN IF Chosen(text, seek, n, m, flag, p) THEN replace ELSE Piece(text, p, Len(seek))
        ELSE Piece(text, p, 1)]

\* A place stands for at least one character, and the text ends with a place.
LEMMA LeapsAre ==
    ASSUME NEW text, NEW seek, NEW flag, Searched(text, seek, flag)
    PROVE  Steps(Len(text), Leaps(text, seek, flag))
<1> DEFINE l == Len(text)
           m == Len(seek)
           Fit(p) == Fits(text, seek, p, flag)
<1>1. l \in Nat /\ m \in Nat
  BY DEF Searched
<1>2. \A p \in 0..l - 1 : Fit(p) => m >= 1 /\ p + m <= l
  BY AheadIs
<1> HIDE DEF l, m, Fit
<1>3. ASSUME NEW p \in 0..l - 1
      PROVE  /\ (IF Fit(p) THEN m ELSE 1) \in Nat /\ (IF Fit(p) THEN m ELSE 1) >= 1
             /\ p + (IF Fit(p) THEN m ELSE 1) <= l
  <2>1. p \in Nat /\ p + 1 <= l
    BY <1>1
  <2> QED BY <1>1, <1>2, <2>1
<1>4. Leaps(text, seek, flag) = [p \in 0..l - 1 |-> IF Fit(p) THEN m ELSE 1]
  BY DEF Leaps, Fit, l, m
<1>5. Steps(l, [p \in 0..l - 1 |-> IF Fit(p) THEN m ELSE 1])
  BY <1>1, <1>3 DEF Steps
<1> QED BY <1>4, <1>5 DEF l

\* What becomes of a place is a text.
LEMMA TurnsAre ==
    ASSUME NEW text, NEW seek, NEW replace \in Seq(Chars), NEW n, NEW m, NEW flag,
           Searched(text, seek, flag)
    PROVE  Turns(text, seek, replace, n, m, flag) \in [0..Len(text) - 1 -> Seq(Chars)]
<1> DEFINE l == Len(text)
           k == Len(seek)
           Fit(p) == Fits(text, seek, p, flag)
           Is(p) == Chosen(text, seek, n, m, flag, p)
<1>1. l \in Nat /\ k \in Nat /\ text \in Seq(Chars)
  BY DEF Searched
<1>2. \A p \in 0..l - 1 : Fit(p) => k >= 1 /\ p + k <= l
  BY AheadIs
<1>3. ASSUME NEW p \in 0..l - 1
      PROVE  (Fit(p) => Piece(text, p, k) \in Seq(Chars)) /\ Piece(text, p, 1) \in Seq(Chars)
  <2>1. p \in Nat /\ p + 1 <= Len(text) /\ 1 \in Nat
    BY <1>1
  <2>2. Piece(text, p, 1) \in Seq(Chars)
    <3>1. Splits(Chars, text, p, 1)
      BY <1>1, <2>1, PieceAndTail, Zenon
    <3> QED BY <3>1 DEF Splits
  <2>3. ASSUME Fit(p) PROVE Piece(text, p, k) \in Seq(Chars)
    <3>1. p + k <= Len(text)
      BY <1>2, <2>3
    <3> HIDE DEF k
    <3>2. Splits(Chars, text, p, k)
      BY <1>1, <2>1, <3>1, PieceAndTail, Zenon
    <3> QED BY <3>2 DEF Splits
  <2> QED BY <2>2, <2>3
<1>4. Turns(text, seek, replace, n, m, flag) =
          [p \in 0..l - 1 |-> IF Fit(p) THEN IF Is(p) THEN replace ELSE Piece(text, p, k)
                              ELSE Piece(text, p, 1)]
  BY DEF Turns
<1> HIDE DEF l, k, Fit, Is
<1>5. [p \in 0..l - 1 |-> IF Fit(p) THEN IF Is(p) THEN replace ELSE Piece(text, p, k)
                          ELSE Piece(text, p, 1)] \in [0..l - 1 -> Seq(Chars)]
  BY <1>3
<1> QED BY <1>4, <1>5 DEF l

\* The reference is built of these.
LEMMA ReplacedIs ==
    ASSUME NEW text, NEW seek, NEW replace \in Seq(Chars), NEW n, NEW m, NEW flag,
           Searched(text, seek, flag)
    PROVE  \E from : /\ Built(from, Chars, Len(text), Leaps(text, seek, flag),
                              Turns(text, seek, replace, n, m, flag))
                     /\ Replaced(text, seek, replace, n, m, flag) = from[0]
<1> DEFINE l == Len(text)
           k == Len(seek)
           skip == Leaps(text, seek, flag)
           put == Turns(text, seek, replace, n, m, flag)
           Fit(p) == Fits(text, seek, p, flag)
           occ == Occurrences(text, seek, flag)
           Nth(p) == Len(occ[0]) - Len(occ[p])
           Put2(p) == IF Nth(p) >= n /\ (m < 0 \/ Nth(p) < n + m) THEN replace ELSE Piece(text, p, k)
           Is(f) == f = [p \in 0..l |->
                            IF p = l THEN <<>>
                            ELSE IF Fit(p) THEN Put2(p) \o f[p + k]
                            ELSE <<At(text, p)>> \o f[p + 1]]
           g == CHOOSE f : Is(f)
<1>1. Replaced(text, seek, replace, n, m, flag) = g[0]
  BY Zenon DEF Replaced
<1>2. l \in Nat
  BY DEF Searched
<1>3. ASSUME NEW p \in 0..l - 1
      PROVE  /\ skip[p] = IF Fit(p) THEN k ELSE 1
             /\ put[p] = IF Fit(p) THEN Put2(p) ELSE <<At(text, p)>>
  <2>1. Piece(text, p, 1) = <<At(text, p)>>
    BY PieceOne DEF Searched
  <2>2. skip[p] = IF Fit(p) THEN k ELSE 1
    BY DEF Leaps
  <2>3. put[p] = IF Fit(p) THEN IF Chosen(text, seek, n, m, flag, p) THEN replace
                                ELSE Piece(text, p, k)
                 ELSE Piece(text, p, 1)
    BY DEF Turns
  <2>4. Chosen(text, seek, n, m, flag, p) <=> Nth(p) >= n /\ (m < 0 \/ Nth(p) < n + m)
    BY Zenon DEF Chosen, Ahead
  <2> HIDE DEF Nth, skip, put, Fit, k
  <2>5. Put2(p) = IF Chosen(text, seek, n, m, flag, p) THEN replace ELSE Piece(text, p, k)
    BY <2>4, Zenon
  <2> QED BY <2>1, <2>2, <2>3, <2>5, Zenon
<1>4. Steps(l, skip) /\ put \in [0..l - 1 -> Seq(Chars)]
  BY LeapsAre, TurnsAre
<1> HIDE DEF l, k, skip, put, Fit, Put2
<1>5. PICK from : Built(from, Chars, l, skip, put)
  <2>1. \E from : Built(from, Chars, l, skip, put)
    BY <1>4, BuiltExists, Zenon
  <2> QED BY <2>1
<1>6. from \in [0..l -> Seq(Chars)] /\ from[l] = <<>>
      /\ \A p \in 0..l - 1 : from[p] = put[p] \o from[p + skip[p]]
  BY <1>5 DEF Built, Builds
<1>7. ASSUME NEW f, NEW p \in 0..l - 1
      PROVE  put[p] \o f[p + skip[p]] =
                 IF Fit(p) THEN Put2(p) \o f[p + k] ELSE <<At(text, p)>> \o f[p + 1]
  BY <1>3
<1>8. Is(from)
  <2>1. ASSUME NEW p \in 0..l
        PROVE  from[p] = IF p = l THEN <<>>
                         ELSE IF Fit(p) THEN Put2(p) \o from[p + k]
                         ELSE <<At(text, p)>> \o from[p + 1]
    <3>1. CASE p = l
      BY <1>6, <3>1
    <3>2. CASE p # l
      <4>1. p \in 0..l - 1
        BY <1>2, <3>2
      <4> QED BY <1>6, <1>7, <3>2, <4>1
    <3> QED BY <3>1, <3>2
  <2>2. from = [p \in 0..l |-> from[p]]
    BY <1>6
  <2> QED BY <2>1, <2>2
<1>9. Is(g)
  BY <1>8
<1> HIDE DEF g
<1>10. Builds(g, l, skip, put)
  <2>1. l \in 0..l /\ \A p \in 0..l - 1 : p \in 0..l /\ p # l
    BY <1>2
  <2>2. g[l] = <<>>
    BY <1>9, <2>1
  <2>3. ASSUME NEW p \in 0..l - 1 PROVE g[p] = put[p] \o g[p + skip[p]]
    <3>1. g[p] = IF Fit(p) THEN Put2(p) \o g[p + k] ELSE <<At(text, p)>> \o g[p + 1]
      BY <1>9, <2>1
    <3> QED BY <1>7, <3>1
  <2> QED BY <2>2, <2>3 DEF Builds
<1>11. g[0] = from[0]
  <2>1. 0 \in 0..l
    BY <1>2
  <2>2. Builds(from, l, skip, put) /\ Steps(l, skip)
    BY <1>4, <1>5 DEF Built
  <2>3. Agree(g, from, l)
    BY <1>10, <2>2, BuiltOnce, Zenon
  <2> QED BY <2>1, <2>3 DEF Agree
<1> QED BY <1>1, <1>5, <1>11 DEF l, skip, put

\* The first k characters of seek are at p.
Partial(text, seek, flag, p, k) == \A i \in 1..k : Same(text[p + i], seek[i], flag)

\* What the next character tells.
LEMMA MatchIs ==
    ASSUME NEW text, NEW seek, NEW flag, Searched(text, seek, flag),
           NEW p \in 0..Len(text), NEW k \in 0..Len(seek) - 1
    PROVE  /\ Partial(text, seek, flag, p, 0)
           /\ Partial(text, seek, flag, p, k) /\ Same(At(text, p + k), At(seek, k), flag)
                  => Partial(text, seek, flag, p, k + 1)
           /\ Partial(text, seek, flag, p, k) /\ Same(At(text, p + k), At(seek, k), flag)
              /\ k + 1 = Len(seek) /\ p + Len(seek) <= Len(text)
                  => Fits(text, seek, p, flag)
           /\ ~Same(At(text, p + k), At(seek, k), flag) => ~Fits(text, seek, p, flag)
<1> DEFINE l == Len(text)
           m == Len(seek)
           w == Same(At(text, p + k), At(seek, k), flag)
<1>1. l \in Nat /\ m \in Nat /\ p \in Nat /\ k \in Nat /\ k + 1 <= m
  BY DEF Searched
<1>2. w <=> Same(text[p + (k + 1)], seek[k + 1], flag)
  <2>1. (p + k) + 1 = p + (k + 1)
    BY <1>1
  <2> QED BY <2>1 DEF At
<1>3. Fits(text, seek, p, flag) <=> m > 0 /\ p + m <= l
                                    /\ \A i \in 1..m : Same(text[p + i], seek[i], flag)
  BY FitsAre, Zenon
<1> HIDE DEF w, l, m
<1>4. Partial(text, seek, flag, p, 0)
  BY DEF Partial
<1>5. ASSUME Partial(text, seek, flag, p, k), w PROVE Partial(text, seek, flag, p, k + 1)
  <2>1. \A i \in 1..k + 1 : i \in 1..k \/ i = k + 1
    BY <1>1
  <2> QED BY <1>2, <1>5, <2>1, Zenon DEF Partial
<1>6. ASSUME Partial(text, seek, flag, p, k), w, k + 1 = m, p + m <= l
      PROVE  Fits(text, seek, p, flag)
  <2>1. Partial(text, seek, flag, p, m)
    BY <1>5, <1>6
  <2>2. m > 0
    BY <1>1
  <2> QED BY <1>3, <1>6, <2>1, <2>2, Zenon DEF Partial
<1>7. ASSUME ~w PROVE ~Fits(text, seek, p, flag)
  <2>1. k + 1 \in 1..m
    BY <1>1
  <2> QED BY <1>2, <1>3, <1>7, <2>1, Zenon
<1> QED BY <1>4, <1>5, <1>6, <1>7 DEF w, l, m

\* How far a pass still has to go, with k characters of an occurrence at p seen.
Rank(l, m, p, k) == (l - p) * m + ((m - 1) - k)

\* It is less further on, and with more of an occurrence seen.
LEMMA RankIs ==
    ASSUME NEW l \in Nat, NEW m \in Nat, m >= 1, NEW p \in 0..l, NEW k \in 0..m - 1
    PROVE  /\ Rank(l, m, p, k) \in Nat
           /\ \A j \in 0..m - 1 : k < j => Rank(l, m, p, j) < Rank(l, m, p, k)
           /\ \A q \in 0..l : \A j \in 0..m - 1 : p < q => Rank(l, m, q, j) < Rank(l, m, p, k)
<1>1. l - p \in Nat /\ p \in Nat /\ k \in Nat
  OBVIOUS
<1>2. (l - p) * m \in Nat
  BY <1>1
<1>3. Rank(l, m, p, k) \in Nat
  BY <1>2 DEF Rank
<1>4. \A j \in 0..m - 1 : k < j => Rank(l, m, p, j) < Rank(l, m, p, k)
  <2> DEFINE x == (l - p) * m
  <2>1. x \in Nat
    BY <1>2
  <2> HIDE DEF x
  <2>2. \A j \in 0..m - 1 : k < j => x + ((m - 1) - j) < x + ((m - 1) - k)
    BY <2>1
  <2> QED BY <2>2 DEF Rank, x
<1>5. ASSUME NEW q \in 0..l, NEW j \in 0..m - 1, p < q PROVE Rank(l, m, q, j) < Rank(l, m, p, k)
  <2> DEFINE d == q - (p + 1)
             x == (l - q) * m
             y == d * m
  <2>1. d \in Nat /\ l - q \in Nat /\ l - p = (l - q) + d + 1
    BY <1>1, <1>5
  <2> HIDE DEF d
  <2>2. (l - p) * m = x + y + m
    <3> DEFINE a == l - q
    <3>1. a \in Nat
      BY <2>1
    <3> HIDE DEF a
    <3>2. (a + d + 1) * m = a * m + d * m + m
      BY <2>1, <3>1
    <3> QED BY <2>1, <3>2 DEF a
  <2>3. x \in Nat /\ y \in Nat
    BY <2>1
  <2> HIDE DEF x, y
  <2>4. x + ((m - 1) - j) < (x + y + m) + ((m - 1) - k)
    BY <1>1, <2>3
  <2> QED BY <2>2, <2>4 DEF Rank, x
<1> QED BY <1>3, <1>4, <1>5

\* What the first pass finds.
LEMMA CountedIs ==
    ASSUME NEW text, NEW seek, NEW flag, Searched(text, seek, flag), seek # <<>>,
           NEW start \in Int, start >= 1, NEW count \in Int, count # 0
    PROVE  LET c == Counted(text, seek, start, count, flag)
               all == Ahead(text, seek, flag, 0)
           IN  /\ c.nFound \in 0..all
               /\ c.nReplaced = IF c.nFound < start THEN 0 ELSE c.nFound - (start - 1)
               /\ count < 0 => c.nFound = all
               /\ count > 0 => c.nReplaced <= count /\ (c.nFound = all \/ c.nReplaced = count)
<1> DEFINE l == Len(text)
           m == Len(seek)
           N(p) == Ahead(text, seek, flag, p)
           Fit(p) == Fits(text, seek, p, flag)
           Part(p, k) == Partial(text, seek, flag, p, k)
           W(t, k) == Same(At(text, t), At(seek, k), flag)
           S == CountStates(text, seek)
           R(s) == CountRound(text, seek, start, flag, s)
           first == [nT |-> 0, nS |-> 0, nFound |-> 0, nReplaced |-> 0, nCount |-> count]
           G(s) == s.nT < l /\ l - s.nT >= m - s.nS
<1>1. l \in Nat /\ m \in Nat /\ m >= 1
  BY EmptySeq DEF Searched
<1>2. /\ \A p \in 0..l : N(p) \in Nat
      /\ \A p \in 0..l - 1 : N(p) = IF Fit(p) THEN 1 + N(p + m) ELSE N(p + 1)
      /\ \A p \in 0..l : p + m > l => N(p) = 0
  BY AheadIs
<1>3. \A p \in 0..l : \A k \in 0..m - 1 :
          /\ Part(p, 0)
          /\ Part(p, k) /\ W(p + k, k) => Part(p, k + 1)
          /\ Part(p, k) /\ W(p + k, k) /\ k + 1 = m /\ p + m <= l => Fit(p)
          /\ ~W(p + k, k) => ~Fit(p)
  BY MatchIs
<1>4. \A s \in S : R(s) =
          IF ~G(s) THEN s
          ELSE IF W(s.nT, s.nS)
          THEN IF s.nS + 1 < m THEN [s EXCEPT !.nT = s.nT + 1, !.nS = s.nS + 1]
               ELSE IF s.nFound + 1 < start
               THEN [s EXCEPT !.nT = s.nT + 1, !.nS = 0, !.nFound = s.nFound + 1]
               ELSE [nT |-> IF s.nCount = 1 THEN l ELSE s.nT + 1, nS |-> 0,
                     nFound |-> s.nFound + 1, nReplaced |-> s.nReplaced + 1,
                     nCount |-> s.nCount - 1]
          ELSE IF s.nS > 0 THEN [s EXCEPT !.nT = s.nT - (s.nS - 1), !.nS = 0]
          ELSE [s EXCEPT !.nT = s.nT + 1]
  BY DEF CountRound
<1>5. S = {s \in [nT : 0..l, nS : 0..m - 1, nFound : Nat, nReplaced : Nat, nCount : Int] :
              s.nS <= s.nT}
  BY DEF CountStates
<1>6. Counted(text, seek, start, count, flag) = While([s \in S |-> R(s)], first)
  BY DEF Counted
<1> HIDE DEF l, m, N, Fit, Part, W, S, R
<1>7. \A s \in S : /\ s.nT \in 0..l /\ s.nS \in 0..m - 1 /\ s.nFound \in Nat /\ s.nReplaced \in Nat
                   /\ s.nCount \in Int /\ s.nS <= s.nT
                   /\ s = [nT |-> s.nT, nS |-> s.nS, nFound |-> s.nFound,
                           nReplaced |-> s.nReplaced, nCount |-> s.nCount]
  BY <1>5
\* The rounds, by what they do to the fields.
<1>8. ASSUME NEW s \in S, G(s)
      PROVE  LET p == s.nT - s.nS
                 t == R(s)
             IN  /\ t \in S
                 /\ W(p + s.nS, s.nS) /\ s.nS + 1 # m =>
                       t.nT = s.nT + 1 /\ t.nS = s.nS + 1 /\ t.nFound = s.nFound
                       /\ t.nReplaced = s.nReplaced /\ t.nCount = s.nCount
                 /\ W(p + s.nS, s.nS) /\ s.nS + 1 = m /\ s.nFound + 1 < start =>
                       t.nT = p + m /\ t.nS = 0 /\ t.nFound = s.nFound + 1
                       /\ t.nReplaced = s.nReplaced /\ t.nCount = s.nCount
                 /\ W(p + s.nS, s.nS) /\ s.nS + 1 = m /\ ~(s.nFound + 1 < start) =>
                       t.nT = (IF s.nCount = 1 THEN l ELSE p + m) /\ t.nS = 0
                       /\ t.nFound = s.nFound + 1
                       /\ t.nReplaced = s.nReplaced + 1 /\ t.nCount = s.nCount - 1
                 /\ ~W(p + s.nS, s.nS) =>
                       t.nT = p + 1 /\ t.nS = 0 /\ t.nFound = s.nFound
                       /\ t.nReplaced = s.nReplaced /\ t.nCount = s.nCount
  <2> DEFINE t == R(s)
             a == s.nT
             k == s.nS
             f == s.nFound
             r == s.nReplaced
             c == s.nCount
             p == a - k
  <2>1. /\ a \in 0..l /\ k \in 0..m - 1 /\ f \in Nat /\ r \in Nat /\ c \in Int /\ k <= a
        /\ s = [nT |-> a, nS |-> k, nFound |-> f, nReplaced |-> r, nCount |-> c]
        /\ a < l
    BY <1>7, <1>8
  <2>3. t = IF W(a, k)
            THEN IF k + 1 < m THEN [s EXCEPT !.nT = a + 1, !.nS = k + 1]
                 ELSE IF f + 1 < start
                 THEN [s EXCEPT !.nT = a + 1, !.nS = 0, !.nFound = f + 1]
                 ELSE [nT |-> IF c = 1 THEN l ELSE a + 1, nS |-> 0,
                       nFound |-> f + 1, nReplaced |-> r + 1, nCount |-> c - 1]
            ELSE IF k > 0 THEN [s EXCEPT !.nT = a - (k - 1), !.nS = 0]
            ELSE [s EXCEPT !.nT = a + 1]
    <3>1. R(s) = IF ~G(s) THEN s
            ELSE IF W(s.nT, s.nS)
            THEN IF s.nS + 1 < m THEN [s EXCEPT !.nT = s.nT + 1, !.nS = s.nS + 1]
                 ELSE IF s.nFound + 1 < start
                 THEN [s EXCEPT !.nT = s.nT + 1, !.nS = 0, !.nFound = s.nFound + 1]
                 ELSE [nT |-> IF s.nCount = 1 THEN l ELSE s.nT + 1, nS |-> 0,
                       nFound |-> s.nFound + 1, nReplaced |-> s.nReplaced + 1,
                       nCount |-> s.nCount - 1]
            ELSE IF s.nS > 0 THEN [s EXCEPT !.nT = s.nT - (s.nS - 1), !.nS = 0]
            ELSE [s EXCEPT !.nT = s.nT + 1]
      BY <1>4, Zenon
    <3> HIDE DEF G
    <3> QED BY <1>8, <3>1
  <2> HIDE DEF a, k, f, r, c, t
  <2>4. s.nT = a /\ s.nS = k /\ s.nFound = f /\ s.nReplaced = r /\ s.nCount = c
    BY DEF a, k, f, r, c
  <2>2. /\ p + k = a /\ p \in Nat /\ (k + 1 = m => a + 1 = p + m) /\ a + 1 \in 0..l
        /\ p + 1 \in 0..l /\ (k > 0 => a - (k - 1) = p + 1) /\ (~(k > 0) => k = 0 /\ a + 1 = p + 1)
        /\ (k + 1 < m <=> k + 1 # m) /\ (k + 1 # m => k + 1 \in 0..m - 1 /\ k + 1 <= a + 1)
    BY <1>1, <2>1
  <2>11. /\ 0 \in 0..m - 1 /\ 0 <= l /\ 0 <= p + 1 /\ 0 <= a + 1 /\ l \in 0..l
         /\ f + 1 \in Nat /\ r + 1 \in Nat /\ c - 1 \in Int
    BY <1>1, <2>1, <2>2
  <2> HIDE DEF p
  <2>5. ASSUME W(a, k), k + 1 # m
        PROVE  t = [nT |-> a + 1, nS |-> k + 1, nFound |-> f, nReplaced |-> r, nCount |-> c]
    BY <2>1, <2>2, <2>3, <2>5
  <2>6. ASSUME W(a, k), k + 1 = m, f + 1 < start
        PROVE  t = [nT |-> a + 1, nS |-> 0, nFound |-> f + 1, nReplaced |-> r, nCount |-> c]
    BY <2>1, <2>2, <2>3, <2>6
  <2>7. ASSUME W(a, k), k + 1 = m, ~(f + 1 < start)
        PROVE  t = [nT |-> IF c = 1 THEN l ELSE a + 1, nS |-> 0, nFound |-> f + 1,
                    nReplaced |-> r + 1, nCount |-> c - 1]
    BY <2>2, <2>3, <2>7
  <2>8. ASSUME ~W(a, k)
        PROVE  t = [nT |-> p + 1, nS |-> 0, nFound |-> f, nReplaced |-> r, nCount |-> c]
    BY <2>1, <2>2, <2>3, <2>8
  <2>9. t \in S
    <3>1. CASE W(a, k) /\ k + 1 # m
      BY <1>5, <2>1, <2>2, <2>5, <3>1
    <3>2. CASE W(a, k) /\ k + 1 = m /\ f + 1 < start
      BY <1>5, <2>1, <2>2, <2>6, <2>11, <3>2
    <3>3. CASE W(a, k) /\ k + 1 = m /\ ~(f + 1 < start)
      <4> DEFINE n == IF c = 1 THEN l ELSE a + 1
      <4>1. n \in 0..l /\ 0 <= n
        BY <2>2, <2>11
      <4>2. t = [nT |-> n, nS |-> 0, nFound |-> f + 1, nReplaced |-> r + 1, nCount |-> c - 1]
        BY <2>7, <3>3
      <4> HIDE DEF n
      <4> QED BY <1>5, <2>11, <4>1, <4>2
    <3>4. CASE ~W(a, k)
      BY <1>5, <2>1, <2>2, <2>8, <2>11, <3>4
    <3> QED BY <3>1, <3>2, <3>3, <3>4
  <2>10. /\ W(p + k, k) /\ k + 1 # m =>
               t.nT = a + 1 /\ t.nS = k + 1 /\ t.nFound = f /\ t.nReplaced = r /\ t.nCount = c
         /\ W(p + k, k) /\ k + 1 = m /\ f + 1 < start =>
               t.nT = p + m /\ t.nS = 0 /\ t.nFound = f + 1 /\ t.nReplaced = r /\ t.nCount = c
         /\ W(p + k, k) /\ k + 1 = m /\ ~(f + 1 < start) =>
               t.nT = (IF c = 1 THEN l ELSE p + m) /\ t.nS = 0 /\ t.nFound = f + 1
               /\ t.nReplaced = r + 1 /\ t.nCount = c - 1
         /\ ~W(p + k, k) =>
               t.nT = p + 1 /\ t.nS = 0 /\ t.nFound = f /\ t.nReplaced = r /\ t.nCount = c
    BY <2>2, <2>5, <2>6, <2>7, <2>8
  <2> QED BY <2>4, <2>9, <2>10, Zenon DEF t, p
<1>9. ASSUME NEW s \in S, ~G(s) PROVE R(s) = s
  <2> HIDE DEF G
  <2> QED BY <1>4, <1>9, Zenon
<1> DEFINE body == [s \in S |-> R(s)]
<1>10. body \in [S -> S] /\ \A s \in S : body[s] = R(s)
  <2>1. \A s \in S : R(s) \in S
    <3> HIDE DEF G
    <3> QED BY <1>8, <1>9
  <2> QED BY <2>1
<1> HIDE DEF body
<1> DEFINE Sum(f, r) == r = (IF f < start THEN 0 ELSE f - (start - 1))
           On(p, f, r) == f + N(p) = N(0) /\ (count > 0 => r < count)
           Off(a, k, f, r) == a = l /\ k = 0 /\ count > 0 /\ r = count /\ f <= N(0)
           I == {s \in S : /\ Part(s.nT - s.nS, s.nS)
                           /\ Sum(s.nFound, s.nReplaced) /\ s.nCount = count - s.nReplaced
                           /\ \/ On(s.nT - s.nS, s.nFound, s.nReplaced)
                              \/ Off(s.nT, s.nS, s.nFound, s.nReplaced)}
           Rest(s) == Rank(l, m, s.nT - s.nS, s.nS)
<1>11. ASSUME NEW s \in S PROVE s.nT - s.nS \in 0..l /\ Rest(s) \in Nat
  <2>1. s.nT - s.nS \in 0..l /\ s.nS \in 0..m - 1
    BY <1>1, <1>7
  <2> QED BY <1>1, <2>1, RankIs
<1>12. ASSUME NEW s \in I, G(s) PROVE R(s) \in I /\ Rest(R(s)) < Rest(s)
  <2> DEFINE a == s.nT
             k == s.nS
             f == s.nFound
             r == s.nReplaced
             c == s.nCount
             p == a - k
             t == R(s)
  <2>1. /\ s \in S /\ Part(p, k) /\ Sum(f, r) /\ c = count - r
        /\ On(p, f, r) \/ Off(a, k, f, r)
        /\ a < l /\ l - a >= m - k
    BY <1>12
  <2>2. /\ a \in 0..l /\ k \in 0..m - 1 /\ f \in Nat /\ r \in Nat /\ c \in Int /\ k <= a
    BY <1>7, <2>1
  <2>3. /\ t \in S
        /\ W(p + k, k) /\ k + 1 # m =>
              t.nT = a + 1 /\ t.nS = k + 1 /\ t.nFound = f
              /\ t.nReplaced = r /\ t.nCount = c
        /\ W(p + k, k) /\ k + 1 = m /\ f + 1 < start =>
              t.nT = p + m /\ t.nS = 0 /\ t.nFound = f + 1
              /\ t.nReplaced = r /\ t.nCount = c
        /\ W(p + k, k) /\ k + 1 = m /\ ~(f + 1 < start) =>
              t.nT = (IF c = 1 THEN l ELSE p + m) /\ t.nS = 0
              /\ t.nFound = f + 1
              /\ t.nReplaced = r + 1 /\ t.nCount = c - 1
        /\ ~W(p + k, k) =>
              t.nT = p + 1 /\ t.nS = 0 /\ t.nFound = f
              /\ t.nReplaced = r /\ t.nCount = c
    BY <1>8, <1>12, <2>1
  <2>4. t \in I <=> /\ t \in S /\ Part(t.nT - t.nS, t.nS)
                    /\ Sum(t.nFound, t.nReplaced) /\ t.nCount = count - t.nReplaced
                    /\ \/ On(t.nT - t.nS, t.nFound, t.nReplaced)
                       \/ Off(t.nT, t.nS, t.nFound, t.nReplaced)
    OBVIOUS
  <2>5. Rest(s) = Rank(l, m, p, k) /\ Rest(t) = Rank(l, m, t.nT - t.nS, t.nS)
    OBVIOUS
  <2> HIDE DEF I, Rest, t, G, a, k, f, r, c
  <2>6. /\ p \in 0..l /\ p \in 0..l - 1 /\ p + m <= l /\ p + 1 \in 0..l /\ p + m \in 0..l /\ 0 \in 0..l
        /\ p < p + 1 /\ p < p + m /\ k \in 0..m - 1 /\ 0 \in 0..m - 1 /\ p < l /\ l \in 0..l
        /\ p \in Nat /\ (a + 1) - (k + 1) = p /\ (p + 1) - 0 = p + 1 /\ (p + m) - 0 = p + m
        /\ l - 0 = l
        /\ k < k + 1 /\ (k + 1 # m => k + 1 \in 0..m - 1)
    BY <1>1, <2>1, <2>2
  <2>7. On(p, f, r)
    BY <1>1, <2>1, <2>2
  <2> HIDE DEF p
  <2>8. /\ \A j \in 0..m - 1 : k < j => Rank(l, m, p, j) < Rank(l, m, p, k)
        /\ \A q \in 0..l : \A j \in 0..m - 1 : p < q => Rank(l, m, q, j) < Rank(l, m, p, k)
    BY <1>1, <2>6, RankIs
  <2>9. /\ N(p) \in Nat /\ N(p + 1) \in Nat /\ N(p + m) \in Nat /\ N(0) \in Nat
        /\ N(p) = IF Fit(p) THEN 1 + N(p + m) ELSE N(p + 1)
    BY <1>2, <2>6
  <2>10. /\ Part(p + 1, 0) /\ Part(p + m, 0) /\ Part(l, 0)
         /\ W(p + k, k) /\ k + 1 # m => Part(p, k + 1)
         /\ W(p + k, k) /\ k + 1 = m => Fit(p)
         /\ ~W(p + k, k) => ~Fit(p)
    BY <1>3, <2>1, <2>6
  <2>11. CASE W(p + k, k) /\ k + 1 # m
    <3>1. t.nT - t.nS = p /\ t.nS = k + 1 /\ t.nFound = f /\ t.nReplaced = r /\ t.nCount = c
      BY <2>3, <2>6, <2>11
    <3>2. t \in I
      <4> HIDE DEF On, Off, Sum
      <4> QED BY <2>1, <2>3, <2>4, <2>7, <2>10, <2>11, <3>1
    <3>3. Rest(t) < Rest(s)
      BY <2>5, <2>6, <2>8, <2>11, <3>1
    <3> QED BY <3>2, <3>3 DEF t
  <2>12. CASE W(p + k, k) /\ k + 1 = m /\ f + 1 < start
    <3>1. t.nT - t.nS = p + m /\ t.nS = 0 /\ t.nFound = f + 1 /\ t.nReplaced = r /\ t.nCount = c
      BY <2>3, <2>6, <2>12
    <3>2. Sum(f + 1, r)
      BY <2>1, <2>2, <2>12
    <3>3. On(p + m, f + 1, r)
      BY <2>2, <2>7, <2>9, <2>10, <2>12
    <3>4. t \in I
      <4> HIDE DEF On, Off, Sum
      <4> QED BY <2>1, <2>3, <2>4, <2>10, <3>1, <3>2, <3>3
    <3>5. Rest(t) < Rest(s)
      BY <2>5, <2>6, <2>8, <3>1
    <3> QED BY <3>4, <3>5 DEF t
  <2>13. CASE W(p + k, k) /\ k + 1 = m /\ ~(f + 1 < start)
    <3>1. t.nT = (IF c = 1 THEN l ELSE p + m) /\ t.nS = 0 /\ t.nFound = f + 1
          /\ t.nReplaced = r + 1 /\ t.nCount = c - 1
      BY <2>3, <2>13
    <3>2. Sum(f + 1, r + 1)
      BY <2>1, <2>2, <2>13
    <3>3. c - 1 = count - (r + 1)
      BY <2>1, <2>2
    <3>4. f + 1 + N(p + m) = N(0) /\ f + 1 <= N(0)
      BY <2>2, <2>7, <2>9, <2>10, <2>13
    <3>5. CASE c = 1
      <4>1. Off(l, 0, f + 1, r + 1)
        BY <2>1, <2>2, <3>4, <3>5
      <4>2. t.nT - t.nS = l /\ t.nT = l
        BY <2>6, <3>1, <3>5
      <4>3. t \in I
        <5> HIDE DEF On, Off, Sum
        <5> QED BY <2>3, <2>4, <2>10, <3>1, <3>2, <3>3, <4>1, <4>2
      <4>4. Rest(t) < Rest(s)
        BY <2>5, <2>6, <2>8, <3>1, <4>2
      <4> QED BY <4>3, <4>4 DEF t
    <3>6. CASE c # 1
      <4>1. On(p + m, f + 1, r + 1)
        BY <2>1, <2>2, <2>7, <3>4, <3>6
      <4>2. t.nT - t.nS = p + m
        BY <2>6, <3>1, <3>6
      <4>3. t \in I
        <5> HIDE DEF On, Off, Sum
        <5> QED BY <2>3, <2>4, <2>10, <3>1, <3>2, <3>3, <4>1, <4>2
      <4>4. Rest(t) < Rest(s)
        BY <2>5, <2>6, <2>8, <3>1, <4>2
      <4> QED BY <4>3, <4>4 DEF t
    <3> QED BY <3>5, <3>6
  <2>14. CASE ~W(p + k, k)
    <3>1. t.nT - t.nS = p + 1 /\ t.nS = 0 /\ t.nFound = f /\ t.nReplaced = r /\ t.nCount = c
      BY <2>3, <2>6, <2>14
    <3>2. On(p + 1, f, r)
      BY <2>7, <2>9, <2>10, <2>14
    <3>3. t \in I
      <4> HIDE DEF On, Off, Sum
      <4> QED BY <2>1, <2>3, <2>4, <2>10, <3>1, <3>2
    <3>4. Rest(t) < Rest(s)
      BY <2>5, <2>6, <2>8, <3>1
    <3> QED BY <3>3, <3>4 DEF t
  <2> QED BY <2>11, <2>12, <2>13, <2>14
<1>13. first \in I
  <2>1. 0 \in 0..l /\ 0 \in 0..m - 1 /\ 0 \in Nat /\ count \in Int /\ 0 <= 0 /\ 0 - 0 = 0
    BY <1>1
  <2>2. first \in S
    BY <1>5, <2>1
  <2>3. Part(0, 0) /\ N(0) \in Nat
    BY <1>2, <1>3, <2>1
  <2>4. On(0, 0, 0) /\ Sum(0, 0) /\ count = count - 0
    BY <2>3
  <2> HIDE DEF On, Off, Sum
  <2> QED BY <2>1, <2>2, <2>3, <2>4
<1> DEFINE mu == [s \in I |-> Rest(s)]
           end == While(body, first)
<1>14. I \in SUBSET S
  OBVIOUS
<1>15. mu \in [I -> Nat] /\ \A s \in I : mu[s] = Rest(s)
  <2> HIDE DEF I, Rest
  <2> QED BY <1>11, <1>14
<1>16. \A s \in I : body[s] = s \/ (body[s] \in I /\ mu[body[s]] < mu[s])
  <2> TAKE s \in I
  <2> HIDE DEF I, Rest, mu, G
  <2>1. s \in S
    BY <1>14
  <2>2. CASE G(s)
    BY <1>10, <1>12, <1>15, <2>1, <2>2
  <2>3. CASE ~G(s)
    BY <1>9, <1>10, <2>1, <2>3
  <2> QED BY <2>2, <2>3
<1>17. end \in I /\ body[end] = end
  <2> HIDE DEF I, mu, first, end
  <2>1. While(body, first) \in I /\ body[While(body, first)] = While(body, first)
    BY <1>10, <1>13, <1>14, <1>15, <1>16, WhileRule
  <2> QED BY <2>1 DEF end
<1>18. Counted(text, seek, start, count, flag) = end
  BY <1>6 DEF body
<1> HIDE DEF end
<1>19. ~G(end)
  <2> HIDE DEF I, Rest, G
  <2>1. end \in S /\ body[end] = R(end)
    BY <1>10, <1>14, <1>17
  <2>2. G(end) => Rest(end) < Rest(end) /\ Rest(end) \in Nat
    BY <1>11, <1>12, <1>17, <2>1
  <2> QED BY <2>2
<1>20. LET c == end IN
       /\ c.nFound \in 0..N(0)
       /\ c.nReplaced = IF c.nFound < start THEN 0 ELSE c.nFound - (start - 1)
       /\ count < 0 => c.nFound = N(0)
       /\ count > 0 => c.nReplaced <= count /\ (c.nFound = N(0) \/ c.nReplaced = count)
  <2> DEFINE a == end.nT
             k == end.nS
             f == end.nFound
             r == end.nReplaced
             p == a - k
  <2>1. end \in S /\ Sum(f, r) /\ (On(p, f, r) \/ Off(a, k, f, r))
    BY <1>17
  <2>2. a \in 0..l /\ k \in 0..m - 1 /\ f \in Nat /\ r \in Nat /\ k <= a
    BY <1>7, <2>1
  <2>3. N(0) \in Nat
    <3>1. 0 \in 0..l
      BY <1>1
    <3> QED BY <1>2, <3>1
  <2>4. ~(a < l /\ l - a >= m - k)
    BY <1>19
  <2> HIDE DEF a, k, f, r
  <2>5. p \in 0..l /\ p + m > l
    BY <1>1, <2>2, <2>4
  <2>6. N(p) = 0
    BY <1>2, <2>5
  <2> HIDE DEF p
  <2>7. CASE On(p, f, r)
    <3>1. f = N(0) /\ (count > 0 => r < count)
      BY <2>2, <2>3, <2>6, <2>7
    <3>2. /\ f \in 0..N(0)
          /\ r = IF f < start THEN 0 ELSE f - (start - 1)
          /\ count < 0 => f = N(0)
          /\ count > 0 => r <= count /\ (f = N(0) \/ r = count)
      BY <2>1, <2>2, <2>3, <3>1
    <3> QED BY <3>2, Zenon DEF f, r
  <2>8. CASE Off(a, k, f, r)
    <3>1. f <= N(0) /\ count > 0 /\ r = count
      BY <2>8
    <3>2. /\ f \in 0..N(0)
          /\ r = IF f < start THEN 0 ELSE f - (start - 1)
          /\ count < 0 => f = N(0)
          /\ count > 0 => r <= count /\ (f = N(0) \/ r = count)
      BY <2>1, <2>2, <2>3, <3>1
    <3> QED BY <3>2, Zenon DEF f, r
  <2> QED BY <2>1, <2>7, <2>8
<1> QED BY <1>18, <1>20, Zenon DEF N

\* With regard to case, what is found is what was looked for.
LEMMA SeekIsThere ==
    ASSUME NEW text, NEW seek, Searched(text, seek, 0), NEW p \in 0..Len(text),
           Fits(text, seek, p, 0)
    PROVE  Piece(text, p, Len(seek)) = seek
<1> DEFINE m == Len(seek)
           x == Piece(text, p, m)
<1>1. text \in Seq(Chars) /\ seek \in Seq(Chars) /\ m \in Nat /\ p \in Nat
  BY DEF Searched
<1>2. p + m <= Len(text) /\ \A i \in 1..m : Same(text[p + i], seek[i], 0)
  BY FitsAre, Zenon
<1>3. \A i \in 1..m : text[p + i] = seek[i]
  BY <1>2 DEF Same
<1>4. x \in Seq(Chars) /\ Len(x) = m /\ \A i \in 1..m : x[i] = text[p + i]
  <2>1. p + m <= Len(text)
    BY <1>2
  <2> HIDE DEF m
  <2>2. Splits(Chars, text, p, m)
    BY <1>1, <2>1, PieceAndTail, Zenon
  <2> QED BY <2>2 DEF Splits
<1> HIDE DEF x
<1>5. \A i \in 1..Len(x) : x[i] = seek[i]
  BY <1>3, <1>4
<1>6. Len(x) = Len(seek)
  BY <1>4
<1>7. x = seek
  BY <1>1, <1>4, <1>5, <1>6, SeqEqual
<1> QED BY <1>7 DEF x

\* From each place on: what becomes of the place, and what of the rest.
Turned(from, text, seek, replace, n, count, flag) ==
    /\ from \in [0..Len(text) -> Seq(Chars)] /\ from[Len(text)] = <<>>
    /\ \A p \in 0..Len(text) - 1 :
           /\ Fits(text, seek, p, flag) /\ Chosen(text, seek, n, count, flag, p)
                  => from[p] = replace \o from[p + Len(seek)]
           /\ Fits(text, seek, p, flag) /\ ~Chosen(text, seek, n, count, flag, p)
                  => from[p] = Piece(text, p, Len(seek)) \o from[p + Len(seek)]
           /\ ~Fits(text, seek, p, flag) => from[p] = <<At(text, p)>> \o from[p + 1]

\* What is built of these turns out so.
LEMMA FromIs ==
    ASSUME NEW text, NEW seek, NEW replace, NEW n, NEW count, NEW flag,
           Searched(text, seek, flag),
           NEW from, Built(from, Chars, Len(text), Leaps(text, seek, flag),
                           Turns(text, seek, replace, n, count, flag))
    PROVE  Turned(from, text, seek, replace, n, count, flag)
<1> DEFINE l == Len(text)
           skip == Leaps(text, seek, flag)
           put == Turns(text, seek, replace, n, count, flag)
<1>1. from \in [0..l -> Seq(Chars)] /\ from[l] = <<>>
      /\ \A p \in 0..l - 1 : from[p] = put[p] \o from[p + skip[p]]
  BY DEF Built, Builds
<1>2. ASSUME NEW p \in 0..l - 1
      PROVE  /\ Fits(text, seek, p, flag) /\ Chosen(text, seek, n, count, flag, p)
                    => from[p] = replace \o from[p + Len(seek)]
             /\ Fits(text, seek, p, flag) /\ ~Chosen(text, seek, n, count, flag, p)
                    => from[p] = Piece(text, p, Len(seek)) \o from[p + Len(seek)]
             /\ ~Fits(text, seek, p, flag) => from[p] = <<At(text, p)>> \o from[p + 1]
  <2>1. from[p] = put[p] \o from[p + skip[p]]
    BY <1>1
  <2>2. skip[p] = IF Fits(text, seek, p, flag) THEN Len(seek) ELSE 1
    BY DEF Leaps
  <2>3. put[p] = IF Fits(text, seek, p, flag)
                 THEN IF Chosen(text, seek, n, count, flag, p) THEN replace
                      ELSE Piece(text, p, Len(seek))
                 ELSE Piece(text, p, 1)
    BY DEF Turns
  <2>4. Piece(text, p, 1) = <<At(text, p)>>
    BY PieceOne DEF Searched
  <2> HIDE DEF skip, put
  <2> QED BY <2>1, <2>2, <2>3, <2>4, Zenon
<1> QED BY <1>1, <1>2 DEF Turned

\* Where at most k occurrences are left, of which none is to be replaced, the text stays.
LEMMA LaterKept ==
    ASSUME NEW text, NEW seek, NEW replace \in Seq(Chars), NEW n, NEW count, NEW flag,
           Searched(text, seek, flag),
           NEW from, Built(from, Chars, Len(text), Leaps(text, seek, flag),
                           Turns(text, seek, replace, n, count, flag)),
           NEW k \in Int,
           \A q \in 0..Len(text) - 1 :
               Fits(text, seek, q, flag) /\ Ahead(text, seek, flag, q) <= k
                   => ~Chosen(text, seek, n, count, flag, q)
    PROVE  \A q \in 0..Len(text) : Ahead(text, seek, flag, q) <= k => from[q] = From(text, q)
<1> DEFINE l == Len(text)
           m == Len(seek)
           N(p) == Ahead(text, seek, flag, p)
           Fit(p) == Fits(text, seek, p, flag)
           skip == Leaps(text, seek, flag)
           put == Turns(text, seek, replace, n, count, flag)
           G == {q \in 0..l : N(q) <= k}
<1>1. l \in Nat /\ m \in Nat
  BY DEF Searched
<1>2. /\ \A p \in 0..l : N(p) \in Nat
      /\ \A p \in 0..l - 1 : N(p) = IF Fit(p) THEN 1 + N(p + m) ELSE N(p + 1)
      /\ \A p \in 0..l - 1 : Fit(p) => m >= 1 /\ p + m <= l
  BY AheadIs
<1>3. \A p \in 0..l - 1 :
          /\ skip[p] = IF Fit(p) THEN m ELSE 1
          /\ Fit(p) /\ N(p) <= k => put[p] = Piece(text, p, m)
          /\ ~Fit(p) => put[p] = Piece(text, p, 1)
  <2> TAKE p \in 0..l - 1
  <2>1. skip[p] = IF Fit(p) THEN m ELSE 1
    BY DEF Leaps
  <2>2. put[p] = IF Fit(p)
                 THEN IF Chosen(text, seek, n, count, flag, p) THEN replace
                      ELSE Piece(text, p, m)
                 ELSE Piece(text, p, 1)
    BY DEF Turns
  <2>3. Fit(p) /\ N(p) <= k => ~Chosen(text, seek, n, count, flag, p)
    OBVIOUS
  <2> HIDE DEF skip, put, Fit, N, m
  <2> QED BY <2>1, <2>2, <2>3, Zenon
<1>4. Steps(l, skip) /\ Builds(from, l, skip, put) /\ text \in Seq(Chars)
  BY LeapsAre DEF Built, Searched
<1> HIDE DEF N, Fit, skip, put, m
<1>5. Keeps(G, text, skip, put)
  <2>1. G \in SUBSET (0..Len(text))
    OBVIOUS
  <2>2. ASSUME NEW q \in G, q # l PROVE q + skip[q] \in G /\ put[q] = Piece(text, q, skip[q])
    <3>1. q \in 0..l - 1 /\ q \in 0..l /\ q \in Nat /\ N(q) <= k /\ q + 1 \in 0..l
      BY <1>1, <2>2
    <3>2. CASE Fit(q)
      <4>1. skip[q] = m /\ put[q] = Piece(text, q, m) /\ m >= 1 /\ q + m <= l
            /\ N(q) = 1 + N(q + m)
        BY <1>2, <1>3, <3>1, <3>2
      <4>2. q + m \in 0..l
        BY <1>1, <3>1, <4>1
      <4>3. N(q + m) <= k
        BY <1>2, <3>1, <4>1, <4>2
      <4> QED BY <4>1, <4>2, <4>3
    <3>3. CASE ~Fit(q)
      <4>1. skip[q] = 1 /\ put[q] = Piece(text, q, 1) /\ N(q) = N(q + 1)
        BY <1>2, <1>3, <3>1, <3>3
      <4> QED BY <3>1, <4>1
    <3> QED BY <3>2, <3>3
  <2> HIDE DEF G
  <2> QED BY <2>1, <2>2 DEF Keeps
<1>6. Kept(from, G, text)
  <2> HIDE DEF G, l
  <2>1. Steps(Len(text), skip) /\ Builds(from, Len(text), skip, put)
    BY <1>4 DEF l
  <2> QED BY <1>4, <1>5, <2>1, BuiltPieces, Zenon
<1> QED BY <1>6 DEF Kept, N

\* A character at the end of a text.
LEMMA AppendedIs ==
    ASSUME NEW C, NEW a \in Seq(C), NEW e \in C
    PROVE  Append(a, e) = a \o <<e>> /\ <<e>> \in Seq(C) /\ Len(<<e>>) = 1
<1>1. <<e>> \in Seq(C) /\ Len(<<e>>) = 1
  OBVIOUS
<1>2. Append(a, e) = a \o <<e>>
  BY AppendIsConcat
<1> QED BY <1>1, <1>2

\* What is known of a copy: the room it needs, and what it is where the strings passed
\* over are those that were looked for.
Copies(copy, text, seek, replace, flag, n, most, from) ==
    /\ copy \in Seq(Chars)
    /\ Len(copy) = Len(text) + (Len(replace) - Len(seek)) * most
    /\ flag = 0 \/ n = 0 => copy = from[0]

\* n occurrences to pass over and most to replace: all there are, or count.
Parted(text, seek, flag, n, most, count) ==
    /\ n + most <= Ahead(text, seek, flag, 0)
    /\ count < 0 => n + most = Ahead(text, seek, flag, 0)
    /\ count >= 0 => most <= count
                     /\ (n + most = Ahead(text, seek, flag, 0) \/ most = count)

\* The second pass writes what is to be returned, and fills the room.
LEMMA CopiedIs ==
    ASSUME NEW text, NEW seek, NEW replace \in Seq(Chars), NEW flag,
           Searched(text, seek, flag), seek # <<>>,
           NEW n \in Nat, NEW most \in Nat \ {0}, NEW count \in Int,
           Parted(text, seek, flag, n, most, count),
           NEW from, Built(from, Chars, Len(text), Leaps(text, seek, flag),
                           Turns(text, seek, replace, n, count, flag))
    PROVE  Copies(Copied(text, seek, replace, flag, n, most),
                  text, seek, replace, flag, n, most, from)
<1> DEFINE l == Len(text)
           m == Len(seek)
           d == Len(replace) - m
           N(p) == Ahead(text, seek, flag, p)
           Fit(p) == Fits(text, seek, p, flag)
           Is(p) == Chosen(text, seek, n, count, flag, p)
           Part(p, k) == Partial(text, seek, flag, p, k)
           W(t, k) == Same(At(text, t), At(seek, k), flag)
           S == CopyStates(text, seek)
           R(s) == CopyRound(text, seek, replace, flag, s)
           first == [nT |-> 0, nS |-> 0, nFound |-> n, nReplaced |-> most, result |-> <<>>]
           V(s) == s.nReplaced > 0 /\ W(s.nT, s.nS)
           Told == flag = 0 \/ n = 0
<1>1. l \in Nat /\ m \in Nat /\ m >= 1 /\ text \in Seq(Chars) /\ seek \in Seq(Chars) /\ d \in Int
      /\ Len(replace) = d + m /\ Len(seek) = m
  BY EmptySeq DEF Searched
<1>2. /\ \A p \in 0..l : N(p) \in Nat
      /\ \A p \in 0..l - 1 : N(p) = IF Fit(p) THEN 1 + N(p + m) ELSE N(p + 1)
      /\ \A p \in 0..l : p + m > l => N(p) = 0
  BY AheadIs
<1>3. \A p \in 0..l : \A k \in 0..m - 1 :
          /\ Part(p, 0)
          /\ Part(p, k) /\ W(p + k, k) => Part(p, k + 1)
          /\ Part(p, k) /\ W(p + k, k) /\ k + 1 = m /\ p + m <= l => Fit(p)
          /\ ~W(p + k, k) => ~Fit(p)
  BY MatchIs
<1>4. /\ from \in [0..l -> Seq(Chars)] /\ from[l] = <<>>
      /\ \A p \in 0..l - 1 :
             /\ Fit(p) /\ Is(p) => from[p] = replace \o from[p + m]
             /\ Fit(p) /\ ~Is(p) => from[p] = Piece(text, p, m) \o from[p + m]
             /\ ~Fit(p) => from[p] = <<At(text, p)>> \o from[p + 1]
  <2>1. Turned(from, text, seek, replace, n, count, flag)
    BY FromIs, Zenon
  <2> QED BY <2>1, Zenon DEF Turned
<1>5. \A p : Is(p) <=> N(0) - N(p) >= n /\ (count < 0 \/ N(0) - N(p) < n + count)
  BY DEF Chosen
<1>6. /\ n + most <= N(0)
      /\ count < 0 => n + most = N(0)
      /\ count >= 0 => most <= count /\ (n + most = N(0) \/ most = count)
  BY Zenon DEF Parted
<1>7. \A q \in 0..l : N(q) <= N(0) - (n + most) => from[q] = From(text, q)
  <2> DEFINE j == N(0) - (n + most)
  <2>1. N(0) \in Nat
    <3>1. 0 \in 0..l
      BY <1>1
    <3> QED BY <1>2, <3>1
  <2>2. \A q \in 0..l - 1 : Fit(q) /\ N(q) <= j => ~Is(q)
    <3> TAKE q \in 0..l - 1
    <3> HAVE Fit(q) /\ N(q) <= j
    <3>1. N(q) \in Nat /\ N(q) # 0
      <4>1. q \in 0..l
        BY <1>1
      <4>2. N(q) = 1 + N(q + m)
        BY <1>2
      <4>3. q + m \in 0..l
        <5>1. q + m <= l
          BY AheadIs
        <5> QED BY <1>1, <5>1
      <4>4. N(q + m) \in Nat
        BY <1>2, <4>3
      <4> HIDE DEF N
      <4> QED BY <4>2, <4>4
    <3> HIDE DEF N, Is, Fit
    <3>2. N(0) - N(q) >= n + most
      BY <2>1, <3>1
    <3>3. n + most # N(0)
      BY <2>1, <3>1, <3>2
    <3> QED BY <1>5, <1>6, <2>1, <3>1, <3>2, <3>3
  <2>3. j \in Int
    BY <2>1
  <2> HIDE DEF j
  <2>4. \A q \in 0..Len(text) : Ahead(text, seek, flag, q) <= j => from[q] = From(text, q)
    BY <2>2, <2>3, LaterKept
  <2> QED BY <2>4 DEF j
<1>8. flag = 0 => \A p \in 0..l : Fit(p) => Piece(text, p, m) = seek
  BY SeekIsThere
<1>9. \A s \in S : R(s) =
          IF s.nT >= l THEN s
          ELSE IF V(s)
          THEN IF s.nS + 1 < m THEN [s EXCEPT !.nT = s.nT + 1, !.nS = s.nS + 1]
               ELSE IF s.nFound > 0
               THEN [s EXCEPT !.nT = s.nT + 1, !.nS = 0, !.nFound = s.nFound - 1,
                              !.result = s.result \o seek]
               ELSE [s EXCEPT !.nT = s.nT + 1, !.nS = 0, !.nReplaced = s.nReplaced - 1,
                              !.result = s.result \o replace]
          ELSE [s EXCEPT !.nT = s.nT - s.nS + 1, !.nS = 0,
                         !.result = Append(s.result, At(text, s.nT - s.nS))]
  BY DEF CopyRound
<1>10. S = {s \in [nT : 0..l, nS : 0..m - 1, nFound : Nat, nReplaced : Nat, result : Seq(Chars)] :
              s.nS <= s.nT}
  BY DEF CopyStates
<1>11. Copied(text, seek, replace, flag, n, most) = While([s \in S |-> R(s)], first).result
  BY DEF Copied
<1> HIDE DEF l, m, d, N, Fit, Is, Part, W, S, R
<1>12. \A s \in S : /\ s.nT \in 0..l /\ s.nS \in 0..m - 1 /\ s.nFound \in Nat /\ s.nReplaced \in Nat
                    /\ s.result \in Seq(Chars) /\ s.nS <= s.nT
                    /\ s = [nT |-> s.nT, nS |-> s.nS, nFound |-> s.nFound,
                            nReplaced |-> s.nReplaced, result |-> s.result]
  BY <1>10
<1>21. \A a \in 0..l, k \in 0..m - 1, f \in Nat, r \in Nat, x \in Seq(Chars) :
           k <= a => [nT |-> a, nS |-> k, nFound |-> f, nReplaced |-> r, result |-> x] \in S
  BY <1>10
\* The rounds, by what they do to the fields.
<1>13. ASSUME NEW s \in S, s.nT < l
       PROVE  LET a == s.nT
                  k == s.nS
                  f == s.nFound
                  r == s.nReplaced
                  x == s.result
                  p == a - k
                  t == R(s)
              IN  /\ t \in S
                  /\ r > 0 /\ W(p + k, k) /\ k + 1 # m =>
                        t.nT = a + 1 /\ t.nS = k + 1 /\ t.nFound = f
                        /\ t.nReplaced = r /\ t.result = x
                  /\ r > 0 /\ W(p + k, k) /\ k + 1 = m /\ f > 0 =>
                        t.nT = p + m /\ t.nS = 0 /\ t.nFound = f - 1
                        /\ t.nReplaced = r /\ t.result = x \o seek
                  /\ r > 0 /\ W(p + k, k) /\ k + 1 = m /\ ~(f > 0) =>
                        t.nT = p + m /\ t.nS = 0 /\ t.nFound = f
                        /\ t.nReplaced = r - 1 /\ t.result = x \o replace
                  /\ ~(r > 0 /\ W(p + k, k)) =>
                        t.nT = p + 1 /\ t.nS = 0 /\ t.nFound = f
                        /\ t.nReplaced = r /\ t.result = x \o <<At(text, p)>>
  <2> DEFINE t == R(s)
             a == s.nT
             k == s.nS
             f == s.nFound
             r == s.nReplaced
             x == s.result
             p == a - k
             u == x \o seek
             v == x \o replace
             w == x \o <<At(text, p)>>
  <2>1. /\ a \in 0..l /\ k \in 0..m - 1 /\ f \in Nat /\ r \in Nat /\ x \in Seq(Chars) /\ k <= a
        /\ s = [nT |-> a, nS |-> k, nFound |-> f, nReplaced |-> r, result |-> x]
        /\ a < l
    BY <1>12, <1>13
  <2>2. t = IF r > 0 /\ W(a, k)
            THEN IF k + 1 < m THEN [s EXCEPT !.nT = a + 1, !.nS = k + 1]
                 ELSE IF f > 0
                 THEN [s EXCEPT !.nT = a + 1, !.nS = 0, !.nFound = f - 1, !.result = u]
                 ELSE [s EXCEPT !.nT = a + 1, !.nS = 0, !.nReplaced = r - 1, !.result = v]
            ELSE [s EXCEPT !.nT = a - k + 1, !.nS = 0, !.result = Append(x, At(text, p))]
    <3>1. R(s) =
            IF s.nT >= l THEN s
            ELSE IF V(s)
            THEN IF s.nS + 1 < m THEN [s EXCEPT !.nT = s.nT + 1, !.nS = s.nS + 1]
                 ELSE IF s.nFound > 0
                 THEN [s EXCEPT !.nT = s.nT + 1, !.nS = 0, !.nFound = s.nFound - 1,
                                !.result = s.result \o seek]
                 ELSE [s EXCEPT !.nT = s.nT + 1, !.nS = 0, !.nReplaced = s.nReplaced - 1,
                                !.result = s.result \o replace]
            ELSE [s EXCEPT !.nT = s.nT - s.nS + 1, !.nS = 0,
                           !.result = Append(s.result, At(text, s.nT - s.nS))]
      BY <1>9, Zenon
    <3>2. ~(s.nT >= l)
      BY <1>1, <2>1
    <3> QED BY <3>1, <3>2, Zenon
  <2> HIDE DEF a, k, f, r, x, t
  <2>3. s.nT = a /\ s.nS = k /\ s.nFound = f /\ s.nReplaced = r /\ s.result = x
    BY DEF a, k, f, r, x
  <2>4. /\ p + k = a /\ p \in Nat /\ p + 1 \in 1..l /\ (k + 1 = m => a + 1 = p + m) /\ a + 1 \in 0..l
        /\ p + 1 \in 0..l /\ a - k + 1 = p + 1
        /\ (k + 1 < m <=> k + 1 # m) /\ (k + 1 # m => k + 1 \in 0..m - 1 /\ k + 1 <= a + 1)
    BY <1>1, <2>1
  <2>5. /\ 0 \in 0..m - 1 /\ 0 <= p + 1 /\ 0 <= a + 1
        /\ (f > 0 => f - 1 \in Nat) /\ (r > 0 => r - 1 \in Nat)
    BY <1>1, <2>1, <2>4
  <2>6. At(text, p) \in Chars
    BY <1>1, <2>4 DEF At, l
  <2>7. Append(x, At(text, p)) = w /\ <<At(text, p)>> \in Seq(Chars)
    BY <2>1, <2>6, AppendedIs
  <2>8. u \in Seq(Chars) /\ v \in Seq(Chars) /\ w \in Seq(Chars)
    BY <1>1, <2>1, <2>7, ConcatProperties
  <2> HIDE DEF u, v, w, p
  <2>9. ASSUME r > 0, W(a, k), k + 1 # m
        PROVE  t = [nT |-> a + 1, nS |-> k + 1, nFound |-> f, nReplaced |-> r, result |-> x]
    BY <2>1, <2>2, <2>4, <2>9
  <2>10. ASSUME r > 0, W(a, k), k + 1 = m, f > 0
         PROVE  t = [nT |-> a + 1, nS |-> 0, nFound |-> f - 1, nReplaced |-> r, result |-> u]
    BY <2>1, <2>2, <2>4, <2>10
  <2>11. ASSUME r > 0, W(a, k), k + 1 = m, ~(f > 0)
         PROVE  t = [nT |-> a + 1, nS |-> 0, nFound |-> f, nReplaced |-> r - 1, result |-> v]
    BY <2>1, <2>2, <2>4, <2>11
  <2>12. ASSUME ~(r > 0 /\ W(a, k))
         PROVE  t = [nT |-> p + 1, nS |-> 0, nFound |-> f, nReplaced |-> r, result |-> w]
    BY <2>1, <2>2, <2>4, <2>7, <2>12
  <2>13. t \in S
    <3>1. CASE r > 0 /\ W(a, k) /\ k + 1 # m
      <4>1. a + 1 \in 0..l /\ k + 1 \in 0..m - 1 /\ f \in Nat /\ r \in Nat /\ x \in Seq(Chars)
            /\ k + 1 <= a + 1
        BY <2>1, <2>4, <3>1
      <4>2. t = [nT |-> a + 1, nS |-> k + 1, nFound |-> f, nReplaced |-> r, result |-> x]
        BY <2>9, <3>1
      <4> QED BY <1>21, <4>1, <4>2, Zenon
    <3>2. CASE r > 0 /\ W(a, k) /\ k + 1 = m /\ f > 0
      <4>1. a + 1 \in 0..l /\ 0 \in 0..m - 1 /\ f - 1 \in Nat /\ r \in Nat /\ u \in Seq(Chars)
            /\ 0 <= a + 1
        BY <2>1, <2>4, <2>5, <2>8, <3>2
      <4>2. t = [nT |-> a + 1, nS |-> 0, nFound |-> f - 1, nReplaced |-> r, result |-> u]
        BY <2>10, <3>2
      <4> QED BY <1>21, <4>1, <4>2, Zenon
    <3>3. CASE r > 0 /\ W(a, k) /\ k + 1 = m /\ ~(f > 0)
      <4>1. a + 1 \in 0..l /\ 0 \in 0..m - 1 /\ f \in Nat /\ r - 1 \in Nat /\ v \in Seq(Chars)
            /\ 0 <= a + 1
        BY <2>1, <2>4, <2>5, <2>8, <3>3
      <4>2. t = [nT |-> a + 1, nS |-> 0, nFound |-> f, nReplaced |-> r - 1, result |-> v]
        BY <2>11, <3>3
      <4> QED BY <1>21, <4>1, <4>2, Zenon
    <3>4. CASE ~(r > 0 /\ W(a, k))
      <4>1. p + 1 \in 0..l /\ 0 \in 0..m - 1 /\ f \in Nat /\ r \in Nat /\ w \in Seq(Chars)
            /\ 0 <= p + 1
        BY <2>1, <2>4, <2>5, <2>8
      <4> QED BY <1>21, <2>12, <3>4, <4>1, ZenonT(60)
    <3> QED BY <3>1, <3>2, <3>3, <3>4
  <2>14. /\ r > 0 /\ W(p + k, k) /\ k + 1 # m =>
                 t.nT = a + 1 /\ t.nS = k + 1 /\ t.nFound = f
                 /\ t.nReplaced = r /\ t.result = x
         /\ r > 0 /\ W(p + k, k) /\ k + 1 = m /\ f > 0 =>
                 t.nT = p + m /\ t.nS = 0 /\ t.nFound = f - 1
                 /\ t.nReplaced = r /\ t.result = u
         /\ r > 0 /\ W(p + k, k) /\ k + 1 = m /\ ~(f > 0) =>
                 t.nT = p + m /\ t.nS = 0 /\ t.nFound = f
                 /\ t.nReplaced = r - 1 /\ t.result = v
         /\ ~(r > 0 /\ W(p + k, k)) =>
                 t.nT = p + 1 /\ t.nS = 0 /\ t.nFound = f
                 /\ t.nReplaced = r /\ t.result = w
    BY <2>4, <2>9, <2>10, <2>11, <2>12
  <2> QED BY <2>13, <2>14, Zenon DEF t, p, u, v, w, a, k, f, r, x
<1>14. ASSUME NEW s \in S, ~(s.nT < l) PROVE R(s) = s
  <2>1. s.nT >= l
    BY <1>1, <1>12, <1>14
  <2> QED BY <1>9, <2>1, Zenon
<1> DEFINE body == [s \in S |-> R(s)]
<1>15. body \in [S -> S] /\ \A s \in S : body[s] = R(s)
  <2>1. \A s \in S : R(s) \in S
    BY <1>13, <1>14
  <2> QED BY <2>1
<1> HIDE DEF body
<1> DEFINE D(r) == d * r
<1>16. \A r \in Nat : D(r) \in Int /\ D(r - 1) = D(r) - d
  <2> TAKE r \in Nat
  <2>1. d * r \in Int /\ d * (r - 1) = d * r - d
    BY <1>1
  <2> QED BY <2>1
<1>17. D(0) = 0
  BY <1>1
<1> HIDE DEF D, Told
<1> DEFINE Now(p, f, r) == f + r + (N(0) - N(p)) = n + most /\ (f > 0 => r = most)
           Text(x, p, r) == Told => IF r > 0 THEN x \o from[p] = from[0]
                                    ELSE x \o From(text, p) = from[0]
           Size(x, p, r) == Len(x) + (l - p) + D(r) = l + D(most)
           Inv(a, k, f, r, x) == /\ Part(a - k, k) /\ f <= n /\ r <= most /\ (k > 0 => r > 0)
                                 /\ r > 0 => Now(a - k, f, r)
                                 /\ Text(x, a - k, r) /\ Size(x, a - k, r)
           I == {s \in S : Inv(s.nT, s.nS, s.nFound, s.nReplaced, s.result)}
           Rest(s) == Rank(l, m, s.nT - s.nS, s.nS)
<1>18. ASSUME NEW s \in S PROVE s.nT - s.nS \in 0..l /\ Rest(s) \in Nat
  <2> DEFINE a == s.nT
             k == s.nS
  <2>1. a - k \in 0..l /\ k \in 0..m - 1
    <3>1. a \in 0..l /\ k \in 0..m - 1 /\ k <= a
      BY <1>12
    <3> HIDE DEF a, k
    <3> QED BY <1>1, <3>1
  <2> QED BY <1>1, <2>1, RankIs
<1>22. N(0) \in Nat /\ 0 \in 0..l
  <2>1. 0 \in 0..l
    BY <1>1
  <2> QED BY <1>2, <2>1
<1>19. ASSUME NEW s \in I, s.nT < l PROVE R(s) \in I /\ Rest(R(s)) < Rest(s)
  <2> DEFINE a == s.nT
             k == s.nS
             f == s.nFound
             r == s.nReplaced
             x == s.result
             p == a - k
             t == R(s)
             c == <<At(text, p)>>
  <2>1. s \in S /\ Inv(a, k, f, r, x) /\ a < l
    BY <1>19
  <2>2. /\ a \in 0..l /\ k \in 0..m - 1 /\ f \in Nat /\ r \in Nat /\ x \in Seq(Chars) /\ k <= a
    BY <1>12, <2>1
  <2>3. /\ t \in S
        /\ r > 0 /\ W(p + k, k) /\ k + 1 # m =>
              t.nT = a + 1 /\ t.nS = k + 1 /\ t.nFound = f
              /\ t.nReplaced = r /\ t.result = x
        /\ r > 0 /\ W(p + k, k) /\ k + 1 = m /\ f > 0 =>
              t.nT = p + m /\ t.nS = 0 /\ t.nFound = f - 1
              /\ t.nReplaced = r /\ t.result = x \o seek
        /\ r > 0 /\ W(p + k, k) /\ k + 1 = m /\ ~(f > 0) =>
              t.nT = p + m /\ t.nS = 0 /\ t.nFound = f
              /\ t.nReplaced = r - 1 /\ t.result = x \o replace
        /\ ~(r > 0 /\ W(p + k, k)) =>
              t.nT = p + 1 /\ t.nS = 0 /\ t.nFound = f
              /\ t.nReplaced = r /\ t.result = x \o c
    BY <1>13, <2>1
  <2>4. t \in I <=> t \in S /\ Inv(t.nT, t.nS, t.nFound, t.nReplaced, t.result)
    OBVIOUS
  <2>5. Rest(s) = Rank(l, m, p, k) /\ Rest(t) = Rank(l, m, t.nT - t.nS, t.nS)
    OBVIOUS
  <2> HIDE DEF I, Rest, t, a, k, f, r, x, c
  <2>6. /\ p \in 0..l /\ p \in 0..l - 1 /\ p + 1 \in 0..l /\ 0 \in 0..l
        /\ p < p + 1 /\ p < p + m /\ k \in 0..m - 1 /\ 0 \in 0..m - 1
        /\ p \in Nat /\ (a + 1) - (k + 1) = p /\ (p + 1) - 0 = p + 1 /\ (p + m) - 0 = p + m
        /\ k < k + 1 /\ (k + 1 # m => k + 1 \in 0..m - 1) /\ (k = 0 => p = a)
        /\ (k + 1 = m => p + m <= l /\ p + m \in 0..l)
    BY <1>1, <2>1, <2>2
  <2>7. Part(p, k) /\ f <= n /\ r <= most /\ (k > 0 => r > 0) /\ (r > 0 => Now(p, f, r))
        /\ Text(x, p, r) /\ Size(x, p, r)
    BY <2>1
  <2> HIDE DEF p
  <2>8. /\ \A j \in 0..m - 1 : k < j => Rank(l, m, p, j) < Rank(l, m, p, k)
        /\ \A q \in 0..l : \A j \in 0..m - 1 : p < q => Rank(l, m, q, j) < Rank(l, m, p, k)
    BY <1>1, <2>6, RankIs
  <2>9. /\ N(p) \in Nat /\ N(p + 1) \in Nat /\ (k + 1 = m => N(p + m) \in Nat)
        /\ N(p) = IF Fit(p) THEN 1 + N(p + m) ELSE N(p + 1)
    BY <1>2, <2>6
  <2>10. /\ Part(p + 1, 0) /\ (k + 1 = m => Part(p + m, 0))
         /\ W(p + k, k) /\ k + 1 # m => Part(p, k + 1)
         /\ W(p + k, k) /\ k + 1 = m => Fit(p)
         /\ ~W(p + k, k) => ~Fit(p)
    BY <1>3, <2>6, <2>7
  <2>11. /\ from[0] \in Seq(Chars) /\ from[p] \in Seq(Chars) /\ from[p + 1] \in Seq(Chars)
         /\ (k + 1 = m => from[p + m] \in Seq(Chars))
    BY <1>4, <1>22, <2>6
  <2>12. /\ c \in Seq(Chars) /\ Len(c) = 1
         /\ From(text, p + 1) \in Seq(Chars) /\ From(text, p) = c \o From(text, p + 1)
    <3>1. p \in Nat /\ 1 \in Nat /\ p + 1 <= Len(text) /\ p \in 0..Len(text) - 1
          /\ p + 1 \in 0..Len(text) /\ p + 1 \in 1..Len(text)
      BY <1>1, <2>6 DEF l
    <3>2. Piece(text, p, 1) = c
      BY <1>1, <3>1, PieceOne DEF c
    <3>3. Piece(text, p, 1) \o From(text, p + 1) = From(text, p)
      <4>1. Splits(Chars, text, p, 1)
        BY <1>1, <3>1, PieceAndTail, Zenon
      <4> QED BY <4>1 DEF Splits
    <3>4. From(text, p + 1) \in Seq(Chars)
      BY <1>1, <3>1, TailIs
    <3>5. At(text, p) \in Chars
      BY <1>1, <3>1 DEF At
    <3>6. c \in Seq(Chars) /\ Len(c) = 1
      BY <3>5 DEF c
    <3> QED BY <3>2, <3>3, <3>4, <3>6
  <2>13. CASE r > 0 /\ W(p + k, k) /\ k + 1 # m
    <3>1. t.nT = a + 1 /\ t.nT - t.nS = p /\ t.nS = k + 1 /\ t.nFound = f /\ t.nReplaced = r
          /\ t.result = x
      BY <2>3, <2>6, <2>13
    <3>2. Inv(t.nT, t.nS, t.nFound, t.nReplaced, t.result)
      <4> HIDE DEF Now, Text, Size
      <4> QED BY <2>6, <2>7, <2>10, <2>13, <3>1
    <3>3. Rest(t) < Rest(s)
      BY <2>5, <2>6, <2>8, <2>13, <3>1
    <3> HIDE DEF Inv
    <3> QED BY <2>3, <2>4, <3>2, <3>3 DEF t
  <2>14. CASE r > 0 /\ W(p + k, k) /\ k + 1 = m /\ f > 0
    <3> DEFINE u == x \o seek
    <3>1. t.nT - t.nS = p + m /\ t.nS = 0 /\ t.nFound = f - 1 /\ t.nReplaced = r /\ t.result = u
      BY <2>3, <2>6, <2>14
    <3>2. Fit(p) /\ p + m \in 0..l /\ N(p) = 1 + N(p + m) /\ N(p + m) \in Nat
      BY <2>6, <2>9, <2>10, <2>14
    <3>3. f + r + (N(0) - N(p)) = n + most /\ r = most
      BY <2>7, <2>14
    <3>4. ~Is(p)
      <4>0. f \in Nat /\ f > 0 /\ N(0) \in Nat /\ N(p) \in Nat
        BY <1>22, <2>2, <2>9, <2>14
      <4>1. N(0) - N(p) < n
        BY <3>3, <4>0
      <4>2. ~(N(0) - N(p) >= n)
        BY <1>22, <2>9, <4>1
      <4> QED BY <1>5, <4>2
    <3>5. Now(p + m, f - 1, r)
      BY <1>22, <2>2, <3>2, <3>3
    <3>6. u \in Seq(Chars) /\ Len(u) = Len(x) + m /\ Len(x) \in Nat
      BY <1>1, <2>2, ConcatIs
    <3>7. Told => u \o from[p + m] = from[0]
      <4> SUFFICES ASSUME Told PROVE u \o from[p + m] = from[0]
        OBVIOUS
      <4>1. flag = 0
        BY <2>7, <2>2, <2>14 DEF Told
      <4>2. from[p] = seek \o from[p + m]
        BY <1>4, <1>8, <2>6, <3>2, <3>4, <4>1
      <4>3. x \o from[p] = from[0]
        BY <2>7, <2>14
      <4>4. from[p + m] \in Seq(Chars)
        BY <2>11, <2>14
      <4> DEFINE g == from[p + m]
      <4>5. g \in Seq(Chars) /\ x \o (seek \o g) = from[0]
        BY <4>2, <4>3, <4>4
      <4> HIDE DEF g
      <4>6. (x \o seek) \o g = x \o (seek \o g)
        <5>1. x \in Seq(Chars) /\ seek \in Seq(Chars) /\ g \in Seq(Chars)
          BY <1>1, <2>2, <4>5
        <5> QED BY <5>1, Regrouped
      <4> QED BY <4>5, <4>6 DEF g
    <3>8. Size(u, p + m, r)
      <4> HIDE DEF u
      <4> QED BY <1>1, <1>16, <2>2, <2>6, <2>7, <3>6
    <3>9. Inv(t.nT, t.nS, t.nFound, t.nReplaced, t.result)
      <4>1. f - 1 <= n
        BY <2>2, <2>7
      <4>2. Text(u, p + m, r)
        BY <2>14, <3>7
      <4>3. Part(p + m, 0)
        BY <2>10, <2>14
      <4> HIDE DEF Now, Text, Size, u
      <4> QED BY <2>7, <3>1, <3>5, <3>8, <4>1, <4>2, <4>3
    <3>10. Rest(t) < Rest(s)
      BY <2>5, <2>6, <2>8, <3>1, <3>2
    <3> HIDE DEF Inv
    <3> QED BY <2>3, <2>4, <3>9, <3>10 DEF t
  <2>15. CASE r > 0 /\ W(p + k, k) /\ k + 1 = m /\ ~(f > 0)
    <3> DEFINE u == x \o replace
    <3>1. t.nT - t.nS = p + m /\ t.nS = 0 /\ t.nFound = f /\ t.nReplaced = r - 1 /\ t.result = u
      BY <2>3, <2>6, <2>15
    <3>2. Fit(p) /\ p + m \in 0..l /\ N(p) = 1 + N(p + m) /\ N(p + m) \in Nat
      BY <2>6, <2>9, <2>10, <2>15
    <3>3. f = 0 /\ r + (N(0) - N(p)) = n + most
      <4>1. f + r + (N(0) - N(p)) = n + most
        BY <2>7, <2>15
      <4>2. f = 0
        BY <2>2, <2>15
      <4> QED BY <1>22, <2>2, <2>9, <4>1, <4>2
    <3>4. Is(p)
      <4>1. N(0) - N(p) >= n
        BY <1>22, <2>2, <2>7, <2>9, <3>3
      <4>2. count < 0 \/ N(0) - N(p) < n + count
        <5> SUFFICES ASSUME count >= 0 PROVE N(0) - N(p) < n + count
          OBVIOUS
        <5>1. most <= count /\ r > 0 /\ r \in Nat
          BY <1>6, <2>2, <2>15
        <5>2. N(0) \in Nat /\ N(p) \in Nat /\ r + (N(0) - N(p)) = n + most
          BY <1>22, <2>9, <3>3
        <5> QED BY <5>1, <5>2
      <4> QED BY <1>5, <4>1, <4>2
    <3>5. r - 1 > 0 => Now(p + m, f, r - 1)
      BY <1>22, <2>2, <3>2, <3>3
    <3>6. u \in Seq(Chars) /\ Len(u) = Len(x) + Len(replace) /\ Len(x) \in Nat
      BY <2>2, ConcatIs
    <3>7. Told => u \o from[p + m] = from[0]
      <4>1. from[p] = replace \o from[p + m]
        BY <1>4, <2>6, <3>2, <3>4
      <4>2. Told => x \o from[p] = from[0]
        BY <2>7, <2>15
      <4>3. from[p + m] \in Seq(Chars)
        BY <2>11, <2>15
      <4> DEFINE g == from[p + m]
      <4>4. g \in Seq(Chars) /\ (Told => x \o (replace \o g) = from[0])
        BY <4>1, <4>2, <4>3
      <4> HIDE DEF g
      <4>5. (x \o replace) \o g = x \o (replace \o g)
        <5>1. x \in Seq(Chars) /\ replace \in Seq(Chars) /\ g \in Seq(Chars)
          BY <2>2, <4>4
        <5> QED BY <5>1, Regrouped, Zenon
      <4> QED BY <4>4, <4>5 DEF g
    <3>8. ~(r - 1 > 0) => from[p + m] = From(text, p + m)
      <4>1. ~(r - 1 > 0) => N(p + m) <= N(0) - (n + most)
        BY <1>22, <2>2, <2>15, <3>2, <3>3
      <4> QED BY <1>7, <3>2, <4>1
    <3>9. Text(u, p + m, r - 1)
      BY <3>7, <3>8
    <3>10. Size(u, p + m, r - 1)
      <4>1. D(r) \in Int /\ D(r - 1) = D(r) - d
        BY <1>16, <2>2
      <4> HIDE DEF u
      <4> QED BY <1>1, <2>2, <2>6, <2>7, <3>6, <4>1, SMTT(30)
    <3>11. Inv(t.nT, t.nS, t.nFound, t.nReplaced, t.result)
      <4>1. r - 1 <= most
        BY <2>2, <2>7
      <4>2. Part(p + m, 0)
        BY <2>10, <2>15
      <4> HIDE DEF Now, Text, Size, u
      <4> QED BY <2>7, <3>1, <3>5, <3>9, <3>10, <4>1, <4>2
    <3>12. Rest(t) < Rest(s)
      BY <2>5, <2>6, <2>8, <3>1, <3>2
    <3> HIDE DEF Inv
    <3> QED BY <2>3, <2>4, <3>11, <3>12 DEF t
  <2>16. CASE ~(r > 0 /\ W(p + k, k))
    <3> DEFINE u == x \o c
    <3>1. t.nT - t.nS = p + 1 /\ t.nS = 0 /\ t.nFound = f /\ t.nReplaced = r /\ t.result = u
      BY <2>3, <2>6, <2>16
    <3>2. u \in Seq(Chars) /\ Len(u) = Len(x) + 1 /\ Len(x) \in Nat
      <4>1. c \in Seq(Chars)
        BY <2>12
      <4>2. u \in Seq(Chars) /\ Len(u) = Len(x) + Len(c) /\ Len(x) \in Nat
        BY <2>2, <4>1, ConcatIs
      <4> QED BY <2>12, <4>2
    <3>3. r > 0 => ~Fit(p) /\ N(p) = N(p + 1) /\ from[p] = c \o from[p + 1]
      BY <1>4, <2>6, <2>9, <2>10, <2>16 DEF c
    <3>4. r > 0 => Now(p + 1, f, r)
      BY <2>7, <3>3
    <3>5. ASSUME Told, r > 0 PROVE u \o from[p + 1] = from[0]
      <4>1. x \o from[p] = from[0] /\ from[p] = c \o from[p + 1]
        BY <2>7, <3>3, <3>5
      <4> DEFINE g == from[p + 1]
      <4>2. g \in Seq(Chars) /\ c \in Seq(Chars) /\ x \o (c \o g) = from[0]
        BY <2>11, <2>12, <4>1
      <4> HIDE DEF g
      <4>3. (x \o c) \o g = x \o (c \o g)
        <5>1. x \in Seq(Chars) /\ c \in Seq(Chars) /\ g \in Seq(Chars)
          BY <2>2, <4>2
        <5> QED BY <5>1, Regrouped
      <4> QED BY <4>2, <4>3 DEF g
    <3>6. ASSUME Told, ~(r > 0) PROVE u \o From(text, p + 1) = from[0]
      <4>1. x \o From(text, p) = from[0]
        BY <2>7, <3>6
      <4> DEFINE g == From(text, p + 1)
      <4>2. g \in Seq(Chars) /\ c \in Seq(Chars) /\ x \o (c \o g) = from[0]
        BY <2>12, <4>1
      <4> HIDE DEF g
      <4>3. (x \o c) \o g = x \o (c \o g)
        <5>1. x \in Seq(Chars) /\ c \in Seq(Chars) /\ g \in Seq(Chars)
          BY <2>2, <4>2
        <5> QED BY <5>1, Regrouped
      <4> QED BY <4>2, <4>3 DEF g
    <3>7. Text(u, p + 1, r)
      BY <3>5, <3>6
    <3>8. Size(u, p + 1, r)
      <4>1. D(r) \in Int
        BY <1>16, <2>2
      <4> HIDE DEF u
      <4> QED BY <1>1, <2>2, <2>6, <2>7, <3>2, <4>1
    <3>9. Inv(t.nT, t.nS, t.nFound, t.nReplaced, t.result)
      <4>1. ~(0 > 0)
        OBVIOUS
      <4> HIDE DEF Now, Text, Size, u
      <4> QED BY <2>7, <2>10, <3>1, <3>4, <3>7, <3>8, <4>1
    <3>10. Rest(t) < Rest(s)
      BY <2>5, <2>6, <2>8, <3>1
    <3> HIDE DEF Inv
    <3> QED BY <2>3, <2>4, <3>9, <3>10 DEF t
  <2> QED BY <2>13, <2>14, <2>15, <2>16
<1>20. first \in I
  <2>1. 0 \in 0..l /\ 0 \in 0..m - 1 /\ 0 - 0 = 0 /\ 0 <= 0 /\ <<>> \in Seq(Chars) /\ Len(<<>>) = 0
        /\ n \in Nat /\ most \in Nat /\ most > 0 /\ n <= n /\ most <= most /\ ~(0 > 0)
    BY <1>1
  <2>2. first \in S
    BY <1>21, <2>1
  <2>3. Part(0, 0)
    BY <1>3, <2>1
  <2>4. Now(0, n, most)
    BY <1>22, <2>1
  <2>5. from[0] \in Seq(Chars)
    BY <1>4, <2>1
  <2>6. <<>> \o from[0] = from[0]
    BY <2>5, ConcatEmptySeq
  <2>7. Text(<<>>, 0, most)
    BY <2>1, <2>6
  <2>8. Size(<<>>, 0, most)
    <3>1. D(most) \in Int
      BY <1>16, <2>1
    <3> QED BY <1>1, <2>1, <3>1
  <2> HIDE DEF Now, Text, Size
  <2>9. Inv(0, 0, n, most, <<>>)
    BY <2>1, <2>3, <2>4, <2>7, <2>8
  <2> HIDE DEF Inv
  <2> QED BY <2>2, <2>9
<1> DEFINE mu == [s \in I |-> Rest(s)]
           end == While(body, first)
<1>23. I \in SUBSET S
  OBVIOUS
<1>24. mu \in [I -> Nat] /\ \A s \in I : mu[s] = Rest(s)
  <2> HIDE DEF I, Rest
  <2> QED BY <1>18, <1>23
<1>25. \A s \in I : body[s] = s \/ (body[s] \in I /\ mu[body[s]] < mu[s])
  <2> TAKE s \in I
  <2> HIDE DEF I, Rest, mu
  <2>1. s \in S
    BY <1>23
  <2>2. CASE s.nT < l
    BY <1>15, <1>19, <1>24, <2>1, <2>2
  <2>3. CASE ~(s.nT < l)
    BY <1>14, <1>15, <2>1, <2>3
  <2> QED BY <2>2, <2>3
<1>26. end \in I /\ body[end] = end
  <2> HIDE DEF I, mu, first, end
  <2>1. While(body, first) \in I /\ body[While(body, first)] = While(body, first)
    <3>1. body \in [S -> S] /\ mu \in [I -> Nat]
      BY <1>15, <1>24
    <3> QED BY <1>20, <1>23, <1>25, <3>1, WhileRule
  <2> QED BY <2>1 DEF end
<1>27. Copied(text, seek, replace, flag, n, most) = end.result
  BY <1>11 DEF body
<1> HIDE DEF end
<1>28. ~(end.nT < l)
  <2> HIDE DEF I, Rest
  <2>1. end \in S /\ body[end] = R(end)
    BY <1>15, <1>23, <1>26
  <2>2. end.nT < l => Rest(end) < Rest(end) /\ Rest(end) \in Nat
    BY <1>18, <1>19, <1>26, <2>1
  <2> QED BY <2>2
<1>29. /\ end.result \in Seq(Chars) /\ Len(end.result) = l + D(most)
       /\ Told => end.result = from[0]
  <2> DEFINE a == end.nT
             k == end.nS
             f == end.nFound
             r == end.nReplaced
             x == end.result
             p == a - k
  <2>1. end \in S /\ Inv(a, k, f, r, x)
    BY <1>26
  <2>2. a \in 0..l /\ k \in 0..m - 1 /\ f \in Nat /\ r \in Nat /\ x \in Seq(Chars) /\ k <= a
    BY <1>12, <2>1
  <2>3. (k > 0 => r > 0) /\ (r > 0 => Now(p, f, r)) /\ Text(x, p, r) /\ Size(x, p, r)
    BY <2>1
  <2>4. ~(a < l)
    BY <1>28
  <2> HIDE DEF a, k, f, r, x
  <2>5. a = l /\ p \in 0..l /\ p + m > l /\ (k = 0 => p = l)
    BY <1>1, <2>2, <2>4
  <2>6. N(p) = 0
    BY <1>2, <2>5
  <2> HIDE DEF p
  <2>7. r = 0
    <3>1. r > 0 => f + r + (N(0) - N(p)) = n + most
      BY <2>3
    <3> QED BY <1>6, <1>22, <2>2, <2>6, <3>1
  <2>8. p = l
    BY <2>2, <2>3, <2>5, <2>7
  <2>9. Len(x) + (l - l) + 0 = l + D(most)
    BY <1>17, <2>3, <2>7, <2>8
  <2>10. Len(x) = l + D(most)
    <3>1. Len(x) \in Nat
      BY <2>2
    <3> QED BY <1>1, <2>9, <3>1
  <2>11. Told => x \o From(text, l) = from[0]
    BY <2>3, <2>7, <2>8
  <2>12. From(text, l) = <<>>
    <3>1. Len(text) \in 0..Len(text)
      BY <1>1 DEF l
    <3> DEFINE y == From(text, l)
    <3>2. Len(y) = l - l /\ y \in Seq(Chars)
      BY <1>1, <3>1, TailIs DEF l
    <3> HIDE DEF y
    <3>3. Len(y) = 0
      BY <1>1, <3>2
    <3>4. y = <<>>
      BY <3>2, <3>3, EmptySeq
    <3> QED BY <3>4 DEF y
  <2>13. x \o <<>> = x
    BY <2>2, ConcatEmptySeq
  <2> QED BY <2>2, <2>10, <2>11, <2>12, <2>13 DEF x
<1> QED BY <1>27, <1>29 DEF D, d, l, m, Told, Copies

\* What el_StrTran is called with.
Tranable(text, seek, replace, start, count, flag) ==
    /\ Searched(text, seek, flag) /\ replace \in Seq(Chars)
    /\ start \in Int /\ count \in Int

\* Where nothing is to be replaced, what is to be returned is the text.
LEMMA NothingReplaced ==
    ASSUME NEW text, NEW seek, NEW replace \in Seq(Chars), NEW n, NEW count, NEW flag,
           Searched(text, seek, flag),
           \A q \in 0..Len(text) - 1 :
               Fits(text, seek, q, flag) => ~Chosen(text, seek, n, count, flag, q)
    PROVE  Replaced(text, seek, replace, n, count, flag) = text
<1> DEFINE all == Ahead(text, seek, flag, 0)
<1>1. text \in Seq(Chars) /\ Len(text) \in Nat /\ 0 \in 0..Len(text)
  BY DEF Searched
<1>2. all \in Nat
  BY <1>1, AheadIs
<1>3. PICK from : /\ Built(from, Chars, Len(text), Leaps(text, seek, flag),
                           Turns(text, seek, replace, n, count, flag))
                  /\ Replaced(text, seek, replace, n, count, flag) = from[0]
  <2>1. \E from : /\ Built(from, Chars, Len(text), Leaps(text, seek, flag),
                           Turns(text, seek, replace, n, count, flag))
                  /\ Replaced(text, seek, replace, n, count, flag) = from[0]
    BY ReplacedIs
  <2> QED BY <2>1
<1>4. \A q \in 0..Len(text) : Ahead(text, seek, flag, q) <= all => from[q] = From(text, q)
  <2>1. all \in Int
    BY <1>2
  <2> HIDE DEF all
  <2> QED BY <1>3, <2>1, LaterKept
<1>5. from[0] = From(text, 0)
  <2>1. all <= all
    BY <1>2
  <2> QED BY <1>1, <1>4, <2>1
<1>6. From(text, 0) = text
  BY <1>1, SubSeqFull DEF From
<1> QED BY <1>3, <1>5, <1>6

\* What el_StrTran returns.
LEMMA StrTranIs ==
    ASSUME NEW text, NEW seek, NEW replace, NEW start, NEW count, NEW flag,
           Tranable(text, seek, replace, start, count, flag)
    PROVE  LET t == StrTran(text, seek, replace, start, count, flag)
               n == IF start <= 0 THEN 0 ELSE start - 1
           IN  /\ t.room = Len(t.text)
               /\ count # 0 /\ (flag = 0 \/ start <= 1)
                      => t.text = Replaced(text, seek, replace, n, count, flag)
<1> DEFINE first == IF start <= 0 THEN 1 ELSE start
           n == IF start <= 0 THEN 0 ELSE start - 1
           c == Counted(text, seek, first, count, flag)
           r == c.nReplaced
           l == Len(text)
           m == Len(seek)
           d == Len(replace) - m
           room == l + d * r
           all == Ahead(text, seek, flag, 0)
           copy == Copied(text, seek, replace, flag, c.nFound - r, r)
           t == StrTran(text, seek, replace, start, count, flag)
           what == Replaced(text, seek, replace, n, count, flag)
<1>1. /\ Searched(text, seek, flag) /\ replace \in Seq(Chars) /\ start \in Int /\ count \in Int
      /\ text \in Seq(Chars) /\ seek \in Seq(Chars)
  BY DEF Tranable, Searched
<1>2. l \in Nat /\ m \in Nat /\ Len(replace) \in Nat
  BY <1>1
<1>3. first \in Int /\ first >= 1 /\ n \in Nat /\ n = first - 1 /\ (start <= 1 => n = 0)
  BY <1>1
<1>4. t = IF count = 0 THEN [text |-> <<>>, room |-> 0]
          ELSE IF m = 0 \/ m > l \/ r = 0 THEN [text |-> text, room |-> l]
          ELSE IF room = 0 THEN [text |-> <<>>, room |-> 0]
          ELSE [text |-> copy, room |-> room]
  BY Zenon DEF StrTran
<1>5. /\ \A p \in 0..l : Ahead(text, seek, flag, p) \in Nat
      /\ \A p \in 0..l - 1 : Ahead(text, seek, flag, p) =
                 IF Fits(text, seek, p, flag) THEN 1 + Ahead(text, seek, flag, p + m)
                 ELSE Ahead(text, seek, flag, p + 1)
      /\ \A p \in 0..l - 1 : Fits(text, seek, p, flag) => m >= 1 /\ p + m <= l
  BY <1>1, AheadIs
<1>6. all \in Nat
  <2>1. 0 \in 0..l
    BY <1>2
  <2> QED BY <1>5, <2>1
<1>7. ASSUME count # 0, m # 0
      PROVE  /\ c.nFound \in 0..all
             /\ r = IF c.nFound < first THEN 0 ELSE c.nFound - (first - 1)
             /\ count < 0 => c.nFound = all
             /\ count > 0 => r <= count /\ (c.nFound = all \/ r = count)
  <2>1. seek # <<>>
    BY <1>7
  <2> HIDE DEF first
  <2> QED BY <1>1, <1>3, <1>7, <2>1, CountedIs
<1> HIDE DEF first, c, all, copy, t, what, n
<1>8. CASE count = 0
  <2>1. t.room = 0 /\ t.text = <<>>
    BY <1>4, <1>8
  <2> QED BY <1>8, <2>1 DEF t
<1>9. CASE count # 0 /\ (m = 0 \/ m > l \/ r = 0)
  <2>1. t.text = text /\ t.room = l
    BY <1>4, <1>9
  <2>2. \A q \in 0..Len(text) - 1 :
            Fits(text, seek, q, flag) => ~Chosen(text, seek, n, count, flag, q)
    <3> SUFFICES ASSUME NEW q \in 0..Len(text) - 1, Fits(text, seek, q, flag),
                        Chosen(text, seek, n, count, flag, q)
                 PROVE  FALSE
      OBVIOUS
    <3>1. m >= 1 /\ q + m <= l /\ q \in Nat
      BY <1>2, <1>5
    <3>2. r = 0 /\ m # 0
      BY <1>2, <1>9, <3>1
    <3>3. c.nFound < first /\ c.nFound \in Nat
      BY <1>3, <1>6, <1>7, <1>9, <3>2
    <3>4. c.nFound = all
      BY <1>1, <1>7, <1>9, <3>2
    <3>5. all <= n
      BY <1>3, <1>6, <3>3, <3>4
    <3>6. Ahead(text, seek, flag, q) \in Nat /\ Ahead(text, seek, flag, q) # 0
      <4>1. q + m \in 0..l /\ q \in 0..l - 1 /\ q \in 0..l
        BY <1>2, <3>1
      <4>2. Ahead(text, seek, flag, q + m) \in Nat /\ Ahead(text, seek, flag, q) \in Nat
        BY <1>5, <4>1
      <4>3. Ahead(text, seek, flag, q) = 1 + Ahead(text, seek, flag, q + m)
        BY <1>5, <4>1
      <4> QED BY <4>2, <4>3
    <3>7. all - Ahead(text, seek, flag, q) >= n
      BY Zenon DEF Chosen, all
    <3> QED BY <1>3, <1>6, <3>5, <3>6, <3>7
  <2>3. what = text
    BY <1>1, <2>2, NothingReplaced DEF what
  <2> QED BY <2>1, <2>3 DEF t, what, n
<1>10. CASE count # 0 /\ ~(m = 0 \/ m > l \/ r = 0)
  <2> DEFINE found == c.nFound
             passed == found - r
  <2>1. /\ found \in 0..all
        /\ r = IF found < first THEN 0 ELSE found - (first - 1)
        /\ count < 0 => found = all
        /\ count > 0 => r <= count /\ (found = all \/ r = count)
        /\ r # 0
    BY <1>7, <1>10
  <2>2. copy = Copied(text, seek, replace, flag, passed, r)
    BY DEF copy
  <2> HIDE DEF found, r
  <2>3. found \in Nat /\ found <= all /\ ~(found < first) /\ r = found - (first - 1)
    BY <1>6, <2>1
  <2>4. passed = n /\ r \in Nat \ {0} /\ n + r = found
    BY <1>3, <2>1, <2>3
  <2>5. n + r <= all /\ (count < 0 => n + r = all)
        /\ (count >= 0 => r <= count /\ (n + r = all \/ r = count))
    BY <1>1, <1>10, <2>1, <2>3, <2>4
  <2> HIDE DEF passed
  <2>6. PICK from : /\ Built(from, Chars, Len(text), Leaps(text, seek, flag),
                             Turns(text, seek, replace, n, count, flag))
                    /\ what = from[0]
    <3>1. \E from : /\ Built(from, Chars, Len(text), Leaps(text, seek, flag),
                             Turns(text, seek, replace, n, count, flag))
                    /\ what = from[0]
      BY <1>1, ReplacedIs DEF what
    <3> QED BY <3>1
  <2>7. copy = Copied(text, seek, replace, flag, n, r)
    BY <2>2, <2>4
  <2>8. seek # <<>>
    BY <1>10
  <2>9. copy \in Seq(Chars) /\ Len(copy) = room /\ (flag = 0 \/ n = 0 => copy = what)
    <3>1. Parted(text, seek, flag, n, r, count)
      BY <2>5 DEF Parted, all
    <3>2. Copies(Copied(text, seek, replace, flag, n, r),
                 text, seek, replace, flag, n, r, from)
      BY <1>1, <1>3, <2>4, <2>6, <2>8, <3>1, CopiedIs, Zenon
    <3>3. Copies(copy, text, seek, replace, flag, n, r, from)
      BY <2>7, <3>2
    <3> HIDE DEF copy
    <3> QED BY <2>6, <3>3 DEF Copies
  <2>10. t.room = room /\ t.text = copy /\ Len(copy) = room
    <3>1. CASE room # 0
      BY <1>4, <1>10, <2>9, <3>1
    <3>2. CASE room = 0
      <4>1. t.room = 0 /\ t.text = <<>>
        BY <1>4, <1>10, <3>2
      <4>2. copy = <<>>
        <5>1. Len(copy) = 0
          BY <2>9, <3>2
        <5>2. copy \in Seq(Chars)
          BY <2>9
        <5> QED BY <5>1, <5>2, EmptySeq
      <4> QED BY <2>9, <3>2, <4>1, <4>2
    <3> QED BY <3>1, <3>2
  <2> QED BY <1>3, <2>9, <2>10 DEF t, what, n
<1> QED BY <1>8, <1>9, <1>10

\* What a call of el_StrTran leaves.
LEMMA ReplacementKept == ASSUME Next, Called("StrTran")' PROVE StrTranReplaces'
<1>1. CallStrTran
  BY Zenon, OnlyCall
<1>2. PICK t \in Texts, s \in Seeks, r \in Replacements, n \in Starts, c \in Counts, f \in {0, 1} :
          Call([fn |-> "StrTran", text |-> t, seek |-> s, replace |-> r, start |-> n, count |-> c,
                flag |-> f],
               StrTran(t, s, r, n, c, f))
  BY <1>1 DEF CallStrTran
<1>3. /\ call'.text = t /\ call'.seek = s /\ call'.replace = r /\ call'.start = n
      /\ call'.count = c /\ call'.flag = f /\ result' = StrTran(t, s, r, n, c, f)
  BY <1>2 DEF Call
<1>4. Tranable(t, s, r, n, c, f)
  BY <1>2, AlgorithmsAssumption DEF Tranable, Searched
<1>5. /\ result'.room = Len(result'.text)
      /\ c # 0 /\ (f = 0 \/ n <= 1)
             => result'.text = Replaced(t, s, r, IF n <= 0 THEN 0 ELSE n - 1, c, f)
  BY <1>3, <1>4, StrTranIs
<1> QED BY <1>3, <1>5, Zenon DEF StrTranReplaces

\* el_StrTran returns the text with the occurrences from the start-th on, at most as many as
\* asked for, replaced, and its second pass fills exactly the room that the first has added
\* up, for every text and every partial match, start, limit and letter case.
THEOREM OccurrencesAreReplaced == Spec => []StrTranReplaces
<1>1. Init => StrTranReplaces
  <2>1. Init => ~Called("StrTran")
    BY DEF Init, Called
  <2> QED BY <2>1, Zenon DEF StrTranReplaces
<1>2. StrTranReplaces /\ [Next]_vars => StrTranReplaces'
  <2> SUFFICES ASSUME StrTranReplaces, [Next]_vars PROVE StrTranReplaces'
    OBVIOUS
  <2>1. CASE UNCHANGED vars
    <3>1. call' = call /\ result' = result
      BY <2>1 DEF vars
    <3> QED BY <3>1, Zenon DEF StrTranReplaces, Called
  <2>2. CASE Next
    <3>1. CASE Called("StrTran")'
      BY <2>2, <3>1, ReplacementKept
    <3>2. CASE ~Called("StrTran")'
      BY <3>2, Zenon DEF StrTranReplaces
    <3> QED BY <3>1, <3>2
  <2> QED BY <2>1, <2>2
<1> QED BY <1>1, <1>2, PTL DEF Spec
=============================================================================
