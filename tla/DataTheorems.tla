---------------------------- MODULE DataTheorems ----------------------------
(***************************************************************************)
(* Facts about numbers, recursive functions and sequences that the proofs  *)
(* about the programs share.  Induction is done with the least number of a *)
(* set, and so needs no operator as a parameter.                           *)
(***************************************************************************)
EXTENDS Integers, Sequences, Functions, SequencesExt, SequenceTheorems,
        WellFoundedInduction, TLAPS

(* A set of natural numbers that has an element has a least one.           *)
LEMMA LeastNumber ==
  ASSUME NEW T, T \subseteq Nat, T # {}
  PROVE  \E x \in T : \A y \in T : x <= y
<1> DEFINE R == {ss \in Nat \X Nat : ss[1] < ss[2]}
<1>1. IsWellFoundedOn(R, Nat)
  BY NatLessThanWellFounded DEF OpToRel
<1> HIDE DEF R
<1>2. PICK x \in T : \A y \in T : <<y, x>> \notin R
  BY <1>1, WFMin
<1>3. ASSUME NEW y \in T  PROVE  x <= y
  <2>1. <<y, x>> \notin R
    BY <1>2
  <2> QED
    BY <2>1, Z3 DEF R
<1> QED
  BY <1>3

(* What holds for 0 and passes from every number to the next holds for all.*)
LEMMA AllNumbers ==
  ASSUME NEW T, 0 \in T, \A n \in Nat : n \in T => n + 1 \in T
  PROVE  Nat \subseteq T
<1> SUFFICES ASSUME Nat \ T # {}  PROVE  FALSE
  OBVIOUS
<1>1. PICK x \in Nat \ T : \A y \in Nat \ T : x <= y
  BY LeastNumber
<1>2. x - 1 \in Nat /\ x - 1 \in T
  BY <1>1
<1> QED
  BY <1>1, <1>2

(* g and h agree below n.                                                  *)
AgreeBelow(g, h, mu, S, n) == \A y \in S : mu[y] < n => g[y] = h[y]

(* G looks only at arguments of a smaller measure.                         *)
LooksBelow(G, mu, S, T) ==
  \A g, h \in [S -> T], x \in S : AgreeBelow(g, h, mu, S, mu[x]) => G[g][x] = G[h][x]

(* The equation g = G[g] of a recursive definition has a solution.         *)
HasSolution(G, S, T) == \E g \in [S -> T] : g = G[g]

(* G[g] is the right-hand side of a recursive definition, evaluated with g *)
(* for the function that is defined: the definition has a solution.        *)
LEMMA RecursionHasSolution ==
  ASSUME NEW S, NEW T, T # {},
         NEW mu \in [S -> Nat],
         NEW G \in [[S -> T] -> [S -> T]],
         LooksBelow(G, mu, S, T)
  PROVE  HasSolution(G, S, T)
<1> DEFINE Solves(g, n) == AgreeBelow(g, G[g], mu, S, n)
<1>1. ASSUME NEW n \in Nat  PROVE  \E g \in [S -> T] : Solves(g, n)
  <2> DEFINE Good == {k \in Nat : \E g \in [S -> T] : Solves(g, k)}
  <2>1. 0 \in Good
    <3>1. PICK t \in T : TRUE
      OBVIOUS
    <3>2. [x \in S |-> t] \in [S -> T]
      BY <3>1
    <3>3. Solves([x \in S |-> t], 0)
      BY DEF AgreeBelow
    <3> QED
      BY <3>2, <3>3
  <2>2. ASSUME NEW k \in Nat, k \in Good  PROVE  k + 1 \in Good
    <3>1. PICK g \in [S -> T] : Solves(g, k)
      BY <2>2
    <3>2. G[g] \in [S -> T]
      OBVIOUS
    <3>3. ASSUME NEW x \in S, mu[x] < k + 1  PROVE  G[g][x] = G[G[g]][x]
      <4>1. mu[x] <= k /\ mu[x] \in Nat
        BY <3>3
      <4>2. AgreeBelow(g, G[g], mu, S, mu[x])
        BY <3>1, <4>1 DEF AgreeBelow
      <4> QED
        BY <3>2, <4>2 DEF LooksBelow
    <3> QED
      BY <3>2, <3>3 DEF AgreeBelow
  <2>3. Nat \subseteq Good
    <3> HIDE DEF Good
    <3> QED
      BY <2>1, <2>2, AllNumbers
  <2> QED
    BY <2>3
<1>2. ASSUME NEW g \in [S -> T], NEW h \in [S -> T], NEW n \in Nat,
             Solves(g, n), Solves(h, n)
      PROVE  AgreeBelow(g, h, mu, S, n)
  <2> DEFINE Bad == {k \in Nat : \E x \in S : mu[x] = k /\ k < n /\ g[x] # h[x]}
  <2>1. CASE Bad = {}
    BY <2>1 DEF AgreeBelow
  <2>2. CASE Bad # {}
    <3>1. PICK k \in Bad : \A j \in Bad : k <= j
      <4> HIDE DEF Bad
      <4>1. Bad \subseteq Nat
        BY DEF Bad
      <4> QED
        BY <2>2, <4>1, LeastNumber
    <3>2. PICK x \in S : mu[x] = k /\ k < n /\ g[x] # h[x]
      BY <3>1
    <3>3. ASSUME NEW y \in S, mu[y] < k  PROVE  g[y] = h[y]
      <4>1. mu[y] \in Nat /\ mu[y] \notin Bad
        BY <3>1, <3>3
      <4> QED
        BY <3>1, <3>2, <3>3, <4>1
    <3>4. G[g][x] = G[h][x]
      BY <3>2, <3>3 DEF LooksBelow, AgreeBelow
    <3> QED
      BY <1>2, <3>2, <3>4 DEF AgreeBelow
  <2> QED
    BY <2>1, <2>2
<1> DEFINE A(n) == CHOOSE g \in [S -> T] : Solves(g, n)
           F == [x \in S |-> A(mu[x] + 1)[x]]
<1>3. ASSUME NEW n \in Nat  PROVE  A(n) \in [S -> T] /\ Solves(A(n), n)
  <2> HIDE DEF Solves
  <2> QED
    BY <1>1
<1> HIDE DEF A
<1>4. F \in [S -> T]
  <2>1. ASSUME NEW x \in S  PROVE  A(mu[x] + 1)[x] \in T
    <3>1. mu[x] + 1 \in Nat
      OBVIOUS
    <3> QED
      BY <1>3, <3>1
  <2> QED
    BY <2>1
<1>5. ASSUME NEW x \in S  PROVE  F[x] = G[F][x]
  <2> DEFINE n == mu[x] + 1
             h == A(n)
  <2>1. n \in Nat /\ mu[x] < n /\ h \in [S -> T] /\ Solves(h, n)
    <3>1. n \in Nat /\ mu[x] < n
      OBVIOUS
    <3> HIDE DEF n, Solves
    <3> QED
      BY <1>3, <3>1
  <2>2. F[x] = h[x]
    OBVIOUS
  <2>3. h[x] = G[h][x]
    BY <2>1 DEF AgreeBelow
  <2>4. ASSUME NEW y \in S, mu[y] < mu[x]  PROVE  F[y] = h[y]
    <3> DEFINE m == mu[y] + 1
    <3>1. m \in Nat /\ mu[y] < m /\ m <= n
      BY <2>4
    <3>2. A(m) \in [S -> T] /\ Solves(A(m), m)
      <4> HIDE DEF Solves, m
      <4> QED
        BY <1>3, <3>1
    <3>3. Solves(h, m)
      <4>1. ASSUME NEW z \in S, mu[z] < m  PROVE  h[z] = G[h][z]
        <5>1. mu[z] < n
          BY <3>1, <4>1
        <5> QED
          BY <2>1, <5>1 DEF AgreeBelow
      <4> QED
        BY <4>1 DEF AgreeBelow
    <3>4. AgreeBelow(A(m), h, mu, S, m)
      <4> HIDE DEF Solves, m, h
      <4> QED
        BY <1>2, <2>1, <3>1, <3>2, <3>3
    <3>5. A(m)[y] = h[y]
      BY <3>1, <3>4 DEF AgreeBelow
    <3>6. F[y] = A(m)[y]
      OBVIOUS
    <3> QED
      BY <3>5, <3>6
  <2>5. G[F][x] = G[h][x]
    <3> HIDE DEF F, h, n
    <3> QED
      BY <1>4, <2>1, <2>4 DEF LooksBelow, AgreeBelow
  <2> QED
    BY <2>2, <2>3, <2>5
<1>6. G[F] \in [S -> T]
  BY <1>4
<1>7. F = G[F]
  <2> HIDE DEF F
  <2> QED
    BY <1>4, <1>5, <1>6
<1> QED
  BY <1>4, <1>7 DEF HasSolution

-----------------------------------------------------------------------------
(* Sequences without repetition, as lists of distinct records.             *)

(* The element at place i goes; the others keep their order.               *)
LEMMA RemoveAtPlace ==
  ASSUME NEW S, NEW s \in Seq(S), NEW i \in DOMAIN s
  PROVE  /\ RemoveAt(s, i) \in Seq(S)
         /\ Len(RemoveAt(s, i)) = Len(s) - 1
         /\ \A k \in 1..(Len(s) - 1) :
              RemoveAt(s, i)[k] = IF k < i THEN s[k] ELSE s[k + 1]
<1> DEFINE n == Len(s)
           before == SubSeq(s, 1, i - 1)
           behind == SubSeq(s, i + 1, n)
<1>1. DOMAIN s = 1..n /\ n \in Nat /\ i \in 1..n /\ \A k \in 1..n : s[k] \in S
  OBVIOUS
<1>2. /\ before \in Seq(S) /\ Len(before) = i - 1
      /\ \A k \in 1..(i - 1) : before[k] = s[k]
  <2> HIDE DEF n
  <2>1. i - 1 \in Int /\ \A k \in 1..(i - 1) : s[k] \in S
    BY <1>1
  <2>2. /\ before \in Seq(S)
        /\ Len(before) = IF 1 <= i - 1 THEN (i - 1) - 1 + 1 ELSE 0
        /\ \A k \in 1..((i - 1) - 1 + 1) : before[k] = s[1 + k - 1]
    BY <2>1, SubSeqProperties
  <2> HIDE DEF before
  <2>3. ASSUME NEW k \in 1..(i - 1)  PROVE  before[k] = s[k]
    <3>1. k \in 1..((i - 1) - 1 + 1) /\ 1 + k - 1 = k
      BY <1>1
    <3> QED
      BY <2>2, <3>1
  <2> QED
    BY <1>1, <2>2, <2>3
<1>3. /\ behind \in Seq(S) /\ Len(behind) = n - i
      /\ \A k \in 1..(n - i) : behind[k] = s[i + k]
  <2> HIDE DEF n
  <2>1. i + 1 \in Int /\ n \in Int /\ \A k \in (i + 1)..n : s[k] \in S
    BY <1>1
  <2>2. /\ behind \in Seq(S)
        /\ Len(behind) = IF i + 1 <= n THEN n - (i + 1) + 1 ELSE 0
        /\ \A k \in 1..(n - (i + 1) + 1) : behind[k] = s[(i + 1) + k - 1]
    BY <2>1, SubSeqProperties
  <2> HIDE DEF behind
  <2>3. ASSUME NEW k \in 1..(n - i)  PROVE  behind[k] = s[i + k]
    <3>1. k \in 1..(n - (i + 1) + 1) /\ (i + 1) + k - 1 = i + k
      BY <1>1
    <3> QED
      BY <2>2, <3>1
  <2> QED
    BY <1>1, <2>2, <2>3
<1>4. RemoveAt(s, i) = before \o behind
  BY DEF RemoveAt
<1> HIDE DEF before, behind, n
<1>5. /\ before \o behind \in Seq(S)
      /\ Len(before \o behind) = n - 1
      /\ \A k \in 1..(n - 1) :
           (before \o behind)[k] = IF k <= i - 1 THEN before[k] ELSE behind[k - (i - 1)]
  <2>1. /\ before \o behind \in Seq(S)
        /\ Len(before \o behind) = Len(before) + Len(behind)
        /\ \A k \in 1..(Len(before) + Len(behind)) :
             (before \o behind)[k] =
               IF k <= Len(before) THEN before[k] ELSE behind[k - Len(before)]
    BY <1>2, <1>3, ConcatProperties
  <2>2. Len(before) + Len(behind) = n - 1
    BY <1>1, <1>2, <1>3
  <2> QED
    BY <1>2, <2>1, <2>2
<1>6. ASSUME NEW k \in 1..(n - 1)
      PROVE  (before \o behind)[k] = IF k < i THEN s[k] ELSE s[k + 1]
  <2>1. CASE k < i
    BY <1>1, <1>2, <1>5, <2>1
  <2>2. CASE ~(k < i)
    <3>1. k - (i - 1) \in 1..(n - i) /\ i + (k - (i - 1)) = k + 1 /\ ~(k <= i - 1)
      BY <1>1, <2>2
    <3>2. behind[k - (i - 1)] = s[k + 1]
      BY <1>3, <3>1
    <3> QED
      BY <1>1, <1>5, <2>2, <3>1, <3>2
  <2> QED
    BY <2>1, <2>2
<1> QED
  BY <1>4, <1>5, <1>6 DEF n

(* Of a list that has everything once, exactly that element is taken out.  *)
LEMMA RemoveFromList ==
  ASSUME NEW S, NEW s \in Seq(S), IsInjective(s), NEW i \in DOMAIN s
  PROVE  /\ RemoveAt(s, i) \in Seq(S)
         /\ Range(RemoveAt(s, i)) = Range(s) \ {s[i]}
         /\ IsInjective(RemoveAt(s, i))
<1> DEFINE u == RemoveAt(s, i)
           n == Len(s)
<1>1. DOMAIN s = 1..n /\ n \in Nat /\ i \in 1..n
  OBVIOUS
<1>2. /\ u \in Seq(S) /\ Len(u) = n - 1
      /\ \A k \in 1..(n - 1) : u[k] = IF k < i THEN s[k] ELSE s[k + 1]
  BY RemoveAtPlace
<1> HIDE DEF u, n
<1>3. DOMAIN u = 1..(n - 1)
  BY <1>2
<1>4. Range(u) = Range(s) \ {s[i]}
  <2>1. ASSUME NEW x \in Range(s), x # s[i]  PROVE  x \in Range(u)
    <3>1. PICK k \in 1..n : s[k] = x
      BY <1>1 DEF Range
    <3>2. CASE k < i
      <4>1. k \in DOMAIN u /\ u[k] = x
        BY <1>1, <1>2, <1>3, <3>1, <3>2
      <4> QED
        BY <4>1 DEF Range
    <3>3. CASE k > i
      <4>1. k - 1 \in DOMAIN u /\ u[k - 1] = x
        BY <1>1, <1>2, <1>3, <3>1, <3>3
      <4> QED
        BY <4>1 DEF Range
    <3> QED
      BY <1>1, <2>1, <3>1, <3>2, <3>3
  <2>2. ASSUME NEW x \in Range(u)  PROVE  x \in Range(s) /\ x # s[i]
    <3>1. PICK k \in 1..(n - 1) : u[k] = x
      BY <1>3 DEF Range
    <3>2. PICK j \in 1..n : j # i /\ s[j] = x
      BY <1>1, <1>2, <3>1
    <3> QED
      BY <1>1, <3>2 DEF Range, IsInjective
  <2> QED
    BY <2>1, <2>2
<1>5. IsInjective(u)
  <2> SUFFICES ASSUME NEW j \in 1..(n - 1), NEW k \in 1..(n - 1), u[j] = u[k]
               PROVE  j = k
    BY <1>3 DEF IsInjective
  <2> DEFINE At(l) == IF l < i THEN l ELSE l + 1
  <2>1. At(j) \in DOMAIN s /\ At(k) \in DOMAIN s /\ s[At(j)] = s[At(k)]
    BY <1>1, <1>2
  <2>2. At(j) = At(k)
    BY <2>1 DEF IsInjective
  <2> QED
    BY <1>1, <2>2
<1> QED
  BY <1>2, <1>4, <1>5 DEF u

(* Of a list that has everything once, exactly one element is put first.   *)
LEMMA PutFirst ==
  ASSUME NEW S, NEW s \in Seq(S), IsInjective(s), NEW x \in S, x \notin Range(s)
  PROVE  /\ <<x>> \o s \in Seq(S)
         /\ Range(<<x>> \o s) = Range(s) \cup {x}
         /\ IsInjective(<<x>> \o s)
<1> DEFINE u == <<x>> \o s
           n == Len(s)
<1>1. DOMAIN s = 1..n /\ n \in Nat
  OBVIOUS
<1>2. /\ u \in Seq(S) /\ DOMAIN u = 1..(n + 1)
      /\ \A k \in 1..(n + 1) : u[k] = IF k = 1 THEN x ELSE s[k - 1]
  OBVIOUS
<1> HIDE DEF u, n
<1>3. Range(u) = Range(s) \cup {x}
  <2>1. ASSUME NEW y \in Range(s)  PROVE  y \in Range(u)
    <3>1. PICK k \in 1..n : s[k] = y
      BY <1>1 DEF Range
    <3>2. k + 1 \in DOMAIN u /\ u[k + 1] = y
      BY <1>1, <1>2, <3>1
    <3> QED
      BY <3>2 DEF Range
  <2>2. x \in Range(u)
    <3>1. 1 \in DOMAIN u /\ u[1] = x
      BY <1>1, <1>2
    <3> QED
      BY <3>1 DEF Range
  <2>3. ASSUME NEW y \in Range(u), y # x  PROVE  y \in Range(s)
    <3>1. PICK k \in 1..(n + 1) : u[k] = y
      BY <1>2 DEF Range
    <3>2. k - 1 \in DOMAIN s /\ s[k - 1] = y
      BY <1>1, <1>2, <2>3, <3>1
    <3> QED
      BY <3>2 DEF Range
  <2> QED
    BY <2>1, <2>2, <2>3
<1>4. IsInjective(u)
  <2> SUFFICES ASSUME NEW j \in 1..(n + 1), NEW k \in 1..(n + 1), u[j] = u[k]
               PROVE  j = k
    BY <1>2 DEF IsInjective
  <2>1. \A l \in 1..n : s[l] # x
    BY <1>1 DEF Range
  <2>2. \A l, m \in 1..n : s[l] = s[m] => l = m
    BY <1>1 DEF IsInjective
  <2>3. CASE j # 1 /\ k # 1
    <3>1. j - 1 \in 1..n /\ k - 1 \in 1..n /\ s[j - 1] = s[k - 1]
      BY <1>1, <1>2, <2>3
    <3>2. j - 1 = k - 1
      BY <2>2, <3>1
    <3> QED
      BY <1>1, <3>2
  <2>4. CASE j = 1 /\ k # 1
    <3>1. k - 1 \in 1..n /\ s[k - 1] = x
      BY <1>1, <1>2, <2>4
    <3> QED
      BY <2>1, <3>1
  <2>5. CASE j # 1 /\ k = 1
    <3>1. j - 1 \in 1..n /\ s[j - 1] = x
      BY <1>1, <1>2, <2>5
    <3> QED
      BY <2>1, <3>1
  <2> QED
    BY <2>3, <2>4, <2>5
<1> QED
  BY <1>2, <1>3, <1>4 DEF u
=============================================================================
