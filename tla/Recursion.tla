------------------------------ MODULE Recursion ------------------------------
(***************************************************************************)
(* Induction and recursion over the naturals with sets and functions as    *)
(* parameters, where the library's theorems have operators, and what follows *)
(* from them about sequences and FlattenSeq. They are used for the recursive *)
(* functions of Answers and for the text of the command line in Startup.   *)
(***************************************************************************)
EXTENDS Integers, Sequences, SequencesExt, SequenceTheorems, WellFoundedInduction, TLAPS

\* A set of naturals that is not empty has a least element.
LEMMA LeastNat ==
  ASSUME NEW T \in SUBSET Nat, T # {}
  PROVE  \E x \in T : \A y \in T : x <= y
<1> DEFINE R == OpToRel(<, Nat)
<1>1. IsWellFoundedOn(R, Nat)
  BY NatLessThanWellFounded
<1>2. \A y, x \in Nat : y < x => <<y, x>> \in R
  BY DEF OpToRel
<1> HIDE DEF R
<1>3. PICK x \in T : \A y \in T : ~ (<<y, x>> \in R)
  BY <1>1, WFMin
<1>4. ASSUME NEW y \in T PROVE x <= y
  <2>1. x \in Nat /\ y \in Nat /\ ~(y < x)
    BY <1>2, <1>3, <1>4
  <2> QED BY <2>1
<1> QED BY <1>4

\* A set that contains n whenever it contains all smaller numbers contains all.
LEMMA Induction ==
  ASSUME NEW T,
         ASSUME NEW n \in Nat, \A m \in Nat : m < n => m \in T PROVE n \in T
  PROVE  \A n \in Nat : n \in T
<1> DEFINE Rest == {n \in Nat : n \notin T}
<1>1. SUFFICES Rest = {}
  OBVIOUS
<1>2. SUFFICES ASSUME Rest # {} PROVE FALSE
  OBVIOUS
<1>3. Rest \in SUBSET Nat
  OBVIOUS
<1> HIDE DEF Rest
<1>4. PICK x \in Rest : \A y \in Rest : x <= y
  BY <1>2, <1>3, LeastNat
<1>5. x \in Nat /\ x \notin T
  BY <1>4 DEF Rest
<1>6. ASSUME NEW m \in Nat, m < x PROVE m \in T
  BY <1>4, <1>5, <1>6 DEF Rest
<1> QED BY <1>5, <1>6

\* g computes a recursion up to n: on Z it has the values of A, elsewhere that of
\* G at the argument and at what g gives for a smaller one, d.
Computes(g, n, Z, A, d, G) ==
  \A m \in 0..n : g[m] = IF m \in Z THEN A[m] ELSE G[<<m, g[d[m]]>>]

\* Two functions that compute the same recursion agree as far as both do.
LEMMA RecursionUnique ==
  ASSUME NEW Z, NEW A, NEW d \in [Nat -> Nat], NEW G,
         \A m \in Nat \ Z : d[m] < m,
         NEW g, NEW h, NEW n \in Nat, NEW k \in Nat,
         Computes(g, n, Z, A, d, G), Computes(h, k, Z, A, d, G)
  PROVE  \A m \in Nat : m <= n /\ m <= k => g[m] = h[m]
<1> DEFINE T == {m \in Nat : m <= n /\ m <= k => g[m] = h[m]}
<1>1. ASSUME NEW i \in Nat, \A m \in Nat : m < i => m \in T PROVE i \in T
  <2> SUFFICES ASSUME i <= n, i <= k PROVE g[i] = h[i]
    OBVIOUS
  <2>1. i \in 0..n /\ i \in 0..k
    OBVIOUS
  <2>2. CASE i \in Z
    BY <2>1, <2>2 DEF Computes
  <2>3. CASE i \notin Z
    <3>1. d[i] \in Nat /\ d[i] < i
      BY <2>3
    <3>2. g[d[i]] = h[d[i]]
      BY <1>1, <3>1
    <3>3. g[i] = G[<<i, g[d[i]]>>] /\ h[i] = G[<<i, h[d[i]]>>]
      BY <2>1, <2>3 DEF Computes
    <3> QED BY <3>2, <3>3
  <2> QED BY <2>2, <2>3
<1> HIDE DEF T
<1>2. \A m \in Nat : m \in T
  BY <1>1, Induction
<1> QED BY <1>2 DEF T

\* A recursion goes down if d is smaller wherever it is called.
GoesDown(Z, d) == \A m \in Nat \ Z : d[m] < m

Solves(f, Z, A, d, G) ==
  \A m \in Nat : f[m] = IF m \in Z THEN A[m] ELSE G[<<m, f[d[m]]>>]

\* A recursion that goes down has a function that solves it.
LEMMA RecursionExists ==
  ASSUME NEW S, NEW Z, NEW A \in [Nat -> S], NEW d \in [Nat -> Nat],
         NEW G \in [Nat \X S -> S],
         GoesDown(Z, d)
  PROVE  \E f \in [Nat -> S] : Solves(f, Z, A, d, G)
<1> USE DEF GoesDown
<1> DEFINE Parts(n) == {g \in [0..n -> S] : Computes(g, n, Z, A, d, G)}
           T == {n \in Nat : Parts(n) # {}}
<1>1. ASSUME NEW n \in Nat, \A m \in Nat : m < n => m \in T PROVE n \in T
  <2> SUFFICES Parts(n) # {}
    OBVIOUS
  <2>1. CASE n = 0
    <3>1. 0 \in Z
      <4> SUFFICES ASSUME 0 \notin Z PROVE FALSE
        OBVIOUS
      <4>1. d[0] \in Nat /\ d[0] < 0
        OBVIOUS
      <4> QED BY <4>1
    <3>2. [i \in 0..0 |-> A[0]] \in Parts(0)
      BY <3>1 DEF Computes
    <3> QED BY <2>1, <3>2
  <2>2. CASE n # 0
    <3>1. n - 1 \in Nat /\ n - 1 < n
      BY <2>2
    <3>2. PICK g \in [0..n-1 -> S] : Computes(g, n-1, Z, A, d, G)
      BY <1>1, <3>1
    <3> DEFINE v == IF n \in Z THEN A[n] ELSE G[<<n, g[d[n]]>>]
               h == [i \in 0..n |-> IF i = n THEN v ELSE g[i]]
    <3>3. v \in S
      <4>1. CASE n \in Z
        BY <4>1
      <4>2. CASE n \notin Z
        <5>1. d[n] \in 0..n-1
          BY <4>2
        <5>2. g[d[n]] \in S
          BY <5>1
        <5> QED BY <4>2, <5>2
      <4> QED BY <4>1, <4>2
    <3> HIDE DEF v
    <3>4. h \in [0..n -> S]
      BY <3>3
    <3>5. ASSUME NEW m \in 0..n PROVE h[m] = IF m \in Z THEN A[m] ELSE G[<<m, h[d[m]]>>]
      <4>1. ASSUME m \notin Z PROVE d[m] \in 0..n-1 /\ h[d[m]] = g[d[m]]
        <5>1. d[m] \in Nat /\ d[m] < m
          BY <4>1
        <5>2. d[m] \in 0..n-1 /\ d[m] \in 0..n /\ d[m] # n
          BY <5>1
        <5> QED BY <5>2
      <4>2. CASE m = n
        <5>1. h[m] = v
          BY <4>2
        <5> QED BY <4>1, <4>2, <5>1 DEF v
      <4>3. CASE m # n
        <5>1. m \in 0..n-1 /\ h[m] = g[m]
          BY <4>3
        <5>2. g[m] = IF m \in Z THEN A[m] ELSE G[<<m, g[d[m]]>>]
          BY <3>2, <5>1 DEF Computes
        <5> QED BY <4>1, <5>1, <5>2
      <4> QED BY <4>2, <4>3
    <3> HIDE DEF h
    <3>6. Computes(h, n, Z, A, d, G)
      BY <3>5 DEF Computes
    <3> QED BY <3>4, <3>6
  <2> QED BY <2>1, <2>2
<1>2. \A n \in Nat : n \in T
  <2> HIDE DEF T
  <2> QED BY <1>1, Induction
<1> DEFINE part == [n \in Nat |-> CHOOSE g \in Parts(n) : TRUE]
           f == [n \in Nat |-> part[n][n]]
<1>3. ASSUME NEW n \in Nat
      PROVE  part[n] \in [0..n -> S] /\ Computes(part[n], n, Z, A, d, G)
  <2>1. part[n] \in Parts(n)
    BY <1>2
  <2> QED BY <2>1
<1> HIDE DEF part
<1>4. f \in [Nat -> S]
  <2> SUFFICES ASSUME NEW n \in Nat PROVE part[n][n] \in S
    OBVIOUS
  <2> QED BY <1>3
<1>5. ASSUME NEW m \in Nat PROVE f[m] = IF m \in Z THEN A[m] ELSE G[<<m, f[d[m]]>>]
  <2>1. part[m][m] = IF m \in Z THEN A[m] ELSE G[<<m, part[m][d[m]]>>]
    <3>1. m \in 0..m
      OBVIOUS
    <3>2. Computes(part[m], m, Z, A, d, G)
      BY <1>3
    <3> QED BY <3>1, <3>2 DEF Computes
  <2>2. CASE m \in Z
    BY <2>1, <2>2
  <2>3. CASE m \notin Z
    <3>1. d[m] \in Nat /\ d[m] <= m
      BY <2>3
    <3> DEFINE g == part[m]
               h == part[d[m]]
               k == d[m]
    <3>2. Computes(g, m, Z, A, d, G) /\ Computes(h, k, Z, A, d, G) /\ k \in Nat
      BY <1>3, <3>1
    <3> HIDE DEF g, h, k
    <3>3. \A i \in Nat : i <= m /\ i <= k => g[i] = h[i]
      BY <3>2, RecursionUnique
    <3>4. part[m][d[m]] = part[d[m]][d[m]]
      BY <3>1, <3>3 DEF g, h, k
    <3> QED BY <2>1, <2>3, <3>1, <3>4
  <2> QED BY <2>2, <2>3
<1> HIDE DEF f
<1> QED BY <1>4, <1>5 DEF Solves

-----------------------------------------------------------------------------
(* Sequences.                                                              *)

\* A function over an initial segment is a sequence.
LEMMA FunctionIsSeq ==
  ASSUME NEW S, NEW n \in Nat, NEW f \in [1..n -> S]
  PROVE  f \in Seq(S) /\ Len(f) = n
<1>1. f \in Seq(S)
  BY SeqDef
<1>2. DOMAIN f = 1..Len(f) /\ Len(f) \in Nat /\ DOMAIN f = 1..n
  BY <1>1, LenProperties
<1> QED BY <1>1, <1>2

\* A sequence of one element.
LEMMA SingleSeq ==
  ASSUME NEW S, NEW e \in S
  PROVE  <<e>> \in Seq(S) /\ Len(<<e>>) = 1 /\ <<e>>[1] = e
OBVIOUS

\* Concatenation associates; stated for sequences over one set.
LEMMA Regroup ==
  ASSUME NEW S
  PROVE  \A s, t, u \in Seq(S) : (s \o t) \o u = s \o (t \o u)
BY ConcatAssociative

\* A concatenation is empty only if both parts are.
LEMMA BothEmpty ==
  ASSUME NEW S, NEW s \in Seq(S), NEW t \in Seq(S), s \o t = <<>>
  PROVE  s = <<>> /\ t = <<>>
<1>1. Len(s \o t) = Len(s) + Len(t) /\ Len(s \o t) = 0 /\ Len(s) \in Nat /\ Len(t) \in Nat
  <2>1. Len(s \o t) = Len(s) + Len(t)
    BY ConcatProperties
  <2> DEFINE u == s \o t
  <2>2. u = <<>>
    OBVIOUS
  <2> HIDE DEF u
  <2>3. Len(u) = 0
    BY <2>2
  <2> QED BY <2>1, <2>3, LenProperties DEF u
<1>2. Len(s) = 0 /\ Len(t) = 0
  BY <1>1
<1> QED BY <1>2, EmptySeq

-----------------------------------------------------------------------------
(* FlattenSeq.                                                             *)

\* The sequences FlattenSeq(s) computes on its way.
Joins(v, s, S) ==
  /\ v \in [1..Len(s) -> Seq(S)]
  /\ v[1] = s[1]
  /\ \A i \in 2..Len(s) : v[i] = v[i - 1] \o s[i]

\* The body of its recursive definition.
FlattenBody(s, v) == [i \in 1..Len(s) |-> IF i = 1 THEN s[i] ELSE v[i - 1] \o s[i]]

\* FlattenSeq is the last of them.
LEMMA FlattenDef ==
  ASSUME NEW S, NEW s \in Seq(Seq(S)), Len(s) # 0
  PROVE  \E v : Joins(v, s, S) /\ FlattenSeq(s) = v[Len(s)]
<1>0. Len(s) \in Nat \ {0} /\ 1 \in 1..Len(s) /\ \A i \in 1..Len(s) : s[i] \in Seq(S)
  OBVIOUS
<1>a. Len(s) \in Nat \ {0}
  BY <1>0
<1> DEFINE A == [n \in Nat |-> s[1]]
           d == [n \in Nat |-> IF n = 0 THEN 0 ELSE n - 1]
           G == [p \in Nat \X Seq(S) |-> IF p[1] \in 1..Len(s) THEN p[2] \o s[p[1]] ELSE p[2]]
<1>1. A \in [Nat -> Seq(S)] /\ d \in [Nat -> Nat]
  BY <1>0
<1>2. G \in [Nat \X Seq(S) -> Seq(S)]
  <2> SUFFICES ASSUME NEW i \in 1..Len(s), NEW x \in Seq(S) PROVE x \o s[i] \in Seq(S)
    OBVIOUS
  <2> QED BY <1>0, ConcatProperties
<1>3. GoesDown({0, 1}, d)
  BY DEF GoesDown
<1>4. \A i \in 1..Len(s), x \in Seq(S) : G[<<i, x>>] = x \o s[i]
  <2> SUFFICES ASSUME NEW i \in 1..Len(s), NEW x \in Seq(S)
               PROVE  G[<<i, x>>] = x \o s[i]
    OBVIOUS
  <2>1. i \in Nat
    BY <1>a
  <2>2. <<i, x>> \in Nat \X Seq(S)
    BY <2>1
  <2> QED BY <2>2
<1>5. A[1] = s[1] /\ \A i \in 1..Len(s) : d[i] = i - 1
  BY <1>0
<1> HIDE DEF A, d, G
<1>6. PICK f \in [Nat -> Seq(S)] : Solves(f, {0, 1}, A, d, G)
  BY <1>1, <1>2, <1>3, RecursionExists
<1>7. f[1] = s[1] /\ \A i \in 2..Len(s) : f[i] = f[i - 1] \o s[i]
  <2>1. f[1] = s[1]
    BY <1>5, <1>6 DEF Solves
  <2>2. ASSUME NEW i \in 2..Len(s) PROVE f[i] = f[i - 1] \o s[i]
    <3>1. i \in Nat /\ i \notin {0, 1} /\ i \in 1..Len(s) /\ i - 1 \in Nat
      <4>1. i \in Nat /\ i >= 2 /\ i <= Len(s)
        BY <1>a
      <4>2. i \in 1..Len(s)
        BY <4>1
      <4>3. i - 1 \in Nat /\ i # 0 /\ i # 1
        BY <4>1
      <4> QED BY <4>1, <4>2, <4>3
    <3>2. f[i - 1] \in Seq(S)
      BY <3>1
    <3>3. f[i] = G[<<i, f[d[i]]>>]
      BY <1>6, <3>1 DEF Solves
    <3> QED BY <1>4, <1>5, <3>1, <3>2, <3>3
  <2> QED BY <2>1, <2>2
<1> DEFINE h == [i \in 1..Len(s) |-> f[i]]
<1>8. h = FlattenBody(s, h)
  <2> SUFFICES ASSUME NEW i \in 1..Len(s)
               PROVE  f[i] = IF i = 1 THEN s[i] ELSE h[i - 1] \o s[i]
    BY DEF FlattenBody
  <2>1. CASE i = 1
    BY <1>7, <2>1
  <2>2. CASE i # 1
    <3>1. i \in 2..Len(s) /\ i - 1 \in 1..Len(s)
      BY <1>0, <2>2
    <3> QED BY <1>7, <2>2, <3>1
  <2> QED BY <2>1, <2>2
<1> HIDE DEF h
<1> DEFINE u == CHOOSE v : v = FlattenBody(s, v)
<1>9. u = FlattenBody(s, u)
  BY <1>8
<1>10. FlattenSeq(s) = u[Len(s)]
  BY <1>0 DEF FlattenSeq, FlattenBody
<1> HIDE DEF u
<1>11. u[1] = s[1] /\ \A i \in 2..Len(s) : u[i] = u[i - 1] \o s[i]
  <2>1. \A i \in 1..Len(s) : u[i] = IF i = 1 THEN s[i] ELSE u[i - 1] \o s[i]
    BY <1>9 DEF FlattenBody
  <2>2. \A i \in 2..Len(s) : i \in 1..Len(s) /\ i # 1
    BY <1>0
  <2> QED BY <1>0, <2>1, <2>2
<1>12. u = [i \in 1..Len(s) |-> u[i]]
  BY <1>9 DEF FlattenBody
<1> DEFINE T == {i \in Nat : i \in 1..Len(s) => u[i] \in Seq(S)}
<1>13. ASSUME NEW k \in Nat, \A m \in Nat : m < k => m \in T PROVE k \in T
  <2> SUFFICES ASSUME k \in 1..Len(s) PROVE u[k] \in Seq(S)
    OBVIOUS
  <2>1. CASE k = 1
    BY <1>0, <1>11, <2>1
  <2>2. CASE k # 1
    <3>1. k \in 2..Len(s) /\ k - 1 \in Nat /\ k - 1 < k /\ k - 1 \in 1..Len(s)
      BY <1>0, <2>2
    <3>2. u[k - 1] \in Seq(S) /\ s[k] \in Seq(S) /\ u[k] = u[k - 1] \o s[k]
      BY <1>0, <1>11, <1>13, <3>1
    <3>3. u[k - 1] \o s[k] \in Seq(S)
      BY <3>2, ConcatProperties
    <3> QED BY <3>2, <3>3
  <2> QED BY <2>1, <2>2
<1>14. \A i \in Nat : i \in T
  <2> HIDE DEF T
  <2> QED BY <1>13, Induction
<1>15. u \in [1..Len(s) -> Seq(S)]
  <2>1. \A i \in 1..Len(s) : u[i] \in Seq(S)
    BY <1>0, <1>14
  <2> QED BY <1>12, <2>1
<1> QED BY <1>10, <1>11, <1>15 DEF Joins

\* Nothing joined is nothing.
LEMMA FlattenEmpty ==
  ASSUME NEW S, NEW s \in Seq(Seq(S)), Len(s) = 0
  PROVE  FlattenSeq(s) = <<>>
<1>1. s = <<>>
  BY EmptySeq
<1> QED BY <1>1 DEF FlattenSeq

\* One more part is appended.
LEMMA FlattenAppend ==
  ASSUME NEW S, NEW s \in Seq(Seq(S)), NEW e \in Seq(S)
  PROVE  FlattenSeq(Append(s, e)) = FlattenSeq(s) \o e
<1> DEFINE t == Append(s, e)
<1>1. /\ t \in Seq(Seq(S)) /\ Len(t) = Len(s) + 1 /\ Len(s) \in Nat
      /\ \A i \in 1..Len(s) : t[i] = s[i]
      /\ t[Len(s) + 1] = e
  BY AppendProperties
<1> HIDE DEF t
<1>2. PICK w : Joins(w, t, S) /\ FlattenSeq(t) = w[Len(t)]
  <2>1. Len(t) # 0
    BY <1>1
  <2> QED BY <1>1, <2>1, FlattenDef
<1>3. CASE Len(s) = 0
  <2>1. FlattenSeq(s) = <<>>
    BY <1>3, FlattenEmpty
  <2>2. FlattenSeq(t) = e
    BY <1>1, <1>2, <1>3 DEF Joins
  <2> QED BY <2>1, <2>2, ConcatEmptySeq DEF t
<1>4. CASE Len(s) # 0
  <2>1. PICK v : Joins(v, s, S) /\ FlattenSeq(s) = v[Len(s)]
    BY <1>4, FlattenDef
  <2> DEFINE T == {i \in Nat : i \in 1..Len(s) => v[i] = w[i]}
  <2>2. ASSUME NEW k \in Nat, \A m \in Nat : m < k => m \in T PROVE k \in T
    <3> SUFFICES ASSUME k \in 1..Len(s) PROVE v[k] = w[k]
      OBVIOUS
    <3>1. CASE k = 1
      BY <1>1, <1>2, <2>1, <3>1 DEF Joins
    <3>2. CASE k # 1
      <4>1. /\ k \in 2..Len(s) /\ k \in 2..Len(t) /\ k - 1 \in Nat /\ k - 1 < k
            /\ k - 1 \in 1..Len(s)
        BY <1>1, <3>2
      <4>2. v[k] = v[k - 1] \o s[k] /\ w[k] = w[k - 1] \o t[k]
        BY <1>2, <2>1, <4>1 DEF Joins
      <4>3. v[k - 1] = w[k - 1] /\ t[k] = s[k]
        BY <1>1, <2>2, <4>1
      <4> QED BY <4>2, <4>3
    <3> QED BY <3>1, <3>2
  <2>3. \A i \in Nat : i \in T
    <3> HIDE DEF T
    <3> QED BY <2>2, Induction
  <2>4. v[Len(s)] = w[Len(s)]
    <3>1. Len(s) \in Nat /\ Len(s) \in 1..Len(s)
      BY <1>1, <1>4
    <3> QED BY <2>3, <3>1
  <2>5. w[Len(t)] = w[Len(s)] \o e
    <3>1. Len(t) \in 2..Len(t) /\ Len(t) - 1 = Len(s) /\ t[Len(t)] = e
      BY <1>1, <1>4
    <3>2. w[Len(t)] = w[Len(t) - 1] \o t[Len(t)]
      BY <1>2, <3>1 DEF Joins
    <3> QED BY <3>1, <3>2
  <2> QED BY <1>2, <2>1, <2>4, <2>5 DEF t
<1> QED BY <1>3, <1>4

\* A flattened sequence has the elements of its parts.
LEMMA FlattenType ==
  ASSUME NEW S, NEW s \in Seq(Seq(S))
  PROVE  FlattenSeq(s) \in Seq(S)
<1>1. CASE Len(s) = 0
  BY <1>1, FlattenEmpty, EmptySeq
<1>2. CASE Len(s) # 0
  <2>1. PICK v : Joins(v, s, S) /\ FlattenSeq(s) = v[Len(s)]
    BY <1>2, FlattenDef
  <2>2. Len(s) \in 1..Len(s)
    BY <1>2
  <2> QED BY <2>1, <2>2 DEF Joins
<1> QED BY <1>1, <1>2

\* A flattened sequence around one of its parts, e.
Around(x, e, S) == \E pre, post \in Seq(S) : x = (pre \o e) \o post

\* Concatenation over S associates.
Associates(S) == \A x, y, z \in Seq(S) : (x \o y) \o z = x \o (y \o z)

\* Concatenation associates over every set.
LEMMA ConcatAssociates == \A S : Associates(S)
BY Regroup DEF Associates

\* All parts of s but the k-th are over S.
OthersIn(s, k, S) == \A i \in 1..Len(s) : i # k => s[i] \in Seq(S)

\* If all parts but one are over S, so is what is before and behind that one.
LEMMA FlattenAround ==
  ASSUME NEW S, NEW U, S \subseteq U, NEW s \in Seq(Seq(U)), NEW k \in 1..Len(s),
         OthersIn(s, k, S)
  PROVE  Around(FlattenSeq(s), s[k], S)
<1>1. Len(s) \in Nat /\ Len(s) # 0 /\ k \in Nat /\ s[k] \in Seq(U)
  OBVIOUS
<1>2. PICK v : Joins(v, s, U) /\ FlattenSeq(s) = v[Len(s)]
  BY <1>1, FlattenDef
<1>3. \A x \in Seq(S) : x \in Seq(U)
  BY SeqMonotonic
<1>4. \A x, y \in Seq(S) : x \o y \in Seq(S)
  BY ConcatProperties
<1>5. \A x, y \in Seq(U) : x \o y \in Seq(U)
  BY ConcatProperties
<1>6. <<>> \in Seq(S) /\ \A x \in Seq(U) : x \o <<>> = x /\ <<>> \o x = x
  BY ConcatEmptySeq, EmptySeq
<1>10. \A x, y, z \in Seq(U) : (x \o y) \o z = x \o (y \o z)
  <2>1. Associates(U)
    BY ConcatAssociates
  <2> QED BY <2>1 DEF Associates
<1> DEFINE Holds(n) == (n < k => v[n] \in Seq(S)) /\ (n >= k => Around(v[n], s[k], S))
           T == {n \in Nat : n \in 1..Len(s) => Holds(n)}
<1>7. ASSUME NEW n \in Nat, \A m \in Nat : m < n => m \in T PROVE n \in T
  <2> SUFFICES ASSUME n \in 1..Len(s) PROVE Holds(n)
    OBVIOUS
  <2>1. CASE n = 1
    <3>1. v[1] = s[1] /\ 1 \in 1..Len(s)
      BY <1>1, <1>2 DEF Joins
    <3>2. k = 1 => Around(s[1], s[k], S)
      BY <1>1, <1>6 DEF Around
    <3>3. k # 1 => s[1] \in Seq(S)
      BY <3>1 DEF OthersIn
    <3> QED BY <1>1, <2>1, <3>1, <3>2, <3>3
  <2>2. CASE n # 1
    <3> DEFINE m == n - 1
    <3>1. m \in Nat /\ m < n /\ m \in 1..Len(s) /\ n \in 2..Len(s) /\ m + 1 = n
      BY <1>1, <2>2
    <3>2. v[n] = v[m] \o s[n] /\ v[m] \in Seq(U)
      BY <1>2, <3>1 DEF Joins
    <3>3. (m < k => v[m] \in Seq(S)) /\ (m >= k => Around(v[m], s[k], S))
      BY <1>7, <3>1
    <3> HIDE DEF m, T
    <3>4. CASE n < k
      <4>1. v[m] \in Seq(S) /\ s[n] \in Seq(S)
        BY <1>1, <3>1, <3>3, <3>4 DEF OthersIn
      <4> QED BY <1>1, <1>4, <3>2, <3>4, <4>1
    <3>5. CASE n = k
      <4>1. v[m] \in Seq(S)
        BY <1>1, <3>1, <3>3, <3>5
      <4>2. v[n] = (v[m] \o s[k]) \o <<>>
        BY <1>1, <1>5, <1>6, <3>2, <3>5
      <4>3. Around(v[n], s[k], S)
        BY <1>6, <4>1, <4>2 DEF Around
      <4> QED BY <1>1, <3>5, <4>3
    <3>6. CASE n > k
      <4>1. PICK pre, post \in Seq(S) : v[m] = (pre \o s[k]) \o post
        <5>1. Around(v[m], s[k], S)
          BY <1>1, <3>1, <3>3, <3>6
        <5> QED BY <5>1 DEF Around
      <4>2. s[n] \in Seq(S) /\ post \o s[n] \in Seq(S)
        BY <1>1, <1>4, <3>6 DEF OthersIn
      <4> DEFINE x == pre \o s[k]
                 y == s[n]
      <4>3. x \in Seq(U) /\ y \in Seq(U) /\ post \in Seq(U)
        BY <1>1, <1>3, <1>5, <4>2
      <4> HIDE DEF x, y
      <4>4. (x \o post) \o y = x \o (post \o y)
        BY <1>10, <4>3
      <4>5. v[n] = (pre \o s[k]) \o (post \o s[n])
        BY <3>2, <4>1, <4>4 DEF x, y
      <4>6. Around(v[n], s[k], S)
        BY <4>2, <4>5 DEF Around
      <4> QED BY <1>1, <3>6, <4>6
    <3> QED BY <1>1, <3>4, <3>5, <3>6
  <2> QED BY <2>1, <2>2
<1>8. \A n \in Nat : n \in T
  <2> HIDE DEF T
  <2> QED BY <1>7, Induction
<1>9. Around(v[Len(s)], s[k], S)
  <2>1. Len(s) \in 1..Len(s) /\ Len(s) >= k
    BY <1>1
  <2> QED BY <1>1, <1>8, <2>1
<1> QED BY <1>2, <1>9
=============================================================================
