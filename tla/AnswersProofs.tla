--------------------------- MODULE AnswersProofs ---------------------------
(***************************************************************************)
(* Theorems about Answers, for every length, base, width of the range text *)
(* and set of requests and answers.                                        *)
(*                                                                         *)
(* First what the range text says: the digits of a number (Text) have that *)
(* number as their value, the '-' is where the first number ends, and if   *)
(* the text is cut the first number is still whole (RangeRead). Then the   *)
(* inductive invariant AnswerInv: at every moment what the callbacks have  *)
(* taken and what libcurl still holds make up the answer, and the filler   *)
(* was called for the first responses of the body. One lemma per action    *)
(* shows that it is kept; the theorems are at the end.                     *)
(***************************************************************************)
EXTENDS Answers, SequenceTheorems, Recursion

-----------------------------------------------------------------------------
(* The text of a number and its value.                                     *)

TextBody(f) ==
  [n \in Nat |-> IF n < Base THEN <<n>> ELSE Append(f[n \div Base], n % Base)]

\* The recursion of Text has a solution, so Text satisfies it.
LEMMA TextDef ==
  \A n \in Nat : Text[n] = IF n < Base THEN <<n>> ELSE Append(Text[n \div Base], n % Base)
<1> DEFINE S == Seq(Nat)
           Z == 0..Base - 1
           A == [n \in Nat |-> <<n>>]
           d == [n \in Nat |-> n \div Base]
           G == [p \in Nat \X S |-> Append(p[2], p[1] % Base)]
<1>0. Base \in Nat \ {0, 1}
  BY RangeAssumption
<1>1. A \in [Nat -> S] /\ d \in [Nat -> Nat]
  BY <1>0
<1>2. G \in [Nat \X S -> S]
  <2> SUFFICES ASSUME NEW n \in Nat, NEW s \in S PROVE Append(s, n % Base) \in S
    OBVIOUS
  <2> n % Base \in Nat
    BY <1>0
  <2> QED BY AppendProperties
<1>3. GoesDown(Z, d)
  BY <1>0 DEF GoesDown
<1>4. \A m \in Nat : m \in Z <=> m < Base
  BY <1>0
<1>5. \A m \in Nat, s \in S : G[<<m, s>>] = Append(s, m % Base)
  OBVIOUS
<1>6. \A m \in Nat : A[m] = <<m>> /\ d[m] = m \div Base
  OBVIOUS
<1> HIDE DEF S, Z, A, d, G
<1>7. PICK f \in [Nat -> S] : Solves(f, Z, A, d, G)
  BY <1>1, <1>2, <1>3, RecursionExists
<1>8. ASSUME NEW m \in Nat
      PROVE  f[m] = IF m < Base THEN <<m>> ELSE Append(f[m \div Base], m % Base)
  <2>1. d[m] \in Nat /\ f[d[m]] \in S
    BY <1>1
  <2> QED BY <1>4, <1>5, <1>6, <1>7, <2>1 DEF Solves
<1>9. f = TextBody(f)
  BY <1>8 DEF TextBody
<1>10. Text = CHOOSE g : g = TextBody(g)
  BY DEF Text, TextBody
<1>11. Text = TextBody(Text)
  BY <1>9, <1>10
<1> QED BY <1>11 DEF TextBody

\* A text is a sequence of digits that is not empty.
LEMMA TextDigits ==
  ASSUME NEW n \in Nat
  PROVE  Text[n] \in Seq(0..Base - 1) /\ Len(Text[n]) >= 1
<1>0. Base \in Nat \ {0, 1}
  BY RangeAssumption
<1> DEFINE D == 0..Base - 1
           T == {m \in Nat : Text[m] \in Seq(D) /\ Len(Text[m]) >= 1}
<1>1. ASSUME NEW k \in Nat, \A m \in Nat : m < k => m \in T PROVE k \in T
  <2>1. CASE k < Base
    <3>1. k \in D
      BY <1>0, <2>1
    <3>2. Text[k] = <<k>>
      BY <2>1, TextDef
    <3> HIDE DEF D
    <3>3. <<k>> \in Seq(D) /\ Len(<<k>>) >= 1
      BY <3>1
    <3>4. Text[k] \in Seq(D) /\ Len(Text[k]) >= 1
      BY <3>2, <3>3
    <3> QED BY <3>4
  <2>2. CASE ~(k < Base)
    <3>1. k \div Base \in Nat /\ k \div Base < k /\ k % Base \in D
      BY <1>0, <2>2
    <3>2. Text[k] = Append(Text[k \div Base], k % Base)
      BY <2>2, TextDef
    <3>3. Text[k \div Base] \in Seq(D) /\ Len(Text[k \div Base]) >= 1
      BY <1>1, <3>1
    <3> DEFINE s == Text[k \div Base]
               e == k % Base
    <3> HIDE DEF D, s, e
    <3>4. s \in Seq(D) /\ e \in D /\ Len(s) >= 1
      BY <3>1, <3>3 DEF s, e
    <3>5. Append(s, e) \in Seq(D) /\ Len(Append(s, e)) >= 1
      BY <3>4, AppendProperties
    <3> QED BY <3>2, <3>5 DEF s, e
  <2> QED BY <2>1, <2>2
<1> HIDE DEF T
<1>2. \A m \in Nat : m \in T
  BY <1>1, Induction
<1> QED BY <1>2 DEF T

\* The numbers Value(s) computes on its way.
Reads(v, s) ==
  /\ v \in [0..Len(s) -> Nat]
  /\ v[0] = 0
  /\ \A i \in 1..Len(s) : v[i] = v[i - 1] * Base + s[i]

ValueBody(s, v) == [i \in 0..Len(s) |-> IF i = 0 THEN 0 ELSE v[i - 1] * Base + s[i]]

LEMMA StepNat ==
  ASSUME NEW a \in Nat, NEW b \in Nat, NEW c \in Nat
  PROVE  a * b + c \in Nat
OBVIOUS

\* The recursion of Value has a solution.
LEMMA ValueDef ==
  ASSUME NEW s \in Seq(Nat)
  PROVE  \E v : Reads(v, s) /\ Value(s) = v[Len(s)]
<1>0. Base \in Nat /\ Len(s) \in Nat /\ \A i \in 1..Len(s) : s[i] \in Nat
  BY RangeAssumption
<1> DEFINE A == [n \in Nat |-> 0]
           d == [n \in Nat |-> IF n = 0 THEN 0 ELSE n - 1]
           G == [p \in Nat \X Nat |->
                   IF p[1] \in 1..Len(s) THEN p[2] * Base + s[p[1]] ELSE 0]
<1>1. A \in [Nat -> Nat] /\ d \in [Nat -> Nat]
  OBVIOUS
<1>2. G \in [Nat \X Nat -> Nat]
  <2> SUFFICES ASSUME NEW i \in 1..Len(s), NEW x \in Nat PROVE x * Base + s[i] \in Nat
    OBVIOUS
  <2>1. s[i] \in Nat /\ x * Base \in Nat
    BY <1>0
  <2> QED BY <2>1
<1>3. GoesDown({0}, d)
  BY DEF GoesDown
<1>4. \A i \in 1..Len(s), x \in Nat : G[<<i, x>>] = x * Base + s[i]
  BY <1>0
<1>5. A[0] = 0 /\ \A i \in 1..Len(s) : d[i] = i - 1
  BY <1>0
<1> HIDE DEF A, d, G
<1>6. PICK f \in [Nat -> Nat] : Solves(f, {0}, A, d, G)
  BY <1>1, <1>2, <1>3, RecursionExists
<1>7. f[0] = 0 /\ \A i \in 1..Len(s) : f[i] = f[i - 1] * Base + s[i]
  <2>1. f[0] = 0
    BY <1>5, <1>6 DEF Solves
  <2>2. ASSUME NEW i \in 1..Len(s) PROVE f[i] = f[i - 1] * Base + s[i]
    <3>0. i \in Nat /\ i \notin {0} /\ i - 1 \in Nat
      BY <1>0
    <3>1. i \in Nat /\ i \notin {0} /\ f[i - 1] \in Nat
      BY <3>0
    <3>2. f[i] = G[<<i, f[d[i]]>>]
      BY <1>6, <3>1 DEF Solves
    <3> QED BY <1>4, <1>5, <3>1, <3>2
  <2> QED BY <2>1, <2>2
<1> DEFINE h == [i \in 0..Len(s) |-> f[i]]
<1>8. h = ValueBody(s, h)
  <2> SUFFICES ASSUME NEW i \in 0..Len(s)
               PROVE  f[i] = IF i = 0 THEN 0 ELSE h[i - 1] * Base + s[i]
    BY DEF ValueBody
  <2>1. CASE i = 0
    BY <1>7, <2>1
  <2>2. CASE i # 0
    <3>1. i \in 1..Len(s) /\ i - 1 \in 0..Len(s)
      BY <1>0, <2>2
    <3> QED BY <1>7, <2>2, <3>1
  <2> QED BY <2>1, <2>2
<1> HIDE DEF h
<1> DEFINE u == CHOOSE v : v = ValueBody(s, v)
<1>9. u = ValueBody(s, u)
  BY <1>8
<1>10. Value(s) = u[Len(s)]
  BY DEF Value, ValueBody
<1> HIDE DEF u
<1>11. u[0] = 0 /\ \A i \in 1..Len(s) : u[i] = u[i - 1] * Base + s[i]
  <2>1. \A i \in 0..Len(s) : u[i] = IF i = 0 THEN 0 ELSE u[i - 1] * Base + s[i]
    BY <1>9 DEF ValueBody
  <2>2. 0 \in 0..Len(s) /\ \A i \in 1..Len(s) : i \in 0..Len(s) /\ i # 0
    BY <1>0
  <2> QED BY <2>1, <2>2
<1>12. DOMAIN u = 0..Len(s)
  BY <1>9 DEF ValueBody
<1> DEFINE T == {i \in Nat : i <= Len(s) => u[i] \in Nat}
<1>13. ASSUME NEW k \in Nat, \A m \in Nat : m < k => m \in T PROVE k \in T
  <2> SUFFICES ASSUME k <= Len(s) PROVE u[k] \in Nat
    OBVIOUS
  <2>1. CASE k = 0
    BY <1>11, <2>1
  <2>2. CASE k # 0
    <3>1. k \in 1..Len(s) /\ k - 1 \in Nat /\ k - 1 < k /\ k - 1 <= Len(s)
      BY <1>0, <2>2
    <3>2. u[k - 1] \in Nat /\ s[k] \in Nat /\ u[k] = u[k - 1] * Base + s[k]
      BY <1>0, <1>11, <1>13, <3>1
    <3>3. u[k - 1] * Base + s[k] \in Nat
      BY <1>0, <3>2, StepNat
    <3> QED BY <3>2, <3>3, Zenon
  <2> QED BY <2>1, <2>2
<1>14. \A i \in Nat : i \in T
  <2> HIDE DEF T
  <2> QED BY <1>13, Induction
<1>15. u \in [0..Len(s) -> Nat]
  <2>1. \A i \in 0..Len(s) : u[i] \in Nat
    BY <1>0, <1>14
  <2>2. u = [i \in 0..Len(s) |-> u[i]]
    BY <1>9, <1>12 DEF ValueBody
  <2> QED BY <2>1, <2>2
<1> QED BY <1>10, <1>11, <1>15 DEF Reads

LEMMA ValueNat ==
  ASSUME NEW s \in Seq(Nat)
  PROVE  Value(s) \in Nat
<1>1. PICK v : Reads(v, s) /\ Value(s) = v[Len(s)]
  BY ValueDef
<1>2. Len(s) \in 0..Len(s)
  OBVIOUS
<1> QED BY <1>1, <1>2 DEF Reads

\* What Value computes for a prefix it computes for the whole on its way.
LEMMA ReadsUnique ==
  ASSUME NEW s \in Seq(Nat), NEW t \in Seq(Nat), NEW v, NEW w,
         Reads(v, s), Reads(w, t), Len(s) <= Len(t),
         \A i \in 1..Len(s) : s[i] = t[i]
  PROVE  v[Len(s)] = w[Len(s)]
<1>0. Len(s) \in Nat /\ Len(t) \in Nat
  OBVIOUS
<1> DEFINE T == {i \in Nat : i <= Len(s) => v[i] = w[i]}
<1>1. ASSUME NEW k \in Nat, \A m \in Nat : m < k => m \in T PROVE k \in T
  <2> SUFFICES ASSUME k <= Len(s) PROVE v[k] = w[k]
    OBVIOUS
  <2>1. CASE k = 0
    BY <2>1 DEF Reads
  <2>2. CASE k # 0
    <3>1. k \in 1..Len(s) /\ k \in 1..Len(t) /\ k - 1 \in Nat /\ k - 1 < k /\ k - 1 <= Len(s)
      BY <1>0, <2>2
    <3>2. v[k - 1] = w[k - 1] /\ s[k] = t[k]
      BY <1>1, <3>1
    <3>3. v[k] = v[k - 1] * Base + s[k] /\ w[k] = w[k - 1] * Base + t[k]
      BY <3>1 DEF Reads
    <3> QED BY <3>2, <3>3, Zenon
  <2> QED BY <2>1, <2>2
<1> HIDE DEF T
<1>2. \A m \in Nat : m \in T
  BY <1>1, Induction
<1> QED BY <1>0, <1>2 DEF T

LEMMA ValueSingle ==
  ASSUME NEW e \in Nat
  PROVE  Value(<<e>>) = e
<1>1. <<e>> \in Seq(Nat) /\ Len(<<e>>) = 1 /\ <<e>>[1] = e
  OBVIOUS
<1>2. PICK v : Reads(v, <<e>>) /\ Value(<<e>>) = v[Len(<<e>>)]
  BY <1>1, ValueDef
<1>3. v[0] = 0 /\ v[1] = v[1 - 1] * Base + e
  BY <1>1, <1>2 DEF Reads
<1>4. 0 * Base = 0
  BY RangeAssumption
<1>5. v[1] = 0 * Base + e
  BY <1>3
<1> QED BY <1>1, <1>2, <1>4, <1>5

LEMMA ValueAppend ==
  ASSUME NEW s \in Seq(Nat), NEW e \in Nat
  PROVE  Value(Append(s, e)) = Value(s) * Base + e
<1> DEFINE t == Append(s, e)
<1>1. /\ t \in Seq(Nat) /\ Len(t) = Len(s) + 1 /\ Len(s) \in Nat
      /\ \A i \in 1..Len(s) : t[i] = s[i]
      /\ t[Len(s) + 1] = e
  BY AppendProperties
<1> HIDE DEF t
<1>2. PICK v : Reads(v, s) /\ Value(s) = v[Len(s)]
  BY ValueDef
<1>3. PICK w : Reads(w, t) /\ Value(t) = w[Len(t)]
  BY <1>1, ValueDef
<1>4. v[Len(s)] = w[Len(s)]
  <2>1. Len(s) <= Len(t) /\ \A i \in 1..Len(s) : s[i] = t[i]
    BY <1>1
  <2> QED BY <1>1, <1>2, <1>3, <2>1, ReadsUnique
<1>5. w[Len(t)] = w[Len(s)] * Base + e
  <2>1. Len(t) \in 1..Len(t) /\ Len(t) - 1 = Len(s) /\ t[Len(t)] = e
    BY <1>1
  <2>2. w[Len(t)] = w[Len(t) - 1] * Base + t[Len(t)]
    BY <1>3, <2>1 DEF Reads
  <2> QED BY <2>1, <2>2, Zenon
<1> QED BY <1>2, <1>3, <1>4, <1>5, Zenon DEF t

\* A server that reads the text of a number reads that number.
LEMMA ValueText ==
  ASSUME NEW n \in Nat
  PROVE  Value(Text[n]) = n
<1>0. Base \in Nat \ {0, 1}
  BY RangeAssumption
<1> DEFINE T == {m \in Nat : Value(Text[m]) = m}
<1>1. ASSUME NEW k \in Nat, \A m \in Nat : m < k => m \in T PROVE k \in T
  <2>1. CASE k < Base
    <3>1. Value(Text[k]) = k
      BY <2>1, TextDef, ValueSingle
    <3> QED BY <3>1
  <2>2. CASE ~(k < Base)
    <3> DEFINE q == k \div Base
               r == k % Base
    <3>1. q \in Nat /\ q < k /\ r \in Nat /\ k = q * Base + r
      BY <1>0, <2>2
    <3>2. Text[k] = Append(Text[q], r)
      BY <2>2, TextDef
    <3> HIDE DEF q, r
    <3>3. Text[q] \in Seq(Nat)
      <4>1. Text[q] \in Seq(0..Base - 1) /\ 0..Base - 1 \subseteq Nat
        BY <1>0, <3>1, TextDigits
      <4> QED BY <4>1, SeqMonotonic
    <3>4. Value(Append(Text[q], r)) = Value(Text[q]) * Base + r
      BY <3>1, <3>3, ValueAppend
    <3>5. Value(Text[q]) = q
      BY <1>1, <3>1
    <3>6. Value(Text[k]) = k
      BY <3>1, <3>2, <3>4, <3>5, Zenon
    <3> QED BY <3>6
  <2> QED BY <2>1, <2>2
<1> HIDE DEF T
<1>2. \A m \in Nat : m \in T
  BY <1>1, Induction
<1> QED BY <1>2 DEF T

-----------------------------------------------------------------------------
(* The range as the server reads it.                                       *)

DashOf(t) == SelectInSeq(t, LAMBDA c : c = Dash)

LEMMA DashFound ==
  ASSUME NEW t \in Seq(Int), NEW k \in 1..Len(t), t[k] = Dash,
         \A i \in 1..Len(t) : t[i] = Dash => i = k
  PROVE  DashOf(t) = k
<1> DEFINE I == {i \in 1..Len(t) : t[i] = Dash}
<1>1. I = {k} /\ k \in Int
  OBVIOUS
<1>2. DashOf(t) = IF I # {} THEN Min(I) ELSE 0
  BY DEF DashOf, SelectInSeq
<1> HIDE DEF I
<1>3. Min(I) = k
  BY <1>1 DEF Min
<1> QED BY <1>1, <1>2, <1>3

LEMMA DashMissing ==
  ASSUME NEW t \in Seq(Int), \A i \in 1..Len(t) : t[i] # Dash
  PROVE  DashOf(t) = 0
<1> DEFINE I == {i \in 1..Len(t) : t[i] = Dash}
<1>1. I = {}
  OBVIOUS
<1>2. DashOf(t) = IF I # {} THEN Min(I) ELSE 0
  BY DEF DashOf, SelectInSeq
<1> QED BY <1>1, <1>2

LEMMA RangeOfDef ==
  ASSUME NEW t
  PROVE  /\ RangeOf(t).first = Value(SubSeq(t, 1, IF DashOf(t) = 0 THEN Len(t) ELSE DashOf(t) - 1))
         /\ RangeOf(t).last = IF DashOf(t) \in {0, Len(t)} THEN MaxLen
                              ELSE Value(SubSeq(t, DashOf(t) + 1, Len(t)))
<1> DEFINE k == DashOf(t)
<1>1. RangeOf(t) = [first |-> Value(SubSeq(t, 1, IF k = 0 THEN Len(t) ELSE k - 1)),
                    last  |-> IF k \in {0, Len(t)} THEN MaxLen
                              ELSE Value(SubSeq(t, k + 1, Len(t)))]
  BY DEF RangeOf, DashOf
<1> HIDE DEF k
<1>2. /\ RangeOf(t).first = Value(SubSeq(t, 1, IF k = 0 THEN Len(t) ELSE k - 1))
      /\ RangeOf(t).last = IF k \in {0, Len(t)} THEN MaxLen
                           ELSE Value(SubSeq(t, k + 1, Len(t)))
  BY <1>1
<1> QED BY <1>2 DEF k

Full(off, size) == Text[off] \o <<Dash>> \o Text[size + off - 1]

\* The uncut text.
LEMMA FullText ==
  ASSUME NEW off \in Nat, NEW size \in Nat \ {0}
  PROVE  /\ Full(off, size) \in Seq(Int)
         /\ Len(Full(off, size)) = Len(Text[off]) + 1 + Len(Text[size + off - 1])
         /\ Full(off, size)[Len(Text[off]) + 1] = Dash
         /\ \A i \in 1..Len(Text[off]) : Full(off, size)[i] = Text[off][i]
         /\ \A i \in 1..Len(Text[size + off - 1]) :
              Full(off, size)[Len(Text[off]) + 1 + i] = Text[size + off - 1][i]
<1> DEFINE a == Text[off]
           b == Text[size + off - 1]
           m == <<Dash>>
<1>1. a \in Seq(Int) /\ b \in Seq(Int) /\ Len(a) \in Nat /\ Len(b) \in Nat
  <2>1. a \in Seq(0..Base - 1) /\ b \in Seq(0..Base - 1)
    <3>1. size + off - 1 \in Nat
      OBVIOUS
    <3> QED BY <3>1, TextDigits
  <2>2. 0..Base - 1 \subseteq Int
    OBVIOUS
  <2>3. a \in Seq(Int) /\ b \in Seq(Int)
    BY <2>1, <2>2, SeqMonotonic
  <2> QED BY <2>3, LenProperties
<1>2. m \in Seq(Int) /\ Len(m) = 1 /\ m[1] = Dash
  BY DEF Dash
<1> HIDE DEF a, b, m
<1>3. /\ a \o m \in Seq(Int) /\ Len(a \o m) = Len(a) + 1
      /\ \A i \in 1..Len(a) + 1 : (a \o m)[i] = IF i <= Len(a) THEN a[i] ELSE m[i - Len(a)]
  <2>1. /\ a \o m \in Seq(Int) /\ Len(a \o m) = Len(a) + Len(m)
        /\ \A i \in 1..Len(a) + Len(m) :
             (a \o m)[i] = IF i <= Len(a) THEN a[i] ELSE m[i - Len(a)]
    BY <1>1, <1>2, ConcatProperties
  <2> QED BY <1>2, <2>1
<1> DEFINE c == a \o m
<1> HIDE DEF c
<1>4. /\ c \o b \in Seq(Int) /\ Len(c \o b) = Len(c) + Len(b)
      /\ \A i \in 1..Len(c) + Len(b) : (c \o b)[i] = IF i <= Len(c) THEN c[i] ELSE b[i - Len(c)]
  <2>1. c \in Seq(Int)
    BY <1>3 DEF c
  <2> QED BY <1>1, <2>1, ConcatProperties
<1> DEFINE F == c \o b
<1> HIDE DEF F
<1>5. Len(F) = Len(a) + 1 + Len(b) /\ F \in Seq(Int) /\ Len(c) = Len(a) + 1
  BY <1>1, <1>3, <1>4 DEF c, F
<1>6. ASSUME NEW i \in 1..Len(a) + 1 PROVE F[i] = IF i <= Len(a) THEN a[i] ELSE Dash
  <2>1. i \in 1..Len(c) + Len(b) /\ i <= Len(c)
    BY <1>1, <1>5
  <2>2. F[i] = c[i]
    BY <1>4, <2>1 DEF F
  <2>3. c[i] = IF i <= Len(a) THEN a[i] ELSE m[i - Len(a)]
    BY <1>3 DEF c
  <2>4. ~(i <= Len(a)) => i - Len(a) = 1
    BY <1>1
  <2> QED BY <1>2, <2>2, <2>3, <2>4
<1>7. ASSUME NEW i \in 1..Len(b) PROVE F[Len(a) + 1 + i] = b[i]
  <2>1. /\ Len(a) + 1 + i \in 1..Len(c) + Len(b) /\ ~(Len(a) + 1 + i <= Len(c))
        /\ Len(a) + 1 + i - Len(c) = i
    BY <1>1, <1>5
  <2> QED BY <1>4, <2>1 DEF F
<1>8. /\ F[Len(a) + 1] = Dash
      /\ \A i \in 1..Len(a) : F[i] = a[i]
  <2>1. Len(a) + 1 \in 1..Len(a) + 1 /\ ~(Len(a) + 1 <= Len(a))
    BY <1>1
  <2>2. \A i \in 1..Len(a) : i \in 1..Len(a) + 1 /\ i <= Len(a)
    BY <1>1
  <2> QED BY <1>6, <2>1, <2>2
<1>9. Full(off, size) = F
  BY DEF Full, F, a, b, c, m
<1> QED BY <1>5, <1>7, <1>8, <1>9 DEF a, b

\* What snprintf leaves of the text.
LEMMA CutText ==
  ASSUME NEW off \in Nat, NEW size \in Nat \ {0}
  PROVE  LET F == Full(off, size)
             t == RangeText(off, size)
             n == IF Len(F) < 2 * Digits + 1 THEN Len(F) ELSE 2 * Digits + 1
         IN  /\ t \in Seq(Int) /\ Len(t) = n
             /\ \A i \in 1..n : t[i] = F[i]
<1> DEFINE F == Full(off, size)
           n == IF Len(F) < 2 * Digits + 1 THEN Len(F) ELSE 2 * Digits + 1
<1>1. F \in Seq(Int)
  BY FullText
<1> HIDE DEF F
<1>2. Len(F) \in Nat /\ n \in Nat /\ n <= Len(F)
  BY <1>1, RangeAssumption
<1>3. RangeText(off, size) = SubSeq(F, 1, n)
  BY DEF RangeText, Full, F
<1> HIDE DEF n
<1>4. \A i \in 1..n : F[i] \in Int
  BY <1>1, <1>2
<1>5. /\ SubSeq(F, 1, n) \in Seq(Int)
      /\ Len(SubSeq(F, 1, n)) = n
      /\ \A i \in 1..n : SubSeq(F, 1, n)[i] = F[i]
  <2>1. /\ SubSeq(F, 1, n) \in Seq(Int)
        /\ Len(SubSeq(F, 1, n)) = IF 1 <= n THEN n - 1 + 1 ELSE 0
        /\ \A i \in 1..n - 1 + 1 : SubSeq(F, 1, n)[i] = F[1 + i - 1]
    BY <1>2, <1>4, SubSeqProperties
  <2>2. n - 1 + 1 = n /\ (~(1 <= n) => n = 0) /\ \A i \in 1..n : 1 + i - 1 = i
    BY <1>2
  <2> QED BY <2>1, <2>2
<1> QED BY <1>3, <1>5 DEF F, n

\* A part of a sequence that equals another one.
LEMMA SubSeqIs ==
  ASSUME NEW t \in Seq(Int), NEW s \in Seq(Int), NEW m \in Nat,
         m + Len(s) <= Len(t), \A i \in 1..Len(s) : t[m + i] = s[i]
  PROVE  SubSeq(t, m + 1, m + Len(s)) = s
<1>1. Len(s) \in Nat /\ Len(t) \in Nat
  OBVIOUS
<1>2. \A i \in m + 1 .. m + Len(s) : t[i] \in Int
  BY <1>1
<1> DEFINE u == SubSeq(t, m + 1, m + Len(s))
<1>3. /\ u \in Seq(Int)
      /\ Len(u) = IF m + 1 <= m + Len(s) THEN m + Len(s) - (m + 1) + 1 ELSE 0
      /\ \A i \in 1..m + Len(s) - (m + 1) + 1 : u[i] = t[m + 1 + i - 1]
  BY <1>1, <1>2, SubSeqProperties
<1> HIDE DEF u
<1>4. Len(u) = Len(s) /\ \A i \in 1..Len(s) : u[i] = t[m + i]
  BY <1>1, <1>3
<1>5. u = s
  BY <1>3, <1>4, SeqEqual
<1> QED BY <1>5 DEF u

\* The server reads the first number right as long as it fits into the buffer,
\* and the second one if both have at most Digits digits.
LEMMA RangeRead ==
  ASSUME NEW off \in Nat, NEW size \in Nat \ {0}, Len(Text[off]) <= 2 * Digits + 1
  PROVE  /\ RangeOf(RangeText(off, size)).first = off
         /\ RangeOf(RangeText(off, size)).last \in Nat
         /\ Len(Text[off]) <= Digits /\ Len(Text[size + off - 1]) <= Digits =>
              RangeOf(RangeText(off, size)).last = off + size - 1
<1> DEFINE a == Text[off]
           e == size + off - 1
           b == Text[e]
           F == Full(off, size)
           t == RangeText(off, size)
           n == IF Len(F) < 2 * Digits + 1 THEN Len(F) ELSE 2 * Digits + 1
<1>0. Digits \in Nat \ {0} /\ MaxLen \in Nat /\ Base \in Nat
  BY RangeAssumption
<1>1. e \in Nat /\ e = off + size - 1
  OBVIOUS
<1>2. /\ a \in Seq(Nat) /\ b \in Seq(Nat) /\ a \in Seq(Int) /\ b \in Seq(Int)
      /\ Len(a) \in Nat /\ Len(b) \in Nat /\ Len(b) >= 1
      /\ \A i \in 1..Len(a) : a[i] # Dash
      /\ \A i \in 1..Len(b) : b[i] # Dash
  <2> HIDE DEF e
  <2>1. a \in Seq(0..Base - 1) /\ b \in Seq(0..Base - 1) /\ Len(b) >= 1
    BY <1>1, TextDigits
  <2> HIDE DEF a, b
  <2>2. 0..Base - 1 \subseteq Nat /\ 0..Base - 1 \subseteq Int
    BY <1>0
  <2>3. a \in Seq(Nat) /\ b \in Seq(Nat) /\ a \in Seq(Int) /\ b \in Seq(Int)
    BY <2>1, <2>2, SeqMonotonic
  <2>4. \A i \in 1..Len(a) : a[i] # Dash
    BY <2>3, ElementOfSeq DEF Dash
  <2>5. \A i \in 1..Len(b) : b[i] # Dash
    BY <2>3, ElementOfSeq DEF Dash
  <2> QED BY <2>1, <2>3, <2>4, <2>5, LenProperties
<1>3. Value(a) = off /\ Value(b) = e
  <2> HIDE DEF e
  <2> QED BY <1>1, ValueText
<1>4. /\ Len(F) = Len(a) + 1 + Len(b) /\ F[Len(a) + 1] = Dash
      /\ \A i \in 1..Len(a) : F[i] = a[i]
      /\ \A i \in 1..Len(b) : F[Len(a) + 1 + i] = b[i]
  BY FullText
<1>5. t \in Seq(Int) /\ Len(t) = n /\ \A i \in 1..n : t[i] = F[i]
  BY CutText
<1>6. Len(a) <= 2 * Digits + 1
  OBVIOUS
<1> HIDE DEF a, b, e, F, t
<1>7. n \in Nat /\ Len(a) <= n /\ n <= Len(a) + 1 + Len(b) /\ n <= 2 * Digits + 1
  BY <1>0, <1>2, <1>4, <1>6
<1>8. ASSUME Len(a) <= Digits, Len(b) <= Digits PROVE n = Len(a) + 1 + Len(b)
  <2>1. Len(a) \in Nat /\ Len(b) \in Nat /\ Len(F) = Len(a) + 1 + Len(b)
    BY <1>2, <1>4
  <2>2. Len(F) <= 2 * Digits + 1
    BY <1>0, <1>8, <2>1
  <2> QED BY <1>0, <2>1, <2>2
<1> HIDE DEF n
<1>9. SubSeq(t, 1, Len(a)) = a
  <2>1. Len(a) <= Len(t) /\ \A i \in 1..Len(a) : t[i] = a[i]
    BY <1>2, <1>4, <1>5, <1>7
  <2>2. 0 + Len(a) <= Len(t) /\ \A i \in 1..Len(a) : t[0 + i] = a[i]
    BY <1>2, <2>1
  <2>3. SubSeq(t, 0 + 1, 0 + Len(a)) = a
    BY <1>2, <1>5, <2>2, SubSeqIs
  <2> QED BY <1>2, <2>3
<1>10. CASE n = Len(a)
  <2>1. \A i \in 1..Len(t) : t[i] # Dash
    BY <1>2, <1>4, <1>5, <1>10
  <2>2. DashOf(t) = 0
    BY <1>5, <2>1, DashMissing
  <2>3. RangeOf(t).first = off /\ RangeOf(t).last = MaxLen
    BY <1>3, <1>5, <1>9, <1>10, <2>2, RangeOfDef
  <2>4. ~(Len(a) <= Digits /\ Len(b) <= Digits)
    BY <1>2, <1>8, <1>10
  <2> QED BY <1>0, <2>3, <2>4 DEF a, b, e, t
<1>11. CASE n # Len(a)
  <2> DEFINE k == Len(a) + 1
  <2>1. k \in 1..Len(t) /\ k <= n /\ k - 1 = Len(a) /\ k # 0
    BY <1>2, <1>5, <1>7, <1>11
  <2>2. t[k] = Dash
    BY <1>4, <1>5, <2>1
  <2>3. ASSUME NEW i \in 1..n, i > k PROVE i - k \in 1..Len(b) /\ t[i] = b[i - k]
    <3>1. i - k \in 1..Len(b) /\ Len(a) + 1 + (i - k) = i
      BY <1>2, <1>7, <2>3
    <3> QED BY <1>4, <1>5, <3>1
  <2>4. ASSUME NEW i \in 1..Len(t), t[i] = Dash PROVE i = k
    <3>1. CASE i <= Len(a)
      <4>1. i \in 1..Len(a) /\ i \in 1..n
        BY <1>2, <1>5, <3>1
      <4> QED BY <1>2, <1>4, <1>5, <2>4, <4>1
    <3>2. CASE i > k
      <4>1. i \in 1..n
        BY <1>5
      <4> QED BY <1>2, <2>3, <2>4, <3>2, <4>1
    <3> QED BY <1>2, <3>1, <3>2
  <2> HIDE DEF k
  <2>5. DashOf(t) = k
    BY <1>5, <2>1, <2>2, <2>4, DashFound
  <2>6. RangeOf(t).first = off
    BY <1>3, <1>9, <2>1, <2>5, RangeOfDef
  <2>7. CASE k = Len(t)
    <3>1. RangeOf(t).last = MaxLen
      BY <2>5, <2>7, RangeOfDef
    <3>2. ~(Len(a) <= Digits /\ Len(b) <= Digits)
      BY <1>2, <1>5, <1>8, <2>7 DEF k
    <3> QED BY <1>0, <2>6, <3>1, <3>2 DEF a, b, e, t
  <2>8. CASE k # Len(t)
    <3>1. RangeOf(t).last = Value(SubSeq(t, k + 1, Len(t)))
      BY <2>1, <2>5, <2>8, RangeOfDef
    <3>2. \A i \in k + 1 .. Len(t) : t[i] \in Nat
      <4> SUFFICES ASSUME NEW i \in k + 1 .. Len(t) PROVE t[i] \in Nat
        OBVIOUS
      <4>1. i \in 1..n /\ i > k
        BY <1>5, <1>7, <2>1
      <4>2. i - k \in 1..Len(b) /\ t[i] = b[i - k]
        BY <2>3, <4>1
      <4> QED BY <1>2, <4>2
    <3>3. SubSeq(t, k + 1, Len(t)) \in Seq(Nat)
      <4>1. k + 1 \in Int /\ Len(t) \in Int
        BY <1>5, <1>7, <2>1
      <4> QED BY <3>2, <4>1, SubSeqProperties
    <3>4. RangeOf(t).last \in Nat
      BY <3>1, <3>3, ValueNat
    <3>5. ASSUME Len(a) <= Digits, Len(b) <= Digits PROVE RangeOf(t).last = e
      <4>1. Len(t) = k + Len(b) /\ k \in Nat
        BY <1>2, <1>5, <1>8, <3>5 DEF k
      <4>2. \A i \in 1..Len(b) : t[k + i] = b[i]
        BY <1>2, <1>4, <1>5, <4>1 DEF k
      <4>3. k + Len(b) <= Len(t)
        BY <1>2, <4>1
      <4>4. SubSeq(t, k + 1, k + Len(b)) = b
        BY <1>2, <1>5, <4>1, <4>2, <4>3, SubSeqIs
      <4> QED BY <1>3, <3>1, <4>1, <4>4
    <3> QED BY <1>1, <2>6, <3>4, <3>5 DEF a, b, e, t
  <2> QED BY <2>7, <2>8
<1> QED BY <1>10, <1>11

-----------------------------------------------------------------------------
(* The inductive invariant.                                                *)

\* What a request in flight and its answer are.
Started == req \in Requests /\ ans \in Replies[req.kind]

\* dav_get: what was taken and what is to come make up the answer, whatever the
\* pieces; what does not fit makes the request fail. With an exception pending
\* nothing is taken.
GetInv ==
  /\ pc \in {"body", "done"}
  /\ got \in Seq(Int) /\ left \in Seq(Int) /\ Len(got) <= req.size
  /\ pc = "body" => /\ got \o left = GetBody(req, ans)
                    /\ Refused(req, ans) \/ req.stale => got = <<>>
  /\ pc = "done" /\ res >= 0 =>
       IF req.stale THEN got = <<>>
       ELSE /\ res = Len(got)
            /\ got = IF Refused(req, ans) THEN <<>> ELSE GetBody(req, ans)

\* dav_put: libcurl has fetched the first bytes.
PutInv ==
  /\ pc \in {"body", "done"}
  /\ got \in Seq(Int) /\ Len(got) <= req.size
  /\ \A i \in 1..Len(got) : got[i] = i
  /\ pc = "done" /\ res >= 0 => Len(got) = req.size

HeadLines == [name : STRING, value : {<<n>> : n \in 0..MaxLen}]
LockLines == [name : STRING, value : {<<"<", "token", ">">>, <<"token">>}]
Parts     == [href : STRING, stats : Seq(STRING)]

\* dav_head: the last line is still to come or has been taken.
HeadInv ==
  /\ pc \in {"body", "done"}
  /\ left \in Seq(HeadLines)
  /\ pc = "body" =>
       /\ got \in {<<n>> : n \in 0..MaxLen}
       /\ left # <<>> => ans.body # <<>> /\ Last(left) = Last(ans.body)
       /\ left = <<>> /\ ans.body # <<>> /\ Last(ans.body).name = "Content-Length" =>
            got = Last(ans.body).value
  /\ HeadExact

LockInv ==
  /\ pc \in {"body", "done"}
  /\ left \in Seq(LockLines)
  /\ pc = "body" => got \in {<<>>, <<"token">>}
  /\ TokenExact

\* The filler was called for the first k responses.
Filled(k) ==
  /\ req.kind = "readdir" =>
       fills = <<"..">> \o FlattenSeq([i \in 1..k |-> Name(ans.body[i], ans.slash)])
  /\ fills = <<>> => \A i \in 1..k : ans.body[i].href = "foreign"

Length == Len(ans.body)

\* The names a listing may have.
Entries == {".", ".."} \cup {ans.body[i].href : i \in 1..Length}

\* dav_propfind: the parser has a prefix of the body; the responses it hands on
\* are all of those in the body.
ListInv ==
  /\ got \in Seq(Parts) /\ left \in Seq(Parts) /\ fills \in Seq(Entries)
  /\ pc = "body" =>
       /\ Len(got) <= Length /\ \A i \in 1..Len(got) : got[i] = ans.body[i]
       /\ \/ left = <<>>
          \/ /\ Len(left) = Length - Len(got)
             /\ \A i \in 1..Len(left) : left[i] = ans.body[Len(got) + i]
       /\ fills = IF req.kind = "readdir" THEN <<"..">> ELSE <<>>
  /\ pc = "parsed" =>
       /\ Len(got) <= Length - 1
       /\ \A i \in 1..Len(got) : got[i] = ans.body[Length - 1 - Len(got) + i]
       /\ Filled(Length - 1 - Len(got))
  /\ pc = "done" /\ res >= 0 => ans.code # 207 \/ Filled(Length - 1)

AnswerInv ==
  /\ Started
  /\ pc \in {"body", "parsed", "done"}
  /\ res \in {EIO, CRASH} \cup 0..MaxLen
  /\ req.kind = "get" => GetInv
  /\ req.kind = "put" => PutInv
  /\ req.kind = "head" => HeadInv
  /\ req.kind = "lock" => LockInv
  /\ req.kind \in Listing => ListInv

-----------------------------------------------------------------------------

\* What the assumptions say of the request and its answer.
LEMMA Assumed ==
  ASSUME Started
  PROVE  /\ req.kind \in Kinds
         /\ req.kind \in {"get", "put"} =>
              req.off \in Nat /\ req.size \in Nat \ {0} /\ Len(Text[req.off]) <= 2 * Digits + 1
         /\ req.kind = "get" => ans.len \in 0..MaxLen
         /\ req.kind = "head" => ans.body \in Seq(HeadLines)
         /\ req.kind = "lock" => ans.body \in Seq(LockLines)
         /\ req.kind \in Listing =>
              /\ ans.body \in Seq(Parts)
              /\ \A i \in 1..Len(ans.body) : ans.body[i] = End => i = Len(ans.body)
<1>1. /\ req.kind \in Kinds
      /\ req.kind \in {"get", "put"} =>
           req.off \in Nat /\ req.size \in Nat \ {0} /\ Len(Text[req.off]) <= 2 * Digits + 1
  BY RequestAssumption DEF Started
<1>2. req.kind = "get" => ans.len \in 0..MaxLen
  BY ReplyAssumption DEF Started
<1>3. req.kind = "head" => ans.body \in Seq(HeadLines)
  BY ReplyAssumption DEF Started, HeadLines
<1>4. req.kind = "lock" => ans.body \in Seq(LockLines)
  BY ReplyAssumption DEF Started, LockLines
<1>5. req.kind \in Listing =>
        /\ ans.body \in Seq(Parts)
        /\ \A i \in 1..Len(ans.body) : ans.body[i] = End => i = Len(ans.body)
  BY ReplyAssumption DEF Started, Parts
<1> QED BY <1>1, <1>2, <1>3, <1>4, <1>5

LEMMA IntConcat ==
  \A s, t, u \in Seq(Int) : (s \o t) \o u = s \o (t \o u)
BY ConcatAssociative

\* A part of a file is not longer than the file, and is where it should be.
LEMMA PartSeq ==
  ASSUME NEW n \in Nat, NEW first \in Nat, NEW last \in Nat
  PROVE  /\ Part(n, first, last) \in Seq(Int)
         /\ Len(Part(n, first, last)) <= n
         /\ \A i \in 1..Len(Part(n, first, last)) : Part(n, first, last)[i] = first + i
<1> DEFINE k == (IF last < n THEN last ELSE n - 1) - first + 1
           f == [i \in 1..k |-> first + i]
<1>1. k \in Int /\ k <= n
  OBVIOUS
<1>2. Part(n, first, last) = f
  BY DEF Part
<1> HIDE DEF k
<1>3. CASE k >= 0
  <2>1. k \in Nat /\ f \in [1..k -> Int]
    BY <1>1, <1>3
  <2>2. f \in Seq(Int) /\ Len(f) = k
    <3> HIDE DEF f
    <3> QED BY <2>1, FunctionIsSeq
  <2> QED BY <1>1, <1>2, <2>2
<1>4. CASE ~(k >= 0)
  <2>1. 1..k = 1..0
    BY <1>1, <1>4
  <2>2. f \in [1..0 -> Int]
    BY <2>1
  <2>3. f \in Seq(Int) /\ Len(f) = 0
    <3> HIDE DEF f
    <3> QED BY <2>2, FunctionIsSeq
  <2> HIDE DEF f
  <2>4. Len(f) <= n /\ \A i \in 1..Len(f) : f[i] = first + i
    BY <2>3
  <2> QED BY <1>2, <2>3, <2>4
<1> QED BY <1>1, <1>3, <1>4

LEMMA GetBodySeq ==
  ASSUME Started, req.kind = "get"
  PROVE  GetBody(req, ans) \in Seq(Int) /\ Len(GetBody(req, ans)) <= MaxLen
<1> DEFINE t == RangeText(req.off, req.size)
           r == RangeOf(t)
           B == GetBody(req, ans)
<1>1. /\ req.off \in Nat /\ req.size \in Nat \ {0} /\ Len(Text[req.off]) <= 2 * Digits + 1
      /\ ans.len \in Nat /\ ans.len <= MaxLen /\ MaxLen \in Nat
  BY Assumed, RangeAssumption
<1>2. r.first \in Nat /\ r.last \in Nat
  BY <1>1, RangeRead
<1>3. B = Part(ans.len, 0, ans.len) \/ B = Part(ans.len, r.first, r.last)
  BY DEF GetBody
<1> HIDE DEF r, t, B
<1>4. CASE B = Part(ans.len, 0, ans.len)
  <2>1. 0 \in Nat
    OBVIOUS
  <2>2. B \in Seq(Int) /\ Len(B) <= ans.len
    BY <1>1, <1>4, <2>1, PartSeq
  <2>3. Len(B) \in Nat
    BY <2>2
  <2> QED BY <1>1, <2>2, <2>3 DEF B
<1>5. CASE B = Part(ans.len, r.first, r.last)
  <2>1. B \in Seq(Int) /\ Len(B) <= ans.len
    BY <1>1, <1>2, <1>5, PartSeq
  <2>2. Len(B) \in Nat
    BY <2>1
  <2> QED BY <1>1, <2>1, <2>2 DEF B
<1> QED BY <1>3, <1>4, <1>5

LEMMA AnswerInit ==
  ASSUME Init
  PROVE  AnswerInv
<1>1. Started /\ pc = "body" /\ res = 0
  BY DEF Init, Started
<1>2. MaxLen \in Nat
  BY RangeAssumption
<1>3. res \in {EIO, CRASH} \cup 0..MaxLen
  BY <1>1, <1>2
<1>4. ASSUME req.kind = "get" PROVE GetInv
  <2>1. got = <<>> /\ left = GetBody(req, ans)
    BY <1>4 DEF Init
  <2>2. left \in Seq(Int) /\ req.size \in Nat
    BY <1>1, <1>4, <2>1, GetBodySeq, Assumed
  <2>3. got \in Seq(Int) /\ Len(got) = 0
    BY <2>1
  <2>4. got \o left = left
    BY <2>1, <2>2, ConcatEmptySeq
  <2> QED BY <1>1, <2>1, <2>2, <2>3, <2>4 DEF GetInv
<1>5. ASSUME req.kind = "put" PROVE PutInv
  <2>1. got = <<>> /\ req.size \in Nat
    BY <1>1, <1>5, Assumed DEF Init
  <2>2. got \in Seq(Int) /\ Len(got) = 0
    BY <2>1
  <2> QED BY <1>1, <2>1, <2>2 DEF PutInv
<1>6. ASSUME req.kind = "head" PROVE HeadInv
  <2>1. got = <<0>> /\ left = ans.body
    BY <1>6 DEF Init
  <2>2. left \in Seq(HeadLines)
    BY <1>1, <1>6, <2>1, Assumed
  <2>3. got \in {<<n>> : n \in 0..MaxLen}
    BY <1>2, <2>1
  <2> QED BY <1>1, <2>1, <2>2, <2>3 DEF HeadInv, HeadExact, Succeeded
<1>7. ASSUME req.kind = "lock" PROVE LockInv
  <2>1. got = <<>> /\ left = ans.body
    BY <1>7 DEF Init
  <2>2. left \in Seq(LockLines)
    BY <1>1, <1>7, <2>1, Assumed
  <2> QED BY <1>1, <2>1, <2>2 DEF LockInv, TokenExact
<1>8. ASSUME req.kind \in Listing PROVE ListInv
  <2>1. /\ got = <<>> /\ left = ans.body
        /\ fills = IF req.kind = "readdir" THEN <<"..">> ELSE <<>>
    BY <1>8 DEF Init, Listing
  <2>2. left \in Seq(Parts) /\ Len(left) \in Nat
    BY <1>1, <1>8, <2>1, Assumed
  <2>3. got \in Seq(Parts) /\ Len(got) = 0
    BY <2>1
  <2>4. fills \in Seq(Entries)
    <3>1. ".." \in Entries
      BY DEF Entries
    <3>2. <<"..">> \in Seq(Entries) /\ <<>> \in Seq(Entries)
      BY <3>1, SingleSeq, EmptySeq
    <3> QED BY <2>1, <3>2
  <2>5. Len(left) = Length - Len(got) /\ \A i \in 1..Len(left) : left[i] = ans.body[Len(got) + i]
    BY <2>1, <2>2, <2>3 DEF Length
  <2> QED BY <1>1, <2>1, <2>2, <2>3, <2>4, <2>5 DEF ListInv, Length
<1> QED BY <1>1, <1>3, <1>4, <1>5, <1>6, <1>7, <1>8 DEF AnswerInv

\* Only the part of the invariant about the kind of the request is to be shown.
LEMMA OfKind ==
  ASSUME AnswerInv, req' = req, ans' = ans,
         pc' \in {"body", "parsed", "done"}, res' \in {EIO, CRASH} \cup 0..MaxLen,
         \/ req.kind = "get" /\ GetInv'
         \/ req.kind = "put" /\ PutInv'
         \/ req.kind = "head" /\ HeadInv'
         \/ req.kind = "lock" /\ LockInv'
         \/ req.kind \in Listing /\ ListInv'
  PROVE  AnswerInv'
<1>1. Started'
  BY DEF AnswerInv, Started
<1> QED BY <1>1 DEF AnswerInv, Listing

LEMMA GetStep ==
  ASSUME AnswerInv, Get
  PROVE  AnswerInv'
<1>1. /\ Started /\ GetInv /\ pc = "body" /\ req.kind = "get" /\ ~req.stale
      /\ res \in {EIO, CRASH} \cup 0..MaxLen /\ req' = req /\ ans' = ans
  BY DEF AnswerInv, Get
<1> DEFINE B == GetBody(req, ans)
<1>2. B \in Seq(Int) /\ Len(B) <= MaxLen /\ B' = B /\ Refused(req, ans)' = Refused(req, ans)
  BY <1>1, GetBodySeq DEF GetBody, Refused
<1>3. /\ got \in Seq(Int) /\ left \in Seq(Int) /\ Len(got) \in Nat /\ Len(left) \in Nat
      /\ got \o left = B /\ req.size \in Nat /\ Len(got) <= req.size /\ MaxLen \in Nat
  BY <1>1, Assumed, LenProperties, RangeAssumption DEF GetInv
<1>4. Len(got) + Len(left) = Len(B)
  BY <1>3, ConcatProperties
<1>5. CASE Refused(req, ans)
  <2>1. pc' = "done" /\ res' = 0 /\ got' = got /\ left' = left /\ got = <<>>
    BY <1>1, <1>5 DEF Get, Finish, GetInv
  <2>2. Len(got) = 0
    BY <2>1
  <2>3. GetInv'
    BY <1>1, <1>2, <1>3, <1>5, <2>1, <2>2 DEF GetInv
  <2> QED BY <1>1, <1>3, <2>1, <2>3, OfKind
<1>6. CASE ~Refused(req, ans) /\ left = <<>>
  <2>1. pc' = "done" /\ res' = Len(got) /\ got' = got /\ left' = left
    BY <1>6 DEF Get, Finish
  <2>2. got = B
    BY <1>3, <1>6, ConcatEmptySeq
  <2>3. GetInv'
    BY <1>1, <1>2, <1>3, <1>6, <2>1, <2>2 DEF GetInv
  <2>4. res' \in 0..MaxLen
    BY <1>2, <1>3, <2>1, <2>2
  <2> QED BY <1>1, <2>1, <2>3, <2>4, OfKind
<1>7. CASE ~Refused(req, ans) /\ left # <<>>
  <2>1. PICK n \in 1..Len(left) : BufferAppend(n)
    BY <1>7 DEF Get
  <2> DEFINE m == IF n < Room THEN n ELSE Room
  <2>2. m \in Nat /\ m <= n /\ m <= Room /\ Room = req.size - Len(got) /\ n \in Nat /\ n <= Len(left)
    BY <1>3 DEF Room
  <2>3. got' = got \o SubSeq(left, 1, m) /\ left' = SubSeq(left, n + 1, Len(left))
    BY <2>1 DEF BufferAppend
  <2> HIDE DEF m
  <2>4. SubSeq(left, 1, m) \in Seq(Int) /\ Len(SubSeq(left, 1, m)) = m
    <3>1. \A i \in 1..m : left[i] \in Int
      BY <1>3, <2>2
    <3>2. /\ SubSeq(left, 1, m) \in Seq(Int)
          /\ Len(SubSeq(left, 1, m)) = IF 1 <= m THEN m - 1 + 1 ELSE 0
      BY <2>2, <3>1, SubSeqProperties
    <3> QED BY <2>2, <3>2
  <2>5. SubSeq(left, n + 1, Len(left)) \in Seq(Int)
    <3>1. \A i \in n + 1 .. Len(left) : left[i] \in Int
      BY <1>3, <2>2
    <3> QED BY <1>3, <2>2, <3>1, SubSeqProperties
  <2>6. got' \in Seq(Int) /\ left' \in Seq(Int) /\ Len(got') <= req.size
    <3>1. got' \in Seq(Int) /\ Len(got') = Len(got) + m
      BY <1>3, <2>3, <2>4, ConcatProperties
    <3> QED BY <1>3, <2>2, <2>3, <2>5, <3>1
  <2>7. CASE n > Room
    <3>1. pc' = "done" /\ res' = EIO
      BY <2>1, <2>7 DEF BufferAppend, Finish
    <3>2. ~(res' >= 0)
      BY <3>1 DEF EIO
    <3>3. GetInv'
      BY <1>1, <2>6, <3>1, <3>2 DEF GetInv
    <3> QED BY <1>1, <3>1, <3>3, OfKind
  <2>8. CASE ~(n > Room)
    <3>1. pc' = pc /\ res' = res
      BY <2>1, <2>8 DEF BufferAppend
    <3>2. m = n
      BY <1>3, <2>2, <2>8 DEF m
    <3>3. got' \o left' = B
      <4>1. n \in 0..Len(left) /\ Len(left) \in n..Len(left)
        BY <1>3, <2>2
      <4>2. SubSeq(left, 1, n) \o SubSeq(left, n + 1, Len(left)) = left
        <5>1. 1 \in 1..Len(left) + 1 /\ n \in 1 - 1 .. Len(left)
          BY <1>3, <2>2
        <5>2. SubSeq(left, 1, n) \o SubSeq(left, n + 1, Len(left)) = SubSeq(left, 1, Len(left))
          BY <1>3, <4>1, <5>1, ConcatAdjacentSubSeq
        <5> QED BY <1>3, <5>2, SubSeqFull
      <4>3. (got \o SubSeq(left, 1, n)) \o SubSeq(left, n + 1, Len(left))
              = got \o (SubSeq(left, 1, n) \o SubSeq(left, n + 1, Len(left)))
        <5> DEFINE p == SubSeq(left, 1, n)
                   q == SubSeq(left, n + 1, Len(left))
        <5>1. got \in Seq(Int) /\ p \in Seq(Int) /\ q \in Seq(Int)
          BY <1>3, <2>4, <2>5, <3>2
        <5> HIDE DEF p, q
        <5>2. (got \o p) \o q = got \o (p \o q)
          BY <5>1, IntConcat, Zenon
        <5> QED BY <5>2 DEF p, q
      <4> QED BY <1>3, <2>3, <3>2, <4>2, <4>3
    <3>4. GetInv'
      BY <1>1, <1>2, <1>7, <2>6, <3>1, <3>3 DEF GetInv
    <3> QED BY <1>1, <3>1, <3>4, OfKind
  <2> QED BY <2>7, <2>8
<1> QED BY <1>5, <1>6, <1>7

LEMMA StaleGetStep ==
  ASSUME AnswerInv, StaleGet
  PROVE  AnswerInv'
<1>1. /\ GetInv /\ pc = "body" /\ req.kind = "get" /\ req.stale
      /\ pc' = "done" /\ res' \in {EIO, CRASH} \cup 0..MaxLen
      /\ req' = req /\ ans' = ans /\ left' = left /\ got' = got
  BY DEF AnswerInv, StaleGet, Finish
<1>2. got = <<>>
  BY <1>1 DEF GetInv
<1>3. GetInv'
  BY <1>1, <1>2 DEF GetInv
<1> QED BY <1>1, <1>3, OfKind

LEMMA PutStep ==
  ASSUME AnswerInv, Put
  PROVE  AnswerInv'
<1>1. /\ Started /\ PutInv /\ pc = "body" /\ req.kind = "put"
      /\ res \in {EIO, CRASH} \cup 0..MaxLen /\ req' = req /\ ans' = ans
  BY DEF AnswerInv, Put
<1>2. /\ got \in Seq(Int) /\ Len(got) \in Nat /\ req.size \in Nat /\ Len(got) <= req.size
      /\ MaxLen \in Nat
  BY <1>1, Assumed, LenProperties, RangeAssumption DEF PutInv
<1>3. \A i \in 1..Len(got) : got[i] = i
  BY <1>1 DEF PutInv
<1>4. CASE /\ Len(got) < req.size
           /\ \E n \in 1..MaxLen : got' = got \o Fetched(n)
           /\ UNCHANGED <<pc, res>>
  <2>1. PICK n \in 1..MaxLen : got' = got \o Fetched(n)
    BY <1>4
  <2> DEFINE g == Len(got)
             k == IF g + n > req.size THEN req.size - g ELSE n
             f == [i \in 1..k |-> g + i]
  <2>2. g \in Nat /\ n \in Nat /\ g < req.size
    BY <1>2, <1>4
  <2>3. k \in Nat /\ g + k <= req.size
    BY <1>2, <2>2
  <2>4. Fetched(n) = f
    BY DEF Fetched
  <2> HIDE DEF g, k
  <2>5. f \in [1..k -> Int]
    BY <2>2
  <2>6. \A i \in 1..k : f[i] = g + i
    OBVIOUS
  <2> HIDE DEF f
  <2>7. f \in Seq(Int) /\ Len(f) = k
    BY <2>3, <2>5, FunctionIsSeq
  <2>8. /\ got' \in Seq(Int) /\ Len(got') = g + k
        /\ \A i \in 1..g + k : got'[i] = IF i <= g THEN got[i] ELSE f[i - g]
    <3>1. got' = got \o f
      BY <2>1, <2>4
    <3>2. /\ got \o f \in Seq(Int) /\ Len(got \o f) = Len(got) + Len(f)
          /\ \A i \in 1..Len(got) + Len(f) :
               (got \o f)[i] = IF i <= Len(got) THEN got[i] ELSE f[i - Len(got)]
      BY <1>2, <2>7, ConcatProperties
    <3> QED BY <2>7, <3>1, <3>2 DEF g
  <2>9. ASSUME NEW i \in 1..g + k PROVE got'[i] = i
    <3>1. CASE i <= g
      <4>1. i \in 1..Len(got)
        BY <2>2, <3>1 DEF g
      <4> QED BY <1>3, <2>8, <3>1, <4>1
    <3>2. CASE ~(i <= g)
      <4>1. i - g \in 1..k /\ g + (i - g) = i
        BY <2>2, <2>3, <3>2
      <4> QED BY <2>6, <2>8, <3>2, <4>1
    <3> QED BY <3>1, <3>2
  <2>10. PutInv'
    BY <1>1, <1>4, <2>3, <2>8, <2>9 DEF PutInv
  <2> QED BY <1>1, <1>4, <2>10, OfKind
<1>5. CASE Len(got) >= req.size /\ Finish(0) /\ UNCHANGED got
  <2>1. Len(got) = req.size
    BY <1>2, <1>5
  <2>2. PutInv'
    BY <1>1, <1>2, <1>3, <1>5, <2>1 DEF PutInv, Finish
  <2> QED BY <1>1, <1>2, <1>5, <2>2, OfKind DEF Finish
<1>6. CASE ans.again /\ got # <<>> /\ Finish(EIO) /\ UNCHANGED got
  <2>1. PutInv'
    BY <1>1, <1>2, <1>3, <1>6 DEF PutInv, Finish, EIO
  <2> QED BY <1>1, <1>6, <2>1, OfKind DEF Finish
<1> QED BY <1>4, <1>5, <1>6 DEF Put

\* What is left of a sequence without its first element.
LEMMA TailFacts ==
  ASSUME NEW S, NEW s \in Seq(S), s # <<>>
  PROVE  /\ Head(s) \in S /\ Head(s) = s[1] /\ Tail(s) \in Seq(S) /\ Len(s) \in Nat \ {0}
         /\ Len(Tail(s)) = Len(s) - 1 /\ \A i \in 1..Len(s) - 1 : Tail(s)[i] = s[i + 1]
         /\ Tail(s) # <<>> => Last(Tail(s)) = Last(s)
         /\ Tail(s) = <<>> => Head(s) = Last(s)
<1>1. /\ Head(s) \in S /\ Tail(s) \in Seq(S) /\ Len(Tail(s)) = Len(s) - 1
      /\ \A i \in 1..Len(Tail(s)) : Tail(s)[i] = s[i + 1]
  BY HeadTailProperties
<1>2. Len(s) \in Nat \ {0} /\ Head(s) = s[1]
  BY EmptySeq
<1>3. ASSUME Tail(s) # <<>> PROVE Last(Tail(s)) = Last(s)
  <2>1. Len(Tail(s)) \in Nat \ {0}
    BY <1>1, <1>3, EmptySeq
  <2>2. Len(Tail(s)) \in 1..Len(Tail(s)) /\ Len(Tail(s)) + 1 = Len(s)
    BY <1>1, <1>2, <2>1
  <2> QED BY <1>1, <2>2 DEF Last
<1>4. ASSUME Tail(s) = <<>> PROVE Head(s) = Last(s)
  <2> DEFINE t == Tail(s)
  <2>1. t = <<>> /\ Len(t) = Len(s) - 1
    BY <1>1, <1>4
  <2> HIDE DEF t
  <2>2. Len(s) = 1
    BY <1>2, <2>1
  <2> QED BY <1>2, <2>2 DEF Last
<1> QED BY <1>1, <1>2, <1>3, <1>4

LEMMA StrippedToken == Stripped(<<"<", "token", ">">>) = <<"token">>
<1> DEFINE v == <<"<", "token", ">">>
           S == {"<", "token", ">"}
<1>1. v \in Seq(S) /\ Len(v) = 3 /\ v[1] = "<" /\ v[2] = "token"
  OBVIOUS
<1>2. Stripped(v) = SubSeq(v, 2, 2)
  <2> HIDE DEF v
  <2> QED BY <1>1 DEF Stripped
<1>3. v[2] \in S
  OBVIOUS
<1> HIDE DEF v, S
<1>4. \A i \in 2..2 : v[i] \in S
  BY <1>3
<1>5. SubSeq(v, 2, 2) \in Seq(S) /\ Len(SubSeq(v, 2, 2)) = 1 /\ SubSeq(v, 2, 2)[1] = "token"
  <2>1. /\ SubSeq(v, 2, 2) \in Seq(S)
        /\ Len(SubSeq(v, 2, 2)) = IF 2 <= 2 THEN 2 - 2 + 1 ELSE 0
        /\ \A i \in 1..2 - 2 + 1 : SubSeq(v, 2, 2)[i] = v[2 + i - 1]
    BY <1>4, SubSeqProperties
  <2> QED BY <1>1, <2>1
<1>6. <<"token">> \in Seq(S) /\ Len(<<"token">>) = 1 /\ <<"token">>[1] = "token"
  BY <1>1, <1>3, SingleSeq
<1>7. SubSeq(v, 2, 2) = <<"token">>
  <2> DEFINE a == SubSeq(v, 2, 2)
             b == <<"token">>
  <2>1. a \in Seq(S) /\ b \in Seq(S) /\ Len(a) = Len(b) /\ \A i \in 1..Len(a) : a[i] = b[i]
    BY <1>5, <1>6
  <2> HIDE DEF a, b
  <2>2. a = b
    BY <2>1, SeqEqual
  <2> QED BY <2>2 DEF a, b
<1> QED BY <1>2, <1>7 DEF v

LEMMA HeaderStep ==
  ASSUME AnswerInv, Header
  PROVE  AnswerInv'
<1>1. /\ Started /\ pc = "body" /\ left # <<>> /\ left' = Tail(left)
      /\ pc' = pc /\ res' = res /\ res \in {EIO, CRASH} \cup 0..MaxLen
      /\ req' = req /\ ans' = ans
  BY DEF AnswerInv, Header
<1>2. CASE req.kind = "head"
  <2>1. HeadInv
    BY <1>2 DEF AnswerInv
  <2>2. left \in Seq(HeadLines) /\ got \in {<<n>> : n \in 0..MaxLen}
    BY <1>1, <2>1 DEF HeadInv
  <2>3. got' = HeadCallback(Head(left))
    BY <1>2 DEF Header
  <2>4. Head(left) \in HeadLines /\ left' \in Seq(HeadLines)
    BY <1>1, <2>2, TailFacts
  <2>5. got' \in {<<n>> : n \in 0..MaxLen}
    BY <2>2, <2>3, <2>4 DEF HeadCallback, HeadLines
  <2>6. left' # <<>> => ans.body # <<>> /\ Last(left') = Last(ans.body)
    BY <1>1, <2>1, <2>2, TailFacts DEF HeadInv
  <2>7. left' = <<>> /\ Last(ans.body).name = "Content-Length" => got' = Last(ans.body).value
    <3>1. left' = <<>> => Head(left) = Last(ans.body)
      BY <1>1, <2>1, <2>2, TailFacts DEF HeadInv
    <3> QED BY <2>3, <3>1 DEF HeadCallback
  <2>8. HeadInv'
    BY <1>1, <2>4, <2>5, <2>6, <2>7 DEF HeadInv, HeadExact, Succeeded
  <2> QED BY <1>1, <1>2, <2>8, OfKind
<1>3. CASE req.kind = "lock"
  <2>1. LockInv
    BY <1>3 DEF AnswerInv
  <2>2. left \in Seq(LockLines) /\ got \in {<<>>, <<"token">>}
    BY <1>1, <2>1 DEF LockInv
  <2>3. got' = LockCallback(Head(left))
    BY <1>3 DEF Header
  <2>4. Head(left) \in LockLines /\ left' \in Seq(LockLines)
    BY <1>1, <2>2, TailFacts
  <2>5. Stripped(Head(left).value) = <<"token">>
    <3>1. CASE Head(left).value = <<"<", "token", ">">>
      BY <3>1, StrippedToken
    <3>2. CASE Head(left).value = <<"token">>
      BY <3>2 DEF Stripped
    <3> QED BY <2>4, <3>1, <3>2 DEF LockLines
  <2>6. got' \in {<<>>, <<"token">>}
    BY <2>2, <2>3, <2>5 DEF LockCallback
  <2>7. LockInv'
    BY <1>1, <2>4, <2>6 DEF LockInv, TokenExact
  <2> QED BY <1>1, <1>3, <2>7, OfKind
<1> QED BY <1>2, <1>3 DEF Header

LEMMA HeadDoneStep ==
  ASSUME AnswerInv, HeadDone
  PROVE  AnswerInv'
<1>1. /\ HeadInv /\ pc = "body" /\ req.kind = "head" /\ left = <<>>
      /\ pc' = "done" /\ res' = got[1] /\ req' = req /\ ans' = ans /\ left' = left /\ got' = got
  BY DEF AnswerInv, HeadDone, Finish
<1>2. got \in {<<n>> : n \in 0..MaxLen} /\ left \in Seq(HeadLines)
  BY <1>1 DEF HeadInv
<1>3. res' \in 0..MaxLen
  BY <1>1, <1>2
<1>4. ans.body # <<>> /\ Last(ans.body).name = "Content-Length" => res' = Last(ans.body).value[1]
  BY <1>1 DEF HeadInv
<1>5. HeadExact'
  BY <1>1, <1>4 DEF HeadExact
<1>6. HeadInv'
  BY <1>1, <1>2, <1>5 DEF HeadInv
<1> QED BY <1>1, <1>3, <1>6, OfKind

LEMMA Verdict ==
  /\ got = <<>> => LockVerdict = EIO
  /\ LockVerdict \in {0, EIO, CRASH}
  /\ LockVerdict = CRASH => ans.xml \in {"absent", "emptyhref"}
  /\ LockVerdict = 0 /\ ans.xml = "href" => IsPrefix(got, ans.href)
<1>1. EIO # 0 /\ EIO # CRASH /\ CRASH # 0
  BY DEF EIO, CRASH
<1>2. CASE got = <<>>
  <2>1. LockVerdict = EIO
    BY <1>2 DEF LockVerdict
  <2> QED BY <1>1, <2>1
<1>3. CASE got # <<>> /\ ans.xml \in {"absent", "emptyhref"}
  <2>1. LockVerdict = CRASH
    BY <1>3 DEF LockVerdict
  <2> QED BY <1>1, <1>3, <2>1
<1>4. CASE got # <<>> /\ ans.xml = "nodiscovery"
  <2>1. LockVerdict = 0
    BY <1>4 DEF LockVerdict
  <2> QED BY <1>1, <1>4, <2>1
<1>5. CASE got # <<>> /\ ans.xml = "href"
  <2>1. LockVerdict = IF IsPrefix(got, ans.href) THEN 0 ELSE EIO
    BY <1>5 DEF LockVerdict
  <2> QED BY <1>1, <1>5, <2>1
<1>6. CASE got # <<>> /\ ans.xml \notin {"absent", "emptyhref", "nodiscovery", "href"}
  <2>1. LockVerdict = EIO
    BY <1>6 DEF LockVerdict
  <2> QED BY <1>1, <1>6, <2>1
<1> QED BY <1>2, <1>3, <1>4, <1>5, <1>6

LEMMA LockDoneStep ==
  ASSUME AnswerInv, LockDone
  PROVE  AnswerInv'
<1>1. /\ LockInv /\ pc = "body" /\ req.kind = "lock"
      /\ pc' = "done" /\ res' = LockVerdict /\ req' = req /\ ans' = ans /\ left' = left
      /\ got' = IF LockVerdict = 0 THEN got ELSE <<>>
  BY DEF AnswerInv, LockDone, Finish
<1>2. got \in {<<>>, <<"token">>} /\ left \in Seq(LockLines)
  BY <1>1 DEF LockInv
<1>3. MaxLen \in Nat
  BY RangeAssumption
<1>4. res' \in {EIO, CRASH} \cup 0..MaxLen
  BY <1>1, <1>3, Verdict
<1>5. TokenExact'
  BY <1>1, <1>2, Verdict DEF TokenExact
<1>6. LockInv'
  BY <1>1, <1>2, <1>5 DEF LockInv
<1> QED BY <1>1, <1>4, <1>6, OfKind

LEMMA LostStep ==
  ASSUME AnswerInv, Lost
  PROVE  AnswerInv'
<1>1. /\ Started /\ pc = "body" /\ req.kind \in Kinds /\ res \in {EIO, CRASH} \cup 0..MaxLen
      /\ req' = req /\ ans' = ans /\ fills' = fills
  BY Assumed DEF AnswerInv, Lost
<1>2. EIO # CRASH /\ ~(EIO >= 0)
  BY DEF EIO, CRASH
<1>3. CASE Finish(EIO) /\ got' = <<>> /\ UNCHANGED left
  <2>1. pc' = "done" /\ res' = EIO /\ got' = <<>> /\ left' = left
    BY <1>3 DEF Finish
  <2>2. ~(res' >= 0) /\ Len(got') = 0 /\ got' \in Seq(Int) /\ got' \in Seq(Parts)
    BY <1>2, <2>1
  <2>3. ASSUME req.kind = "get" PROVE GetInv'
    <3>1. GetInv /\ req.size \in Nat
      BY <1>1, <2>3, Assumed DEF AnswerInv
    <3> QED BY <1>1, <2>1, <2>2, <3>1 DEF GetInv
  <2>4. ASSUME req.kind = "put" PROVE PutInv'
    <3>1. req.size \in Nat
      BY <1>1, <2>4, Assumed
    <3> QED BY <1>1, <2>1, <2>2, <3>1 DEF PutInv
  <2>5. ASSUME req.kind = "head" PROVE HeadInv'
    <3>1. HeadInv
      BY <2>5 DEF AnswerInv
    <3> QED BY <1>1, <2>1, <2>2, <3>1 DEF HeadInv, HeadExact, Succeeded
  <2>6. ASSUME req.kind = "lock" PROVE LockInv'
    <3>1. LockInv
      BY <2>6 DEF AnswerInv
    <3> QED BY <1>1, <1>2, <2>1, <3>1 DEF LockInv, TokenExact
  <2>7. ASSUME req.kind \in Listing PROVE ListInv'
    <3>1. left \in Seq(Parts) /\ fills \in Seq(Entries) /\ Entries' = Entries
      BY <1>1, <2>7 DEF AnswerInv, ListInv, Entries, Length
    <3> QED BY <1>1, <2>1, <2>2, <3>1 DEF ListInv
  <2> QED BY <1>1, <2>1, <2>3, <2>4, <2>5, <2>6, <2>7, OfKind DEF Kinds
<1>4. CASE req.kind \in Listing /\ left # <<>> /\ left' = <<>> /\ UNCHANGED <<got, pc, res>>
  <2>1. ListInv /\ Entries' = Entries /\ Length' = Length
    BY <1>1, <1>4 DEF AnswerInv, Entries, Length
  <2>2. left' \in Seq(Parts)
    BY <1>4
  <2>3. ListInv'
    BY <1>1, <1>4, <2>1, <2>2 DEF ListInv
  <2> QED BY <1>1, <1>4, <2>3, OfKind
<1> QED BY <1>3, <1>4 DEF Lost

\* b consists of g and l.
Cut(b, g, l, S) ==
  /\ b \in Seq(S) /\ g \in Seq(S) /\ l \in Seq(S)
  /\ Len(g) <= Len(b) /\ \A i \in 1..Len(g) : g[i] = b[i]
  /\ Len(l) = Len(b) - Len(g)
  /\ \A i \in 1..Len(l) : l[i] = b[Len(g) + i]

\* A piece of n elements goes from one part to the other.
LEMMA TakeMore ==
  ASSUME NEW S, NEW b, NEW g, NEW l, Cut(b, g, l, S), NEW n \in 1..Len(l)
  PROVE  Cut(b, g \o SubSeq(l, 1, n), SubSeq(l, n + 1, Len(l)), S)
<1>0. /\ b \in Seq(S) /\ g \in Seq(S) /\ l \in Seq(S)
      /\ \A i \in 1..Len(g) : g[i] = b[i]
      /\ \A i \in 1..Len(l) : l[i] = b[Len(g) + i]
  BY DEF Cut
<1> DEFINE p == SubSeq(l, 1, n)
           r == SubSeq(l, n + 1, Len(l))
           h == g \o p
<1>1. /\ Len(g) \in Nat /\ Len(l) \in Nat /\ Len(b) \in Nat /\ n \in Nat /\ n >= 1
      /\ n <= Len(l) /\ Len(l) = Len(b) - Len(g)
  BY DEF Cut
<1>2. p \in Seq(S) /\ Len(p) = n /\ \A i \in 1..n : p[i] = l[i]
  <2>1. \A i \in 1..n : l[i] \in S
    BY <1>0, <1>1
  <2>2. /\ p \in Seq(S) /\ Len(p) = IF 1 <= n THEN n - 1 + 1 ELSE 0
        /\ \A i \in 1..n - 1 + 1 : p[i] = l[1 + i - 1]
    BY <1>1, <2>1, SubSeqProperties
  <2> HIDE DEF p
  <2>3. n - 1 + 1 = n /\ \A i \in 1..n : 1 + i - 1 = i
    BY <1>1
  <2> QED BY <1>1, <2>2, <2>3
<1>3. r \in Seq(S) /\ Len(r) = Len(l) - n /\ \A i \in 1..Len(l) - n : r[i] = l[n + i]
  <2>1. \A i \in n + 1 .. Len(l) : l[i] \in S
    BY <1>0, <1>1
  <2>2. /\ r \in Seq(S) /\ Len(r) = IF n + 1 <= Len(l) THEN Len(l) - (n + 1) + 1 ELSE 0
        /\ \A i \in 1..Len(l) - (n + 1) + 1 : r[i] = l[n + 1 + i - 1]
    BY <1>1, <2>1, SubSeqProperties
  <2> HIDE DEF r
  <2>3. Len(l) - (n + 1) + 1 = Len(l) - n /\ \A i \in 1..Len(l) - n : n + 1 + i - 1 = n + i
    BY <1>1
  <2>4. Len(r) = Len(l) - n
    BY <1>1, <2>2
  <2>5. \A i \in 1..Len(l) - n : r[i] = l[n + i]
    BY <2>2, <2>3
  <2> QED BY <2>2, <2>4, <2>5
<1> HIDE DEF p, r
<1>4. /\ h \in Seq(S) /\ Len(h) = Len(g) + n
      /\ \A i \in 1..Len(g) + n : h[i] = IF i <= Len(g) THEN g[i] ELSE p[i - Len(g)]
  <2>1. /\ h \in Seq(S) /\ Len(h) = Len(g) + Len(p)
        /\ \A i \in 1..Len(g) + Len(p) : h[i] = IF i <= Len(g) THEN g[i] ELSE p[i - Len(g)]
    BY <1>0, <1>2, ConcatProperties
  <2> QED BY <1>2, <2>1
<1> HIDE DEF h
<1>5. ASSUME NEW i \in 1..Len(h) PROVE h[i] = b[i]
  <2>1. CASE i <= Len(g)
    <3>1. i \in 1..Len(g) /\ i \in 1..Len(g) + n
      BY <1>1, <1>4, <2>1
    <3> QED BY <1>0, <1>4, <2>1, <3>1
  <2>2. CASE ~(i <= Len(g))
    <3>1. /\ i - Len(g) \in 1..n /\ i - Len(g) \in 1..Len(l) /\ i \in 1..Len(g) + n
          /\ Len(g) + (i - Len(g)) = i
      BY <1>1, <1>4, <2>2
    <3>2. h[i] = l[i - Len(g)]
      BY <1>2, <1>4, <2>2, <3>1
    <3> QED BY <1>0, <3>1, <3>2
  <2> QED BY <2>1, <2>2
<1>6. ASSUME NEW i \in 1..Len(r) PROVE r[i] = b[Len(h) + i]
  <2>1. i \in 1..Len(l) - n /\ n + i \in 1..Len(l) /\ Len(g) + (n + i) = Len(h) + i
    BY <1>1, <1>3, <1>4
  <2> QED BY <1>0, <1>3, <2>1
<1>7. Len(h) <= Len(b) /\ Len(r) = Len(b) - Len(h)
  BY <1>1, <1>3, <1>4
<1>8. Cut(b, h, r, S)
  BY <1>0, <1>3, <1>4, <1>5, <1>6, <1>7 DEF Cut
<1> QED BY <1>8 DEF h, p, r

LEMMA ParseChunkStep ==
  ASSUME AnswerInv, ParseChunk
  PROVE  AnswerInv'
<1>1. /\ Started /\ ListInv /\ pc = "body" /\ req.kind \in Listing /\ left # <<>>
      /\ res \in {EIO, CRASH} \cup 0..MaxLen
      /\ req' = req /\ ans' = ans /\ fills' = fills /\ Entries' = Entries /\ Length' = Length
  BY DEF AnswerInv, ParseChunk, Entries, Length
<1>2. /\ got \in Seq(Parts) /\ left \in Seq(Parts) /\ fills \in Seq(Entries)
      /\ ans.body \in Seq(Parts)
  BY <1>1, Assumed DEF ListInv
<1>3. PICK n \in 1..Len(left) :
        \/ Finish(EIO) /\ UNCHANGED <<got, left>>
        \/ /\ got' = got \o SubSeq(left, 1, n)
           /\ left' = SubSeq(left, n + 1, Len(left))
           /\ UNCHANGED <<pc, res>>
  BY DEF ParseChunk
<1>4. CASE Finish(EIO) /\ UNCHANGED <<got, left>>
  <2>1. pc' = "done" /\ res' = EIO /\ ~(res' >= 0)
    BY <1>4 DEF Finish, EIO
  <2>2. ListInv'
    BY <1>1, <1>2, <1>4, <2>1 DEF ListInv
  <2> QED BY <1>1, <2>1, <2>2, OfKind
<1>5. CASE /\ got' = got \o SubSeq(left, 1, n)
           /\ left' = SubSeq(left, n + 1, Len(left))
           /\ UNCHANGED <<pc, res>>
  <2>1. Cut(ans.body, got, left, Parts)
    BY <1>1, <1>2 DEF ListInv, Length, Cut
  <2>2. Cut(ans.body, got', left', Parts)
    BY <1>5, <2>1, TakeMore
  <2>3. ListInv'
    <3>1. /\ Len(got') <= Length' /\ \A i \in 1..Len(got') : got'[i] = ans'.body[i]
          /\ Len(left') = Length' - Len(got')
          /\ \A i \in 1..Len(left') : left'[i] = ans'.body[Len(got') + i]
      BY <1>1, <2>2 DEF Length, Cut
    <3>2. fills' = IF req'.kind = "readdir" THEN <<"..">> ELSE <<>>
      BY <1>1 DEF ListInv
    <3>3. got' \in Seq(Parts) /\ left' \in Seq(Parts)
      BY <2>2 DEF Cut
    <3> QED BY <1>1, <1>2, <1>5, <3>1, <3>2, <3>3 DEF ListInv
  <2> QED BY <1>1, <1>5, <2>3, OfKind
<1> QED BY <1>3, <1>4, <1>5

\* The names of the first k responses.
Named(k) == [i \in 1..k |-> Name(ans.body[i], ans.slash)]

LEMMA NameSeq ==
  ASSUME NEW i \in 1..Length
  PROVE  Name(ans.body[i], ans.slash) \in Seq(Entries)
<1> DEFINE r == ans.body[i]
<1>1. r.href \in Entries /\ "." \in Entries
  BY DEF Entries
<1> HIDE DEF r
<1>2. <<r.href>> \in Seq(Entries) /\ <<".">> \in Seq(Entries) /\ <<>> \in Seq(Entries)
  BY <1>1, SingleSeq, EmptySeq
<1>3. Name(r, ans.slash) \in {<<".">>, <<>>, <<r.href>>}
  BY DEF Name
<1> QED BY <1>2, <1>3 DEF r

\* An href elsewhere is the only one without a name.
LEMMA NameEmpty ==
  ASSUME NEW r, NEW slash, Name(r, slash) = <<>>
  PROVE  r.href = "foreign"
<1>1. CASE r.href # "foreign" /\ (r.href = "self" \/ ~slash)
  <2>1. Name(r, slash) = <<".">>
    BY <1>1 DEF Name
  <2> QED BY <2>1
<1>2. CASE r.href # "foreign" /\ r.href # "self" /\ slash
  <2>1. Name(r, slash) = <<r.href>>
    BY <1>2 DEF Name
  <2> QED BY <2>1
<1> QED BY <1>1, <1>2

LEMMA NamedSeq ==
  ASSUME NEW k \in Nat, k <= Length, Length \in Nat
  PROVE  Named(k) \in Seq(Seq(Entries)) /\ Len(Named(k)) = k
<1>1. \A i \in 1..k : i \in 1..Length
  OBVIOUS
<1>2. Named(k) \in [1..k -> Seq(Entries)]
  BY <1>1, NameSeq DEF Named
<1> QED BY <1>2, FunctionIsSeq

LEMMA NamedNext ==
  ASSUME NEW k \in Nat, k + 1 <= Length, Length \in Nat
  PROVE  FlattenSeq(Named(k + 1)) = FlattenSeq(Named(k)) \o Name(ans.body[k + 1], ans.slash)
<1> DEFINE e == Name(ans.body[k + 1], ans.slash)
           s == Named(k)
           t == Named(k + 1)
<1>1. /\ s \in Seq(Seq(Entries)) /\ Len(s) = k /\ t \in Seq(Seq(Entries)) /\ Len(t) = k + 1
  <2>1. k + 1 \in Nat /\ k <= Length
    OBVIOUS
  <2> QED BY <2>1, NamedSeq
<1>2. e \in Seq(Entries)
  <2>1. k + 1 \in 1..Length
    OBVIOUS
  <2> QED BY <2>1, NameSeq
<1>3. \A i \in 1..k : t[i] = s[i]
  BY DEF Named
<1>4. t[k + 1] = e
  <2>1. k + 1 \in 1..k + 1
    OBVIOUS
  <2> QED BY <2>1 DEF Named
<1> HIDE DEF e, s, t
<1> DEFINE u == Append(s, e)
<1>5. /\ u \in Seq(Seq(Entries)) /\ Len(u) = k + 1
      /\ \A i \in 1..k : u[i] = s[i]
      /\ u[k + 1] = e
  <2>1. /\ u \in Seq(Seq(Entries)) /\ Len(u) = Len(s) + 1
        /\ \A i \in 1..Len(s) : u[i] = s[i]
        /\ u[Len(s) + 1] = e
    BY <1>1, <1>2, AppendProperties
  <2> QED BY <1>1, <2>1
<1> HIDE DEF u
<1>6. \A i \in 1..k + 1 : t[i] = u[i]
  <2>1. \A i \in 1..k + 1 : i \in 1..k \/ i = k + 1
    OBVIOUS
  <2> QED BY <1>3, <1>4, <1>5, <2>1
<1>7. t = u
  BY <1>1, <1>5, <1>6, SeqEqual
<1>8. FlattenSeq(u) = FlattenSeq(s) \o e
  BY <1>1, <1>2, FlattenAppend DEF u
<1> QED BY <1>7, <1>8 DEF e, s, t

LEMMA FilledNone ==
  ASSUME fills = IF req.kind = "readdir" THEN <<"..">> ELSE <<>>, Length \in Nat
  PROVE  Filled(0)
<1>1. FlattenSeq(Named(0)) = <<>>
  <2>1. 0 \in Nat /\ 0 <= Length
    OBVIOUS
  <2>2. Named(0) \in Seq(Seq(Entries)) /\ Len(Named(0)) = 0
    BY <2>1, NamedSeq
  <2> QED BY <2>2, FlattenEmpty
<1>2. <<"..">> \o <<>> = <<"..">>
  <2>1. <<"..">> \in Seq({".."})
    OBVIOUS
  <2> QED BY <2>1, ConcatEmptySeq
<1>3. req.kind = "readdir" => fills = <<"..">> \o FlattenSeq(Named(0))
  BY <1>1, <1>2
<1> QED BY <1>3 DEF Filled, Named

LEMMA FilledNext ==
  ASSUME NEW k \in Nat, k + 1 <= Length, Length \in Nat, Filled(k), fills \in Seq(Entries),
         fills' = fills \o Name(ans.body[k + 1], ans.slash), req' = req, ans' = ans
  PROVE  Filled(k + 1)' /\ fills' \in Seq(Entries)
<1> DEFINE e == Name(ans.body[k + 1], ans.slash)
           F == FlattenSeq(Named(k))
<1>1. e \in Seq(Entries) /\ F \in Seq(Entries) /\ FlattenSeq(Named(k + 1)) = F \o e
  <2>1. k + 1 \in 1..Length /\ k <= Length
    OBVIOUS
  <2>2. Named(k) \in Seq(Seq(Entries))
    BY <2>1, NamedSeq
  <2> QED BY <2>1, <2>2, NameSeq, NamedNext, FlattenType
<1>2. fills' = fills \o e
  OBVIOUS
<1>3. /\ req.kind = "readdir" => fills = <<"..">> \o F
      /\ fills = <<>> => \A i \in 1..k : ans.body[i].href = "foreign"
  BY DEF Filled, Named
<1>4. e = <<>> => ans.body[k + 1].href = "foreign"
  BY NameEmpty
<1> HIDE DEF e, F
<1>5. fills' \in Seq(Entries)
  BY <1>1, <1>2, ConcatProperties
<1>6. ASSUME req.kind = "readdir" PROVE fills' = <<"..">> \o FlattenSeq(Named(k + 1))
  <2> DEFINE d == <<"..">>
  <2>1. d \in Seq(Entries)
    <3>1. ".." \in Entries
      BY DEF Entries
    <3> QED BY <3>1, SingleSeq
  <2> HIDE DEF d
  <2>2. (d \o F) \o e = d \o (F \o e)
    <3>1. \A s, t, u \in Seq(Entries) : (s \o t) \o u = s \o (t \o u)
      BY Regroup
    <3> QED BY <1>1, <2>1, <3>1, Zenon
  <2> QED BY <1>1, <1>2, <1>3, <1>6, <2>2 DEF d
<1>7. ASSUME fills' = <<>> PROVE \A i \in 1..k + 1 : ans.body[i].href = "foreign"
  <2>1. fills = <<>> /\ e = <<>>
    <3>1. fills \o e = <<>>
      BY <1>2, <1>7, Zenon
    <3> QED BY <1>1, <3>1, BothEmpty, Zenon
  <2>2. \A i \in 1..k + 1 : i \in 1..k \/ i = k + 1
    OBVIOUS
  <2> QED BY <1>3, <1>4, <2>1, <2>2
<1> QED BY <1>5, <1>6, <1>7 DEF Filled, Named

LEMMA ParseDoneStep ==
  ASSUME AnswerInv, ParseDone
  PROVE  AnswerInv'
<1>1. /\ Started /\ ListInv /\ pc = "body" /\ req.kind \in Listing
      /\ res \in {EIO, CRASH} \cup 0..MaxLen /\ left' = left
      /\ req' = req /\ ans' = ans /\ fills' = fills /\ Entries' = Entries /\ Length' = Length
  BY DEF AnswerInv, ParseDone, Entries, Length
<1>2. /\ got \in Seq(Parts) /\ left \in Seq(Parts) /\ fills \in Seq(Entries)
      /\ ans.body \in Seq(Parts) /\ Length \in Nat /\ MaxLen \in Nat /\ Len(got) \in Nat
  BY <1>1, Assumed, RangeAssumption DEF ListInv, Length
<1>3. CASE ans.code # 207
  <2>1. pc' = "done" /\ res' = 0 /\ got' = got
    BY <1>3 DEF ParseDone, Finish
  <2>2. ListInv'
    BY <1>1, <1>2, <1>3, <2>1 DEF ListInv
  <2> QED BY <1>1, <1>2, <2>1, <2>2, OfKind
<1>4. CASE ans.code = 207 /\ (got = <<>> \/ ~WellFormed)
  <2>1. pc' = "done" /\ res' \in {EIO, CRASH} /\ got' = got
    BY <1>4 DEF ParseDone, Finish
  <2>2. ~(res' >= 0)
    BY <2>1 DEF EIO, CRASH
  <2>3. ListInv'
    BY <1>1, <1>2, <2>1, <2>2 DEF ListInv
  <2> QED BY <1>1, <2>1, <2>3, OfKind
<1>5. CASE ans.code = 207 /\ got # <<>> /\ WellFormed
  <2>1. pc' = "parsed" /\ res' = res /\ got' = Front(got)
    BY <1>5 DEF ParseDone
  <2>2. Len(got) >= 1 /\ Len(got) <= Length /\ \A i \in 1..Len(got) : got[i] = ans.body[i]
    BY <1>1, <1>2, <1>5, EmptySeq DEF ListInv
  <2>3. Len(got) = Length
    <3>1. Len(got) \in 1..Len(got) /\ Len(got) \in 1..Length
      BY <1>2, <2>2
    <3>2. ans.body[Len(got)] = End
      BY <1>5, <2>2, <3>1 DEF WellFormed, Last
    <3> QED BY <1>1, <3>1, <3>2, Assumed DEF Length
  <2> DEFINE n == Length - 1
  <2>4. n \in Nat
    BY <1>2, <2>2, <2>3
  <2>5. got' \in Seq(Parts) /\ Len(got') = n /\ \A i \in 1..n : got'[i] = got[i]
    <3>1. \A i \in 1..n : got[i] \in Parts
      BY <1>2, <2>3
    <3>2. /\ SubSeq(got, 1, n) \in Seq(Parts)
          /\ Len(SubSeq(got, 1, n)) = IF 1 <= n THEN n - 1 + 1 ELSE 0
          /\ \A i \in 1..n - 1 + 1 : SubSeq(got, 1, n)[i] = got[1 + i - 1]
      BY <2>4, <3>1, SubSeqProperties
    <3>3. got' = SubSeq(got, 1, n)
      BY <2>1, <2>3 DEF Front
    <3> DEFINE s == SubSeq(got, 1, n)
    <3> HIDE DEF n, s
    <3>4. n - 1 + 1 = n /\ (~(1 <= n) => n = 0) /\ \A i \in 1..n : 1 + i - 1 = i
      BY <2>4
    <3>5. s \in Seq(Parts) /\ Len(s) = n /\ \A i \in 1..n : s[i] = got[i]
      BY <3>2, <3>4 DEF s
    <3> QED BY <3>3, <3>5 DEF s
  <2>6. \A i \in 1..n : got'[i] = ans.body[n - n + i]
    <3>1. \A i \in 1..n : i \in 1..Len(got) /\ n - n + i = i
      BY <1>2, <2>3, <2>4
    <3> QED BY <2>2, <2>5, <3>1
  <2>7. Filled(0)'
    <3>1. Filled(0)
      BY <1>1, <1>2, FilledNone DEF ListInv
    <3> QED BY <1>1, <3>1 DEF Filled
  <2> HIDE DEF n
  <2>8. ListInv'
    <3>1. n = Length' - 1
      BY <1>1 DEF n
    <3>2. Length' - 1 - Len(got') = n - n
      BY <2>5, <3>1
    <3>3. Len(got') <= Length' - 1
      BY <2>4, <2>5, <3>1
    <3>4. \A i \in 1..Len(got') : got'[i] = ans'.body[Length' - 1 - Len(got') + i]
      BY <1>1, <2>5, <2>6, <3>2
    <3>5. Filled(Length - 1 - Len(got))'
      <4>1. (Length - 1 - Len(got))' = 0
        BY <2>4, <3>2
      <4> QED BY <2>7, <4>1 DEF Filled
    <3>6. got' \in Seq(Parts) /\ left' \in Seq(Parts) /\ fills' \in Seq(Entries')
      BY <1>1, <1>2, <2>5
    <3>7. pc' # "body" /\ pc' # "done"
      BY <2>1
    <3> QED BY <3>3, <3>4, <3>5, <3>6, <3>7 DEF ListInv
  <2> QED BY <1>1, <2>1, <2>8, OfKind
<1> QED BY <1>3, <1>4, <1>5

LEMMA ResponseStep ==
  ASSUME AnswerInv, Response
  PROVE  AnswerInv'
<1>1. /\ Started /\ pc = "parsed" /\ res \in {EIO, CRASH} \cup 0..MaxLen /\ left' = left
      /\ req' = req /\ ans' = ans /\ Entries' = Entries /\ Length' = Length
  BY DEF AnswerInv, Response, Entries, Length
<1>2. req.kind \in Listing /\ ListInv
  <2>1. req.kind \in Kinds
    BY <1>1, Assumed
  <2> QED BY <1>1, <2>1 DEF AnswerInv, Kinds, GetInv, PutInv, HeadInv, LockInv
<1>3. /\ got \in Seq(Parts) /\ left \in Seq(Parts) /\ fills \in Seq(Entries)
      /\ ans.body \in Seq(Parts) /\ Length \in Nat /\ MaxLen \in Nat /\ Len(got) \in Nat
  BY <1>1, <1>2, Assumed, RangeAssumption DEF ListInv, Length
<1>4. /\ Len(got) <= Length - 1
      /\ \A i \in 1..Len(got) : got[i] = ans.body[Length - 1 - Len(got) + i]
      /\ Filled(Length - 1 - Len(got))
  BY <1>1, <1>2 DEF ListInv
<1>5. CASE got = <<>>
  <2>1. pc' = "done" /\ res' = 0 /\ got' = got /\ fills' = fills
    BY <1>5 DEF Response, Finish
  <2>2. Len(got) = 0
    BY <1>5
  <2>3. Filled(Length - 1)'
    <3>1. Length - 1 - Len(got) = Length - 1
      BY <1>3, <2>2
    <3>2. Filled(Length - 1)
      BY <1>4, <3>1
    <3> QED BY <1>1, <2>1, <3>2 DEF Filled, Length
  <2>4. ListInv'
    <3>1. got' \in Seq(Parts) /\ left' \in Seq(Parts) /\ fills' \in Seq(Entries')
      BY <1>1, <1>3, <2>1
    <3> QED BY <2>1, <2>3, <3>1 DEF ListInv
  <2> QED BY <1>1, <1>2, <1>3, <2>1, <2>4, OfKind
<1>6. CASE got # <<>> /\ pc' = "done" /\ res' \in {EIO, CRASH} /\ UNCHANGED <<got, fills>>
  <2>1. ~(res' >= 0)
    BY <1>6 DEF EIO, CRASH
  <2>2. ListInv'
    BY <1>1, <1>3, <1>6, <2>1 DEF ListInv
  <2> QED BY <1>1, <1>2, <1>6, <2>2, OfKind
<1>7. CASE /\ got # <<>> /\ fills' = fills \o Name(Head(got), ans.slash) /\ got' = Tail(got)
           /\ UNCHANGED <<pc, res>>
  <2> DEFINE k == Length - 1 - Len(got)
  <2>1. /\ Head(got) = got[1] /\ got' \in Seq(Parts) /\ Len(got) \in Nat \ {0}
        /\ Len(got') = Len(got) - 1 /\ \A i \in 1..Len(got) - 1 : got'[i] = got[i + 1]
    BY <1>3, <1>7, TailFacts
  <2>2. k \in Nat /\ k + 1 <= Length /\ k + 1 = Length - 1 - (Len(got) - 1)
    BY <1>3, <1>4, <2>1
  <2>3. Head(got) = ans.body[k + 1]
    <3>1. 1 \in 1..Len(got)
      BY <2>1
    <3> QED BY <1>4, <2>1, <3>1
  <2>4. \A i \in 1..Len(got') : got'[i] = ans.body[k + 1 + i]
    <3>1. \A i \in 1..Len(got) - 1 : i + 1 \in 1..Len(got) /\ k + (i + 1) = k + 1 + i
      BY <2>1, <2>2
    <3>2. \A i \in 1..Len(got) - 1 : got[i + 1] = ans.body[k + (i + 1)]
      BY <1>4, <3>1
    <3> QED BY <2>1, <3>1, <3>2
  <2>5. Filled(k)
    BY <1>4
  <2>6. (Length - 1 - Len(got))' = k + 1
    BY <1>1, <2>1, <2>2
  <2>7. PICK m \in Nat : m = k
    BY <2>2
  <2> HIDE DEF k
  <2>8. Filled(m + 1)' /\ fills' \in Seq(Entries)
    <3>1. Filled(m)
      BY <2>5, <2>7
    <3>2. fills' = fills \o Name(ans.body[m + 1], ans.slash) /\ m + 1 <= Length
      BY <1>7, <2>2, <2>3, <2>7
    <3> QED BY <1>1, <1>3, <3>1, <3>2, FilledNext
  <2>9. ListInv'
    <3>1. (Length - 1 - Len(got))' = m + 1
      BY <2>6, <2>7
    <3>2. Filled(Length - 1 - Len(got))'
      BY <2>8, <3>1 DEF Filled
    <3>3. Len(got') <= Length' - 1
      BY <1>1, <1>3, <1>4, <2>1
    <3>4. \A i \in 1..Len(got') : got'[i] = ans'.body[Length' - 1 - Len(got') + i]
      BY <1>1, <2>4, <2>6
    <3>5. got' \in Seq(Parts) /\ left' \in Seq(Parts) /\ fills' \in Seq(Entries')
      BY <1>1, <1>3, <2>1, <2>8
    <3>6. pc' # "body" /\ pc' # "done"
      BY <1>1, <1>7
    <3> QED BY <3>2, <3>3, <3>4, <3>5, <3>6 DEF ListInv
  <2> QED BY <1>1, <1>2, <1>7, <2>9, OfKind
<1> QED
  <2>1. ASSUME got # <<>>
        PROVE  \/ Finish(CRASH) /\ UNCHANGED <<got, fills>>
               \/ Finish(EIO) /\ UNCHANGED <<got, fills>>
               \/ fills' = fills \o Name(Head(got), ans.slash) /\ got' = Tail(got) /\ UNCHANGED <<pc, res>>
    BY <2>1, Zenon DEF Response
  <2> QED BY <1>5, <1>6, <1>7, <2>1 DEF Finish

LEMMA AnswerNext ==
  ASSUME AnswerInv, [Next]_vars
  PROVE  AnswerInv'
<1>1. CASE UNCHANGED vars
  <2>1. /\ req' = req /\ ans' = ans /\ left' = left /\ got' = got /\ fills' = fills
        /\ pc' = pc /\ res' = res
    BY <1>1 DEF vars
  <2>2. Started' /\ pc' \in {"body", "parsed", "done"} /\ res' \in {EIO, CRASH} \cup 0..MaxLen
    BY <2>1 DEF AnswerInv, Started
  <2>3. GetInv => GetInv'
    BY <2>1 DEF GetInv
  <2>4. PutInv => PutInv'
    BY <2>1 DEF PutInv
  <2>5. HeadInv => HeadInv'
    BY <2>1 DEF HeadInv, HeadExact, Succeeded
  <2>6. LockInv => LockInv'
    BY <2>1 DEF LockInv, TokenExact
  <2>7. ListInv => ListInv'
    <3>1. Entries' = Entries /\ Length' = Length
      BY <2>1 DEF Entries, Length
    <3>2. /\ Filled(Length - 1) => Filled(Length - 1)'
          /\ Filled(Length - 1 - Len(got)) => Filled(Length - 1 - Len(got))'
      BY <2>1, <3>1 DEF Filled
    <3> QED BY <2>1, <3>1, <3>2 DEF ListInv
  <2> QED BY <2>1, <2>2, <2>3, <2>4, <2>5, <2>6, <2>7 DEF AnswerInv
<1> QED BY <1>1, GetStep, StaleGetStep, PutStep, HeaderStep, HeadDoneStep, LockDoneStep, ParseChunkStep,
           ParseDoneStep, ResponseStep, LostStep DEF Next, Done

LEMMA AnswersInvariant == Spec => []AnswerInv
BY AnswerInit, AnswerNext, PTL DEF Spec

-----------------------------------------------------------------------------
(* What a request returns.                                                 *)

\* What dav_get has left in the buffer of the caller when it succeeds.
LEMMA Bytes ==
  ASSUME AnswerInv, Succeeded({"get"}), ans.ranges = "honoured", ~req.stale
  PROVE  \E last \in Nat :
           /\ Len(Text[req.off]) <= Digits /\ Len(Text[req.size + req.off - 1]) <= Digits =>
                last = req.off + req.size - 1
           /\ Refused(req, ans) <=>
                IF last < req.off THEN ans.invalid = "416" ELSE req.off >= ans.len
           /\ got = IF Refused(req, ans) THEN <<>>
                    ELSE IF last < req.off /\ ans.invalid = "ignored"
                         THEN Part(ans.len, 0, ans.len) ELSE Part(ans.len, req.off, last)
<1>1. /\ Started /\ GetInv /\ pc = "done" /\ res >= 0 /\ req.kind = "get"
  BY DEF AnswerInv, Succeeded
<1>2. req.off \in Nat /\ req.size \in Nat \ {0} /\ Len(Text[req.off]) <= 2 * Digits + 1
  BY <1>1, Assumed
<1> DEFINE r == RangeOf(RangeText(req.off, req.size))
<1>3. /\ r.first = req.off /\ r.last \in Nat
      /\ Len(Text[req.off]) <= Digits /\ Len(Text[req.size + req.off - 1]) <= Digits =>
           r.last = req.off + req.size - 1
  BY <1>2, RangeRead
<1>4. Refused(req, ans) <=>
        IF r.last < r.first THEN ans.invalid = "416" ELSE r.first >= ans.len
  BY DEF Refused
<1>5. GetBody(req, ans) = IF r.last < r.first /\ ans.invalid = "ignored"
                          THEN Part(ans.len, 0, ans.len) ELSE Part(ans.len, r.first, r.last)
  BY DEF GetBody
<1>6. got = IF Refused(req, ans) THEN <<>> ELSE GetBody(req, ans)
  BY <1>1 DEF GetInv
<1> HIDE DEF r
<1> USE <1>3
<1> WITNESS r.last \in Nat
<1> QED BY <1>3, <1>4, <1>5, <1>6

LEMMA WholeLength ==
  ASSUME NEW n \in Nat
  PROVE  Len(Part(n, 0, n)) = n
<1>1. (IF n < n THEN n ELSE n - 1) - 0 + 1 = n
  OBVIOUS
<1> DEFINE f == [i \in 1..n |-> 0 + i]
<1>2. Part(n, 0, n) = f
  BY <1>1 DEF Part
<1>3. f \in [1..n -> Int]
  OBVIOUS
<1> HIDE DEF f
<1> QED BY <1>2, <1>3, FunctionIsSeq

\* Whatever a request does, its result is an error, a crash or a number of bytes,
\* and no callback writes beyond the end of the caller's buffer.
THEOREM TypeCorrect == Spec => []TypeOK
<1>1. ASSUME AnswerInv PROVE TypeOK
  BY <1>1 DEF AnswerInv, GetInv, PutInv, TypeOK
<1> QED BY <1>1, AnswersInvariant, PTL

\* Under every way to cut the answer into pieces, dav_read returns the bytes at
\* its offset, when both ends of the range fit into the range text and no exception
\* of an earlier call is pending.
THEOREM ReadsAreExact == Spec => []ReadExact
<1>1. ASSUME AnswerInv PROVE ReadExact
  <2> SUFFICES ASSUME Succeeded({"get"}), ans.ranges = "honoured", ~req.stale,
                      Len(Text[req.off]) <= Digits, Len(Text[req.size + req.off - 1]) <= Digits
               PROVE  /\ res = Len(got)
                      /\ got = IF req.off < ans.len
                               THEN Part(ans.len, req.off, req.off + req.size - 1) ELSE <<>>
    BY DEF ReadExact
  <2>1. /\ Started /\ req.kind = "get" /\ res = Len(got)
    BY <1>1 DEF AnswerInv, Succeeded, GetInv
  <2>2. req.off \in Nat /\ req.size \in Nat \ {0} /\ ans.len \in Nat
    BY <2>1, Assumed, RangeAssumption
  <2> DEFINE last == req.off + req.size - 1
  <2>3. /\ Refused(req, ans) <=>
             IF last < req.off THEN ans.invalid = "416" ELSE req.off >= ans.len
        /\ got = IF Refused(req, ans) THEN <<>>
                 ELSE IF last < req.off /\ ans.invalid = "ignored"
                      THEN Part(ans.len, 0, ans.len) ELSE Part(ans.len, req.off, last)
    BY <1>1, Bytes
  <2>4. ~(last < req.off)
    BY <2>2
  <2> HIDE DEF last
  <2>5. Refused(req, ans) <=> ~(req.off < ans.len)
    BY <2>2, <2>3, <2>4
  <2> QED BY <2>1, <2>3, <2>4, <2>5 DEF last
<1> QED BY <1>1, AnswersInvariant, PTL

\* When the second number of the range was cut, dav_read may return too few
\* bytes, and never bytes from elsewhere in a file longer than the buffer.
THEOREM ReadsAreNeverWrong == Spec => []ReadNeverWrong
<1>1. ASSUME AnswerInv PROVE ReadNeverWrong
  <2> SUFFICES ASSUME Succeeded({"get"}), ans.ranges = "honoured", ~req.stale,
                      ans.len > req.size, NEW i \in DOMAIN got
               PROVE  got[i] = req.off + i
    <3>1. Succeeded({"get"}) /\ ~req.stale => res = Len(got)
      BY <1>1 DEF AnswerInv, GetInv, Succeeded
    <3> QED BY <3>1 DEF ReadNeverWrong
  <2>1. /\ Started /\ req.kind = "get" /\ got \in Seq(Int) /\ Len(got) <= req.size
    BY <1>1 DEF AnswerInv, Succeeded, GetInv
  <2>2. req.off \in Nat /\ req.size \in Nat \ {0} /\ ans.len \in Nat
    BY <2>1, Assumed, RangeAssumption
  <2>3. i \in 1..Len(got)
    BY <2>1, LenProperties
  <2>4. got # <<>>
    <3>1. Len(got) # 0
      BY <2>1, <2>3
    <3> QED BY <3>1
  <2>5. PICK last \in Nat : got = IF Refused(req, ans) THEN <<>>
                 ELSE IF last < req.off /\ ans.invalid = "ignored"
                      THEN Part(ans.len, 0, ans.len) ELSE Part(ans.len, req.off, last)
    BY <1>1, Bytes
  <2>6. got # Part(ans.len, 0, ans.len)
    BY <2>1, <2>2, WholeLength
  <2>7. got = Part(ans.len, req.off, last)
    BY <2>4, <2>5, <2>6
  <2> DEFINE p == Part(ans.len, req.off, last)
  <2>8. \A j \in 1..Len(p) : p[j] = req.off + j
    BY <2>2, PartSeq
  <2>9. got = p
    BY <2>7
  <2> HIDE DEF p
  <2> QED BY <2>3, <2>8, <2>9
<1> QED BY <1>1, AnswersInvariant, PTL

\* However libcurl asks for them, dav_put sends the bytes it was given, to where
\* they belong.
THEOREM PutsAreExact == Spec => []PutExact
<1>1. ASSUME AnswerInv PROVE PutExact
  <2> SUFFICES ASSUME Succeeded({"put"})
               PROVE  /\ got = [i \in 1..req.size |-> i]
                      /\ RangeOf(RangeText(req.off, req.size)).first = req.off
    BY DEF PutExact
  <2>1. /\ Started /\ req.kind = "put" /\ got \in Seq(Int) /\ Len(got) = req.size
        /\ \A i \in 1..Len(got) : got[i] = i
    BY <1>1 DEF AnswerInv, Succeeded, PutInv
  <2>2. req.off \in Nat /\ req.size \in Nat \ {0} /\ Len(Text[req.off]) <= 2 * Digits + 1
    BY <2>1, Assumed
  <2>3. RangeOf(RangeText(req.off, req.size)).first = req.off
    BY <2>2, RangeRead
  <2> DEFINE f == [i \in 1..req.size |-> i]
  <2>4. f \in [1..req.size -> Int] /\ \A i \in 1..req.size : f[i] = i
    BY <2>2
  <2> HIDE DEF f
  <2>5. f \in Seq(Int) /\ Len(f) = req.size
    BY <2>2, <2>4, FunctionIsSeq
  <2>6. got = f
    BY <2>1, <2>4, <2>5, SeqEqual
  <2> QED BY <2>3, <2>6 DEF f
<1> QED BY <1>1, AnswersInvariant, PTL

\* After any number of redirections dav_head returns the length in the last line.
THEOREM HeadsAreExact == Spec => []HeadExact
<1>1. ASSUME AnswerInv PROVE HeadExact
  BY <1>1 DEF AnswerInv, HeadInv, HeadExact, Succeeded
<1> QED BY <1>1, AnswersInvariant, PTL

\* The token __dav_lock returns is the one of the header, and an href in the body
\* of the answer begins with it.
THEOREM TokensAreExact == Spec => []TokenExact
<1>1. ASSUME AnswerInv PROVE TokenExact
  BY <1>1 DEF AnswerInv, LockInv, TokenExact
<1> QED BY <1>1, AnswersInvariant, PTL

\* A listing that succeeds has an entry for every response under the URL, in order,
\* whatever pieces the push parser was fed and whether the body was cut off; their
\* names are right if and only if that URL ends in '/'.
THEOREM ListingsAreExact == Spec => []ListingExact
<1>1. ASSUME AnswerInv PROVE ListingExact
  <2>1. Succeeded({"readdir"}) /\ ans.code = 207 => req.kind = "readdir" /\ Filled(Length - 1)
    BY <1>1 DEF AnswerInv, ListInv, Succeeded, Listing
  <2> QED BY <2>1, Zenon DEF ListingExact, Filled, Length, Name
<1> QED BY <1>1, AnswersInvariant, PTL

\* A dav_getattr that succeeds has filled in the attributes, unless the answer
\* had none for the URL it asked about.
THEOREM AttributesAreFilled == Spec => []GetattrFilled
<1>1. ASSUME AnswerInv PROVE GetattrFilled
  <2>1. Succeeded({"getattr"}) => ans.code # 207 \/ Filled(Length - 1)
    BY <1>1 DEF AnswerInv, ListInv, Succeeded, Listing
  <2> QED BY <2>1 DEF GetattrFilled, Filled, Length
<1> QED BY <1>1, AnswersInvariant, PTL
=============================================================================
