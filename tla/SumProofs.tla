------------------------------ MODULE SumProofs ------------------------------
(***************************************************************************)
(* Powers of two, sums and numbers written in binary or in mixed radix:    *)
(* what the recursive functions of module Sums compute, for every n.       *)
(*                                                                         *)
(* The induction is that of lemma Induction, on a set of numbers: it comes *)
(* from the least element of a set of naturals, itself from the inclusion  *)
(* of finite sets being well founded.                                      *)
(***************************************************************************)
EXTENDS Sums, TLAPS, FiniteSetTheorems, WellFoundedInduction

\* A set of natural numbers that is not empty has a least element.  The finite
\* sets are well founded under inclusion, and so are the intervals 0..n.
LEMMA LeastNatural ==
  ASSUME NEW T \in SUBSET Nat, T # {}
  PROVE  \E x \in T : \A y \in T : x <= y
<1> DEFINE Prefixes == {0..n : n \in T}
<1>1. Prefixes \subseteq FiniteSubsetsOf(Nat) /\ Prefixes # {}
  <2>1. \A n \in T : 0..n \in SUBSET Nat /\ IsFiniteSet(0..n)
    BY FS_Interval
  <2> QED BY <2>1 DEF FiniteSubsetsOf
<1>2. \E P \in Prefixes : \A Q \in Prefixes : ~(<<Q, P>> \in StrictSubsetOrdering(Nat))
  BY <1>1, FS_StrictSubsetOrderingWellFounded, WFMin, Zenon
<1>3. PICK x \in T : \A y \in T : ~(<<0..y, 0..x>> \in StrictSubsetOrdering(Nat))
  BY <1>2
<1>4. ASSUME NEW y \in T, y < x
      PROVE  <<0..y, 0..x>> \in StrictSubsetOrdering(Nat)
  <2>1. x \in 0..x /\ x \notin 0..y
    BY <1>4
  <2>2. 0..y \subseteq 0..x /\ 0..x \subseteq Nat
    BY <1>4
  <2> QED BY <2>1, <2>2 DEF StrictSubsetOrdering
<1>5. \A y \in T : ~(y < x)
  BY <1>3, <1>4
<1> QED BY <1>5

\* And a set of numbers below a bound has a greatest one.
LEMMA GreatestNatural ==
  ASSUME NEW M \in Nat, NEW T \in SUBSET (0..M), T # {}
  PROVE  \E x \in T : \A y \in T : y <= x
<1> DEFINE U == {M - x : x \in T}
<1>1. \A x \in T : M - x \in Nat /\ x \in 0..M
  OBVIOUS
<1>2. U \in SUBSET Nat /\ U # {}
  BY <1>1
<1>3. PICK u \in U : \A w \in U : u <= w
  <2> HIDE DEF U
  <2> QED BY <1>2, LeastNatural
<1>4. PICK x \in T : u = M - x
  BY <1>3
<1>5. ASSUME NEW y \in T PROVE y <= x
  <2>1. M - y \in U
    OBVIOUS
  <2>2. M - x <= M - y
    <3> HIDE DEF U
    <3> QED BY <1>3, <1>4, <2>1
  <2> QED BY <1>1, <2>2
<1> QED BY <1>5

\* Induction on a set: what holds of 0 and is passed on holds of every number.
LEMMA Induction ==
  ASSUME NEW S, 0 \in S, \A n \in Nat : n \in S => n + 1 \in S
  PROVE  \A n \in Nat : n \in S
<1> SUFFICES ASSUME Nat \ S # {} PROVE FALSE
  OBVIOUS
<1>1. PICK x \in Nat \ S : \A y \in Nat \ S : x <= y
  BY LeastNatural
<1>2. x - 1 \in Nat /\ ~(x <= x - 1)
  OBVIOUS
<1>3. x - 1 \in S
  BY <1>1, <1>2
<1>4. x - 1 + 1 \in S
  BY <1>2, <1>3
<1> QED BY <1>4

\* One of finitely many numbers is the greatest.
LEMMA GreatestTerm ==
  ASSUME NEW n \in Nat \ {0}, NEW f, \A i \in 1..n : f[i] \in Nat
  PROVE  \E j \in 1..n : \A i \in 1..n : f[i] <= f[j]
<1> DEFINE S == {m \in Nat : m + 1 <= n => \E j \in 1..(m + 1) : \A i \in 1..(m + 1) : f[i] <= f[j]}
<1>1. 0 \in S
  OBVIOUS
<1>2. ASSUME NEW m \in Nat, m \in S
      PROVE  m + 1 \in S
  <2> SUFFICES ASSUME m + 2 <= n
               PROVE  \E j \in 1..(m + 2) : \A i \in 1..(m + 2) : f[i] <= f[j]
    OBVIOUS
  <2>1. PICK j \in 1..(m + 1) : \A i \in 1..(m + 1) : f[i] <= f[j]
    BY <1>2
  <2>2. CASE f[m + 2] <= f[j]
    BY <2>1, <2>2
  <2>3. CASE ~(f[m + 2] <= f[j])
    BY <2>1, <2>3
  <2> QED BY <2>2, <2>3
<1>3. \A m \in Nat : m \in S
  <2> HIDE DEF S
  <2> QED BY <1>1, <1>2, Induction
<1>4. n - 1 \in S
  BY <1>3
<1> QED BY <1>4

-----------------------------------------------------------------------------
\* The two recursive functions exist: for each n there is one on 0..n, they
\* agree, and so they are the parts of one on the natural numbers.
LEMMA SumExists ==
  ASSUME NEW t
  PROVE  \E s : s = [k \in Nat |-> IF k = 0 THEN 0 ELSE s[k - 1] + t[k - 1]]
<1> DEFINE Upto(g, n) == g = [k \in 0..n |-> IF k = 0 THEN 0 ELSE g[k - 1] + t[k - 1]]
           Good == {n \in Nat : \E g : Upto(g, n)}
           Part(n) == CHOOSE g : Upto(g, n)
           Agree == {n \in Nat : \A m \in Nat : \A g, h :
                       n <= m /\ Upto(g, n) /\ Upto(h, m) => g[n] = h[n]}
           s == [n \in Nat |-> Part(n)[n]]
<1>1. 0 \in Good
  <2>1. Upto([k \in 0..0 |-> 0], 0)
    OBVIOUS
  <2> QED BY <2>1
<1>2. ASSUME NEW n \in Nat, n \in Good
      PROVE  n + 1 \in Good
  <2>1. PICK g : Upto(g, n)
    BY <1>2
  <2> DEFINE h == [k \in 0..(n + 1) |-> IF k = n + 1 THEN g[n] + t[n] ELSE g[k]]
  <2>2. ASSUME NEW k \in 0..(n + 1)
        PROVE  h[k] = IF k = 0 THEN 0 ELSE h[k - 1] + t[k - 1]
    <3>1. CASE k = n + 1
      BY <3>1
    <3>2. CASE k # n + 1
      <4>1. k \in 0..n /\ h[k] = g[k]
        BY <3>2
      <4>2. k # 0 => k - 1 \in 0..n /\ h[k - 1] = g[k - 1]
        BY <4>1
      <4>3. g[k] = IF k = 0 THEN 0 ELSE g[k - 1] + t[k - 1]
        BY <2>1, <4>1, Zenon
      <4> QED BY <4>1, <4>2, <4>3
    <3> QED BY <3>1, <3>2
  <2>3. Upto(h, n + 1)
    BY <2>2
  <2>4. \E f : Upto(f, n + 1)
    <3> HIDE DEF Upto, h
    <3> QED BY <2>3
  <2> QED BY <2>4
<1>3. \A n \in Nat : Upto(Part(n), n)
  <2> HIDE DEF Upto
  <2>1. \A n \in Nat : n \in Good
    <3> HIDE DEF Good
    <3> QED BY <1>1, <1>2, Induction
  <2> QED BY <2>1
<1>4. \A n \in Nat : n \in Agree
  <2>1. 0 \in Agree
    OBVIOUS
  <2>2. ASSUME NEW n \in Nat, n \in Agree
        PROVE  n + 1 \in Agree
    <3> SUFFICES ASSUME NEW m \in Nat, NEW g, NEW h,
                        n + 1 <= m, Upto(g, n + 1), Upto(h, m)
                 PROVE  g[n + 1] = h[n + 1]
      OBVIOUS
    <3>1. Upto([k \in 0..n |-> g[k]], n)
      OBVIOUS
    <3>2. g[n] = h[n]
      <4>1. [k \in 0..n |-> g[k]][n] = h[n]
        <5> HIDE DEF Upto
        <5> QED BY <2>2, <3>1
      <4> QED BY <4>1
    <3>3. g[n + 1] = g[n] + t[n] /\ h[n + 1] = h[n] + t[n]
      OBVIOUS
    <3> QED BY <3>2, <3>3
  <2> HIDE DEF Agree
  <2> QED BY <2>1, <2>2, Induction
<1>5. ASSUME NEW n \in Nat
      PROVE  s[n] = IF n = 0 THEN 0 ELSE s[n - 1] + t[n - 1]
  <2>1. Upto(Part(n), n)
    BY <1>3
  <2>2. Part(n)[n] = IF n = 0 THEN 0 ELSE Part(n)[n - 1] + t[n - 1]
    <3> HIDE DEF Part
    <3> QED BY <2>1
  <2>3. ASSUME n # 0
        PROVE  Part(n - 1)[n - 1] = Part(n)[n - 1]
    <3>1. n - 1 \in Nat /\ n - 1 <= n
      BY <2>3
    <3>2. n - 1 \in Agree /\ Upto(Part(n - 1), n - 1)
      BY <1>3, <1>4, <3>1
    <3> HIDE DEF Part, Upto
    <3> QED BY <2>1, <3>1, <3>2
  <2> HIDE DEF Part
  <2> QED BY <2>2, <2>3
<1>6. s = [k \in Nat |-> IF k = 0 THEN 0 ELSE s[k - 1] + t[k - 1]]
  <2> HIDE DEF Part
  <2> QED BY <1>5
<1> QED BY <1>6

\* f[n] is a after n iterations of F.
Iterates(V, a, F, f) ==
  f \in [Nat -> V] /\ f[0] = a /\ \A n \in Nat : f[n + 1] = F[<<f[n], n>>]

LEMMA Recursion ==
  ASSUME NEW V, NEW a \in V, NEW F \in [V \X Nat -> V]
  PROVE  \E f : Iterates(V, a, F, f)
<1> DEFINE Upto(g, n) == /\ g \in [0..n -> V]
                         /\ g[0] = a
                         /\ \A k \in 0..(n - 1) : g[k + 1] = F[<<g[k], k>>]
           Good == {n \in Nat : \E g : Upto(g, n)}
           Part(n) == CHOOSE g : Upto(g, n)
           Agree == {n \in Nat : \A m \in Nat : \A g, h :
                       n <= m /\ Upto(g, n) /\ Upto(h, m) => g[n] = h[n]}
           f == [n \in Nat |-> Part(n)[n]]
<1>1. 0 \in Good
  <2>1. Upto([k \in 0..0 |-> a], 0)
    OBVIOUS
  <2> HIDE DEF Upto
  <2> QED BY <2>1
<1>2. ASSUME NEW n \in Nat, n \in Good
      PROVE  n + 1 \in Good
  <2>1. PICK g : Upto(g, n)
    BY <1>2
  <2> DEFINE h == [k \in 0..(n + 1) |-> IF k = n + 1 THEN F[<<g[n], n>>] ELSE g[k]]
  <2>2. F[<<g[n], n>>] \in V
    BY <2>1
  <2>3. h \in [0..(n + 1) -> V] /\ h[n + 1] = F[<<g[n], n>>] /\ \A k \in 0..n : h[k] = g[k]
    BY <2>1, <2>2
  <2> HIDE DEF h
  <2>4. ASSUME NEW k \in 0..(n + 1 - 1)
        PROVE  h[k + 1] = F[<<h[k], k>>]
    <3>1. CASE k = n
      BY <2>3, <3>1
    <3>2. CASE k # n
      <4>1. k \in 0..(n - 1) /\ k + 1 \in 0..n /\ k \in 0..n
        BY <3>2
      <4> QED BY <2>1, <2>3, <4>1
    <3> QED BY <3>1, <3>2
  <2>5. Upto(h, n + 1)
    <3>1. h[0] = a
      BY <2>1, <2>3
    <3> QED BY <2>3, <2>4, <3>1
  <2>6. \E e : Upto(e, n + 1)
    <3> HIDE DEF Upto, h
    <3> QED BY <2>5
  <2> QED BY <2>6
<1>3. \A n \in Nat : Upto(Part(n), n)
  <2> HIDE DEF Upto
  <2>1. \A n \in Nat : n \in Good
    <3> HIDE DEF Good
    <3> QED BY <1>1, <1>2, Induction
  <2> QED BY <2>1
<1>4. \A n \in Nat : n \in Agree
  <2>1. 0 \in Agree
    OBVIOUS
  <2>2. ASSUME NEW n \in Nat, n \in Agree
        PROVE  n + 1 \in Agree
    <3> SUFFICES ASSUME NEW m \in Nat, NEW g, NEW h,
                        n + 1 <= m, Upto(g, n + 1), Upto(h, m)
                 PROVE  g[n + 1] = h[n + 1]
      OBVIOUS
    <3>1. Upto([k \in 0..n |-> g[k]], n)
      OBVIOUS
    <3>2. g[n] = h[n]
      <4>1. [k \in 0..n |-> g[k]][n] = h[n]
        <5> HIDE DEF Upto
        <5> QED BY <2>2, <3>1
      <4> QED BY <4>1
    <3>3. g[n + 1] = F[<<g[n], n>>] /\ h[n + 1] = F[<<h[n], n>>]
      OBVIOUS
    <3> QED BY <3>2, <3>3
  <2> HIDE DEF Agree
  <2> QED BY <2>1, <2>2, Induction
<1>5. f \in [Nat -> V] /\ f[0] = a
  <2> HIDE DEF Part
  <2> QED BY <1>3
<1>6. ASSUME NEW n \in Nat
      PROVE  f[n + 1] = F[<<f[n], n>>]
  <2>1. Upto(Part(n), n) /\ Upto(Part(n + 1), n + 1)
    <3> HIDE DEF Part, Upto
    <3> QED BY <1>3
  <2>2. Part(n + 1)[n + 1] = F[<<Part(n + 1)[n], n>>]
    <3> HIDE DEF Part
    <3> QED BY <2>1
  <2>3. Upto([k \in 0..n |-> Part(n + 1)[k]], n)
    <3> HIDE DEF Part
    <3> QED BY <2>1
  <2>4. [k \in 0..n |-> Part(n + 1)[k]][n] = Part(n)[n]
    <3> HIDE DEF Part, Upto
    <3> QED BY <1>4, <2>1, <2>3
  <2>5. Part(n + 1)[n] = Part(n)[n]
    <3> HIDE DEF Part, Upto
    <3> QED BY <2>4
  <2> HIDE DEF Part
  <2> QED BY <2>2, <2>5
<1> HIDE DEF f
<1> QED BY <1>5, <1>6 DEF Iterates

-----------------------------------------------------------------------------
\* Powers of two.
LEMMA Pow2Def ==
  /\ Pow2 \in [Nat -> Nat \ {0}]
  /\ Pow2[0] = 1
  /\ \A n \in Nat : Pow2[n + 1] = 2 * Pow2[n]
<1> DEFINE Positive == Nat \ {0}
           F == [p \in Positive \X Nat |-> 2 * p[1]]
<1>1. F \in [Positive \X Nat -> Positive] /\ 1 \in Positive
  OBVIOUS
<1>2. PICK f : Iterates(Positive, 1, F, f)
  <2> HIDE DEF F, Positive
  <2> QED BY <1>1, Recursion
<1>3. \A n \in Nat : f[n + 1] = 2 * f[n]
  <2>1. \A n \in Nat : <<f[n], n>> \in Positive \X Nat
    BY <1>2 DEF Iterates
  <2> QED BY <1>2, <2>1 DEF Iterates
<1>4. ASSUME NEW n \in Nat
      PROVE  f[n] = IF n = 0 THEN 1 ELSE 2 * f[n - 1]
  <2>1. CASE n = 0
    BY <1>2, <2>1 DEF Iterates
  <2>2. CASE n # 0
    <3>1. n - 1 \in Nat /\ n - 1 + 1 = n
      BY <2>2
    <3> QED BY <1>3, <2>2, <3>1
  <2> QED BY <2>1, <2>2
<1>5. f = [n \in Nat |-> IF n = 0 THEN 1 ELSE 2 * f[n - 1]]
  <2> HIDE DEF F
  <2> QED BY <1>2, <1>4 DEF Iterates
<1>6. Pow2 = [n \in Nat |-> IF n = 0 THEN 1 ELSE 2 * Pow2[n - 1]]
  <2> HIDE DEF F
  <2> QED BY <1>5 DEF Pow2
<1>7. \A n \in Nat : Pow2[n] = IF n = 0 THEN 1 ELSE 2 * Pow2[n - 1]
  BY <1>6, Zenon
<1>8. Pow2[0] = 1 /\ \A n \in Nat : Pow2[n + 1] = 2 * Pow2[n]
  BY <1>7
<1> DEFINE Typed == {n \in Nat : Pow2[n] \in Nat \ {0}}
<1>9. \A n \in Nat : n \in Typed
  <2>1. 0 \in Typed /\ \A n \in Nat : n \in Typed => n + 1 \in Typed
    BY <1>8
  <2> HIDE DEF Typed
  <2> QED BY <2>1, Induction
<1> QED BY <1>6, <1>8, <1>9

LEMMA Pow2Monotone ==
  ASSUME NEW m \in Nat, NEW n \in Nat, m <= n
  PROVE  Pow2[m] <= Pow2[n]
<1> DEFINE S == {k \in Nat : Pow2[m] <= Pow2[m + k]}
<1>1. 0 \in S /\ \A k \in Nat : k \in S => k + 1 \in S
  <2>1. \A k \in Nat : Pow2[m + (k + 1)] = 2 * Pow2[m + k] /\ Pow2[m + k] \in Nat
    BY Pow2Def
  <2> QED BY <2>1, Pow2Def
<1>2. \A k \in Nat : k \in S
  <2> HIDE DEF S
  <2> QED BY <1>1, Induction
<1>3. n - m \in S
  BY <1>2
<1> QED BY <1>3

LEMMA Pow2Sum ==
  ASSUME NEW m \in Nat, NEW n \in Nat
  PROVE  Pow2[m + n] = Pow2[m] * Pow2[n]
<1> DEFINE S == {k \in Nat : Pow2[m + k] = Pow2[m] * Pow2[k]}
<1>1. 0 \in S
  BY Pow2Def
<1>2. ASSUME NEW k \in Nat, k \in S
      PROVE  k + 1 \in S
  <2>1. /\ Pow2[m + (k + 1)] = 2 * Pow2[m + k]
        /\ Pow2[k + 1] = 2 * Pow2[k]
        /\ Pow2[m] \in Nat /\ Pow2[k] \in Nat
    BY Pow2Def
  <2>2. Pow2[m + k] = Pow2[m] * Pow2[k]
    BY <1>2
  <2>3. 2 * (Pow2[m] * Pow2[k]) = Pow2[m] * (2 * Pow2[k])
    BY <2>1
  <2> QED BY <2>1, <2>2, <2>3
<1>3. \A k \in Nat : k \in S
  <2> HIDE DEF S
  <2> QED BY <1>1, <1>2, Induction
<1> QED BY <1>3

-----------------------------------------------------------------------------
\* Sums.
LEMMA SumDef ==
  ASSUME NEW t
  PROVE  /\ SumBelow(t, 0) = 0
         /\ \A n \in Nat : SumBelow(t, n + 1) = SumBelow(t, n) + t[n]
<1> DEFINE s == CHOOSE f : f = [k \in Nat |-> IF k = 0 THEN 0 ELSE f[k - 1] + t[k - 1]]
<1>1. s = [k \in Nat |-> IF k = 0 THEN 0 ELSE s[k - 1] + t[k - 1]]
  BY SumExists
<1>2. \A n : SumBelow(t, n) = s[n]
  BY DEF SumBelow
<1> HIDE DEF s
<1>3. \A k \in Nat : s[k] = IF k = 0 THEN 0 ELSE s[k - 1] + t[k - 1]
  BY <1>1, Zenon
<1>4. s[0] = 0 /\ \A n \in Nat : s[n + 1] = s[n] + t[n]
  BY <1>3
<1> QED BY <1>2, <1>4

LEMMA SumType ==
  ASSUME NEW t, NEW n \in Nat, \A k \in 0..(n - 1) : t[k] \in Int
  PROVE  /\ SumBelow(t, n) \in Int
         /\ (\A k \in 0..(n - 1) : t[k] >= 0) => SumBelow(t, n) \in Nat
<1> DEFINE S == {m \in Nat : m <= n =>
                   /\ SumBelow(t, m) \in Int
                   /\ (\A k \in 0..(n - 1) : t[k] >= 0) => SumBelow(t, m) >= 0}
<1>1. 0 \in S
  BY SumDef
<1>2. ASSUME NEW m \in Nat, m \in S
      PROVE  m + 1 \in S
  <2>1. SumBelow(t, m + 1) = SumBelow(t, m) + t[m]
    BY SumDef
  <2> QED BY <1>2, <2>1
<1>3. \A m \in Nat : m \in S
  <2> HIDE DEF S
  <2> QED BY <1>1, <1>2, Induction
<1> QED BY <1>3

\* Sums of equal terms are equal, and the sum of a sum of terms is the sum of the sums.
LEMMA SumEqual ==
  ASSUME NEW t, NEW u, NEW n \in Nat, \A k \in 0..(n - 1) : t[k] = u[k]
  PROVE  SumBelow(t, n) = SumBelow(u, n)
<1> DEFINE S == {m \in Nat : m <= n => SumBelow(t, m) = SumBelow(u, m)}
<1>1. 0 \in S
  BY SumDef
<1>2. ASSUME NEW m \in Nat, m \in S
      PROVE  m + 1 \in S
  <2>1. /\ SumBelow(t, m + 1) = SumBelow(t, m) + t[m]
        /\ SumBelow(u, m + 1) = SumBelow(u, m) + u[m]
    BY SumDef
  <2> QED BY <1>2, <2>1
<1>3. \A m \in Nat : m \in S
  <2> HIDE DEF S
  <2> QED BY <1>1, <1>2, Induction
<1> QED BY <1>3

LEMMA SumAdds ==
  ASSUME NEW t, NEW u, NEW v, NEW n \in Nat,
         \A k \in 0..(n - 1) : t[k] \in Int /\ u[k] \in Int /\ v[k] = t[k] + u[k]
  PROVE  SumBelow(v, n) = SumBelow(t, n) + SumBelow(u, n)
<1> DEFINE S == {m \in Nat : m <= n =>
                   /\ SumBelow(t, m) \in Int /\ SumBelow(u, m) \in Int
                   /\ SumBelow(v, m) = SumBelow(t, m) + SumBelow(u, m)}
<1>1. 0 \in S
  BY SumDef
<1>2. ASSUME NEW m \in Nat, m \in S
      PROVE  m + 1 \in S
  <2>1. /\ SumBelow(t, m + 1) = SumBelow(t, m) + t[m]
        /\ SumBelow(u, m + 1) = SumBelow(u, m) + u[m]
        /\ SumBelow(v, m + 1) = SumBelow(v, m) + v[m]
    BY SumDef
  <2> QED BY <1>2, <2>1
<1>3. \A m \in Nat : m \in S
  <2> HIDE DEF S
  <2> QED BY <1>1, <1>2, Induction
<1> QED BY <1>3

\* A sum of zeros is zero.
LEMMA SumZero ==
  ASSUME NEW t, NEW n \in Nat, \A k \in 0..(n - 1) : t[k] = 0
  PROVE  SumBelow(t, n) = 0
<1>1. SumBelow(t, n) \in Int
  BY SumType
<1>2. SumBelow(t, n) = SumBelow(t, n) + SumBelow(t, n)
  <2>1. \A k \in 0..(n - 1) : t[k] \in Int /\ t[k] \in Int /\ t[k] = t[k] + t[k]
    OBVIOUS
  <2> QED BY <2>1, SumAdds
<1>3. \A s \in Int : s = s + s => s = 0
  OBVIOUS
<1> QED BY <1>1, <1>2, <1>3, Zenon

\* A sum in two pieces.
LEMMA SumSplits ==
  ASSUME NEW t, NEW u, NEW m \in Nat, NEW n \in Nat,
         \A k \in 0..(m - 1) : t[k] \in Int,
         \A k \in 0..(n - 1) : u[k] \in Int /\ t[m + k] = u[k]
  PROVE  SumBelow(t, m + n) = SumBelow(t, m) + SumBelow(u, n)
<1> DEFINE S == {j \in Nat : j <= n =>
                   /\ SumBelow(u, j) \in Int
                   /\ SumBelow(t, m + j) = SumBelow(t, m) + SumBelow(u, j)}
<1>0. SumBelow(t, m) \in Int
  BY SumType
<1>1. 0 \in S
  BY SumDef, <1>0
<1>2. ASSUME NEW j \in Nat, j \in S
      PROVE  j + 1 \in S
  <2>1. /\ SumBelow(t, (m + j) + 1) = SumBelow(t, m + j) + t[m + j]
        /\ SumBelow(u, j + 1) = SumBelow(u, j) + u[j]
    BY SumDef
  <2>2. (m + j) + 1 = m + (j + 1)
    OBVIOUS
  <2> QED BY <1>0, <1>2, <2>1, <2>2
<1>3. \A j \in Nat : j \in S
  <2> HIDE DEF S
  <2> QED BY <1>1, <1>2, Induction
<1> QED BY <1>3

\* One term changes.
LEMMA SumUpdate ==
  ASSUME NEW t, NEW u, NEW n \in Nat, NEW i \in 0..(n - 1),
         \A k \in 0..(n - 1) : t[k] \in Int /\ u[k] \in Int,
         \A k \in 0..(n - 1) : k # i => u[k] = t[k]
  PROVE  SumBelow(u, n) = SumBelow(t, n) + (u[i] - t[i])
<1> DEFINE S == {m \in Nat : m <= n =>
                   /\ SumBelow(t, m) \in Int
                   /\ SumBelow(u, m) = SumBelow(t, m) + IF i < m THEN u[i] - t[i] ELSE 0}
<1>1. 0 \in S
  BY SumDef
<1>2. ASSUME NEW m \in Nat, m \in S
      PROVE  m + 1 \in S
  <2>1. /\ SumBelow(t, m + 1) = SumBelow(t, m) + t[m]
        /\ SumBelow(u, m + 1) = SumBelow(u, m) + u[m]
    BY SumDef
  <2> QED BY <1>2, <2>1
<1>3. \A m \in Nat : m \in S
  <2> HIDE DEF S
  <2> QED BY <1>1, <1>2, Induction
<1> QED BY <1>3

\* A sum of larger terms is larger.
LEMMA SumMonotone ==
  ASSUME NEW t, NEW u, NEW n \in Nat,
         \A k \in 0..(n - 1) : t[k] \in Int /\ u[k] \in Int /\ t[k] <= u[k]
  PROVE  SumBelow(t, n) <= SumBelow(u, n)
<1> DEFINE S == {m \in Nat : m <= n =>
                   /\ SumBelow(t, m) \in Int /\ SumBelow(u, m) \in Int
                   /\ SumBelow(t, m) <= SumBelow(u, m)}
<1>1. 0 \in S
  BY SumDef
<1>2. ASSUME NEW m \in Nat, m \in S
      PROVE  m + 1 \in S
  <2>1. /\ SumBelow(t, m + 1) = SumBelow(t, m) + t[m]
        /\ SumBelow(u, m + 1) = SumBelow(u, m) + u[m]
    BY SumDef
  <2> QED BY <1>2, <2>1
<1>3. \A m \in Nat : m \in S
  <2> HIDE DEF S
  <2> QED BY <1>1, <1>2, Induction
<1> QED BY <1>3

-----------------------------------------------------------------------------
\* Quotients and remainders.
LEMMA Division ==
  ASSUME NEW v \in Int, NEW p \in Nat \ {0}
  PROVE  /\ v \div p \in Int
         /\ v % p \in 0..(p - 1)
         /\ v = p * (v \div p) + (v % p)
  OBVIOUS

LEMMA DivisionUnique ==
  ASSUME NEW p \in Nat \ {0}, NEW q \in Int, NEW r \in 0..(p - 1)
  PROVE  (p * q + r) \div p = q /\ (p * q + r) % p = r
<1> DEFINE v == p * q + r
           w == v \div p
           s == v % p
<1>1. v \in Int /\ w \in Int /\ s \in 0..(p - 1) /\ v = p * w + s
  BY Division
<1>2. p * q + r = p * w + s
  BY <1>1
<1> HIDE DEF v, w, s
<1>3. ASSUME q >= w + 1
      PROVE  FALSE
  <2>1. p * q >= p * (w + 1)
    BY <1>1, <1>3
  <2>2. p * (w + 1) = p * w + p
    BY <1>1
  <2> QED BY <1>1, <1>2, <2>1, <2>2
<1>4. ASSUME w >= q + 1
      PROVE  FALSE
  <2>1. p * w >= p * (q + 1)
    BY <1>1, <1>4
  <2>2. p * (q + 1) = p * q + p
    BY <1>1
  <2> QED BY <1>1, <1>2, <2>1, <2>2
<1>5. q = w
  BY <1>1, <1>3, <1>4
<1>6. r = s
  BY <1>1, <1>2, <1>5
<1> QED BY <1>5, <1>6 DEF v, w, s

\* What is congruent has the same remainder.
LEMMA SameRemainder ==
  ASSUME NEW u \in Int, NEW v \in Int, NEW k \in Int, NEW p \in Nat \ {0}, u = v + p * k
  PROVE  u % p = v % p
<1>1. PICK q \in Int, r \in 0..(p - 1) : v = p * q + r
  BY ZenonT(40), Division
<1>2. u = p * (q + k) + r
  <2>1. p * (q + k) = p * q + p * k
    BY <1>1
  <2> QED BY <1>1, <2>1
<1>3. u % p = r
  BY <1>1, <1>2, DivisionUnique
<1>4. v % p = r
  BY <1>1, DivisionUnique
<1> QED BY <1>3, <1>4

Congruent(u, v, p) == \E k \in Int : u = v + p * k

LEMMA CongruentRemainder ==
  ASSUME NEW u \in Int, NEW v \in Int, NEW p \in Nat \ {0}, Congruent(u, v, p)
  PROVE  u % p = v % p
<1>1. PICK k \in Int : u = v + p * k
  BY DEF Congruent
<1> QED BY ZenonT(40), <1>1, SameRemainder

-----------------------------------------------------------------------------
\* Digits and their weights.
LEMMA WeightedStep ==
  ASSUME NEW d, NEW n \in Nat, \A k \in 0..n : d[k] \in Int
  PROVE  /\ Weighted(d, 0) = 0
         /\ Weighted(d, n) \in Int
         /\ Weighted(d, n + 1) = Weighted(d, n) + d[n] * Pow2[n]
<1> DEFINE t == [k \in 0..(n - 1) |-> d[k] * Pow2[k]]
           u == [k \in 0..(n + 1 - 1) |-> d[k] * Pow2[k]]
<1>1. \A k \in 0..n : d[k] * Pow2[k] \in Int
  BY Pow2Def
<1>2. SumBelow(t, n) \in Int
  <2>1. \A k \in 0..(n - 1) : t[k] \in Int
    BY <1>1
  <2> HIDE DEF t
  <2> QED BY <2>1, SumType
<1>3. SumBelow(t, n) = SumBelow(u, n)
  <2>1. \A k \in 0..(n - 1) : t[k] = u[k]
    OBVIOUS
  <2> HIDE DEF t, u
  <2> QED BY <2>1, SumEqual
<1>4. SumBelow(u, n + 1) = SumBelow(u, n) + d[n] * Pow2[n]
  <2>1. u[n] = d[n] * Pow2[n]
    OBVIOUS
  <2> HIDE DEF u
  <2> QED BY <2>1, SumDef
<1>5. Weighted(d, 0) = 0
  BY SumDef DEF Weighted
<1> QED BY <1>2, <1>3, <1>4, <1>5 DEF Weighted

LEMMA WeightedType ==
  ASSUME NEW d, NEW n \in Nat, \A k \in 0..(n - 1) : d[k] \in Int
  PROVE  Weighted(d, n) \in Int
<1>1. CASE n = 0
  BY <1>1, SumDef DEF Weighted
<1>2. CASE n # 0
  <2>1. n - 1 \in Nat /\ n - 1 + 1 = n
    BY <1>2
  <2>2. /\ Weighted(d, n - 1) \in Int
        /\ Weighted(d, n - 1 + 1) = Weighted(d, n - 1) + d[n - 1] * Pow2[n - 1]
    BY <2>1, WeightedStep
  <2>3. d[n - 1] * Pow2[n - 1] \in Int
    BY <2>1, Pow2Def
  <2> QED BY <2>1, <2>2, <2>3
<1> QED BY <1>1, <1>2

LEMMA WeightedEqual ==
  ASSUME NEW d, NEW e, NEW n \in Nat, \A k \in 0..(n - 1) : d[k] = e[k]
  PROVE  Weighted(d, n) = Weighted(e, n)
<1>1. [k \in 0..(n - 1) |-> d[k] * Pow2[k]] = [k \in 0..(n - 1) |-> e[k] * Pow2[k]]
  OBVIOUS
<1> QED BY <1>1 DEF Weighted

LEMMA WeightedAdds ==
  ASSUME NEW d, NEW e, NEW f, NEW n \in Nat,
         \A k \in 0..(n - 1) : d[k] \in Int /\ e[k] \in Int /\ f[k] = d[k] + e[k]
  PROVE  Weighted(f, n) = Weighted(d, n) + Weighted(e, n)
<1> DEFINE t == [k \in 0..(n - 1) |-> d[k] * Pow2[k]]
           u == [k \in 0..(n - 1) |-> e[k] * Pow2[k]]
           v == [k \in 0..(n - 1) |-> f[k] * Pow2[k]]
<1>1. ASSUME NEW k \in 0..(n - 1)
      PROVE  t[k] \in Int /\ u[k] \in Int /\ v[k] = t[k] + u[k]
  <2>1. Pow2[k] \in Int
    BY Pow2Def
  <2>2. (d[k] + e[k]) * Pow2[k] = d[k] * Pow2[k] + e[k] * Pow2[k]
    BY <2>1
  <2> QED BY <2>1, <2>2
<1>2. SumBelow(v, n) = SumBelow(t, n) + SumBelow(u, n)
  <2> HIDE DEF t, u, v
  <2> QED BY <1>1, SumAdds
<1> QED BY <1>2 DEF Weighted

LEMMA WeightedZero ==
  ASSUME NEW d, NEW n \in Nat, \A k \in 0..(n - 1) : d[k] = 0
  PROVE  Weighted(d, n) = 0
<1> DEFINE S == {m \in Nat : m <= n => Weighted(d, m) = 0}
<1>1. 0 \in S
  BY SumDef DEF Weighted
<1>2. ASSUME NEW m \in Nat, Weighted(d, m) = 0, m + 1 <= n
      PROVE  Weighted(d, m + 1) = 0
  <2>1. Weighted(d, m + 1) = Weighted(d, m) + d[m] * Pow2[m]
    BY <1>2, WeightedStep
  <2> QED BY <1>2, <2>1, Pow2Def
<1>3. \A m \in Nat : m \in S
  <2>1. \A m \in Nat : m \in S => m + 1 \in S
    BY <1>2
  <2> HIDE DEF S
  <2> QED BY <1>1, <2>1, Induction
<1> QED BY <1>3

\* One digit changes.
LEMMA WeightedUpdate ==
  ASSUME NEW d, NEW e, NEW n \in Nat, NEW i \in 0..(n - 1),
         \A k \in 0..(n - 1) : d[k] \in Int /\ e[k] \in Int,
         \A k \in 0..(n - 1) : k # i => e[k] = d[k]
  PROVE  Weighted(e, n) = Weighted(d, n) + (e[i] - d[i]) * Pow2[i]
<1> DEFINE t == [k \in 0..(n - 1) |-> d[k] * Pow2[k]]
           u == [k \in 0..(n - 1) |-> e[k] * Pow2[k]]
<1>1. ASSUME NEW k \in 0..(n - 1)
      PROVE  t[k] \in Int /\ u[k] \in Int /\ (k # i => u[k] = t[k])
  BY Pow2Def
<1>2. SumBelow(u, n) = SumBelow(t, n) + (u[i] - t[i])
  <2> HIDE DEF t, u
  <2> QED BY <1>1, SumUpdate
<1>3. u[i] - t[i] = (e[i] - d[i]) * Pow2[i]
  <2>1. Pow2[i] \in Int /\ e[i] \in Int /\ d[i] \in Int
    BY Pow2Def
  <2> QED BY <2>1
<1> QED BY <1>2, <1>3 DEF Weighted

\* The digits from m on are worth 2^m times what they are worth on their own.
LEMMA WeightedSplits ==
  ASSUME NEW d, NEW e, NEW m \in Nat, NEW n \in Nat,
         \A k \in 0..(m - 1) : d[k] \in Int,
         \A k \in 0..(n - 1) : e[k] \in Int /\ d[m + k] = e[k]
  PROVE  Weighted(d, m + n) = Weighted(d, m) + Pow2[m] * Weighted(e, n)
<1> DEFINE S == {j \in Nat : j <= n =>
                   Weighted(d, m + j) = Weighted(d, m) + Pow2[m] * Weighted(e, j)}
<1>0. Weighted(d, m) \in Int /\ Pow2[m] \in Nat
  BY WeightedType, Pow2Def
<1>1. 0 \in S
  <2>1. Weighted(e, 0) = 0
    BY SumDef DEF Weighted
  <2> QED BY <1>0, <2>1
<1>2. ASSUME NEW j \in Nat, j \in S, j + 1 <= n
      PROVE  Weighted(d, m + (j + 1)) = Weighted(d, m) + Pow2[m] * Weighted(e, j + 1)
  <2>1. \A k \in 0..(m + j) : d[k] \in Int
    <3> SUFFICES ASSUME NEW k \in 0..(m + j), ~(k <= m - 1)
                 PROVE  d[k] \in Int
      OBVIOUS
    <3>1. k - m \in 0..(n - 1) /\ m + (k - m) = k
      BY <1>2
    <3> QED BY <3>1
  <2>2. Weighted(d, (m + j) + 1) = Weighted(d, m + j) + d[m + j] * Pow2[m + j]
    BY <2>1, WeightedStep
  <2>3. /\ Weighted(e, j + 1) = Weighted(e, j) + e[j] * Pow2[j]
        /\ Weighted(e, j) \in Int
    BY <1>2, WeightedStep
  <2>4. Pow2[m + j] = Pow2[m] * Pow2[j] /\ d[m + j] = e[j] /\ e[j] \in Int /\ Pow2[j] \in Int
    BY <1>2, Pow2Sum, Pow2Def
  <2>5. Weighted(d, m + j) = Weighted(d, m) + Pow2[m] * Weighted(e, j)
    BY <1>2
  <2>6. Pow2[m] * (Weighted(e, j) + e[j] * Pow2[j]) = Pow2[m] * Weighted(e, j) + e[j] * (Pow2[m] * Pow2[j])
    BY <1>0, <2>3, <2>4
  <2>7. m + (j + 1) = (m + j) + 1
    OBVIOUS
  <2>8. Weighted(d, (m + j) + 1) = Weighted(d, m) + (Pow2[m] * Weighted(e, j) + e[j] * (Pow2[m] * Pow2[j]))
    BY <1>0, <2>2, <2>3, <2>4, <2>5
  <2> QED BY <2>3, <2>6, <2>7, <2>8
<1>3. \A j \in Nat : j \in S
  <2>1. \A j \in Nat : j \in S => j + 1 \in S
    BY <1>2
  <2> HIDE DEF S
  <2> QED BY <1>1, <2>1, Induction
<1> QED BY <1>3

\* The same, its hypotheses under a name.
SplitsAt(d, e, m, n) ==
  /\ \A k \in 0..(m - 1) : d[k] \in Int
  /\ \A k \in 0..(n - 1) : e[k] \in Int /\ d[m + k] = e[k]

LEMMA WeightedSplitsAt ==
  ASSUME NEW d, NEW e, NEW m \in Nat, NEW n \in Nat, SplitsAt(d, e, m, n)
  PROVE  Weighted(d, m + n) = Weighted(d, m) + Pow2[m] * Weighted(e, n)
<1>1. /\ \A k \in 0..(m - 1) : d[k] \in Int
      /\ \A k \in 0..(n - 1) : e[k] \in Int /\ d[m + k] = e[k]
  BY DEF SplitsAt
<1> QED BY <1>1, WeightedSplits

\* The digits below n are worth less than 2^n, and with their complements 2^n - 1.
LEMMA WeightedBits ==
  ASSUME NEW d, NEW e, NEW n \in Nat,
         \A k \in 0..(n - 1) : d[k] \in {0, 1} /\ e[k] = 1 - d[k]
  PROVE  /\ Weighted(d, n) \in 0..(Pow2[n] - 1)
         /\ Weighted(e, n) = Pow2[n] - 1 - Weighted(d, n)
<1> DEFINE S == {m \in Nat : m <= n => /\ Weighted(d, m) \in 0..(Pow2[m] - 1)
                                      /\ Weighted(e, m) = Pow2[m] - 1 - Weighted(d, m)}
<1>1. 0 \in S
  <2>1. Weighted(d, 0) = 0 /\ Weighted(e, 0) = 0
    BY SumDef DEF Weighted
  <2> QED BY <2>1, Pow2Def
<1>2. ASSUME NEW m \in Nat, m \in S, m + 1 <= n
      PROVE  /\ Weighted(d, m + 1) \in 0..(Pow2[m + 1] - 1)
             /\ Weighted(e, m + 1) = Pow2[m + 1] - 1 - Weighted(d, m + 1)
  <2>1. /\ Weighted(d, m + 1) = Weighted(d, m) + d[m] * Pow2[m]
        /\ Weighted(e, m + 1) = Weighted(e, m) + e[m] * Pow2[m]
    <3>1. \A k \in 0..m : d[k] \in Int /\ e[k] \in Int
      BY <1>2
    <3> QED BY <3>1, WeightedStep
  <2>2. Pow2[m + 1] = 2 * Pow2[m] /\ Pow2[m] \in Nat
    BY Pow2Def
  <2>3. CASE d[m] = 0
    <3>1. e[m] = 1
      BY <1>2, <2>3
    <3> QED BY <1>2, <2>1, <2>2, <2>3, <3>1
  <2>4. CASE d[m] = 1
    <3>1. e[m] = 0
      BY <1>2, <2>4
    <3> QED BY <1>2, <2>1, <2>2, <2>4, <3>1
  <2> QED BY <1>2, <2>3, <2>4
<1>3. \A m \in Nat : m \in S
  <2>1. \A m \in Nat : m \in S => m + 1 \in S
    BY <1>2
  <2> HIDE DEF S
  <2> QED BY <1>1, <2>1, Induction
<1> QED BY <1>3

\* The bits of an integer in two's complement are worth it, but for those left out.
LEMMA BitsOfInteger ==
  ASSUME NEW v \in Int, NEW d, NEW n \in Nat,
         \A k \in 0..(n - 1) : d[k] = (v \div Pow2[k]) % 2
  PROVE  /\ \A k \in 0..(n - 1) : d[k] \in {0, 1}
         /\ Weighted(d, n) = v % Pow2[n]
<1> DEFINE S == {m \in Nat : m <= n => Weighted(d, m) = v % Pow2[m]}
<1>0. \A m \in Nat : Pow2[m] \in Nat \ {0} /\ Pow2[m + 1] = 2 * Pow2[m]
  BY Pow2Def
<1>1. ASSUME NEW k \in 0..(n - 1)
      PROVE  d[k] \in {0, 1}
  <2>1. v \div Pow2[k] \in Int
    <3>1. Pow2[k] \in Nat \ {0}
      BY <1>0
    <3> QED BY <3>1
  <2> QED BY <2>1
<1>2. 0 \in S
  <2>1. Weighted(d, 0) = 0
    BY SumDef DEF Weighted
  <2>2. v % 1 = 0
    OBVIOUS
  <2> QED BY <2>1, <2>2, Pow2Def
<1>3. ASSUME NEW m \in Nat, Weighted(d, m) = v % Pow2[m], m + 1 <= n
      PROVE  Weighted(d, m + 1) = v % Pow2[m + 1]
  <2> DEFINE p == Pow2[m]
             q == v \div p
             r == v % p
             a == q \div 2
             b == q % 2
  <2>1. p \in Nat \ {0} /\ Pow2[m + 1] = 2 * p
    BY <1>0
  <2>2. q \in Int /\ r \in 0..(p - 1) /\ v = p * q + r
    BY <2>1, Division
  <2>3. a \in Int /\ b \in {0, 1} /\ q = 2 * a + b
    BY <2>2, Division
  <2>4. Weighted(d, m + 1) = r + b * p
    <3>1. d[m] = b
      BY <1>3
    <3>2. \A k \in 0..m : d[k] \in Int
      BY <1>1, <1>3
    <3>3. Weighted(d, m + 1) = Weighted(d, m) + d[m] * p
      BY <3>2, WeightedStep
    <3> QED BY <1>3, <3>1, <3>3
  <2> HIDE DEF p, q, r, a, b
  <2>5. v = (2 * p) * a + (b * p + r)
    <3>1. p * (2 * a + b) = (2 * p) * a + b * p
      BY <2>1, <2>3
    <3> QED BY <2>1, <2>2, <2>3, <3>1
  <2>6. b * p + r \in 0..(2 * p - 1)
    BY <2>1, <2>2, <2>3
  <2>7. 2 * p \in Nat \ {0}
    BY <2>1
  <2>8. v % (2 * p) = b * p + r
    BY <2>3, <2>5, <2>6, <2>7, DivisionUnique
  <2> QED BY <2>1, <2>2, <2>3, <2>4, <2>6, <2>8
<1>4. \A m \in Nat : m \in S
  <2>1. \A m \in Nat : m \in S => m + 1 \in S
    BY <1>3
  <2> HIDE DEF S
  <2> QED BY <1>2, <2>1, Induction
<1> QED BY <1>1, <1>4

\* The digits t are zero outside of a window, the n digits e from lo on.
Window(t, lo, n, e) ==
  /\ \A k \in Nat : t[k] \in Int
  /\ \A k \in 0..(lo - 1) : t[k] = 0
  /\ \A k \in 0..(n - 1) : t[lo + k] = e[k]
  /\ \A k \in Nat : t[lo + n + k] = 0

\* They are worth e shifted by lo; those at N and above are a multiple of 2^N.
LEMMA WeightedWindow ==
  ASSUME NEW lo \in Nat, NEW n \in Nat, NEW N \in Nat, NEW t, NEW e, Window(t, lo, n, e)
  PROVE  \E q \in Int : Pow2[lo] * Weighted(e, n) = Weighted(t, N) + Pow2[N] * q
<1>1. PICK u : \A k \in Nat : u[k] = t[lo + k]
  <2> WITNESS [k \in Nat |-> t[lo + k]]
  <2> QED OBVIOUS
<1>2. PICK v : \A k \in Nat : v[k] = t[N + k]
  <2> WITNESS [k \in Nat |-> t[N + k]]
  <2> QED OBVIOUS
<1>3. PICK z : \A k \in Nat : z[k] = 0
  <2> WITNESS [k \in Nat |-> 0]
  <2> QED OBVIOUS
<1>4. \A k \in Nat : u[k] \in Int /\ v[k] \in Int /\ z[k] \in Int /\ u[n + k] = z[k]
  <2> SUFFICES ASSUME NEW k \in Nat
               PROVE  u[k] \in Int /\ v[k] \in Int /\ z[k] \in Int /\ u[n + k] = z[k]
    OBVIOUS
  <2>1. lo + k \in Nat /\ N + k \in Nat /\ n + k \in Nat /\ lo + (n + k) = lo + n + k
    OBVIOUS
  <2> QED BY <1>1, <1>2, <1>3, <2>1 DEF Window
<1>5. Weighted(t, lo + (n + N)) = Weighted(t, lo) + Pow2[lo] * Weighted(u, n + N)
  <2>1. n + N \in Nat
    OBVIOUS
  <2>2. \A k \in 0..(n + N - 1) : u[k] \in Int /\ t[lo + k] = u[k]
    BY <1>1, <1>4
  <2>3. \A k \in 0..(lo - 1) : t[k] \in Int
    BY DEF Window
  <2> QED BY <2>1, <2>2, <2>3, WeightedSplits
<1>6. Weighted(u, n + N) = Weighted(u, n) + Pow2[n] * Weighted(z, N)
  <2>1. \A k \in 0..(n - 1) : u[k] \in Int
    BY <1>4
  <2>2. \A k \in 0..(N - 1) : z[k] \in Int /\ u[n + k] = z[k]
    BY <1>4
  <2> QED BY <2>1, <2>2, WeightedSplits
<1>0. PICK w \in Nat : w = lo + n
  OBVIOUS
<1>7. Weighted(t, N + w) = Weighted(t, N) + Pow2[N] * Weighted(v, w)
  <2>2. \A k \in 0..(w - 1) : v[k] \in Int /\ t[N + k] = v[k]
    BY <1>2, <1>4
  <2>3. \A k \in 0..(N - 1) : t[k] \in Int
    BY DEF Window
  <2> QED BY <2>2, <2>3, WeightedSplits
<1>8. Weighted(t, lo) = 0
  <2>1. \A k \in 0..(lo - 1) : t[k] = 0
    BY DEF Window
  <2> QED BY <2>1, WeightedZero
<1>9. Weighted(z, N) = 0
  BY <1>3, WeightedZero
<1>10. Weighted(u, n) = Weighted(e, n) /\ Weighted(u, n) \in Int
  <2>1. \A k \in 0..(n - 1) : u[k] \in Int /\ u[k] = e[k]
    BY <1>1, <1>4 DEF Window
  <2> QED BY <2>1, WeightedEqual, WeightedType
<1>11. Weighted(v, w) \in Int
  <2>1. \A k \in 0..(w - 1) : v[k] \in Int
    BY <1>4
  <2> QED BY <2>1, WeightedType
<1>12. Pow2[lo] \in Int /\ Pow2[n] \in Int
  BY Pow2Def
<1>13. Weighted(t, lo + (n + N)) = Pow2[lo] * Weighted(e, n)
  <2>1. Weighted(u, n + N) = Weighted(e, n)
    BY <1>6, <1>9, <1>10, <1>12
  <2>2. Pow2[lo] * Weighted(e, n) \in Int
    BY <1>10, <1>12
  <2> QED BY <1>5, <1>8, <2>1, <2>2
<1>14. lo + (n + N) = N + w
  BY <1>0
<1> QED BY <1>7, <1>11, <1>13, <1>14

LEMMA SmallRemainder ==
  ASSUME NEW p \in Nat \ {0}, NEW v \in Int
  PROVE  /\ v \in 0..(p - 1) => v % p = v
         /\ v \in (-p)..(-1) => v % p = v + p
<1>1. ASSUME v \in 0..(p - 1) PROVE v % p = v
  <2>1. p * 0 + v = v /\ 0 \in Int
    OBVIOUS
  <2> QED BY <1>1, <2>1, DivisionUnique
<1>2. ASSUME v \in (-p)..(-1) PROVE v % p = v + p
  <2>1. p * (-1) + (v + p) = v /\ -1 \in Int /\ v + p \in 0..(p - 1)
    BY <1>2
  <2> QED BY <2>1, DivisionUnique
<1> QED BY <1>1, <1>2

\* The digits d are the n low bits of v.
LowBits(d, v, n) == \A k \in 0..(n - 1) : d[k] = (v \div Pow2[k]) % 2

\* Two's complement: the top bit of n bits has weight -2^(n - 1).
LEMMA SignedDigits ==
  ASSUME NEW m \in Nat, NEW v \in Int, -Pow2[m] <= v, v < Pow2[m], NEW d, LowBits(d, v, m + 1)
  PROVE  /\ Weighted(d, m) \in 0..(Pow2[m] - 1)
         /\ d[m] \in {0, 1}
         /\ v = Weighted(d, m) - d[m] * Pow2[m]
<1>1. PICK P \in Nat \ {0} : P = Pow2[m] /\ Pow2[m + 1] = 2 * P
  BY Pow2Def
<1>2. PICK n \in Nat : n = m + 1
  OBVIOUS
<1>3. (\A k \in 0..(n - 1) : d[k] \in {0, 1}) /\ Weighted(d, n) = v % Pow2[n]
  <2>1. \A k \in 0..(n - 1) : d[k] = (v \div Pow2[k]) % 2
    BY <1>2 DEF LowBits
  <2> QED BY ZenonT(40), <2>1, BitsOfInteger
<1>4. \A k \in 0..m : d[k] \in {0, 1}
  BY <1>2, <1>3
<1>5. PICK w \in 0..(P - 1) : w = Weighted(d, m)
  <2>1. PICK e : \A k \in Nat : e[k] = 1 - d[k]
    <3> WITNESS [k \in Nat |-> 1 - d[k]]
    <3> QED OBVIOUS
  <2>2. \A k \in 0..(m - 1) : d[k] \in {0, 1} /\ e[k] = 1 - d[k]
    BY <1>4, <2>1
  <2> QED BY <1>1, <2>2, WeightedBits
<1>6. Weighted(d, n) = w + d[m] * P
  <2>1. \A k \in 0..m : d[k] \in Int
    BY <1>4
  <2> QED BY <1>1, <1>2, <1>5, <2>1, WeightedStep
<1>7. PICK b \in {0, 1} : b = d[m]
  BY <1>4
<1>8. PICK Q \in Nat \ {0} : Q = 2 * P /\ Q = Pow2[n]
  BY <1>1, <1>2
<1>9. v % Q = w + b * P
  BY <1>3, <1>6, <1>7, <1>8
<1>10. v = w - b * P
  <2>1. CASE v >= 0
    <3>1. v \in 0..(Q - 1)
      BY <1>1, <1>8, <2>1
    <3>2. v % Q = v
      BY <3>1, SmallRemainder
    <3> QED BY <1>1, <1>9, <3>2, <1>5, <1>7
  <2>2. CASE v < 0
    <3>1. v \in (-Q)..(-1)
      BY <1>1, <1>8, <2>2
    <3>2. v % Q = v + Q
      BY <3>1, SmallRemainder
    <3> QED BY <1>1, <1>8, <1>9, <3>2, <1>5, <1>7
  <2> QED BY <2>1, <2>2
<1> QED BY <1>1, <1>5, <1>7, <1>10

\* Bits of a natural number that they can hold.
LEMMA UnsignedDigits ==
  ASSUME NEW n \in Nat, NEW v \in Int, 0 <= v, v < Pow2[n], NEW d, LowBits(d, v, n)
  PROVE  (\A k \in 0..(n - 1) : d[k] \in {0, 1}) /\ Weighted(d, n) = v
<1>1. (\A k \in 0..(n - 1) : d[k] \in {0, 1}) /\ Weighted(d, n) = v % Pow2[n]
  <2>1. \A k \in 0..(n - 1) : d[k] = (v \div Pow2[k]) % 2
    BY DEF LowBits
  <2> QED BY <2>1, BitsOfInteger
<1>2. Pow2[n] \in Nat \ {0}
  BY Pow2Def
<1>3. v % Pow2[n] = v
  BY <1>2, SmallRemainder
<1> QED BY <1>1, <1>3

-----------------------------------------------------------------------------
(***************************************************************************)
(* Numbers in mixed radix: digit k is below b[k] and weighs P[k].          *)
(***************************************************************************)
Radix(b, P, n) ==
  /\ n \in Nat /\ P[0] = 1
  /\ \A k \in 0..n : P[k] \in Nat \ {0}
  /\ \A k \in 0..(n - 1) : b[k] \in Nat \ {0} /\ P[k + 1] = P[k] * b[k]
MixedDigits(v, b, n) == \A k \in 0..(n - 1) : v[k] \in Nat /\ v[k] < b[k]
MixedTerms(v, P, n) == [k \in 0..(n - 1) |-> v[k] * P[k]]
Mixed(v, P, n) == SumBelow(MixedTerms(v, P, n), n)

\* The digits below m make a number below P[m].
LEMMA MixedBelow ==
  ASSUME NEW b, NEW P, NEW n, Radix(b, P, n), NEW v, MixedDigits(v, b, n)
  PROVE  \A m \in 0..n : SumBelow(MixedTerms(v, P, n), m) \in 0..(P[m] - 1)
<1>1. PICK t : t = MixedTerms(v, P, n) /\ \A k \in 0..(n - 1) : t[k] = v[k] * P[k]
  <2> WITNESS MixedTerms(v, P, n)
  <2> QED BY Zenon DEF MixedTerms
<1> DEFINE S == {m \in Nat : m <= n => SumBelow(t, m) \in 0..(P[m] - 1)}
<1>2. 0 \in S
  BY SumDef DEF Radix
<1>3. ASSUME NEW m \in Nat, m \in S
      PROVE  m + 1 \in S
  <2> SUFFICES ASSUME m + 1 <= n PROVE SumBelow(t, m + 1) \in 0..(P[m + 1] - 1)
    OBVIOUS
  <2>1. m \in 0..(n - 1) /\ m \in 0..n
    BY DEF Radix
  <2>2. PICK p \in Nat \ {0}, c \in Nat \ {0}, w \in Nat, e \in Nat :
          p = P[m] /\ c = b[m] /\ w = v[m] /\ c = w + 1 + e
    <3>1. P[m] \in Nat \ {0} /\ b[m] \in Nat \ {0} /\ v[m] \in Nat /\ v[m] < b[m]
      BY <2>1 DEF Radix, MixedDigits
    <3>2. b[m] - v[m] - 1 \in Nat /\ b[m] = v[m] + 1 + (b[m] - v[m] - 1)
      BY <3>1
    <3> QED BY <3>1, <3>2
  <2>3. PICK x \in 0..(p - 1) : x = SumBelow(t, m)
    BY <1>3, <2>1, <2>2
  <2>4. SumBelow(t, m + 1) = x + w * p
    BY <1>1, <2>1, <2>2, <2>3, SumDef
  <2>5. P[m + 1] = p * c
    BY <2>1, <2>2 DEF Radix
  <2>6. p * (w + 1 + e) = w * p + p + p * e /\ p * e \in Nat /\ w * p \in Nat
    OBVIOUS
  <2> QED BY <2>2, <2>3, <2>4, <2>5, <2>6
<1>4. \A m \in Nat : m \in S
  <2> HIDE DEF S
  <2> QED BY <1>2, <1>3, Induction
<1> QED BY <1>1, <1>4

\* A number has one representation.
LEMMA MixedInjective ==
  ASSUME NEW b, NEW P, NEW n, Radix(b, P, n),
         NEW u, MixedDigits(u, b, n), NEW v, MixedDigits(v, b, n), Mixed(u, P, n) = Mixed(v, P, n)
  PROVE  \A k \in 0..(n - 1) : u[k] = v[k]
<1>1. PICK s : s = MixedTerms(u, P, n) /\ \A k \in 0..(n - 1) : s[k] = u[k] * P[k]
  <2> WITNESS MixedTerms(u, P, n)
  <2> QED BY Zenon DEF MixedTerms
<1>2. PICK t : t = MixedTerms(v, P, n) /\ \A k \in 0..(n - 1) : t[k] = v[k] * P[k]
  <2> WITNESS MixedTerms(v, P, n)
  <2> QED BY Zenon DEF MixedTerms
<1> DEFINE S == {m \in Nat : m <= n /\ SumBelow(s, m) = SumBelow(t, m)
                               => \A k \in 0..(m - 1) : u[k] = v[k]}
<1>3. 0 \in S
  OBVIOUS
<1>4. ASSUME NEW m \in Nat, m \in S
      PROVE  m + 1 \in S
  <2> SUFFICES ASSUME m + 1 <= n, SumBelow(s, m + 1) = SumBelow(t, m + 1),
                      NEW k \in 0..m
               PROVE  u[k] = v[k]
    OBVIOUS
  <2>1. m \in 0..(n - 1) /\ m \in 0..n
    BY DEF Radix
  <2>2. PICK p \in Nat \ {0}, w \in Nat, z \in Nat : p = P[m] /\ w = u[m] /\ z = v[m]
    BY <2>1 DEF Radix, MixedDigits
  <2>3. PICK x \in 0..(p - 1) : x = SumBelow(s, m)
    BY <1>1, <2>1, <2>2, MixedBelow
  <2>4. PICK y \in 0..(p - 1) : y = SumBelow(t, m)
    BY <1>2, <2>1, <2>2, MixedBelow
  <2>5. SumBelow(s, m + 1) = x + w * p
    BY <1>1, <2>1, <2>2, <2>3, SumDef
  <2>6. SumBelow(t, m + 1) = y + z * p
    BY <1>2, <2>1, <2>2, <2>4, SumDef
  <2>7. p * w + x = p * z + y
    BY <2>5, <2>6
  <2>8. w = (p * w + x) \div p /\ x = (p * w + x) % p
    BY DivisionUnique
  <2>9. z = (p * z + y) \div p /\ y = (p * z + y) % p
    BY DivisionUnique
  <2>10. w = z /\ x = y
    <3>1. PICK a \in Nat : a = p * w + x /\ a = p * z + y
      BY <2>7
    <3>2. w = a \div p /\ x = a % p
      BY <2>8, <3>1
    <3>3. z = a \div p /\ y = a % p
      BY <2>9, <3>1
    <3> QED BY <3>2, <3>3
  <2>11. \A j \in 0..(m - 1) : u[j] = v[j]
    <3>1. m <= n /\ SumBelow(s, m) = SumBelow(t, m)
      BY <2>1, <2>3, <2>4, <2>10
    <3> QED BY <1>4, <3>1
  <2>12. CASE k = m
    BY <2>2, <2>10, <2>12
  <2>13. CASE k # m
    <3>1. k \in 0..(m - 1)
      BY <2>13
    <3> QED BY <2>11, <3>1
  <2> QED BY <2>12, <2>13
<1>5. n \in S
  <2>1. \A m \in Nat : m \in S
    <3> HIDE DEF S
    <3> QED BY <1>3, <1>4, Induction
  <2> QED BY <2>1 DEF Radix
<1> QED BY <1>1, <1>2, <1>5 DEF Mixed, Radix

\* d is c after its carries y: what overflows a digit is worth one of the next,
\* but for the last digit.
CarriedDigits(c, d, y, b, n) ==
  /\ y[0] = 0
  /\ \A k \in 0..(n - 1) : c[k] \in Nat /\ d[k] \in Nat /\ y[k] \in {0, 1}
  /\ \A k \in 0..(n - 2) : d[k] + y[k + 1] * b[k] = c[k] + y[k]
  /\ d[n - 1] = c[n - 1] + y[n - 1]

LEMMA MixedCarried ==
  ASSUME NEW b, NEW P, NEW n, Radix(b, P, n), n # 0,
         NEW c, NEW d, NEW y, CarriedDigits(c, d, y, b, n)
  PROVE  Mixed(d, P, n) = Mixed(c, P, n)
<1>1. PICK s : s = MixedTerms(c, P, n) /\ \A k \in 0..(n - 1) : s[k] = c[k] * P[k]
  <2> WITNESS MixedTerms(c, P, n)
  <2> QED BY Zenon DEF MixedTerms
<1>2. PICK t : t = MixedTerms(d, P, n) /\ \A k \in 0..(n - 1) : t[k] = d[k] * P[k]
  <2> WITNESS MixedTerms(d, P, n)
  <2> QED BY Zenon DEF MixedTerms
<1> DEFINE S == {m \in Nat : m <= n - 1 =>
                   /\ SumBelow(s, m) \in Int /\ SumBelow(t, m) \in Int
                   /\ SumBelow(t, m) + y[m] * P[m] = SumBelow(s, m)}
<1>3. 0 \in S
  BY SumDef DEF CarriedDigits, Radix
<1>4. ASSUME NEW m \in Nat, m \in S
      PROVE  m + 1 \in S
  <2> SUFFICES ASSUME m + 1 <= n - 1
               PROVE  /\ SumBelow(s, m + 1) \in Int /\ SumBelow(t, m + 1) \in Int
                      /\ SumBelow(t, m + 1) + y[m + 1] * P[m + 1] = SumBelow(s, m + 1)
    OBVIOUS
  <2>1. m \in 0..(n - 1) /\ m \in 0..n /\ m \in 0..(n - 2) /\ m + 1 \in 0..(n - 1)
    BY DEF Radix
  <2>2. PICK p \in Nat, a \in Nat, cm \in Nat, dm \in Nat, ym \in Nat, z \in Nat :
          /\ p = P[m] /\ a = b[m] /\ cm = c[m] /\ dm = d[m] /\ ym = y[m] /\ z = y[m + 1]
          /\ dm + z * a = cm + ym /\ P[m + 1] = p * a
    <3>1. P[m] \in Nat /\ b[m] \in Nat /\ P[m + 1] = P[m] * b[m]
      BY <2>1 DEF Radix
    <3>2. /\ c[m] \in Nat /\ d[m] \in Nat /\ y[m] \in Nat /\ y[m + 1] \in Nat
          /\ d[m] + y[m + 1] * b[m] = c[m] + y[m]
      BY <2>1 DEF CarriedDigits
    <3> QED BY <3>1, <3>2
  <2>3. PICK e \in Int, f \in Int : e = SumBelow(s, m) /\ f = SumBelow(t, m) /\ f + ym * p = e
    BY <1>4, <2>1, <2>2
  <2>4. SumBelow(s, m + 1) = e + cm * p
    BY <1>1, <2>1, <2>2, <2>3, SumDef
  <2>5. SumBelow(t, m + 1) = f + dm * p
    BY <1>2, <2>1, <2>2, <2>3, SumDef
  <2>6. (dm + z * a) * p = dm * p + z * (p * a) /\ (cm + ym) * p = cm * p + ym * p
    OBVIOUS
  <2>7. dm * p + z * (p * a) = cm * p + ym * p
    BY <2>2, <2>6
  <2>8. cm * p \in Int /\ dm * p \in Int /\ z * (p * a) \in Int /\ ym * p \in Int
    OBVIOUS
  <2>9. f + dm * p + z * (p * a) = e + cm * p
    BY <2>3, <2>7, <2>8
  <2> QED BY <2>2, <2>4, <2>5, <2>8, <2>9
<1>5. PICK m \in Nat : m = n - 1 /\ n = m + 1 /\ m \in 0..(n - 1) /\ m \in 0..n
  BY DEF Radix
<1>6. m \in S
  <2>1. \A k \in Nat : k \in S
    <3> HIDE DEF S
    <3> QED BY <1>3, <1>4, Induction
  <2> QED BY <2>1
<1>7. PICK p \in Nat, cm \in Nat, dm \in Nat, ym \in Nat :
        p = P[m] /\ cm = c[m] /\ dm = d[m] /\ ym = y[m] /\ dm = cm + ym
  BY <1>5 DEF Radix, CarriedDigits
<1>8. PICK e \in Int, f \in Int : e = SumBelow(s, m) /\ f = SumBelow(t, m) /\ f + ym * p = e
  BY <1>5, <1>6, <1>7
<1>9. SumBelow(s, m + 1) = e + cm * p /\ SumBelow(t, m + 1) = f + dm * p
  BY <1>1, <1>2, <1>5, <1>7, <1>8, SumDef
<1>10. (cm + ym) * p = cm * p + ym * p
  OBVIOUS
<1> QED BY <1>1, <1>2, <1>5, <1>7, <1>8, <1>9, <1>10 DEF Mixed
=============================================================================
