--------------------------- MODULE DatapathProofs ---------------------------
(***************************************************************************)
(* Proofs about the combinational operators, for every size: the           *)
(* floating-point multiplier, the shifters, the normalizer and the         *)
(* counters of leading digits.                                             *)
(***************************************************************************)
EXTENDS ArithmeticProofs

-----------------------------------------------------------------------------
(***************************************************************************)
(* The multiplier.                                                         *)
(***************************************************************************)
\* A product of two significands has one more bit or not, and then q of the units
\* of the last place and a rest s.
Normalised(n, w, m, q, s) ==
  /\ q \in w..(2 * w - 1)
  /\ m = 0 => n = w * q + s /\ s \in 0..(w - 1) /\ w * w <= n /\ n < 2 * (w * w)
  /\ m = 1 => /\ n = (2 * w) * q + s /\ s \in 0..(2 * w - 1) /\ 2 * (w * w) <= n /\ n < 4 * (w * w)
              /\ q <= 2 * w - 2

\* Such a product has them.
LEMMA SignificandsProduct ==
  ASSUME NEW w \in Nat \ {0}, NEW a \in w..(2 * w - 1), NEW b \in w..(2 * w - 1), NEW n, n = a * b
  PROVE  n \in Nat /\ \E m \in 0..1, q \in Nat, s \in Nat : Normalised(n, w, m, q, s)
<1>1. PICK W \in Nat \ {0}, N \in Nat : W = w * w /\ N = n
  <2>1. a * b \in Nat
    OBVIOUS
  <2>2. w * w \in Nat \ {0}
    OBVIOUS
  <2> QED BY <2>1, <2>2
<1>2. W <= N /\ N <= (4 * W - 4 * w) + 1
  <2>1. w * w <= a * w /\ a * w <= a * b
    OBVIOUS
  <2>2. a * b <= a * (2 * w - 1) /\ a * (2 * w - 1) <= (2 * w - 1) * (2 * w - 1)
    OBVIOUS
  <2>3. (2 * w - 1) * (2 * w - 1) = (4 * (w * w) - 4 * w) + 1
    OBVIOUS
  <2>4. PICK c \in Int, e \in Int, g \in Int : c = a * w /\ e = a * b /\ g = a * (2 * w - 1)
    OBVIOUS
  <2>5. W <= c /\ c <= e /\ e <= g /\ g <= (4 * W - 4 * w) + 1
    BY Zenon, <1>1, <2>1, <2>2, <2>3, <2>4
  <2>6. N = e
    BY Zenon, <1>1, <2>4
  <2> QED BY <2>5, <2>6
<1>3. CASE N < 2 * W
  <2>1. PICK q \in Nat, s \in 0..(w - 1) : N = w * q + s
    <3>1. \E q \in Nat, r \in 0..(w - 1) : N = w * q + r /\ q = N \div w /\ r = N % w /\ r <= N /\ w * q <= N
      BY ZenonT(60), NaturalDivision
    <3> QED BY Zenon, <3>1
  <2>2. PICK z \in Int : z = w * q
    OBVIOUS
  <2>3. w <= q
    <3>1. CASE q <= w - 1
      <4>1. w * q <= w * (w - 1) /\ w * (w - 1) = w * w - w
        BY <3>1, ProductOrder
      <4> QED BY <1>1, <1>2, <2>1, <4>1
    <3> QED BY <3>1
  <2>4. q < 2 * w
    <3>1. w * q < w * (2 * w)
      <4>1. w * (2 * w) = 2 * (w * w)
        OBVIOUS
      <4>2. z < 2 * W
        BY <1>3, <2>1, <2>2
      <4> QED BY Zenon, <1>1, <2>2, <4>1, <4>2
    <3>2. 2 * w \in Int
      OBVIOUS
    <3> QED BY <3>1, <3>2, ProductOrder
  <2>5. q \in w..(2 * w - 1) /\ 0 # 1
    BY <2>3, <2>4
  <2>6. Normalised(n, w, 0, q, s)
    BY Zenon, <1>1, <1>2, <1>3, <2>1, <2>5 DEF Normalised
  <2>7. s \in Nat /\ 0 \in 0..1
    OBVIOUS
  <2> QED BY Zenon, <1>1, <2>6, <2>7
<1>4. CASE 2 * W <= N
  <2>1. PICK v \in Nat \ {0} : v = 2 * w
    OBVIOUS
  <2>2. PICK q \in Nat, s \in 0..(v - 1) : N = v * q + s /\ q = N \div v
    <3>1. \E q \in Nat, r \in 0..(v - 1) : N = v * q + r /\ q = N \div v /\ r = N % v /\ r <= N /\ v * q <= N
      BY ZenonT(60), NaturalDivision
    <3> QED BY Zenon, <3>1
  <2>3. PICK z \in Int : z = w * q
    OBVIOUS
  <2>4. N = 2 * z + s
    <3>1. (2 * w) * q = 2 * (w * q)
      OBVIOUS
    <3> QED BY Zenon, <2>1, <2>2, <2>3, <3>1
  <2>5. w <= q
    <3>1. CASE q <= w - 1
      <4>1. w * q <= w * (w - 1) /\ w * (w - 1) = w * w - w
        BY <3>1, ProductOrder
      <4>2. z <= W - w
        BY Zenon, <1>1, <2>3, <4>1
      <4> QED BY <1>4, <2>1, <2>4, <4>2
    <3> QED BY <3>1
  <2>6. q <= 2 * w - 2
    <3>1. CASE q >= 2 * w - 1
      <4>1. w * (2 * w - 1) <= w * q /\ w * (2 * w - 1) = 2 * (w * w) - w
        BY <3>1, ProductOrder
      <4>2. 2 * W - w <= z
        BY Zenon, <1>1, <2>3, <4>1
      <4> QED BY <1>2, <2>4, <4>2
    <3> QED BY <3>1
  <2>7. q \in w..(2 * w - 1) /\ 0 # 1
    BY <2>5, <2>6
  <2>8. N < 4 * W
    BY <1>2
  <2>9. Normalised(n, w, 1, q, s)
    BY Zenon, <1>1, <1>4, <2>1, <2>2, <2>6, <2>7, <2>8 DEF Normalised
  <2>10. s \in Nat /\ 1 \in 0..1
    OBVIOUS
  <2> QED BY Zenon, <1>1, <2>9, <2>10
<1> QED BY <1>3, <1>4

\* What the multiplier sees of the product: its leading bit, the fraction behind the
\* leading one, and the bit that rounds it.
MultExt(f, n, m) == IF m = 1 THEN Bits(n, 2 * f.wF, 0) * 2 ELSE Bits(n, 2 * f.wF - 1, 0) * 4
MultSees(f, n, m, frac, u) ==
  /\ BitOf(n, 2 * f.wF + 1) = m
  /\ Bits(MultExt(f, n, m), 2 * f.wF + 1, f.wF + 2) = frac
  /\ MultRound(f, TRUE, MultExt(f, n, m)) = u

\* It sees those that round the product.
LEMMA MultBits ==
  ASSUME NEW f, NumberFormat(f), NEW w, w = Pow2[f.wF], NEW n \in Nat, NEW m \in 0..1, NEW q \in Nat,
         NEW s \in Nat, Normalised(n, w, m, q, s),
         NEW u \in 0..1, NearestUp(q, s, IF m = 1 THEN 2 * w ELSE w, u)
  PROVE  MultSees(f, n, m, q - w, u)
<1>1. PICK F \in Nat : F = f.wF /\ F + 1 = f.wF + 1 /\ F + 2 = f.wF + 2
  BY DEF NumberFormat
<1>2. PICK h \in Nat \ {0} : w = 2 * h
  <2>1. PICK G \in Nat : F = G + 1
    <3>1. F - 1 \in Nat /\ F = (F - 1) + 1
      BY <1>1 DEF NumberFormat
    <3> QED BY <3>1
  <2>2. Pow2[G + 1] = 2 * Pow2[G] /\ Pow2[G] \in Nat \ {0}
    BY Pow2Def
  <2> QED BY Zenon, <1>1, <2>1, <2>2
<1>3. w \in Nat \ {0}
  BY <1>2
<1>4. PICK W \in Nat \ {0} : W = w * w
  BY <1>3
<1>5. /\ Pow2[F + 1] = 2 * w /\ Pow2[F + 2] = 4 * w /\ Pow2[2 * F] = W
      /\ Pow2[2 * F + 1] = 2 * W /\ Pow2[2 * F + 2] = 4 * W /\ Pow2[0] = 1
  <2>1. F + 1 \in Nat /\ F + 2 = (F + 1) + 1 /\ 2 * F = F + F /\ F + F \in Nat /\ 2 * F \in Nat
        /\ 2 * F + 1 \in Nat /\ 2 * F + 2 = (2 * F + 1) + 1
    OBVIOUS
  <2>2. Pow2[F + F] = Pow2[F] * Pow2[F]
    BY Pow2Sum
  <2>3. Pow2[F + 1] = 2 * Pow2[F] /\ Pow2[(F + 1) + 1] = 2 * Pow2[F + 1] /\ Pow2[0] = 1
    BY Zenon, <2>1, Pow2Def
  <2>4. Pow2[2 * F + 1] = 2 * Pow2[2 * F] /\ Pow2[(2 * F + 1) + 1] = 2 * Pow2[2 * F + 1]
    BY Zenon, <2>1, Pow2Def
  <2>5. 2 * (2 * w) = 4 * w /\ 2 * (2 * W) = 4 * W
    BY <1>3
  <2> QED BY Zenon, <1>1, <1>4, <2>1, <2>2, <2>3, <2>4, <2>5
<1>6. PICK e \in 0..(w - 1) : e = q - w /\ e % 2 = q % 2
  <2>1. q \in w..(2 * w - 1)
    BY Zenon DEF Normalised
  <2>2. q - w \in 0..(w - 1)
    BY <1>3, <2>1
  <2>3. (q - w) % 2 = q % 2
    BY <1>2
  <2> QED BY <2>2, <2>3
\* The bits below the leading one, moved to the left end.
<1>7. PICK t \in 0..(4 * w - 1) : /\ MultExt(f, n, m) = (4 * w) * e + t
                                  /\ BitOf(n, 2 * f.wF + 1) = m
                                  /\ u = 1 <=> t > 2 * w \/ (t = 2 * w /\ q % 2 = 1)
  <2>1. CASE m = 0
    <3>1. n = w * q + s /\ s \in 0..(w - 1) /\ W <= n /\ n < 2 * W
      BY Zenon, <1>4, <2>1 DEF Normalised
    <3>2. w * q = w * w + w * e
      <4>1. q = w + e
        BY <1>6, <1>3
      <4>2. w * (w + e) = w * w + w * e
        BY <1>3
      <4> QED BY Zenon, <4>1, <4>2
    <3>3. PICK z \in Int : z = w * e
      BY <1>3
    <3>4. n = W + (z + s) /\ z + s \in 0..(W - 1)
      <4>1. n = (W + z) + s
        BY Zenon, <1>4, <3>1, <3>2, <3>3
      <4> QED BY <3>1, <4>1
    <3>5. (W * 1 + (z + s)) % W = z + s
      <4>1. 1 \in Int
        OBVIOUS
      <4> QED BY ZenonT(40), <3>4, <4>1, DivisionUnique
    <3>6. Bits(n, 2 * f.wF - 1, 0) = z + s
      <4>1. 2 * f.wF - 1 = (0 + 2 * F) - 1 /\ 0 \in Nat /\ 2 * F \in Nat /\ n \in Int /\ n \div 1 = n
        BY <1>1
      <4>2. Bits(n, (0 + 2 * F) - 1, 0) = (n \div Pow2[0]) % Pow2[2 * F]
        BY ZenonT(40), <4>1, BitsDef
      <4>3. n = W * 1 + (z + s)
        BY <3>4
      <4> QED BY Zenon, <1>5, <3>5, <4>1, <4>2, <4>3
    <3>7. MultExt(f, n, m) = (4 * w) * e + 4 * s
      <4>1. MultExt(f, n, m) = (z + s) * 4
        <5>1. m # 1
          BY <2>1
        <5> QED BY Zenon, <3>6, <5>1 DEF MultExt
      <4>2. (4 * w) * e = 4 * (w * e)
        BY <1>3
      <4>3. (z + s) * 4 = 4 * z + 4 * s
        BY <3>1
      <4> QED BY Zenon, <3>3, <4>1, <4>2, <4>3
    <3>8. BitOf(n, 2 * f.wF + 1) = m
      <4>1. ((2 * W) * 0 + n) \div (2 * W) = 0
        <5>1. 2 * W \in Nat \ {0} /\ 0 \in Int /\ n \in 0..(2 * W - 1)
          BY <3>1
        <5> QED BY ZenonT(40), <5>1, DivisionUnique
      <4>2. (2 * W) * 0 + n = n /\ 0 % 2 = 0 /\ 2 * f.wF + 1 = 2 * F + 1
        BY <1>1
      <4> QED BY Zenon, <1>5, <2>1, <4>1, <4>2 DEF BitOf
    <3>9. u = 1 <=> 2 * s > w \/ (2 * s = w /\ q % 2 = 1)
      <4>1. m # 1
        BY <2>1
      <4> QED BY Zenon, <4>1 DEF NearestUp
    <3>10. 4 * s \in 0..(4 * w - 1)
      BY <1>3, <3>1
    <3>11. (2 * s > w <=> 4 * s > 2 * w) /\ (2 * s = w <=> 4 * s = 2 * w)
      BY <1>3, <3>1
    <3> QED BY Zenon, <3>7, <3>8, <3>9, <3>10, <3>11
  <2>2. CASE m = 1
    <3>1. n = (2 * w) * q + s /\ s \in 0..(2 * w - 1) /\ 2 * W <= n /\ n < 4 * W
      BY Zenon, <1>4, <2>2 DEF Normalised
    <3>2. (2 * w) * q = 2 * (w * w) + 2 * (w * e)
      <4>1. q = w + e
        BY <1>6, <1>3
      <4>2. (2 * w) * (w + e) = 2 * (w * w) + 2 * (w * e)
        BY <1>3
      <4> QED BY Zenon, <4>1, <4>2
    <3>3. PICK z \in Int : z = w * e
      BY <1>3
    <3>4. n = 2 * W + (2 * z + s) /\ 2 * z + s \in 0..(2 * W - 1)
      <4>1. n = (2 * W + 2 * z) + s
        BY Zenon, <1>4, <3>1, <3>2, <3>3
      <4> QED BY <3>1, <4>1
    <3>5. ((2 * W) * 1 + (2 * z + s)) % (2 * W) = 2 * z + s /\ ((2 * W) * 1 + (2 * z + s)) \div (2 * W) = 1
      <4>1. 1 \in Int /\ 2 * W \in Nat \ {0}
        OBVIOUS
      <4> QED BY ZenonT(40), <3>4, <4>1, DivisionUnique
    <3>6. n = (2 * W) * 1 + (2 * z + s)
      BY <3>4
    <3>7. Bits(n, 2 * f.wF, 0) = 2 * z + s
      <4>1. 2 * f.wF = (0 + (2 * F + 1)) - 1 /\ 0 \in Nat /\ 2 * F + 1 \in Nat /\ n \in Int /\ n \div 1 = n
        BY <1>1
      <4>2. Bits(n, (0 + (2 * F + 1)) - 1, 0) = (n \div Pow2[0]) % Pow2[2 * F + 1]
        BY ZenonT(40), <4>1, BitsDef
      <4> QED BY Zenon, <1>5, <3>5, <3>6, <4>1, <4>2
    <3>8. MultExt(f, n, m) = (4 * w) * e + 2 * s
      <4>1. MultExt(f, n, m) = (2 * z + s) * 2
        BY Zenon, <2>2, <3>7 DEF MultExt
      <4>2. (4 * w) * e = 4 * (w * e)
        BY <1>3
      <4>3. (2 * z + s) * 2 = 4 * z + 2 * s
        BY <3>1
      <4> QED BY Zenon, <3>3, <4>1, <4>2, <4>3
    <3>9. BitOf(n, 2 * f.wF + 1) = m
      <4>1. 2 * f.wF + 1 = 2 * F + 1 /\ 1 % 2 = 1
        BY <1>1
      <4> QED BY Zenon, <1>5, <2>2, <3>5, <3>6, <4>1 DEF BitOf
    <3>10. u = 1 <=> 2 * s > 2 * w \/ (2 * s = 2 * w /\ q % 2 = 1)
      BY Zenon, <2>2 DEF NearestUp
    <3>11. 2 * s \in 0..(4 * w - 1)
      BY <1>3, <3>1
    <3> QED BY Zenon, <3>8, <3>9, <3>10, <3>11
  <2> QED BY <2>1, <2>2
<1>8. PICK ext \in Nat : ext = (4 * w) * e + t
  <2>1. (4 * w) * e \in Nat
    BY <1>3
  <2>2. (4 * w) * e + t \in Nat
    BY <2>1
  <2> QED BY <2>2
<1>9. ext \div (4 * w) = e
  <2>1. 4 * w \in Nat \ {0} /\ e \in Int
    BY <1>3
  <2>2. ((4 * w) * e + t) \div (4 * w) = e
    BY ZenonT(40), <2>1, DivisionUnique
  <2> QED BY Zenon, <1>8, <2>2
<1>10. Bits(ext, 2 * f.wF + 1, f.wF + 2) = e
  <2>1. 2 * f.wF + 1 = ((F + 2) + F) - 1 /\ F + 2 \in Nat /\ ext \in Int
    BY <1>1
  <2>2. Bits(ext, ((F + 2) + F) - 1, F + 2) = (ext \div Pow2[F + 2]) % Pow2[F]
    BY ZenonT(40), <2>1, BitsDef
  <2>3. e % w = e
    BY <1>3, SmallRemainder
  <2> QED BY Zenon, <1>1, <1>5, <1>9, <2>1, <2>2, <2>3
<1>11. PICK b \in 0..1, l \in 0..(2 * w - 1) : t = (2 * w) * b + l
  <2>1. CASE t < 2 * w
    <3>1. t = (2 * w) * 0 + t /\ t \in 0..(2 * w - 1) /\ 0 \in 0..1
      BY <1>3, <2>1
    <3> QED BY <3>1
  <2>2. CASE 2 * w <= t
    <3>1. t = (2 * w) * 1 + (t - 2 * w) /\ t - 2 * w \in 0..(2 * w - 1) /\ 1 \in 0..1
      BY <1>3, <2>2
    <3> QED BY <3>1
  <2> QED BY <1>3, <2>1, <2>2
<1>12. ext = (2 * w) * (2 * e + b) + l
  <2>1. (2 * w) * (2 * e + b) = (4 * w) * e + (2 * w) * b
    BY <1>3
  <2>2. PICK y \in Int, z \in Int : y = (4 * w) * e /\ z = (2 * w) * b
    BY <1>3
  <2>3. ext = y + (z + l)
    BY Zenon, <1>8, <1>11, <2>2
  <2>4. ext = (y + z) + l
    BY <2>3
  <2> QED BY Zenon, <2>1, <2>2, <2>4
<1>13. ext \div (2 * w) = 2 * e + b /\ ext % (2 * w) = l
  <2>1. 2 * w \in Nat \ {0} /\ 2 * e + b \in Int
    BY <1>3
  <2>2. ((2 * w) * (2 * e + b) + l) \div (2 * w) = 2 * e + b /\ ((2 * w) * (2 * e + b) + l) % (2 * w) = l
    BY ZenonT(40), <2>1, DivisionUnique
  <2> QED BY Zenon, <1>12, <2>2
<1>14. BitOf(ext, f.wF + 1) = b
  <2>1. (2 * e + b) % 2 = b
    OBVIOUS
  <2> QED BY Zenon, <1>1, <1>5, <1>13, <2>1 DEF BitOf
<1>15. BitOf(ext, f.wF + 2) = q % 2
  BY Zenon, <1>1, <1>5, <1>6, <1>9 DEF BitOf
<1>16. Bits(ext, f.wF, 0) = l
  <2>1. f.wF = (0 + (F + 1)) - 1 /\ 0 \in Nat /\ F + 1 \in Nat /\ ext \in Int /\ ext \div 1 = ext
    BY <1>1
  <2>2. Bits(ext, (0 + (F + 1)) - 1, 0) = (ext \div Pow2[0]) % Pow2[F + 1]
    BY ZenonT(40), <2>1, BitsDef
  <2> QED BY Zenon, <1>5, <1>13, <2>1, <2>2
<1>17. u = 1 <=> b = 1 /\ (l # 0 \/ q % 2 = 1)
  <2>1. CASE b = 0
    <3>1. t = l
      BY <1>3, <1>11, <2>1
    <3> QED BY <1>3, <1>7, <2>1, <3>1
  <2>2. CASE b = 1
    <3>1. t = 2 * w + l
      BY <1>3, <1>11, <2>2
    <3> QED BY <1>3, <1>7, <2>2, <3>1
  <2> QED BY <2>1, <2>2
<1>18. MultRound(f, TRUE, ext) = u
  <2>1. u # 1 => u = 0
    OBVIOUS
  <2> QED BY Zenon, <1>14, <1>15, <1>16, <1>17, <2>1 DEF MultRound, Flag
<1> QED BY Zenon, <1>6, <1>7, <1>8, <1>10, <1>18 DEF MultSees

\* The reference rounds the same fraction of the same significand.
LEMMA ReferenceProduct ==
  ASSUME NEW f, NumberFormat(f), NEW w, w = Pow2[f.wF], NEW n \in Nat, NEW m \in 0..1, NEW q \in Nat,
         NEW s \in Nat, Normalised(n, w, m, q, s),
         NEW u \in 0..1, NearestUp(q, s, IF m = 1 THEN 2 * w ELSE w, u), NEW e \in Int, NEW sign
  PROVE  RoundsTo(f, sign, n, Pow2[2 * f.wF], e, m, q, u)
<1>1. PICK F \in Nat \ {0} : F = f.wF /\ 2 * F = 2 * f.wF
  BY DEF NumberFormat
<1>2. w \in Nat \ {0}
  BY <1>1, Pow2Def
<1>3. PICK W \in Nat \ {0} : W = w * w
  BY <1>2
<1>4. 2 * F \in Nat /\ Pow2[2 * F] = W /\ Pow2[2 * F + 1] = 2 * W /\ Pow2[(2 * F + 1) + 1] = 4 * W
  <2>1. 2 * F = F + F /\ F \in Nat /\ 2 * F \in Nat /\ 2 * F + 1 \in Nat
    OBVIOUS
  <2>2. Pow2[F + F] = Pow2[F] * Pow2[F]
    BY ZenonT(40), <2>1, Pow2Sum
  <2>3. Pow2[2 * F + 1] = 2 * Pow2[2 * F] /\ Pow2[(2 * F + 1) + 1] = 2 * Pow2[2 * F + 1]
    BY Zenon, <2>1, Pow2Def
  <2>4. 2 * (2 * W) = 4 * W
    OBVIOUS
  <2> QED BY Zenon, <1>1, <1>3, <2>1, <2>2, <2>3, <2>4
<1>5. Pow2[0] = 1 /\ Pow2[1] = 2
  <2>1. Pow2[0 + 1] = 2 * Pow2[0] /\ Pow2[0] = 1
    BY Pow2Def
  <2> QED BY <2>1
<1>6. Magnitude(n, W) = m
  <2>1. W \in Nat /\ Pow2[2 * F] <= W /\ W < Pow2[2 * F + 1]
    BY <1>4
  <2>2. Pow2[2 * F + m] <= n /\ n < Pow2[(2 * F + m) + 1] /\ ~(n < W * Pow2[m])
    <3>1. CASE m = 0
      <4>1. W <= n /\ n < 2 * W
        BY Zenon, <1>3, <3>1 DEF Normalised
      <4>2. 2 * F + m = 2 * F /\ W * 1 = W
        BY <3>1
      <4>3. ~(n < W)
        BY <4>1
      <4> QED BY Zenon, <1>4, <1>5, <3>1, <4>1, <4>2, <4>3
    <3>2. CASE m = 1
      <4>1. 2 * W <= n /\ n < 4 * W
        BY Zenon, <1>3, <3>2 DEF Normalised
      <4>2. ~(n < W * 2)
        BY <4>1
      <4> QED BY Zenon, <1>4, <1>5, <3>2, <4>1, <4>2
    <3> QED BY <3>1, <3>2
  <2>3. MagnitudeFrom(n, W, m)
    <3>1. m \in Nat
      OBVIOUS
    <3> QED BY ZenonT(40), <1>4, <2>1, <2>2, <3>1, MagnitudeIs
  <2> QED BY Zenon, <2>2, <2>3 DEF MagnitudeFrom
<1>7. PICK k \in Nat : k = f.wF - m
  BY <1>1
<1>8. PICK h \in Nat \ {0} : h = Pow2[k] /\ (m = 0 => h = w) /\ (m = 1 => w = 2 * h)
  <2>1. CASE m = 0
    <3>1. k = F
      BY <1>1, <1>7, <2>1
    <3>2. Pow2[k] = w
      BY Zenon, <1>1, <3>1
    <3>3. 0 # 1
      OBVIOUS
    <3> QED BY Zenon, <1>2, <2>1, <3>2, <3>3
  <2>2. CASE m = 1
    <3>1. F = k + 1
      BY <1>1, <1>7, <2>2
    <3>2. Pow2[k + 1] = 2 * Pow2[k] /\ Pow2[k] \in Nat \ {0} /\ 0 # 1
      BY Pow2Def
    <3> QED BY Zenon, <1>1, <2>2, <3>1, <3>2
  <2> QED BY <2>1, <2>2
<1>9. PICK r \in 0..(W - 1) : n * h = W * q + r /\ NearestUp(q, r, W, u)
  <2>1. CASE m = 0
    <3>1. n = w * q + s /\ s \in 0..(w - 1) /\ h = w
      BY Zenon, <1>8, <2>1 DEF Normalised
    <3>2. PICK r \in Int : r = w * s
      BY <1>2
    <3>3. r \in 0..(W - 1)
      <4>1. w * s <= w * (w - 1) /\ w * (w - 1) = w * w - w /\ w * s >= 0
        BY <1>2, <3>1
      <4>2. r <= W - w /\ r >= 0
        BY Zenon, <1>3, <3>2, <4>1
      <4> QED BY <1>2, <4>2
    <3>4. n * h = W * q + r
      <4>1. (w * q + s) * w = (w * w) * q + w * s
        BY <1>2
      <4> QED BY Zenon, <1>3, <3>1, <3>2, <4>1
    <3>5. (2 * r > W <=> 2 * s > w) /\ (2 * r = W <=> 2 * s = w)
      <4>1. w * (2 * s) = 2 * (w * s)
        BY <1>2
      <4>2. (w * w < w * (2 * s) <=> w < 2 * s) /\ (w * w = w * (2 * s) <=> w = 2 * s)
        <5>1. PICK k2 \in Int, s2 \in Int : k2 = w /\ s2 = 2 * s
          BY <1>2
        <5>2. (w * k2 < w * s2 <=> k2 < s2) /\ (w * k2 = w * s2 <=> k2 = s2)
          BY ZenonT(60), <1>2, SameOrder
        <5> QED BY Zenon, <5>1, <5>2
      <4>3. (W < 2 * r <=> w < 2 * s) /\ (W = 2 * r <=> w = 2 * s)
        BY Zenon, <1>3, <3>2, <4>1, <4>2
      <4> QED BY <1>2, <4>3
    <3>6. u = 1 <=> 2 * s > w \/ (2 * s = w /\ q % 2 = 1)
      <4>1. m # 1
        BY <2>1
      <4> QED BY Zenon, <4>1 DEF NearestUp
    <3>7. NearestUp(q, r, W, u)
      BY Zenon, <3>5, <3>6 DEF NearestUp
    <3> QED BY Zenon, <3>3, <3>4, <3>7
  <2>2. CASE m = 1
    <3>1. n = (2 * w) * q + s /\ s \in 0..(2 * w - 1) /\ w = 2 * h
      BY Zenon, <1>8, <2>2 DEF Normalised
    <3>2. PICK r \in Int : r = h * s
      OBVIOUS
    <3>3. PICK H \in Int : H = h * h
      OBVIOUS
    <3>4. W = 4 * H
      <4>1. (2 * h) * (2 * h) = 4 * (h * h)
        OBVIOUS
      <4> QED BY Zenon, <1>3, <3>1, <3>3, <4>1
    <3>5. r \in 0..(W - 1)
      <4>1. s <= 4 * h - 1 /\ s >= 0
        BY <3>1
      <4>2. h * s <= h * (4 * h - 1) /\ h * (4 * h - 1) = 4 * (h * h) - h /\ h * s >= 0
        BY <4>1
      <4>3. r <= 4 * H - h /\ r >= 0
        BY Zenon, <3>2, <3>3, <4>2
      <4> QED BY <3>4, <4>3
    <3>6. n * h = W * q + r
      <4>1. ((2 * (2 * h)) * q + s) * h = (4 * (h * h)) * q + h * s
        OBVIOUS
      <4> QED BY Zenon, <3>1, <3>2, <3>3, <3>4, <4>1
    <3>7. (2 * r > W <=> 2 * s > 2 * w) /\ (2 * r = W <=> 2 * s = 2 * w)
      <4>1. (h * (2 * h) < h * s <=> 2 * h < s) /\ (h * (2 * h) = h * s <=> 2 * h = s)
        <5>1. PICK k2 \in Int, s2 \in Int : k2 = 2 * h /\ s2 = s
          OBVIOUS
        <5>2. (h * k2 < h * s2 <=> k2 < s2) /\ (h * k2 = h * s2 <=> k2 = s2)
          BY ZenonT(60), SameOrder
        <5> QED BY Zenon, <5>1, <5>2
      <4>2. h * (2 * h) = 2 * (h * h)
        OBVIOUS
      <4>3. (2 * H < r <=> 2 * h < s) /\ (2 * H = r <=> 2 * h = s)
        BY Zenon, <3>2, <3>3, <4>1, <4>2
      <4> QED BY <3>1, <3>4, <4>3
    <3>8. u = 1 <=> 2 * s > 2 * w \/ (2 * s = 2 * w /\ q % 2 = 1)
      BY Zenon, <2>2 DEF NearestUp
    <3>9. NearestUp(q, r, W, u)
      BY Zenon, <3>7, <3>8 DEF NearestUp
    <3> QED BY Zenon, <3>5, <3>6, <3>9
  <2> QED BY <2>1, <2>2
<1>10. m \in Int /\ f.wF - m = k /\ n * Pow2[k] = W * q + r /\ NearestUp(q, r, W, u)
  BY Zenon, <1>7, <1>8, <1>9, DigitType
<1>11. RoundsTo(f, sign, n, W, e, m, q, u)
  BY ZenonT(60), <1>6, <1>10, RoundedIs
<1> QED BY Zenon, <1>1, <1>4, <1>11

\* Two normal numbers are multiplied as the reference does.
LEMMA NormalProduct ==
  ASSUME NEW f, NumberFormat(f), NEW x \in Numbers(f), NEW y \in Numbers(f),
         Exn(f, x) = NormalExn, Exn(f, y) = NormalExn
  PROVE  FPEqual(f, FPMult(f, TRUE, Significand(f, x) * Significand(f, y), x, y), Product(f, x, y))
<1>1. PICK w \in Nat \ {0}, G \in Nat \ {0}, ex \in Nat, fx \in Nat : FieldsOf(f, x, w, G, ex, fx)
  BY ZenonT(40), NumberFields
<1>2. PICK wy \in Nat \ {0}, gy \in Nat \ {0}, ey \in Nat, fy \in Nat : FieldsOf(f, y, wy, gy, ey, fy)
  BY ZenonT(40), NumberFields
<1>3. /\ Pow2[f.wF] = w /\ Pow2[f.wE] = G
      /\ Exponent(f, x) = ex /\ ex \in 0..(G - 1) /\ Significand(f, x) = w + fx /\ fx \in 0..(w - 1)
      /\ Sign(f, x) \in 0..1
  BY Zenon, <1>1 DEF FieldsOf
<1>4. /\ Pow2[f.wF] = wy /\ Pow2[f.wE] = gy
      /\ Exponent(f, y) = ey /\ ey \in 0..(gy - 1) /\ Significand(f, y) = wy + fy /\ fy \in 0..(wy - 1)
      /\ Sign(f, y) \in 0..1
  BY Zenon, <1>2 DEF FieldsOf
<1>5. Exponent(f, y) = ey /\ ey \in 0..(G - 1) /\ Significand(f, y) = w + fy /\ fy \in 0..(w - 1)
  BY Zenon, <1>3, <1>4
<1>6. PICK a \in w..(2 * w - 1), b \in w..(2 * w - 1) : a = Significand(f, x) /\ b = Significand(f, y)
  BY <1>3, <1>5
<1>7. PICK n \in Nat : n = a * b
  OBVIOUS
<1>8. PICK m \in 0..1, q \in Nat, s \in Nat : Normalised(n, w, m, q, s)
  BY ZenonT(40), <1>7, SignificandsProduct
<1>9. PICK u \in 0..1 : NearestUp(q, s, IF m = 1 THEN 2 * w ELSE w, u)
  <2>1. 0 \in 0..1 /\ 1 \in 0..1 /\ 0 # 1
    OBVIOUS
  <2> DEFINE e == IF m = 1 THEN 2 * w ELSE w
             up == 2 * s > e \/ (2 * s = e /\ q % 2 = 1)
  <2>2. up => NearestUp(q, s, e, 1)
    BY Zenon DEF NearestUp
  <2>3. ~up => NearestUp(q, s, e, 0)
    BY Zenon, <2>1 DEF NearestUp
  <2> QED BY Zenon, <2>1, <2>2, <2>3
<1>10. PICK sign \in 0..1 : sign = XorBit(Sign(f, x), Sign(f, y))
  <2>1. (Sign(f, x) + Sign(f, y)) % 2 \in 0..1
    BY <1>3, <1>4
  <2> QED BY Zenon, <2>1 DEF XorBit
<1>11. PICK B \in Nat : B = Bias(f) /\ B < G
  <2>1. f.wE - 1 \in Nat /\ f.wE = (f.wE - 1) + 1
    BY DEF NumberFormat
  <2>2. PICK D \in Nat : D = f.wE - 1 /\ f.wE = D + 1
    BY <2>1
  <2>3. PICK l \in Nat \ {0} : l = Pow2[D]
    BY Pow2Def
  <2>4. Pow2[D + 1] = 2 * l
    BY Zenon, <2>3, Pow2Def
  <2>5. G = 2 * l /\ Bias(f) = l - 1
    BY Zenon, <1>3, <2>2, <2>3, <2>4 DEF Bias
  <2> QED BY <2>5
<1>12. PICK E \in Int : E = ex + ey - B + m
  OBVIOUS
<1>13. q \in w..(2 * w - 1) /\ (m = 1 => q <= 2 * w - 2)
  BY Zenon, <1>8 DEF Normalised
<1>14. PICK fr \in 0..(w - 1) : fr = q - w
  BY <1>13
<1>15. MultSees(f, n, m, fr, u)
  BY ZenonT(60), <1>3, <1>8, <1>9, <1>14, MultBits
<1>16. PICK v : v = ((E % Pow2[f.wE + 2]) * Pow2[f.wF] + fr + u) % Pow2[f.wE + f.wF + 2]
  OBVIOUS
\* A product that has one more bit is not rounded to a power of two.
<1>17. -(2 * G) <= E /\ E < 2 * G /\ (fr + u = w => E + 1 < 2 * G)
  <2>1. PICK l \in Nat \ {0} : G = 2 * l /\ B = l - 1
    <3>1. f.wE - 1 \in Nat /\ f.wE = (f.wE - 1) + 1
      BY DEF NumberFormat
    <3>2. PICK D \in Nat : D = f.wE - 1 /\ f.wE = D + 1
      BY <3>1
    <3>3. PICK l \in Nat \ {0} : l = Pow2[D]
      BY Pow2Def
    <3>4. Pow2[D + 1] = 2 * l
      BY Zenon, <3>3, Pow2Def
    <3> QED BY Zenon, <1>3, <1>11, <3>2, <3>3, <3>4 DEF Bias
  <2>2. ex <= 2 * l - 1 /\ ey <= 2 * l - 1
    BY <1>3, <1>5, <2>1
  <2>3. m = 0 \/ m = 1
    OBVIOUS
  <2>4. m = 1 => fr + u # w
    BY <1>13, <1>14
  <2> QED BY <1>12, <2>1, <2>2, <2>3, <2>4
<1>18. PICK c \in Int, g \in 0..(Pow2[f.wF] - 1), top \in 0..3, h \in 0..(Pow2[f.wE] - 1) :
         RoundedBits(f, E, fr, u, v, c, g, top, h)
  <2>1. -(2 * Pow2[f.wE]) <= E /\ E < 2 * Pow2[f.wE] /\ (fr + u = Pow2[f.wF] => E + 1 < 2 * Pow2[f.wE])
        /\ fr \in 0..(Pow2[f.wF] - 1)
    BY Zenon, <1>3, <1>17
  <2> QED BY ZenonT(60), <1>16, <2>1, RoundedBitsAre
<1>19. /\ (fr + u = w => c = E + 1 /\ g = 0) /\ (fr + u # w => c = E /\ g = fr + u)
       /\ ResultBits(f, v, c, g, top, h)
  BY Zenon, <1>3, <1>18 DEF RoundedBits
\* The hardware.
<1> DEFINE exn == IF top = 0 THEN NormalExn ELSE IF top = 1 THEN InfExn ELSE ZeroExn
<1>20. FPMult(f, TRUE, n, x, y) = Encode(f, exn, sign, h, g)
  <2>1. SigProdSize(f, TRUE) - 1 = 2 * f.wF + 1 /\ SigProdSize(f, TRUE) - 2 = 2 * f.wF
        /\ SigProdSize(f, TRUE) - 3 = 2 * f.wF - 1 /\ SigProdSize(f, TRUE) - f.wF = f.wF + 2
    <3>1. SigProdSize(f, TRUE) = 2 * f.wF + 2
      BY DEF SigProdSize
    <3>2. PICK F \in Nat : F = f.wF
      BY DEF NumberFormat
    <3>3. (2 * F + 2) - 1 = 2 * F + 1 /\ (2 * F + 2) - 2 = 2 * F /\ (2 * F + 2) - 3 = 2 * F - 1
          /\ (2 * F + 2) - F = F + 2
      OBVIOUS
    <3> QED BY Zenon, <3>1, <3>2, <3>3
  <2>2. BitOf(n, SigProdSize(f, TRUE) - 1) = m
    BY Zenon, <1>15, <2>1 DEF MultSees
  <2>3. PICK ext : ext = MultExt(f, n, m)
    OBVIOUS
  <2>4. ext = IF m = 1 THEN Bits(n, SigProdSize(f, TRUE) - 2, 0) * 2
              ELSE Bits(n, SigProdSize(f, TRUE) - 3, 0) * 4
    BY Zenon, <2>1, <2>3 DEF MultExt
  <2>5. Bits(ext, SigProdSize(f, TRUE) - 1, SigProdSize(f, TRUE) - f.wF) = fr /\ MultRound(f, TRUE, ext) = u
    BY Zenon, <1>15, <2>1, <2>3 DEF MultSees
  <2>6. E = Exponent(f, x) + Exponent(f, y) - Bias(f) + m
    BY Zenon, <1>3, <1>5, <1>11, <1>12
  <2>7. IntAdder(f.wE + f.wF + 2, Cat(E % Pow2[f.wE + 2], f.wF, fr), 0, u) = v
    <3>1. PICK z \in Int : z = (E % Pow2[f.wE + 2]) * Pow2[f.wF] + fr
      <4>1. Pow2[f.wE + 2] \in Nat \ {0}
        <5>1. f.wE + 2 \in Nat
          BY DEF NumberFormat
        <5> QED BY <5>1, Pow2Def
      <4>2. PICK p \in Nat \ {0} : p = Pow2[f.wE + 2]
        BY <4>1
      <4>3. E % p \in Int
        BY <4>2
      <4>4. (E % p) * w + fr \in Int
        BY <4>3
      <4> QED BY Zenon, <1>3, <4>2, <4>4
    <3>2. z + 0 = z
      OBVIOUS
    <3> QED BY Zenon, <1>16, <3>1, <3>2 DEF IntAdder, Cat
  <2>8. MultExc(Exn(f, x), Exn(f, y)) = NormalExn
    <3>1. MultExc(NormalExn, NormalExn) = NormalExn
      BY SMT DEF MultExc, NormalExn, ZeroExn, InfExn, NaNExn
    <3> QED BY Zenon, <3>1
  <2>9. /\ Bits(v, f.wE + f.wF + 1, f.wE + f.wF) = top
        /\ Bits(v, f.wE + f.wF - 1, f.wF) = h /\ Bits(v, f.wF - 1, 0) = g
    BY Zenon, <1>19 DEF ResultBits
  <2>10. MultFinalExc(NormalExn, top) = exn
    BY Zenon DEF MultFinalExc
  <2> HIDE DEF exn
  <2> QED BY ZenonT(60), <1>10, <2>2, <2>4, <2>5, <2>6, <2>7, <2>8, <2>9, <2>10 DEF FPMult
\* The reference.
<1>21. Product(f, x, y) = Packed(f, sign, c - B, g)
  <2>1. PICK e \in Int : e = Exponent(f, x) + Exponent(f, y) - 2 * Bias(f) /\ e = ex + ey - 2 * B
    BY <1>3, <1>5, <1>11
  <2>2. Product(f, x, y) = Rounded(f, sign, n, Pow2[2 * f.wF], e)
    <3>1. NaNExn # NormalExn /\ InfExn # NormalExn /\ ZeroExn # NormalExn
      BY DEF NaNExn, NormalExn, InfExn, ZeroExn
    <3>2. {Exn(f, x), Exn(f, y)} = {NormalExn}
      OBVIOUS
    <3>3. NaNExn \notin {NormalExn} /\ InfExn \notin {NormalExn} /\ ZeroExn \notin {NormalExn}
          /\ {NormalExn} # {ZeroExn, InfExn}
      BY <3>1
    <3>4. Product(f, x, y) = ProductTo(f, x, y, "nearest")
      BY DEF Product
    <3>5. Product(f, x, y) = RoundedTo(f, sign, n, Pow2[2 * f.wF], e, "nearest")
      BY Zenon, <1>6, <1>7, <1>10, <2>1, <3>2, <3>3, <3>4 DEF ProductTo
    <3> QED BY Zenon, <3>5 DEF Rounded
  <2>3. RoundsTo(f, sign, n, Pow2[2 * f.wF], e, m, q, u)
    BY ZenonT(60), <1>3, <1>8, <1>9, ReferenceProduct
  <2>4. Pow2[f.wF + 1] = 2 * w
    <3>1. f.wF \in Nat
      BY DEF NumberFormat
    <3> QED BY Zenon, <1>3, <3>1, Pow2Def
  <2>5. (q + u = 2 * w <=> fr + u = w) /\ (q + u) - w = fr + u
    BY <1>13, <1>14
  <2>6. e + m + 1 = (E + 1) - B /\ e + m = E - B
    BY <1>12, <2>1
  <2> QED BY Zenon, <1>3, <1>19, <2>2, <2>3, <2>4, <2>5, <2>6 DEF RoundsTo
<1>22. FPEqual(f, Encode(f, exn, sign, h, g), Packed(f, sign, c - Bias(f), g))
  BY ZenonT(60), <1>19, PackedResult
<1> HIDE DEF exn
<1> QED BY Zenon, <1>6, <1>7, <1>11, <1>20, <1>21, <1>22

\* Exceptional operands: the other bits of the result are free.
LEMMA ExceptionalProduct ==
  ASSUME NEW f, NumberFormat(f), NEW x \in Numbers(f), NEW y \in Numbers(f), NEW n,
         ~(Exn(f, x) = NormalExn /\ Exn(f, y) = NormalExn), n \in Int
  PROVE  FPEqual(f, FPMult(f, TRUE, n, x, y), Product(f, x, y))
<1>1. PICK i \in 0..3, j \in 0..3, a \in 0..1, b \in 0..1 :
        i = Exn(f, x) /\ j = Exn(f, y) /\ a = Sign(f, x) /\ b = Sign(f, y)
  <2>1. PICK w \in Nat \ {0}, G \in Nat \ {0}, e \in Nat, frac \in Nat : FieldsOf(f, x, w, G, e, frac)
    BY ZenonT(40), NumberFields
  <2>2. PICK wy \in Nat \ {0}, gy \in Nat \ {0}, ey \in Nat, fy \in Nat : FieldsOf(f, y, wy, gy, ey, fy)
    BY ZenonT(40), NumberFields
  <2> QED BY Zenon, <2>1, <2>2 DEF FieldsOf
<1>2. ZeroExn = 0 /\ NormalExn = 1 /\ InfExn = 2 /\ NaNExn = 3
  BY DEF ZeroExn, NormalExn, InfExn, NaNExn
<1>3. ~(i = 1 /\ j = 1)
  BY Zenon, <1>1, <1>2
<1>4. PICK sign \in 0..1 : sign = XorBit(Sign(f, x), Sign(f, y))
  <2>1. (a + b) % 2 \in 0..1
    OBVIOUS
  <2> QED BY Zenon, <1>1, <2>1 DEF XorBit
<1>5. PICK k \in {0, 2, 3} : /\ k = MultExc(i, j)
                             /\ k = 3 <=> 3 \in {i, j} \/ {i, j} = {0, 2}
                             /\ k # 3 => (k = 2 <=> 2 \in {i, j}) /\ (k = 0 <=> 2 \notin {i, j} /\ 0 \in {i, j})
  <2>1. (i = 0 \/ i = 1 \/ i = 2 \/ i = 3) /\ (j = 0 \/ j = 1 \/ j = 2 \/ j = 3)
    OBVIOUS
  <2>2. CASE 3 \in {i, j} \/ {i, j} = {0, 2}
    <3>1. MultExc(i, j) = 3
      BY <1>2, <2>1, <2>2 DEF MultExc
    <3> QED BY <2>2, <3>1
  <2>3. CASE {i, j} \in {{2}, {1, 2}}
    <3>1. MultExc(i, j) = 2
      BY <1>2, <2>1, <2>3 DEF MultExc
    <3> QED BY <2>1, <2>3, <3>1
  <2>4. CASE {i, j} \in {{0}, {0, 1}}
    <3>1. MultExc(i, j) = 0
      BY <1>2, <2>1, <2>4 DEF MultExc
    <3> QED BY <2>1, <2>4, <3>1
  <2> QED BY <1>3, <2>1, <2>2, <2>3, <2>4
\* The hardware gives an encoding of that exception.
<1>6. PICK e \in 0..(Pow2[f.wE] - 1), g \in 0..(Pow2[f.wF] - 1) : FPMult(f, TRUE, n, x, y) = Encode(f, k, sign, e, g)
  <2> DEFINE W == SigProdSize(f, TRUE)
             norm == BitOf(n, W - 1)
             expPostNorm == (Exponent(f, x) + Exponent(f, y) - Bias(f) + norm) % Pow2[f.wE + 2]
             ext == IF norm = 1 THEN Bits(n, W - 2, 0) * 2 ELSE Bits(n, W - 3, 0) * 4
             v == IntAdder(f.wE + f.wF + 2, Cat(expPostNorm, f.wF, Bits(ext, W - 1, W - f.wF)), 0,
                           MultRound(f, TRUE, ext))
             e == Bits(v, f.wE + f.wF - 1, f.wF)
             g == Bits(v, f.wF - 1, 0)
  <2>1. v \in Int
    <3>1. PICK F \in Nat, p \in Nat \ {0}, o \in Nat \ {0} :
            F = f.wF /\ p = Pow2[f.wE + 2] /\ o = Pow2[f.wE + f.wF + 2] /\ W = 2 * F + 2
      <4>1. f.wF \in Nat /\ f.wE + 2 \in Nat /\ f.wE + f.wF + 2 \in Nat
        BY DEF NumberFormat
      <4>2. W = 2 * f.wF + 2
        BY DEF SigProdSize
      <4> QED BY <4>1, <4>2, Pow2Def
    <3> HIDE DEF W
    <3>2. norm \in 0..1
      <4>1. W - 1 \in Nat
        BY <3>1
      <4> QED BY <4>1, BitOfType
    <3>3. Exponent(f, x) \in Int /\ Exponent(f, y) \in Int /\ Bias(f) \in Int
      <4>1. PICK w \in Nat \ {0}, G \in Nat \ {0}, c \in Nat, frac \in Nat : FieldsOf(f, x, w, G, c, frac)
        BY ZenonT(40), NumberFields
      <4>2. PICK wy \in Nat \ {0}, gy \in Nat \ {0}, ey \in Nat, fy \in Nat : FieldsOf(f, y, wy, gy, ey, fy)
        BY ZenonT(40), NumberFields
      <4>3. Exponent(f, x) \in Nat /\ Exponent(f, y) \in Nat
        BY Zenon, <4>1, <4>2 DEF FieldsOf
      <4>4. PICK l \in Nat \ {0} : l = Pow2[f.wE - 1]
        <5>1. f.wE - 1 \in Nat
          BY DEF NumberFormat
        <5> QED BY <5>1, Pow2Def
      <4>5. l - 1 \in Int
        OBVIOUS
      <4>6. Bias(f) \in Int
        BY Zenon, <4>4, <4>5 DEF Bias
      <4> QED BY <4>3, <4>6
    <3>4. expPostNorm \in Int
      <4> HIDE DEF norm
      <4>1. PICK t \in Int : t = Exponent(f, x) + Exponent(f, y) - Bias(f) + norm
        BY <3>2, <3>3
      <4>2. t % p \in Int
        OBVIOUS
      <4> QED BY Zenon, <3>1, <4>1, <4>2
    <3>5. ext \in Int
      <4>1. W - 2 \in Int /\ W - 3 \in Int /\ 0 \in Nat
        BY <3>1
      <4>2. Bits(n, W - 2, 0) \in Nat /\ Bits(n, W - 3, 0) \in Nat
        BY <4>1, BitsType
      <4>3. Bits(n, W - 2, 0) * 2 \in Int /\ Bits(n, W - 3, 0) * 4 \in Int
        BY <4>2
      <4> HIDE DEF norm
      <4> QED BY Zenon, <4>3
    <3>6. Bits(ext, W - 1, W - f.wF) \in Nat
      <4>1. W - 1 \in Int /\ W - f.wF \in Nat
        BY <3>1
      <4> HIDE DEF ext
      <4> QED BY <3>5, <4>1, BitsType
    <3>7. MultRound(f, TRUE, ext) \in 0..1
      <4>1. 0 \in 0..1 /\ 1 \in 0..1
        OBVIOUS
      <4> HIDE DEF ext
      <4> QED BY Zenon, <4>1 DEF MultRound, Flag
    <3> HIDE DEF ext, expPostNorm
    <3>8. PICK z \in Nat, t \in 0..1 : z = Bits(ext, W - 1, W - f.wF) /\ t = MultRound(f, TRUE, ext)
      BY Zenon, <3>6, <3>7
    <3>9. PICK w \in Nat \ {0} : w = Pow2[f.wF]
      BY <3>1, Pow2Def
    <3>10. (expPostNorm * w + z + 0 + t) % o \in Int
      <4>1. expPostNorm * w \in Int
        BY <3>4
      <4>2. expPostNorm * w + z + 0 + t \in Int
        BY <4>1
      <4> QED BY <4>2
    <3> QED BY Zenon, <3>1, <3>8, <3>9, <3>10 DEF IntAdder, Cat
  <2>2. e \in 0..(Pow2[f.wE] - 1) /\ g \in 0..(Pow2[f.wF] - 1)
    <3> HIDE DEF v
    <3> QED BY ZenonT(40), <2>1, FreeBits
  <2>3. MultFinalExc(k, Bits(v, f.wE + f.wF + 1, f.wE + f.wF)) = k
    <3>1. k # 1
      OBVIOUS
    <3> QED BY Zenon, <1>2, <3>1 DEF MultFinalExc
  <2>4. FPMult(f, TRUE, n, x, y) = Encode(f, k, sign, e, g)
    BY Zenon, <1>1, <1>4, <1>5, <2>3 DEF FPMult
  <2> HIDE DEF e, g
  <2> QED BY Zenon, <2>2, <2>4
\* And so does the reference.
<1>7. 0 \in 0..(Pow2[f.wE] - 1) /\ 0 \in 0..(Pow2[f.wF] - 1) /\ 3 \in 0..3 /\ 0 \in 0..1
  <2>1. f.wE \in Nat /\ f.wF \in Nat
    BY DEF NumberFormat
  <2>2. Pow2[f.wE] \in Nat \ {0} /\ Pow2[f.wF] \in Nat \ {0}
    BY <2>1, Pow2Def
  <2> QED BY <2>2
<1>8. Product(f, x, y) = IF 3 \in {i, j} \/ {i, j} = {0, 2} THEN NaN(f)
                         ELSE IF 2 \in {i, j} THEN Infinity(f, sign)
                         ELSE IF 0 \in {i, j} THEN Zero(f, sign)
                         ELSE Product(f, x, y)
  BY ZenonT(40), <1>1, <1>2, <1>4 DEF Product, ProductTo
<1>9. CASE k = 3
  <2>1. Product(f, x, y) = Encode(f, 3, 0, 0, 0)
    BY Zenon, <1>2, <1>5, <1>8, <1>9 DEF NaN
  <2>2. Exn(f, Encode(f, 3, 0, 0, 0)) = 3
    BY <1>7, EncodedFields
  <2>3. Exn(f, Encode(f, 3, sign, e, g)) = 3
    BY <1>7, EncodedFields
  <2>4. 3 # 1
    OBVIOUS
  <2> DEFINE v == Encode(f, 3, sign, e, g)
             z == Encode(f, 3, 0, 0, 0)
  <2> HIDE DEF v, z
  <2>5. Exn(f, v) = 3 /\ Exn(f, z) = 3
    BY Zenon, <2>2, <2>3 DEF v, z
  <2>6. FPEqual(f, v, z)
    BY Zenon, <1>2, <2>4, <2>5 DEF FPEqual
  <2> QED BY Zenon, <1>6, <1>9, <2>1, <2>6 DEF v, z
<1>10. CASE k = 2
  <2>1. 2 # 3 /\ 2 \in {0, 2, 3}
    OBVIOUS
  <2>2. Product(f, x, y) = Encode(f, 2, sign, 0, 0)
    BY Zenon, <1>2, <1>5, <1>8, <1>10, <2>1 DEF Infinity
  <2>3. OtherAgree(f, sign, 2, e, g, 0, 0)
    BY ZenonT(40), <1>7, <2>1, EncodingsAgree
  <2> QED BY Zenon, <1>6, <1>10, <2>2, <2>3 DEF OtherAgree
<1>11. CASE k = 0
  <2>1. 0 # 3 /\ 0 # 2 /\ 0 \in {0, 2, 3}
    OBVIOUS
  <2>2. Product(f, x, y) = Encode(f, 0, sign, 0, 0)
    BY Zenon, <1>2, <1>5, <1>8, <1>11, <2>1 DEF Zero
  <2>3. OtherAgree(f, sign, 0, e, g, 0, 0)
    BY ZenonT(40), <1>7, <2>1, EncodingsAgree
  <2> QED BY Zenon, <1>6, <1>11, <2>2, <2>3 DEF OtherAgree
<1> QED BY <1>9, <1>10, <1>11

\* The operator under test is a multiplier, and its inputs are numbers of its format.
UnitInv ==
  /\ unit.op = "none" => inputs = <<>>
  /\ unit.op = "FPMult" => /\ unit.c \in MultFormats
                           /\ inputs \in Seq(CanonicalNumbers(unit.c)) /\ Len(inputs) <= 2

\* What the invariant says of the operands suffices.
LEMMA ProductIs ==
  ASSUME UnitInv
  PROVE  ProductIsCorrect
<1> SUFFICES ASSUME Tested("FPMult"), NEW sigProd \in SigProds(unit.c, TRUE, X, Y)
             PROVE  FPEqual(unit.c, FPMult(unit.c, TRUE, sigProd, X, Y), Product(unit.c, X, Y))
  BY Zenon DEF ProductIsCorrect
<1>1. unit.op = "FPMult" /\ Len(inputs) = 2 /\ inputs \in Seq(CanonicalNumbers(unit.c))
      /\ unit.c \in MultFormats
  <2>1. unit.op = "FPMult" /\ Len(inputs) = Operands("FPMult")
    BY Zenon DEF Tested
  <2>2. Operands("FPMult") = 2
    BY DEF Operands
  <2> QED BY Zenon, <2>1, <2>2 DEF UnitInv
<1>2. NumberFormat(unit.c)
  BY <1>1, DatapathsAssumption DEF DatapathsAssumption, NumberFormat
<1>3. X \in CanonicalNumbers(unit.c) /\ Y \in CanonicalNumbers(unit.c)
  <2>1. ASSUME NEW U, inputs \in Seq(U), Len(inputs) = 2
        PROVE  inputs[1] \in U /\ inputs[2] \in U
    BY <2>1
  <2> QED BY Zenon, <1>1, <2>1 DEF X, Y
<1>4. PICK f, x, y : /\ f = unit.c /\ x = X /\ y = Y
                     /\ NumberFormat(f) /\ x \in Numbers(f) /\ y \in Numbers(f)
  BY <1>2, <1>3 DEF CanonicalNumbers
<1>5. PICK n \in Nat : n = Significand(f, x) * Significand(f, y)
  <2>1. PICK w \in Nat \ {0}, G \in Nat \ {0}, e \in Nat, frac \in Nat : FieldsOf(f, x, w, G, e, frac)
    BY ZenonT(40), <1>4, NumberFields
  <2>2. PICK v \in Nat \ {0}, H \in Nat \ {0}, i \in Nat, j \in Nat : FieldsOf(f, y, v, H, i, j)
    BY ZenonT(40), <1>4, NumberFields
  <2>3. Significand(f, x) = w + frac /\ Significand(f, y) = v + j
    BY Zenon, <2>1, <2>2 DEF FieldsOf
  <2>4. (w + frac) * (v + j) \in Nat
    OBVIOUS
  <2> QED BY Zenon, <2>3, <2>4
<1>6. sigProd = n
  <2>1. Pow2[LargerOf(0, 2 * f.wF + 2 - SigProdSize(f, TRUE))] = 1
    <3>1. SigProdSize(f, TRUE) = 2 * f.wF + 2
      BY DEF SigProdSize
    <3>2. PICK F \in Nat : F = f.wF
      BY <1>4 DEF NumberFormat
    <3>3. 2 * F + 2 - (2 * F + 2) = 0 /\ ~(0 < 0)
      OBVIOUS
    <3>4. LargerOf(0, 0) = 0
      BY Zenon, <3>3 DEF LargerOf
    <3>5. Pow2[0] = 1
      BY Pow2Def
    <3> QED BY Zenon, <3>1, <3>2, <3>3, <3>4, <3>5
  <2>2. n \div 1 = n
    OBVIOUS
  <2>3. sigProd \in {p \in {n, n + 1} : AbsOf(p * 1 - n) < 1}
    BY Zenon, <1>4, <1>5, <2>1, <2>2 DEF SigProds
  <2>4. ~(AbsOf((n + 1) * 1 - n) < 1)
    <3>1. (n + 1) * 1 - n = 1 /\ ~(1 < 0) /\ ~(1 < 1)
      OBVIOUS
    <3> QED BY Zenon, <3>1 DEF AbsOf
  <2> QED BY Zenon, <2>3, <2>4
<1>7. FPEqual(f, FPMult(f, TRUE, n, x, y), Product(f, x, y))
  <2>1. CASE Exn(f, x) = NormalExn /\ Exn(f, y) = NormalExn
    BY ZenonT(40), <1>4, <1>5, <2>1, NormalProduct
  <2>2. CASE ~(Exn(f, x) = NormalExn /\ Exn(f, y) = NormalExn)
    <3>1. n \in Int
      OBVIOUS
    <3> QED BY ZenonT(40), <1>4, <2>2, <3>1, ExceptionalProduct
  <2> QED BY Zenon, <2>1, <2>2
<1> QED BY Zenon, <1>4, <1>6, <1>7

\* The multiplication is right, for every format and all operands: whatever the product,
\* its leading bit is where the hardware looks for it, the bits behind the fraction
\* round it to the nearest number, ties to even, and the exponent overflows or becomes
\* negative exactly when the two bits above it say so (FPMult of FPMult.cpp).
THEOREM MultiplicationIsRight == Spec => []ProductIsCorrect
<1>1. Init => UnitInv
  BY DEF Init, UnitInit, UnitInv
<1>2. ASSUME UnitInv, [Next]_vars PROVE UnitInv'
  <2>1. CASE UNCHANGED unitVars
    BY <1>2, <2>1 DEF unitVars, UnitInv
  <2>2. CASE UnitNext
    <3>1. ASSUME NEW units, Generate(units), \A v \in units : v.op # "none",
                 \A v \in units : v.op = "FPMult" => v.c \in MultFormats
          PROVE  UnitInv'
      <4>1. unit.op = "none" /\ unit' \in units /\ inputs' = <<>>
        BY <1>2, <3>1 DEF Generate, UnitInv
      <4> QED BY <3>1, <4>1 DEF UnitInv
    <3>2. CASE Generate(ShifterUnits)
      <4>1. \A v \in ShifterUnits : v.op # "none" /\ v.op # "FPMult"
        BY DEF ShifterUnits
      <4> QED BY <3>1, <3>2, <4>1
    <3>3. CASE Generate(CounterUnits)
      <4>1. \A v \in CounterUnits : v.op # "none" /\ v.op # "FPMult"
        BY DEF CounterUnits
      <4> QED BY <3>1, <3>3, <4>1
    <3>4. CASE Generate(FPUnits)
      <4>1. \A v \in FPUnits : v.op # "none" /\ (v.op = "FPMult" => v.c \in MultFormats)
        BY DEF FPUnits
      <4> QED BY <3>1, <3>4, <4>1
    <3>5. CASE Generate(IEEEUnits)
      <4>1. \A v \in IEEEUnits : v.op # "none" /\ v.op # "FPMult"
        BY DEF IEEEUnits
      <4> QED BY <3>1, <3>5, <4>1
    <3>6. CASE Generate(PositUnits)
      <4>1. \A v \in PositUnits : v.op # "none" /\ v.op # "FPMult"
        BY DEF PositUnits
      <4> QED BY <3>1, <3>6, <4>1
    <3>7. CASE SetFirstInput
      <4>1. unit.op # "none" /\ inputs = <<>> /\ unit' = unit
        BY <3>7 DEF SetFirstInput
      <4>2. PICK x \in FirstInputs(unit) : inputs' = <<x>>
        BY <3>7 DEF SetFirstInput
      <4>3. unit.op = "FPMult" => FirstInputs(unit) = CanonicalNumbers(unit.c)
        BY DEF FirstInputs
      <4> QED BY <1>2, <4>1, <4>2, <4>3 DEF UnitInv
    <3>8. CASE SetSecondInput
      <4>1. Len(inputs) = 1 /\ unit' = unit
        BY <3>8 DEF SetSecondInput
      <4>2. PICK y \in SecondInputs(unit) : inputs' = Append(inputs, y)
        BY <3>8 DEF SetSecondInput
      <4>3. unit.op = "FPMult" => SecondInputs(unit) = CanonicalNumbers(unit.c)
        BY DEF SecondInputs
      <4>4. unit.op # "none"
        BY <1>2, <4>1 DEF UnitInv
      <4>5. ASSUME NEW U, inputs \in Seq(U), y \in U
            PROVE  Append(inputs, y) \in Seq(U) /\ Len(Append(inputs, y)) <= 2
        <5>1. Len(Append(inputs, y)) = Len(inputs) + 1 /\ Append(inputs, y) \in Seq(U)
          BY <4>5
        <5>2. Len(Append(inputs, y)) = 1 + 1
          BY Zenon, <4>1, <5>1
        <5>3. 1 + 1 <= 2
          OBVIOUS
        <5> QED BY Zenon, <5>1, <5>2, <5>3
      <4>6. unit.op = "FPMult" => inputs' \in Seq(CanonicalNumbers(unit.c)) /\ Len(inputs') <= 2
        BY Zenon, <1>2, <4>2, <4>3, <4>5 DEF UnitInv
      <4> QED BY Zenon, <1>2, <4>1, <4>4, <4>6 DEF UnitInv
    <3>9. CASE SetThirdInput
      <4>1. Operands(unit.op) = 3 /\ Len(inputs) = 2 /\ unit' = unit
        BY <3>9 DEF SetThirdInput
      <4>2. unit.op # "FPMult"
        BY <4>1 DEF Operands
      <4>3. unit.op # "none"
        BY <1>2, <4>1 DEF UnitInv
      <4> QED BY <4>1, <4>2, <4>3 DEF UnitInv
    <3> QED BY <2>2, <3>2, <3>3, <3>4, <3>5, <3>6, <3>7, <3>8, <3>9 DEF UnitNext
  <2>3. CASE Combinational
    BY <2>2, <2>3 DEF Combinational
  <2>4. CASE StartDivision \/ DivisionStep
    BY <2>1, <2>4 DEF StartDivision, DivisionStep
  <2>5. CASE StartRoot \/ RootStep
    BY <2>1, <2>5 DEF StartRoot, RootStep
  <2>6. CASE StartConstantDivision \/ ConstantDivisionStep
    BY <2>1, <2>6 DEF StartConstantDivision, ConstantDivisionStep
  <2>7. CASE StartMultiplier \/ MultiplierStep
    BY <2>1, <2>7 DEF StartMultiplier, MultiplierStep
  <2>8. CASE UNCHANGED vars
    BY <2>1, <2>8 DEF vars
  <2> QED BY <1>2, <2>3, <2>4, <2>5, <2>6, <2>7, <2>8 DEF Next
<1>3. Spec => []UnitInv
  BY <1>1, <1>2, PTL DEF Spec
<1>4. UnitInv => ProductIsCorrect
  BY ProductIs
<1> QED BY <1>3, <1>4, PTL

-----------------------------------------------------------------------------
(***************************************************************************)
(* Shifters.                                                               *)
(***************************************************************************)
\* Two equal fractions have the same integer part.
EqualFractions(u, p, v, q) == u * q = v * p
EqualParts(u, p, v, q) == u \div p = v \div q
\* Equal fractions with positive denominators have equal parts.
LEMMA SameQuotient ==
  ASSUME NEW u \in Int, NEW v \in Int, NEW p \in Nat \ {0}, NEW q \in Nat \ {0},
         EqualFractions(u, p, v, q)
  PROVE  EqualParts(u, p, v, q)
<1>1. PICK k \in Int, r \in 0..(p - 1) : u = p * k + r /\ k = u \div p
  BY ZenonT(40), Division
<1>2. PICK l \in Int, z \in 0..(q - 1) : v = q * l + z /\ l = v \div q
  BY ZenonT(40), Division
<1>3. (p * k + r) * q = (q * l + z) * p
  BY Zenon, <1>1, <1>2 DEF EqualFractions
<1>4. (p * k + r) * q = (p * q) * k + r * q /\ (q * l + z) * p = (p * q) * l + z * p
  OBVIOUS
<1>5. r * q <= (p - 1) * q /\ z * p <= (q - 1) * p /\ r * q >= 0 /\ z * p >= 0
  OBVIOUS
<1>6. (p - 1) * q = p * q - q /\ (q - 1) * p = p * q - p
  OBVIOUS
<1>7. PICK n \in Nat \ {0} : n = p * q
  OBVIOUS
<1>8. PICK a \in Int, b \in Int : a = r * q /\ b = z * p
  OBVIOUS
<1>9. n * k + a = n * l + b /\ 0 <= a /\ a < n /\ 0 <= b /\ b < n
  BY <1>3, <1>4, <1>5, <1>6, <1>7, <1>8
<1>10. a \in 0..(n - 1) /\ b \in 0..(n - 1)
  BY <1>9
<1>11. (n * k + a) \div n = k
  BY ZenonT(40), <1>10, DivisionUnique
<1>12. (n * l + b) \div n = l
  BY ZenonT(40), <1>10, DivisionUnique
<1>13. k = l
  BY Zenon, <1>9, <1>11, <1>12
<1> QED BY Zenon, <1>1, <1>2, <1>13 DEF EqualParts

\* Bit i of the shift, and the part of it below: what row i shifts by, and what the
\* rows before have shifted by.
ShiftDigit(s, i, p, t, b) ==
  /\ p = Pow2[i] /\ t = s % Pow2[i] /\ b = BitOf(s, i)
  /\ s % Pow2[i + 1] = t + p * b /\ Pow2[i + 1] = 2 * p

\* They are digits.
LEMMA ShiftDigitIs ==
  ASSUME NEW s \in Nat, NEW i \in Nat
  PROVE  \E p \in Nat \ {0}, b \in 0..1 : \E t \in 0..(p - 1) : ShiftDigit(s, i, p, t, b)
<1>1. PICK p \in Nat \ {0} : p = Pow2[i]
  BY Pow2Def
<1>2. Pow2[i + 1] = 2 * p
  BY <1>1, Pow2Def
<1>0. s \in Int /\ 2 \in Nat \ {0}
  OBVIOUS
<1>3. PICK k \in Int, t \in 0..(p - 1) : k = s \div p /\ t = s % p
  BY ZenonT(40), <1>0, Division
<1>4. PICK b \in 0..1 : b = k % 2
  BY <1>3
<1>5. s % (p * 2) = ((s \div p) % 2) * p + (s % p)
  BY ZenonT(40), <1>0, QuotientOfQuotient
<1>6. s % (p * 2) = b * p + t
  BY Zenon, <1>3, <1>4, <1>5
<1>7. b * p + t = t + p * b /\ p * 2 = 2 * p
  OBVIOUS
<1>8. b = BitOf(s, i)
  BY Zenon, <1>1, <1>3, <1>4 DEF BitOf
<1>9. s % Pow2[i + 1] = t + p * b
  BY Zenon, <1>2, <1>6, <1>7
<1>10. t = s % Pow2[i]
  BY Zenon, <1>1, <1>3
<1>11. ShiftDigit(s, i, p, t, b)
  BY Zenon, <1>1, <1>2, <1>8, <1>9, <1>10 DEF ShiftDigit
<1> QED BY Zenon, <1>11

\* What a row of the right shifter holds, and of the left one: the number, at the left end
\* of what it has been extended to, and its padding.
RightValue(wX, pad, x, s, i) ==
  Extended(wX, pad, x) * Pow2[(Pow2[i] - 1) - (s % Pow2[i])] + pad * Pow2[wX + (Pow2[i] - 1)]
LeftValue(wX, pad, x, s, i) ==
  Extended(wX, pad, x) * Pow2[s % Pow2[i]] + pad * Pow2[wX + (Pow2[i] - 1)]

\* The widths of two rows.
RowWidths(wX, i, p, g, h) ==
  /\ LevelWidth(wX, i) = wX + (p - 1) /\ Pow2[wX + (p - 1)] = h
  /\ Pow2[p] = g /\ Pow2[wX + (Pow2[i + 1] - 1)] = h * g
\* They are natural numbers, related as powers of two.
LEMMA RowWidthsAre ==
  ASSUME NEW wX \in Nat, NEW i \in Nat, NEW p \in Nat \ {0}, p = Pow2[i]
  PROVE  \E g \in Nat \ {0}, h \in Nat \ {0} : RowWidths(wX, i, p, g, h)
<1>1. PICK g \in Nat \ {0} : g = Pow2[p]
  BY Pow2Def
<1>2. p - 1 \in Nat /\ wX + (p - 1) \in Nat
  OBVIOUS
<1>3. PICK h \in Nat \ {0} : h = Pow2[wX + (p - 1)]
  BY <1>2, Pow2Def
<1>4. Pow2[i + 1] = 2 * p
  BY Pow2Def
<1>5. wX + (2 * p - 1) = (wX + (p - 1)) + p
  OBVIOUS
<1>6. Pow2[(wX + (p - 1)) + p] = h * g
  BY Zenon, <1>1, <1>2, <1>3, Pow2Sum
<1>7. (wX + p) - 1 = wX + (p - 1)
  OBVIOUS
<1>8. LevelWidth(wX, i) = wX + (p - 1)
  BY <1>7 DEF LevelWidth
<1>9. RowWidths(wX, i, p, g, h)
  BY Zenon, <1>1, <1>3, <1>4, <1>5, <1>6, <1>8 DEF RowWidths
<1> QED BY Zenon, <1>9

\* The padding of a row.
LEMMA FillIs ==
  ASSUME NEW n \in Nat, NEW b \in 0..1
  PROVE  Fill(n, b) = b * (Pow2[n] - 1)
<1>1. Pow2[n] \in Nat
  BY Pow2Def
<1> QED BY <1>1 DEF Fill, Ones

\* What a row makes of the row before.
RightRowOf(wX, pad, s, i, before) ==
  IF BitOf(s, i) = 1 THEN Cat(Fill(Pow2[i], pad), LevelWidth(wX, i), before)
  ELSE Cat(before, Pow2[i], 0)
LeftRowOf(wX, pad, s, i, before) ==
  IF BitOf(s, i) = 1 THEN Cat(before, Pow2[i], 0)
  ELSE Cat(Fill(Pow2[i], pad), LevelWidth(wX, i), before)

\* A row of the right shifter.
RightRowIs(wX, pad, x, s, i) ==
  RightValue(wX, pad, x, s, i + 1) = RightRowOf(wX, pad, s, i, RightValue(wX, pad, x, s, i))
\* It is: the bit i of the shift moves the number right by 2^i, or keeps it.
LEMMA RightRow ==
  ASSUME NEW wX \in Nat, NEW pad \in 0..1, NEW x \in Nat, NEW s \in Nat, NEW i \in Nat
  PROVE  RightRowIs(wX, pad, x, s, i)
<1>1. PICK p \in Nat \ {0}, b \in 0..1 : \E t \in 0..(p - 1) : ShiftDigit(s, i, p, t, b)
  BY Zenon, ShiftDigitIs
<1>2. PICK t \in 0..(p - 1) : ShiftDigit(s, i, p, t, b)
  BY Zenon, <1>1
<1>3. p = Pow2[i] /\ t = s % Pow2[i] /\ b = BitOf(s, i) /\ s % Pow2[i + 1] = t + p * b /\ Pow2[i + 1] = 2 * p
  BY Zenon, <1>2 DEF ShiftDigit
<1>4. PICK g \in Nat \ {0}, h \in Nat \ {0} : RowWidths(wX, i, p, g, h)
  BY Zenon, <1>3, RowWidthsAre
<1>5. /\ LevelWidth(wX, i) = wX + (p - 1) /\ Pow2[wX + (p - 1)] = h
      /\ Pow2[p] = g /\ Pow2[wX + (Pow2[i + 1] - 1)] = h * g
  BY Zenon, <1>4 DEF RowWidths
<1>6. PICK v \in Int : v = Extended(wX, pad, x)
  <2>1. Pow2[wX] \in Nat
    BY Pow2Def
  <2> QED BY <2>1 DEF Extended
<1>7. PICK e \in Nat : e = (p - 1) - t
  OBVIOUS
<1>8. PICK a \in Nat \ {0} : a = Pow2[e]
  BY Pow2Def
<1>9. RightValue(wX, pad, x, s, i) = v * a + pad * h
  BY Zenon, <1>3, <1>5, <1>6, <1>7, <1>8 DEF RightValue
<1>10. RightValue(wX, pad, x, s, i + 1) = v * Pow2[(2 * p - 1) - (t + p * b)] + pad * (h * g)
  BY Zenon, <1>3, <1>5, <1>6 DEF RightValue
<1>11. Fill(Pow2[i], pad) = pad * (g - 1)
  BY Zenon, <1>3, <1>5, FillIs
<1>12. CASE b = 1
  <2>1. (2 * p - 1) - (t + p * b) = e
    BY <1>7, <1>12
  <2>2. RightValue(wX, pad, x, s, i + 1) = v * a + pad * (h * g)
    BY Zenon, <1>8, <1>10, <2>1
  <2>3. (pad * (g - 1)) * h + (v * a + pad * h) = v * a + pad * (h * g)
    OBVIOUS
  <2>4. Cat(Fill(Pow2[i], pad), LevelWidth(wX, i), RightValue(wX, pad, x, s, i)) = (pad * (g - 1)) * h + (v * a + pad * h)
    BY Zenon, <1>5, <1>9, <1>11 DEF Cat
  <2> QED BY Zenon, <1>3, <1>12, <2>2, <2>3, <2>4 DEF RightRowOf, RightRowIs
<1>13. CASE b = 0
  <2>1. (2 * p - 1) - (t + p * b) = e + p
    BY <1>7, <1>13
  <2>2. Pow2[e + p] = a * g
    BY Zenon, <1>5, <1>8, Pow2Sum
  <2>3. RightValue(wX, pad, x, s, i + 1) = v * (a * g) + pad * (h * g)
    BY Zenon, <1>10, <2>1, <2>2
  <2>4. v * (a * g) + pad * (h * g) = (v * a + pad * h) * g + 0
    OBVIOUS
  <2>5. Cat(RightValue(wX, pad, x, s, i), Pow2[i], 0) = (v * a + pad * h) * g + 0
    BY Zenon, <1>3, <1>5, <1>9 DEF Cat
  <2>6. BitOf(s, i) # 1
    BY <1>3, <1>13
  <2> QED BY Zenon, <2>3, <2>4, <2>5, <2>6 DEF RightRowOf, RightRowIs
<1> QED BY <1>12, <1>13

\* A row of the left shifter.
LeftRowIs(wX, pad, x, s, i) ==
  LeftValue(wX, pad, x, s, i + 1) = LeftRowOf(wX, pad, s, i, LeftValue(wX, pad, x, s, i))
\* It is: the bit i of the shift moves the number left by 2^i, or keeps it.
LEMMA LeftRow ==
  ASSUME NEW wX \in Nat, NEW pad \in 0..1, NEW x \in Nat, NEW s \in Nat, NEW i \in Nat
  PROVE  LeftRowIs(wX, pad, x, s, i)
<1>1. PICK p \in Nat \ {0}, b \in 0..1 : \E t \in 0..(p - 1) : ShiftDigit(s, i, p, t, b)
  BY Zenon, ShiftDigitIs
<1>2. PICK t \in 0..(p - 1) : ShiftDigit(s, i, p, t, b)
  BY Zenon, <1>1
<1>3. p = Pow2[i] /\ t = s % Pow2[i] /\ b = BitOf(s, i) /\ s % Pow2[i + 1] = t + p * b /\ Pow2[i + 1] = 2 * p
  BY Zenon, <1>2 DEF ShiftDigit
<1>4. PICK g \in Nat \ {0}, h \in Nat \ {0} : RowWidths(wX, i, p, g, h)
  BY Zenon, <1>3, RowWidthsAre
<1>5. /\ LevelWidth(wX, i) = wX + (p - 1) /\ Pow2[wX + (p - 1)] = h
      /\ Pow2[p] = g /\ Pow2[wX + (Pow2[i + 1] - 1)] = h * g
  BY Zenon, <1>4 DEF RowWidths
<1>6. PICK v \in Int : v = Extended(wX, pad, x)
  <2>1. Pow2[wX] \in Nat
    BY Pow2Def
  <2> QED BY <2>1 DEF Extended
<1>7. t \in Nat
  OBVIOUS
<1>8. PICK a \in Nat \ {0} : a = Pow2[t]
  BY <1>7, Pow2Def
<1>9. LeftValue(wX, pad, x, s, i) = v * a + pad * h
  BY Zenon, <1>3, <1>5, <1>6, <1>8 DEF LeftValue
<1>10. LeftValue(wX, pad, x, s, i + 1) = v * Pow2[t + p * b] + pad * (h * g)
  BY Zenon, <1>3, <1>5, <1>6 DEF LeftValue
<1>11. Fill(Pow2[i], pad) = pad * (g - 1)
  BY Zenon, <1>3, <1>5, FillIs
<1>12. CASE b = 0
  <2>1. t + p * b = t
    BY <1>12
  <2>2. LeftValue(wX, pad, x, s, i + 1) = v * a + pad * (h * g)
    BY Zenon, <1>8, <1>10, <2>1
  <2>3. (pad * (g - 1)) * h + (v * a + pad * h) = v * a + pad * (h * g)
    OBVIOUS
  <2>4. Cat(Fill(Pow2[i], pad), LevelWidth(wX, i), LeftValue(wX, pad, x, s, i)) = (pad * (g - 1)) * h + (v * a + pad * h)
    BY Zenon, <1>5, <1>9, <1>11 DEF Cat
  <2>5. BitOf(s, i) # 1
    BY <1>3, <1>12
  <2> QED BY Zenon, <2>2, <2>3, <2>4, <2>5 DEF LeftRowOf, LeftRowIs
<1>13. CASE b = 1
  <2>1. t + p * b = t + p
    BY <1>13
  <2>2. Pow2[t + p] = a * g
    BY Zenon, <1>5, <1>7, <1>8, Pow2Sum
  <2>3. LeftValue(wX, pad, x, s, i + 1) = v * (a * g) + pad * (h * g)
    BY Zenon, <1>10, <2>1, <2>2
  <2>4. v * (a * g) + pad * (h * g) = (v * a + pad * h) * g + 0
    OBVIOUS
  <2>5. Cat(LeftValue(wX, pad, x, s, i), Pow2[i], 0) = (v * a + pad * h) * g + 0
    BY Zenon, <1>3, <1>5, <1>9 DEF Cat
  <2> QED BY Zenon, <1>3, <1>13, <2>3, <2>4, <2>5 DEF LeftRowOf, LeftRowIs
<1> QED BY <1>12, <1>13

\* The first row is the input.
FirstRow(wX, pad, x, s) == RightValue(wX, pad, x, s, 0) = x /\ LeftValue(wX, pad, x, s, 0) = x
\* It is: no bit of the shift has been used.
LEMMA FirstValue ==
  ASSUME NEW wX \in Nat, NEW pad \in 0..1, NEW x \in Nat, NEW s \in Nat
  PROVE  FirstRow(wX, pad, x, s)
<1>1. Pow2[0] = 1
  BY Pow2Def
<1>2. s % 1 = 0
  OBVIOUS
<1>3. (1 - 1) - 0 = 0 /\ wX + (1 - 1) = wX
  OBVIOUS
<1>4. PICK h \in Nat : h = Pow2[wX]
  BY Pow2Def
<1>5. Extended(wX, pad, x) = x - pad * h
  BY Zenon, <1>4 DEF Extended
<1>6. (x - pad * h) * 1 + pad * h = x
  OBVIOUS
<1>7. RightValue(wX, pad, x, s, 0) = (x - pad * h) * 1 + pad * h
  BY Zenon, <1>1, <1>2, <1>3, <1>4, <1>5 DEF RightValue
<1>8. LeftValue(wX, pad, x, s, 0) = (x - pad * h) * 1 + pad * h
  BY Zenon, <1>1, <1>2, <1>3, <1>4, <1>5 DEF LeftValue
<1> QED BY Zenon, <1>6, <1>7, <1>8 DEF FirstRow

\* The rows of a shifter hold what they should, each from the one before.
RightRows(wX, pad, x, s, w, f) ==
  f = [i \in 0..w |-> IF i = 0 THEN x ELSE RightRowOf(wX, pad, s, i - 1, f[i - 1])]
\* Some function is the rows of the right shifter.
LEMMA RightRowsAre ==
  ASSUME NEW wX \in Nat, NEW pad \in 0..1, NEW x \in Nat, NEW s \in Nat, NEW w \in Nat
  PROVE  \E f : RightRows(wX, pad, x, s, w, f)
<1> DEFINE g == [i \in 0..w |-> RightValue(wX, pad, x, s, i)]
<1>1. ASSUME NEW i \in 0..w
      PROVE  RightValue(wX, pad, x, s, i) = IF i = 0 THEN x ELSE RightRowOf(wX, pad, s, i - 1, g[i - 1])
  <2>1. CASE i = 0
    <3>0. FirstRow(wX, pad, x, s)
      BY Zenon, FirstValue
    <3>1. RightValue(wX, pad, x, s, 0) = x
      BY Zenon, <3>0 DEF FirstRow
    <3> QED BY Zenon, <2>1, <3>1
  <2>2. CASE i # 0
    <3>1. i - 1 \in Nat /\ i - 1 \in 0..w /\ (i - 1) + 1 = i
      BY <2>2
    <3>2. g[i - 1] = RightValue(wX, pad, x, s, i - 1)
      BY Zenon, <3>1
    <3>3. RightRowIs(wX, pad, x, s, i - 1)
      BY Zenon, <3>1, RightRow
    <3>4. RightValue(wX, pad, x, s, i) = RightRowOf(wX, pad, s, i - 1, g[i - 1])
      BY Zenon, <3>1, <3>2, <3>3 DEF RightRowIs
    <3> QED BY Zenon, <2>2, <3>4
  <2> QED BY Zenon, <2>1, <2>2
<1>2. g = [i \in 0..w |-> IF i = 0 THEN x ELSE RightRowOf(wX, pad, s, i - 1, g[i - 1])]
  <2> HIDE DEF RightRowOf, RightValue
  <2> QED BY Zenon, <1>1
<1> HIDE DEF g
<1> QED BY Zenon, <1>2 DEF RightRows

RightRowsAt(wX, pad, x, s, w, f) == f[w] = RightValue(wX, pad, x, s, w)
\* Any such function ends with what the last row of the right shifter holds.
LEMMA RightRowsHold ==
  ASSUME NEW wX \in Nat, NEW pad \in 0..1, NEW x \in Nat, NEW s \in Nat, NEW w \in Nat, NEW f,
         RightRows(wX, pad, x, s, w, f)
  PROVE  RightRowsAt(wX, pad, x, s, w, f)
<1> DEFINE G == {n \in Nat : n \in 0..w => f[n] = RightValue(wX, pad, x, s, n)}
<1>0. 0 \in Nat /\ 0 \in 0..w
  OBVIOUS
<1>1. \A i \in 0..w : f[i] = IF i = 0 THEN x ELSE RightRowOf(wX, pad, s, i - 1, f[i - 1])
  BY Zenon DEF RightRows
<1>2. 0 \in G
  <2>0. FirstRow(wX, pad, x, s)
    BY Zenon, FirstValue
  <2>1. RightValue(wX, pad, x, s, 0) = x
    BY Zenon, <2>0 DEF FirstRow
  <2>2. f[0] = x
    BY Zenon, <1>0, <1>1
  <2> QED BY Zenon, <1>0, <2>1, <2>2
<1>3. ASSUME NEW n \in Nat, n \in G PROVE n + 1 \in G
  <2>1. SUFFICES ASSUME n + 1 \in 0..w PROVE f[n + 1] = RightValue(wX, pad, x, s, n + 1)
    <3>1. n + 1 \in Nat
      OBVIOUS
    <3> QED BY Zenon, <3>1
  <2>2. n \in 0..w /\ (n + 1) - 1 = n /\ n + 1 # 0
    BY <2>1
  <2>3. f[n] = RightValue(wX, pad, x, s, n)
    BY Zenon, <1>3, <2>2
  <2>4. f[n + 1] = RightRowOf(wX, pad, s, n, f[n])
    BY Zenon, <1>1, <2>1, <2>2
  <2>5. RightRowIs(wX, pad, x, s, n)
    BY Zenon, RightRow
  <2> QED BY Zenon, <2>3, <2>4, <2>5 DEF RightRowIs
<1>4. \A n \in Nat : n \in G
  <2> HIDE DEF G
  <2> QED BY Zenon, <1>2, <1>3, Induction
<1>5. w \in 0..w
  OBVIOUS
<1> QED BY Zenon, <1>4, <1>5 DEF RightRowsAt

LeftRows(wX, pad, x, s, w, f) ==
  f = [i \in 0..w |-> IF i = 0 THEN x ELSE LeftRowOf(wX, pad, s, i - 1, f[i - 1])]
\* Some function is the rows of the left shifter.
LEMMA LeftRowsAre ==
  ASSUME NEW wX \in Nat, NEW pad \in 0..1, NEW x \in Nat, NEW s \in Nat, NEW w \in Nat
  PROVE  \E f : LeftRows(wX, pad, x, s, w, f)
<1> DEFINE g == [i \in 0..w |-> LeftValue(wX, pad, x, s, i)]
<1>1. ASSUME NEW i \in 0..w
      PROVE  LeftValue(wX, pad, x, s, i) = IF i = 0 THEN x ELSE LeftRowOf(wX, pad, s, i - 1, g[i - 1])
  <2>1. CASE i = 0
    <3>0. FirstRow(wX, pad, x, s)
      BY Zenon, FirstValue
    <3>1. LeftValue(wX, pad, x, s, 0) = x
      BY Zenon, <3>0 DEF FirstRow
    <3> QED BY Zenon, <2>1, <3>1
  <2>2. CASE i # 0
    <3>1. i - 1 \in Nat /\ i - 1 \in 0..w /\ (i - 1) + 1 = i
      BY <2>2
    <3>2. g[i - 1] = LeftValue(wX, pad, x, s, i - 1)
      BY Zenon, <3>1
    <3>3. LeftRowIs(wX, pad, x, s, i - 1)
      BY Zenon, <3>1, LeftRow
    <3>4. LeftValue(wX, pad, x, s, i) = LeftRowOf(wX, pad, s, i - 1, g[i - 1])
      BY Zenon, <3>1, <3>2, <3>3 DEF LeftRowIs
    <3> QED BY Zenon, <2>2, <3>4
  <2> QED BY Zenon, <2>1, <2>2
<1>2. g = [i \in 0..w |-> IF i = 0 THEN x ELSE LeftRowOf(wX, pad, s, i - 1, g[i - 1])]
  <2> HIDE DEF LeftRowOf, LeftValue
  <2> QED BY Zenon, <1>1
<1> HIDE DEF g
<1> QED BY Zenon, <1>2 DEF LeftRows

LeftRowsAt(wX, pad, x, s, w, f) == f[w] = LeftValue(wX, pad, x, s, w)
\* Any such function ends with what the last row of the left shifter holds.
LEMMA LeftRowsHold ==
  ASSUME NEW wX \in Nat, NEW pad \in 0..1, NEW x \in Nat, NEW s \in Nat, NEW w \in Nat, NEW f,
         LeftRows(wX, pad, x, s, w, f)
  PROVE  LeftRowsAt(wX, pad, x, s, w, f)
<1> DEFINE G == {n \in Nat : n \in 0..w => f[n] = LeftValue(wX, pad, x, s, n)}
<1>0. 0 \in Nat /\ 0 \in 0..w
  OBVIOUS
<1>1. \A i \in 0..w : f[i] = IF i = 0 THEN x ELSE LeftRowOf(wX, pad, s, i - 1, f[i - 1])
  BY Zenon DEF LeftRows
<1>2. 0 \in G
  <2>0. FirstRow(wX, pad, x, s)
    BY Zenon, FirstValue
  <2>1. LeftValue(wX, pad, x, s, 0) = x
    BY Zenon, <2>0 DEF FirstRow
  <2>2. f[0] = x
    BY Zenon, <1>0, <1>1
  <2> QED BY Zenon, <1>0, <2>1, <2>2
<1>3. ASSUME NEW n \in Nat, n \in G PROVE n + 1 \in G
  <2>1. SUFFICES ASSUME n + 1 \in 0..w PROVE f[n + 1] = LeftValue(wX, pad, x, s, n + 1)
    <3>1. n + 1 \in Nat
      OBVIOUS
    <3> QED BY Zenon, <3>1
  <2>2. n \in 0..w /\ (n + 1) - 1 = n /\ n + 1 # 0
    BY <2>1
  <2>3. f[n] = LeftValue(wX, pad, x, s, n)
    BY Zenon, <1>3, <2>2
  <2>4. f[n + 1] = LeftRowOf(wX, pad, s, n, f[n])
    BY Zenon, <1>1, <2>1, <2>2
  <2>5. LeftRowIs(wX, pad, x, s, n)
    BY Zenon, LeftRow
  <2> QED BY Zenon, <2>3, <2>4, <2>5 DEF LeftRowIs
<1>4. \A n \in Nat : n \in G
  <2> HIDE DEF G
  <2> QED BY Zenon, <1>2, <1>3, Induction
<1>5. w \in 0..w
  OBVIOUS
<1> QED BY Zenon, <1>4, <1>5 DEF LeftRowsAt

\* The last row of a shifter by up to maxShift: m is the largest shift its rows can make,
\* lo the bits of the last row to the right of the output.
ShiftSetting(wX, maxShift, wR, s, w, m, lo) ==
  /\ w = ShiftWidth(maxShift) /\ Pow2[w] = m + 1 /\ Pow2[w] - 1 = m /\ s <= m /\ s % Pow2[w] = s
  /\ LevelWidth(wX, w) = wX + m /\ lo + wR = wX + m
  /\ LevelWidth(wX, w) - 1 = (lo + wR) - 1 /\ LevelWidth(wX, w) - wR = lo
\* There are such numbers when the output is not wider than the last row.
LEMMA ShiftSettingIs ==
  ASSUME NEW wX \in Nat, NEW maxShift \in Nat, NEW wR \in Nat, wR <= wX + maxShift,
         NEW s \in 0..Ones(ShiftWidth(maxShift))
  PROVE  \E w \in Nat, m \in Nat, lo \in Nat : ShiftSetting(wX, maxShift, wR, s, w, m, lo)
<1>1. IntLog2(maxShift) \in Nat /\ maxShift < Pow2[IntLog2(maxShift)]
  BY Zenon, IntLog2Bounds
<1>2. PICK w \in Nat : w = ShiftWidth(maxShift) /\ maxShift < Pow2[w]
  BY Zenon, <1>1 DEF ShiftWidth
<1>3. PICK q \in Nat \ {0} : q = Pow2[w]
  BY Pow2Def
<1>4. Ones(w) = q - 1
  BY Zenon, <1>3 DEF Ones
<1>5. s \in 0..(q - 1) /\ maxShift < q
  BY Zenon, <1>2, <1>3, <1>4
<1>6. PICK m \in Nat : m = q - 1 /\ maxShift <= m /\ s <= m /\ q = m + 1
  BY <1>5
<1>7. PICK lo \in Nat : lo + wR = wX + m /\ (wX + m) - wR = lo /\ (wX + m) - 1 = (lo + wR) - 1
  <2>1. (wX + m) - wR \in Nat
    BY <1>6
  <2> QED BY <2>1
<1>8. LevelWidth(wX, w) = wX + m
  <2>1. wX + (q - 1) = wX + m
    BY <1>6
  <2> QED BY Zenon, <1>3, <2>1 DEF LevelWidth
<1>9. s % q = s
  <2>1. s \in Int
    BY <1>5
  <2> QED BY ZenonT(30), <1>5, <2>1, SmallRemainder
<1>10. ShiftSetting(wX, maxShift, wR, s, w, m, lo)
  BY Zenon, <1>2, <1>3, <1>6, <1>7, <1>8, <1>9 DEF ShiftSetting
<1> QED BY Zenon, <1>10

\* The input of a shifter, with its padding, is an integer.
LEMMA ExtendedType ==
  ASSUME NEW wX \in Nat, NEW pad \in 0..1, NEW x \in Nat
  PROVE  Extended(wX, pad, x) \in Int
<1>1. Pow2[wX] \in Nat
  BY Pow2Def
<1> QED BY <1>1 DEF Extended

\* The right shifter divides.
RightShiftIs(wX, maxShift, wR, pad, x, s) ==
  RightShifter(wX, maxShift, wR, pad, x, s)
    = ((Extended(wX, pad, x) * Pow2[wR - wX]) \div Pow2[s]) % Pow2[wR]
\* For every size and every shift its input can hold.
LEMMA RightShifterIs ==
  ASSUME NEW wX \in Nat, NEW maxShift \in Nat, NEW wR \in Nat, wX <= wR, wR <= wX + maxShift,
         NEW pad \in 0..1, NEW x \in Nat, NEW s \in 0..Ones(ShiftWidth(maxShift))
  PROVE  RightShiftIs(wX, maxShift, wR, pad, x, s)
<1>1. PICK w \in Nat, m \in Nat, lo \in Nat : ShiftSetting(wX, maxShift, wR, s, w, m, lo)
  BY Zenon, ShiftSettingIs
<1>2. /\ w = ShiftWidth(maxShift) /\ Pow2[w] = m + 1 /\ Pow2[w] - 1 = m /\ s <= m /\ s % Pow2[w] = s
      /\ LevelWidth(wX, w) = wX + m /\ lo + wR = wX + m
      /\ LevelWidth(wX, w) - 1 = (lo + wR) - 1 /\ LevelWidth(wX, w) - wR = lo
  BY Zenon, <1>1 DEF ShiftSetting
<1>3. s \in Nat
  <2>1. Pow2[ShiftWidth(maxShift)] \in Nat
    BY <1>2
  <2> QED BY <2>1 DEF Ones
<1>0. \E f : RightRows(wX, pad, x, s, w, f)
  BY Zenon, <1>3, RightRowsAre
<1> DEFINE f == CHOOSE g : RightRows(wX, pad, x, s, w, g)
<1>4. RightRows(wX, pad, x, s, w, f)
  BY Zenon, <1>0
<1>5. RightShifter(wX, maxShift, wR, pad, x, s) = Bits(f[w], LevelWidth(wX, w) - 1, LevelWidth(wX, w) - wR)
  BY Zenon, <1>2 DEF RightShifter, RightRowOf, RightRows
<1> HIDE DEF f
<1>6. f[w] = RightValue(wX, pad, x, s, w)
  <2>1. RightRowsAt(wX, pad, x, s, w, f)
    BY Zenon, <1>3, <1>4, RightRowsHold
  <2> QED BY Zenon, <2>1 DEF RightRowsAt
<1>7. PICK e \in Int : e = Extended(wX, pad, x)
  BY Zenon, ExtendedType
<1>8. m - s \in Nat /\ wR - wX \in Nat /\ (m - s) + s = lo + (wR - wX)
  BY <1>2, <1>3
<1>9. PICK a \in Nat \ {0}, b \in Nat \ {0}, p \in Nat \ {0}, q \in Nat \ {0}, g \in Nat \ {0} :
        a = Pow2[m - s] /\ b = Pow2[wR - wX] /\ p = Pow2[lo] /\ q = Pow2[s] /\ g = Pow2[wR]
  BY <1>3, <1>8, Pow2Def
<1>10. a * q = p * b
  <2>1. Pow2[(m - s) + s] = a * q
    BY Zenon, <1>3, <1>8, <1>9, Pow2Sum
  <2>2. Pow2[lo + (wR - wX)] = p * b
    BY Zenon, <1>8, <1>9, Pow2Sum
  <2> QED BY Zenon, <1>8, <2>1, <2>2
<1>11. Pow2[wX + m] = p * g
  <2>1. Pow2[lo + wR] = p * g
    BY Zenon, <1>9, Pow2Sum
  <2> QED BY Zenon, <1>2, <2>1
<1>12. f[w] = e * a + pad * (p * g)
  BY Zenon, <1>2, <1>6, <1>7, <1>9, <1>11 DEF RightValue
<1>13. PICK v \in Int : v = f[w]
  <2>1. e * a + pad * (p * g) \in Int
    OBVIOUS
  <2> QED BY Zenon, <1>12, <2>1
<1>14. Bits(v, (lo + wR) - 1, lo) = (v \div p) % g
  BY ZenonT(40), <1>9, BitsDef
<1>15. v \div p = ((e * a) \div p) + pad * g
  <2>1. PICK u \in Int : u = e * a
    OBVIOUS
  <2>2. PICK k \in Int, r \in 0..(p - 1) : u = p * k + r /\ k = u \div p
    BY ZenonT(40), Division
  <2>3. v = p * (k + pad * g) + r
    <3>1. (p * k + r) + pad * (p * g) = p * (k + pad * g) + r
      OBVIOUS
    <3> QED BY Zenon, <1>12, <1>13, <2>1, <2>2, <3>1
  <2>4. k + pad * g \in Int
    OBVIOUS
  <2>5. (p * (k + pad * g) + r) \div p = k + pad * g
    BY ZenonT(40), <2>4, DivisionUnique
  <2> QED BY Zenon, <2>1, <2>2, <2>3, <2>5
<1>16. (e * a) \div p = (e * b) \div q
  <2>1. (e * a) * q = (e * b) * p
    <3>1. (e * a) * q = e * (a * q) /\ (e * b) * p = e * (p * b)
      OBVIOUS
    <3> QED BY Zenon, <1>10, <3>1
  <2>2. e * a \in Int /\ e * b \in Int
    OBVIOUS
  <2>3. PICK u \in Int, t \in Int : u = e * a /\ t = e * b
    BY <2>2
  <2>4. EqualFractions(u, p, t, q)
    BY Zenon, <2>1, <2>3 DEF EqualFractions
  <2>6. EqualParts(u, p, t, q)
    BY ZenonT(40), <2>4, SameQuotient
  <2> QED BY Zenon, <2>3, <2>6 DEF EqualParts
<1>17. (v \div p) % g = ((e * b) \div q) % g
  <2>0. PICK z \in Int : z = e * b
    OBVIOUS
  <2>9. z \div q \in Int
    BY ZenonT(30), Division
  <2>1. PICK k \in Int : k = (e * b) \div q
    BY Zenon, <2>0, <2>9
  <2>2. v \div p = k + g * pad
    <3>1. k + pad * g = k + g * pad
      OBVIOUS
    <3> QED BY Zenon, <1>15, <1>16, <2>1, <3>1
  <2>3. pad \in Int
    OBVIOUS
  <2>4. PICK y \in Int : y = k + g * pad
    OBVIOUS
  <2>6. Congruent(y, k, g)
    BY Zenon, <2>3, <2>4 DEF Congruent
  <2>5. y % g = k % g
    BY ZenonT(40), <2>6, CongruentRemainder
  <2> QED BY Zenon, <2>1, <2>2, <2>4, <2>5
<1> QED BY Zenon, <1>2, <1>5, <1>7, <1>9, <1>13, <1>14, <1>17 DEF RightShiftIs

\* The left shifter multiplies.
LeftShiftIs(wX, maxShift, wR, pad, x, s) ==
  LeftShifter(wX, maxShift, wR, pad, x, s) = (Extended(wX, pad, x) * Pow2[s]) % Pow2[wR]
\* For every size and every shift its input can hold.
LEMMA LeftShifterIs ==
  ASSUME NEW wX \in Nat, NEW maxShift \in Nat, NEW wR \in Nat, wX <= wR, wR <= wX + maxShift,
         NEW pad \in 0..1, NEW x \in Nat, NEW s \in 0..Ones(ShiftWidth(maxShift))
  PROVE  LeftShiftIs(wX, maxShift, wR, pad, x, s)
<1>1. PICK w \in Nat, m \in Nat, lo \in Nat : ShiftSetting(wX, maxShift, wR, s, w, m, lo)
  BY Zenon, ShiftSettingIs
<1>2. /\ w = ShiftWidth(maxShift) /\ Pow2[w] = m + 1 /\ Pow2[w] - 1 = m /\ s <= m /\ s % Pow2[w] = s
      /\ LevelWidth(wX, w) = wX + m /\ lo + wR = wX + m
  BY Zenon, <1>1 DEF ShiftSetting
<1>3. s \in Nat
  <2>1. Pow2[ShiftWidth(maxShift)] \in Nat
    BY <1>2
  <2> QED BY <2>1 DEF Ones
<1>0. \E f : LeftRows(wX, pad, x, s, w, f)
  BY Zenon, <1>3, LeftRowsAre
<1> DEFINE f == CHOOSE g : LeftRows(wX, pad, x, s, w, g)
<1>4. LeftRows(wX, pad, x, s, w, f)
  BY Zenon, <1>0
<1>5. LeftShifter(wX, maxShift, wR, pad, x, s) = Bits(f[w], wR - 1, 0)
  BY Zenon, <1>2 DEF LeftShifter, LeftRowOf, LeftRows
<1> HIDE DEF f
<1>6. f[w] = LeftValue(wX, pad, x, s, w)
  <2>1. LeftRowsAt(wX, pad, x, s, w, f)
    BY Zenon, <1>3, <1>4, LeftRowsHold
  <2> QED BY Zenon, <2>1 DEF LeftRowsAt
<1>7. PICK e \in Int : e = Extended(wX, pad, x)
  BY Zenon, ExtendedType
<1>8. PICK p \in Nat \ {0}, q \in Nat \ {0}, g \in Nat \ {0} : p = Pow2[lo] /\ q = Pow2[s] /\ g = Pow2[wR]
  BY <1>3, Pow2Def
<1>9. Pow2[wX + m] = p * g
  <2>1. Pow2[lo + wR] = p * g
    BY Zenon, <1>8, Pow2Sum
  <2> QED BY Zenon, <1>2, <2>1
<1>10. f[w] = e * q + pad * (p * g)
  BY Zenon, <1>2, <1>6, <1>7, <1>8, <1>9 DEF LeftValue
<1>11. PICK u \in Int, v \in Int, k \in Int : u = e * q /\ v = f[w] /\ k = pad * p /\ v = u + g * k
  <2>1. e * q + pad * (p * g) \in Int /\ e * q \in Int /\ pad * p \in Int
    OBVIOUS
  <2>2. e * q + pad * (p * g) = e * q + g * (pad * p)
    OBVIOUS
  <2> QED BY Zenon, <1>10, <2>1, <2>2
<1>12. v % g = u % g
  <2>1. Congruent(v, u, g)
    BY Zenon, <1>11 DEF Congruent
  <2> QED BY ZenonT(40), <2>1, CongruentRemainder
<1>13. Bits(v, wR - 1, 0) = v % g
  <2>1. (0 + wR) - 1 = wR - 1 /\ 0 \in Nat /\ Pow2[0] = 1 /\ v \div 1 = v
    BY Pow2Def
  <2>2. Bits(v, (0 + wR) - 1, 0) = (v \div Pow2[0]) % Pow2[wR]
    BY ZenonT(40), <2>1, BitsDef
  <2> QED BY Zenon, <1>8, <2>1, <2>2
<1> QED BY Zenon, <1>5, <1>7, <1>8, <1>11, <1>12, <1>13 DEF LeftShiftIs

-----------------------------------------------------------------------------
(***************************************************************************)
(* The shifter with a sticky bit, from the largest shift to the smallest.  *)
(***************************************************************************)
\* Shifting by a and then by b drops what shifting by a + b does.
ShiftedTwice(v, n, a, b, u) ==
  /\ Bits(u, n - 1, b) = v \div Pow2[a + b]
  /\ LargerOf(Flag(v % Pow2[a] # 0), Flag(Bits(u, b - 1, 0) # 0)) = Flag(v % Pow2[a + b] # 0)
\* By the uniqueness of quotient and remainder.
LEMMA ShiftTwice ==
  ASSUME NEW v \in Nat, NEW n \in Nat, v < Pow2[n], NEW a \in Nat, NEW b \in 0..n,
         NEW u, u = v \div Pow2[a]
  PROVE  ShiftedTwice(v, n, a, b, u)
<1>1. PICK p \in Nat \ {0}, q \in Nat \ {0}, g \in Nat \ {0} : p = Pow2[a] /\ q = Pow2[b] /\ g = Pow2[n - b]
  <2>1. b \in Nat /\ n - b \in Nat
    OBVIOUS
  <2> QED BY <2>1, Pow2Def
<1>2. Pow2[a + b] = p * q /\ Pow2[n] = q * g
  <2>1. b \in Nat /\ n - b \in Nat /\ b + (n - b) = n
    OBVIOUS
  <2>2. Pow2[a + b] = p * q
    BY Zenon, <1>1, <2>1, Pow2Sum
  <2>3. Pow2[b + (n - b)] = q * g
    BY Zenon, <1>1, <2>1, Pow2Sum
  <2> QED BY Zenon, <2>1, <2>2, <2>3
<1>3. PICK k \in Nat, z \in 0..(p - 1) : v = p * k + z /\ k = v \div p /\ z = v % p
  BY ZenonT(40), NaturalDivision
<1>4. PICK l \in Nat, y \in 0..(q - 1) : k = q * l + y /\ l = k \div q /\ y = k % q
  BY ZenonT(40), NaturalDivision
<1>5. (v \div p) \div q = v \div (p * q) /\ v % (p * q) = ((v \div p) % q) * p + (v % p)
  <2>1. v \in Int
    OBVIOUS
  <2> QED BY ZenonT(40), <2>1, QuotientOfQuotient
<1>6. u = k
  BY Zenon, <1>1, <1>3
<1>7. l < g
  <2>1. SUFFICES ASSUME g <= l PROVE FALSE
    BY SMT
  <2>2. q * g <= q * l
    BY <2>1
  <2>3. PICK e \in Nat, h \in Nat, t \in Nat : e = q * g /\ h = q * l /\ t = p * k
    OBVIOUS
  <2>4. k <= t
    BY <2>3
  <2>5. v < e /\ v = t + z /\ k = h + y /\ e <= h
    BY Zenon, <1>1, <1>2, <1>3, <1>4, <2>2, <2>3
  <2>6. y >= 0 /\ z >= 0
    OBVIOUS
  <2> QED BY <2>4, <2>5, <2>6
<1>8. Bits(u, n - 1, b) = l
  <2>1. b \in Nat /\ n - b \in Nat /\ (b + (n - b)) - 1 = n - 1 /\ k \in Int
    OBVIOUS
  <2>2. Bits(k, (b + (n - b)) - 1, b) = (k \div Pow2[b]) % Pow2[n - b]
    BY ZenonT(40), <2>1, BitsDef
  <2>3. l \in 0..(g - 1) /\ l \in Int
    BY <1>7
  <2>4. l % g = l
    BY ZenonT(40), <2>3, SmallRemainder
  <2> QED BY Zenon, <1>1, <1>4, <1>6, <2>1, <2>2, <2>4
<1>9. Bits(u, b - 1, 0) = y
  <2>1. b \in Nat /\ 0 \in Nat /\ (0 + b) - 1 = b - 1 /\ k \in Int /\ Pow2[0] = 1 /\ k \div 1 = k
    BY Pow2Def
  <2>2. Bits(k, (0 + b) - 1, 0) = (k \div Pow2[0]) % Pow2[b]
    BY ZenonT(40), <2>1, BitsDef
  <2> QED BY Zenon, <1>1, <1>4, <1>6, <2>1, <2>2
<1>10. v % (p * q) = y * p + z
  BY Zenon, <1>3, <1>4, <1>5
<1>11. y * p + z # 0 <=> z # 0 \/ y # 0
  <2>1. y = 0 => y * p = 0
    OBVIOUS
  <2>2. y # 0 => y * p # 0
    OBVIOUS
  <2>3. PICK t \in Nat : t = y * p
    OBVIOUS
  <2> QED BY <2>1, <2>2, <2>3
<1>12. LargerOf(Flag(z # 0), Flag(y # 0)) = Flag(y * p + z # 0)
  BY <1>11 DEF LargerOf, Flag
<1>13. v \div Pow2[a + b] = l
  BY Zenon, <1>2, <1>3, <1>4, <1>5
<1> QED BY Zenon, <1>1, <1>2, <1>3, <1>8, <1>9, <1>10, <1>12, <1>13 DEF ShiftedTwice

\* The remainder of a natural number is not above it.
NaturalRemainder(v, p) == (v % p) \in Nat /\ (v % p) <= v
\* From the quotient it comes with.
LEMMA NaturalRemainderIs ==
  ASSUME NEW v \in Nat, NEW p \in Nat \ {0}
  PROVE  NaturalRemainder(v, p)
<1>1. PICK q \in Nat, r \in 0..(p - 1) : v = p * q + r /\ q = v \div p /\ r = v % p /\ r <= v /\ p * q <= v
  BY ZenonT(40), NaturalDivision
<1>2. r \in Nat
  OBVIOUS
<1> QED BY Zenon, <1>1, <1>2 DEF NaturalRemainder

\* What a row holds: the number, at the left end of the output, shifted by the digits of
\* the rows above; and what a row makes of the one above.
StickyValue(wX, wR, x, s, i) ==
  [R |-> (x * Pow2[wR - wX]) \div Pow2[s - (s % Pow2[i])],
   Sticky |-> Flag((x * Pow2[wR - wX]) % Pow2[s - (s % Pow2[i])] # 0)]
StickyRowOf(wR, s, i, above) ==
  IF BitOf(s, i) = 0 THEN above
  ELSE [R |-> Cat(Fill(Pow2[i], 0), wR - Pow2[i], Bits(above.R, wR - 1, Pow2[i])),
        Sticky |-> LargerOf(above.Sticky, Flag(Bits(above.R, Pow2[i] - 1, 0) # 0))]
StickyRowIs(wX, wR, x, s, i) ==
  StickyValue(wX, wR, x, s, i) = StickyRowOf(wR, s, i, StickyValue(wX, wR, x, s, i + 1))
\* The input at the left end of the output has its bits.
LEMMA WidenedFits ==
  ASSUME NEW wX \in Nat, NEW wR \in Nat, wX <= wR, NEW x \in Nat, x < Pow2[wX]
  PROVE  x * Pow2[wR - wX] \in Nat /\ x * Pow2[wR - wX] < Pow2[wR]
<1>1. wR - wX \in Nat /\ wX + (wR - wX) = wR
  OBVIOUS
<1>2. PICK p \in Nat \ {0}, q \in Nat \ {0} : p = Pow2[wX] /\ q = Pow2[wR - wX]
  BY <1>1, Pow2Def
<1>3. Pow2[wX + (wR - wX)] = p * q
  BY Zenon, <1>1, <1>2, Pow2Sum
<1>4. x * q < p * q /\ x * q \in Nat
  BY <1>2
<1> QED BY Zenon, <1>1, <1>2, <1>3, <1>4

\* A row of the shifter with a sticky bit.
LEMMA StickyRow ==
  ASSUME NEW wX \in Nat, NEW wR \in Nat, wX <= wR, NEW x \in Nat, x < Pow2[wX], NEW s \in Nat,
         NEW i \in Nat, Pow2[i] <= wR
  PROVE  StickyRowIs(wX, wR, x, s, i)
<1>1. PICK v \in Nat : v = x * Pow2[wR - wX] /\ v < Pow2[wR]
  BY Zenon, WidenedFits
<1>2. PICK p \in Nat \ {0}, b \in 0..1 : \E t \in 0..(p - 1) : ShiftDigit(s, i, p, t, b)
  BY Zenon, ShiftDigitIs
<1>3. PICK t \in 0..(p - 1) : ShiftDigit(s, i, p, t, b)
  BY Zenon, <1>2
<1>4. p = Pow2[i] /\ t = s % Pow2[i] /\ b = BitOf(s, i) /\ s % Pow2[i + 1] = t + p * b /\ Pow2[i + 1] = 2 * p
  BY Zenon, <1>3 DEF ShiftDigit
<1>5. PICK a \in Nat : a = s - (t + p * b)
  <2>1. NaturalRemainder(s, 2 * p)
    <3>1. 2 * p \in Nat \ {0}
      OBVIOUS
    <3> QED BY Zenon, <3>1, NaturalRemainderIs
  <2>2. s % (2 * p) \in Nat /\ s % (2 * p) <= s
    BY Zenon, <2>1 DEF NaturalRemainder
  <2> QED BY <1>4, <2>2
<1>6. CASE b = 0
  <2>1. t + p * b = t
    BY <1>6
  <2>2. StickyValue(wX, wR, x, s, i) = StickyValue(wX, wR, x, s, i + 1)
    BY Zenon, <1>4, <2>1 DEF StickyValue
  <2> QED BY Zenon, <1>4, <1>6, <2>2 DEF StickyRowIs, StickyRowOf
<1>7. CASE b # 0
  <2>1. s - t = a + p /\ b = 1
    BY <1>5, <1>7
  <2>2. PICK u : u = v \div Pow2[a]
    OBVIOUS
  <2>3. ShiftedTwice(v, wR, a, p, u)
    <3>1. p \in 0..wR
      BY <1>4
    <3> QED BY Zenon, <1>1, <2>2, <3>1, ShiftTwice
  <2>4. StickyValue(wX, wR, x, s, i) = [R |-> v \div Pow2[a + p], Sticky |-> Flag(v % Pow2[a + p] # 0)]
    BY Zenon, <1>1, <1>4, <2>1 DEF StickyValue
  <2>5. StickyValue(wX, wR, x, s, i + 1) = [R |-> u, Sticky |-> Flag(v % Pow2[a] # 0)]
    BY Zenon, <1>1, <1>4, <1>5, <2>2 DEF StickyValue
  <2>6. Cat(Fill(p, 0), wR - p, Bits(u, wR - 1, p)) = Bits(u, wR - 1, p)
    <3>0. p <= wR
      BY Zenon, <1>4
    <3>9. wR - p \in Nat
      BY <3>0
    <3>1. Pow2[wR - p] \in Nat
      BY <3>9, Pow2Def
    <3>2. PICK c \in Int : c = Bits(u, wR - 1, p)
      <4>1. p \in Nat /\ wR - p \in Nat /\ (p + (wR - p)) - 1 = wR - 1
        BY <3>9
      <4>2. u \in Int
        <5>1. Pow2[a] \in Nat \ {0} /\ v \in Int
          BY Pow2Def
        <5> QED BY ZenonT(40), <2>2, <5>1, Division
      <4>3. Bits(u, (p + (wR - p)) - 1, p) \in 0..(Pow2[wR - p] - 1)
        BY ZenonT(40), <4>1, <4>2, BitsDef
      <4> QED BY <3>1, <4>1, <4>3
    <3>3. 0 * Pow2[wR - p] + c = c
      BY <3>1
    <3>4. Fill(p, 0) = 0
      BY DEF Fill
    <3> QED BY Zenon, <3>2, <3>3, <3>4 DEF Cat
  <2>7. StickyRowOf(wR, s, i, StickyValue(wX, wR, x, s, i + 1))
          = [R |-> Bits(u, wR - 1, p),
             Sticky |-> LargerOf(Flag(v % Pow2[a] # 0), Flag(Bits(u, p - 1, 0) # 0))]
    <3>1. ~(BitOf(s, i) = 0)
      BY Zenon, <1>4, <1>7
    <3>2. PICK y : y = [R |-> u, Sticky |-> Flag(v % Pow2[a] # 0)]
      OBVIOUS
    <3>3. y.R = u /\ y.Sticky = Flag(v % Pow2[a] # 0)
      BY Zenon, <3>2
    <3> QED BY Zenon, <1>4, <2>5, <2>6, <3>1, <3>2, <3>3 DEF StickyRowOf
  <2> QED BY Zenon, <2>3, <2>4, <2>7 DEF StickyRowIs, ShiftedTwice
<1> QED BY Zenon, <1>6, <1>7

\* The rows, from the one above.
StickyRows(wX, wR, x, s, w, f) ==
  f = [i \in 0..w |-> IF i = w THEN [R |-> Cat(x, wR - wX, Fill(wR - wX, 0)), Sticky |-> 0]
                      ELSE StickyRowOf(wR, s, i, f[i + 1])]
StickyRowsAt(wX, wR, x, s, f) == f[0] = StickyValue(wX, wR, x, s, 0)
\* The row above all.
LEMMA StickyTop ==
  ASSUME NEW wX \in Nat, NEW wR \in Nat, wX <= wR, NEW x \in Nat, NEW s \in Nat, NEW w \in Nat,
         s < Pow2[w]
  PROVE  StickyValue(wX, wR, x, s, w) = [R |-> Cat(x, wR - wX, Fill(wR - wX, 0)), Sticky |-> 0]
<1>1. PICK q \in Nat \ {0} : q = Pow2[w]
  BY Pow2Def
<1>2. s % q = s
  <2>1. s \in Int /\ s \in 0..(q - 1)
    BY <1>1
  <2> QED BY ZenonT(40), <2>1, SmallRemainder
<1>3. PICK g \in Nat : g = Pow2[wR - wX]
  <2>1. wR - wX \in Nat
    OBVIOUS
  <2> QED BY <2>1, Pow2Def
<1>4. PICK v \in Nat : v = x * g
  OBVIOUS
<1>5. s - s = 0 /\ Pow2[0] = 1 /\ v \div 1 = v /\ v % 1 = 0 /\ v + 0 = v
  BY Pow2Def
<1>6. Fill(wR - wX, 0) = 0
  BY DEF Fill
<1>7. Flag(0 # 0) = 0
  BY DEF Flag
<1>8. Cat(x, wR - wX, 0) = v
  BY Zenon, <1>3, <1>4, <1>5 DEF Cat
<1> QED BY Zenon, <1>1, <1>2, <1>3, <1>4, <1>5, <1>6, <1>7, <1>8 DEF StickyValue

\* There are such rows, and they hold what they should.
LEMMA StickyRowsAre ==
  ASSUME NEW wX \in Nat, NEW wR \in Nat, wX <= wR, NEW x \in Nat, x < Pow2[wX], NEW s \in Nat,
         NEW w \in Nat, s < Pow2[w], \A i \in 0..(w - 1) : Pow2[i] <= wR
  PROVE  \E f : StickyRows(wX, wR, x, s, w, f)
<1> DEFINE g == [i \in 0..w |-> StickyValue(wX, wR, x, s, i)]
<1>1. ASSUME NEW i \in 0..w
      PROVE  StickyValue(wX, wR, x, s, i)
               = IF i = w THEN [R |-> Cat(x, wR - wX, Fill(wR - wX, 0)), Sticky |-> 0]
                 ELSE StickyRowOf(wR, s, i, g[i + 1])
  <2>1. CASE i = w
    BY Zenon, <2>1, StickyTop
  <2>2. CASE i # w
    <3>1. i \in Nat /\ i \in 0..(w - 1) /\ i + 1 \in 0..w
      BY <2>2
    <3>2. g[i + 1] = StickyValue(wX, wR, x, s, i + 1)
      BY Zenon, <3>1
    <3>3. StickyRowIs(wX, wR, x, s, i)
      BY Zenon, <3>1, StickyRow
    <3> QED BY Zenon, <2>2, <3>2, <3>3 DEF StickyRowIs
  <2> QED BY Zenon, <2>1, <2>2
<1>2. g = [i \in 0..w |-> IF i = w THEN [R |-> Cat(x, wR - wX, Fill(wR - wX, 0)), Sticky |-> 0]
                          ELSE StickyRowOf(wR, s, i, g[i + 1])]
  <2> HIDE DEF StickyRowOf, StickyValue
  <2> QED BY Zenon, <1>1
<1> HIDE DEF g
<1> QED BY Zenon, <1>2 DEF StickyRows

\* Any function that is the rows of the shifter holds, in its last, what all the
\* bits of the shift leave and whether they dropped a one.
LEMMA StickyRowsHold ==
  ASSUME NEW wX \in Nat, NEW wR \in Nat, wX <= wR, NEW x \in Nat, x < Pow2[wX], NEW s \in Nat,
         NEW w \in Nat, s < Pow2[w], \A i \in 0..(w - 1) : Pow2[i] <= wR,
         NEW f, StickyRows(wX, wR, x, s, w, f)
  PROVE  StickyRowsAt(wX, wR, x, s, f)
<1> DEFINE G == {n \in Nat : n \in 0..w => f[w - n] = StickyValue(wX, wR, x, s, w - n)}
<1>1. \A i \in 0..w : f[i] = IF i = w THEN [R |-> Cat(x, wR - wX, Fill(wR - wX, 0)), Sticky |-> 0]
                             ELSE StickyRowOf(wR, s, i, f[i + 1])
  BY Zenon DEF StickyRows
<1>2. 0 \in G
  <2>1. 0 \in Nat /\ w - 0 = w /\ w \in 0..w
    OBVIOUS
  <2>2. f[w] = [R |-> Cat(x, wR - wX, Fill(wR - wX, 0)), Sticky |-> 0]
    BY Zenon, <1>1, <2>1
  <2>3. StickyValue(wX, wR, x, s, w) = [R |-> Cat(x, wR - wX, Fill(wR - wX, 0)), Sticky |-> 0]
    BY Zenon, StickyTop
  <2> QED BY Zenon, <2>1, <2>2, <2>3
<1>3. ASSUME NEW n \in Nat, n \in G PROVE n + 1 \in G
  <2>1. SUFFICES ASSUME n + 1 \in 0..w PROVE f[w - (n + 1)] = StickyValue(wX, wR, x, s, w - (n + 1))
    <3>1. n + 1 \in Nat
      OBVIOUS
    <3> QED BY Zenon, <3>1
  <2>2. PICK i \in Nat : i = w - (n + 1) /\ i \in 0..w /\ i # w /\ i + 1 = w - n /\ n \in 0..w /\ i \in 0..(w - 1)
    BY <2>1
  <2>3. f[i + 1] = StickyValue(wX, wR, x, s, i + 1)
    BY Zenon, <1>3, <2>2
  <2>4. f[i] = StickyRowOf(wR, s, i, f[i + 1])
    BY Zenon, <1>1, <2>2
  <2>5. StickyRowIs(wX, wR, x, s, i)
    BY Zenon, <2>2, StickyRow
  <2> QED BY Zenon, <2>2, <2>3, <2>4, <2>5 DEF StickyRowIs
<1>4. \A n \in Nat : n \in G
  <2> HIDE DEF G
  <2> QED BY Zenon, <1>2, <1>3, Induction
<1>5. w \in 0..w /\ w - w = 0
  OBVIOUS
<1> QED BY Zenon, <1>4, <1>5 DEF StickyRowsAt

\* The shifter with a sticky bit divides, and tells whether it drops a one.
StickyShiftIs(wX, maxShift, wR, x, s) ==
  StickyShifter(wX, maxShift, wR, 0, x, s)
    = [R |-> (x * Pow2[wR - wX]) \div Pow2[s], Sticky |-> Flag((x * Pow2[wR - wX]) % Pow2[s] # 0)]
\* For every size whose largest single shift fits in the output.
LEMMA StickyShifterIs ==
  ASSUME NEW wX \in Nat, NEW maxShift \in Nat \ {0}, NEW wR \in Nat, wX <= wR,
         Pow2[ShiftWidth(maxShift) - 1] <= wR, NEW x \in Nat, x < Pow2[wX],
         NEW s \in 0..Ones(ShiftWidth(maxShift))
  PROVE  StickyShiftIs(wX, maxShift, wR, x, s)
<1>1. PICK w \in Nat \ {0} : w = ShiftWidth(maxShift)
  <2>1. maxShift \in Nat /\ maxShift # 0
    OBVIOUS
  <2>2. IntLog2(maxShift) \in Nat /\ IntLog2(maxShift) # 0
    BY ZenonT(30), <2>1, IntLog2Bounds
  <2>3. IntLog2(maxShift) \in Nat \ {0}
    BY Zenon, <2>2
  <2> QED BY Zenon, <2>3 DEF ShiftWidth
<1>2. w \in Nat /\ w - 1 \in Nat /\ 0 \in 0..w
  OBVIOUS
<1>3. s \in Nat /\ s < Pow2[w]
  <2>1. Pow2[w] \in Nat
    BY <1>2, Pow2Def
  <2> QED BY <1>1, <2>1 DEF Ones
<1>4. \A i \in 0..(w - 1) : Pow2[i] <= wR
  <2> SUFFICES ASSUME NEW i \in 0..(w - 1) PROVE Pow2[i] <= wR
    OBVIOUS
  <2>1. i \in Nat /\ i <= w - 1
    BY <1>2
  <2>2. Pow2[i] <= Pow2[w - 1]
    BY Zenon, <1>2, <2>1, Pow2Monotone
  <2>3. Pow2[w - 1] <= wR
    BY Zenon, <1>1
  <2>4. Pow2[i] \in Nat /\ Pow2[w - 1] \in Nat
    BY <1>2, <2>1, Pow2Def
  <2> QED BY <2>2, <2>3, <2>4
<1>5. \E f : StickyRows(wX, wR, x, s, w, f)
  BY Zenon, <1>2, <1>3, <1>4, StickyRowsAre
<1> DEFINE f == CHOOSE g : StickyRows(wX, wR, x, s, w, g)
<1>6. StickyRows(wX, wR, x, s, w, f)
  BY Zenon, <1>5
<1>7. StickyShifter(wX, maxShift, wR, 0, x, s) = f[0]
  BY Zenon, <1>1 DEF StickyShifter, StickyRowOf, StickyRows
<1> HIDE DEF f
<1>8. StickyRowsAt(wX, wR, x, s, f)
  BY Zenon, <1>2, <1>3, <1>4, <1>6, StickyRowsHold
<1>9. s - (s % Pow2[0]) = s
  BY <1>3, Pow2Def
<1> QED BY Zenon, <1>7, <1>8, <1>9 DEF StickyShiftIs, StickyRowsAt, StickyValue

-----------------------------------------------------------------------------
(***************************************************************************)
(* Counting leading digits.  What differs from the digit counted is one in *)
(* XorAll(w, x, counted): the count is w minus its number of bits.         *)
(***************************************************************************)
\* Bit i of a number below 2^i, and its top bit.
LEMMA BitsAbove ==
  ASSUME NEW y \in Nat, NEW i \in Nat, y < Pow2[i]
  PROVE  BitOf(y, i) = 0
<1>1. PICK p \in Nat \ {0} : p = Pow2[i]
  BY Pow2Def
<1>2. y \in 0..(p - 1) /\ 0 \in Int /\ p * 0 + y = y
  BY <1>1
<1>3. (p * 0 + y) \div p = 0
  BY ZenonT(40), <1>2, DivisionUnique
<1>4. 0 % 2 = 0
  OBVIOUS
<1> QED BY Zenon, <1>1, <1>2, <1>3, <1>4 DEF BitOf

\* The top bit of a number of i + 1 bits is one.
LEMMA TopBitIsOne ==
  ASSUME NEW y \in Nat, NEW i \in Nat, Pow2[i] <= y, y < Pow2[i + 1]
  PROVE  BitOf(y, i) = 1
<1>1. PICK p \in Nat \ {0} : p = Pow2[i]
  BY Pow2Def
<1>2. Pow2[i + 1] = 2 * p
  BY <1>1, Pow2Def
<1>3. PICK z \in 0..(p - 1) : y = p * 1 + z
  <2>1. y - p \in 0..(p - 1) /\ y = p * 1 + (y - p)
    BY <1>1, <1>2
  <2> QED BY Zenon, <2>1
<1>4. (p * 1 + z) \div p = 1
  <2>1. 1 \in Int
    OBVIOUS
  <2> QED BY ZenonT(40), <2>1, DivisionUnique
<1>5. 1 % 2 = 1
  OBVIOUS
<1> QED BY Zenon, <1>1, <1>3, <1>4, <1>5 DEF BitOf

\* The bits of the complement.
LEMMA ComplementBit ==
  ASSUME NEW w \in Nat, NEW x \in Nat, x < Pow2[w], NEW i \in Nat, i < w
  PROVE  BitOf(Not(w, x), i) = 1 - BitOf(x, i) /\ BitOf(x, i) \in 0..1
<1>1. PICK p \in Nat \ {0}, h \in Nat \ {0} : p = Pow2[i] /\ h = Pow2[(w - i) - 1]
  <2>1. (w - i) - 1 \in Nat
    OBVIOUS
  <2> QED BY <2>1, Pow2Def
<1>2. Pow2[w] = p * (2 * h)
  <2>1. (w - i) - 1 \in Nat /\ w - i \in Nat /\ ((w - i) - 1) + 1 = w - i /\ i + (w - i) = w
    OBVIOUS
  <2>2. \A n \in Nat : Pow2[n + 1] = 2 * Pow2[n]
    BY Zenon, Pow2Def
  <2>3. Pow2[w - i] = 2 * h
    BY Zenon, <1>1, <2>1, <2>2
  <2>4. Pow2[i + (w - i)] = Pow2[i] * Pow2[w - i]
    BY Zenon, <2>1, Pow2Sum
  <2> QED BY Zenon, <1>1, <2>1, <2>3, <2>4
<1>3. PICK k \in Nat, z \in 0..(p - 1) : x = p * k + z /\ k = x \div p /\ z = x % p
  BY ZenonT(40), NaturalDivision
<1>4. Not(w, x) = p * ((2 * h - 1) - k) + ((p - 1) - z)
  <2>1. p * (2 * h) - 1 - (p * k + z) = p * ((2 * h - 1) - k) + ((p - 1) - z)
    OBVIOUS
  <2>2. Not(w, x) = p * (2 * h) - 1 - (p * k + z)
    BY Zenon, <1>2, <1>3 DEF Not, Ones
  <2> QED BY Zenon, <2>1, <2>2
<1>5. (p * ((2 * h - 1) - k) + ((p - 1) - z)) \div p = (2 * h - 1) - k
  <2>1. (2 * h - 1) - k \in Int /\ (p - 1) - z \in 0..(p - 1)
    OBVIOUS
  <2> QED BY ZenonT(40), <2>1, DivisionUnique
<1>6. ((2 * h - 1) - k) % 2 = 1 - (k % 2) /\ k % 2 \in 0..1
  OBVIOUS
<1> QED BY Zenon, <1>1, <1>3, <1>4, <1>5, <1>6 DEF BitOf

\* What differs from the counted digit.
Differing(w, b, x) ==
  /\ XorAll(w, x, b) \in Nat /\ XorAll(w, x, b) < Pow2[w]
  /\ \A i \in 0..(w - 1) : BitOf(x, i) = b <=> BitOf(XorAll(w, x, b), i) = 0
\* XorAll() has a zero exactly where the digit is counted.
LEMMA DifferingIs ==
  ASSUME NEW w \in Nat, NEW b \in 0..1, NEW x \in Nat, x < Pow2[w]
  PROVE  Differing(w, b, x)
<1>1. CASE b = 0
  <2>1. XorAll(w, x, b) = x
    BY <1>1 DEF XorAll
  <2> QED BY Zenon, <1>1, <2>1 DEF Differing
<1>2. CASE b = 1
  <2>1. XorAll(w, x, b) = Not(w, x)
    BY <1>2 DEF XorAll
  <2>2. Not(w, x) \in Nat /\ Not(w, x) < Pow2[w]
    <3>1. PICK p \in Nat : p = Pow2[w]
      BY Pow2Def
    <3>2. (p - 1) - x \in Nat /\ (p - 1) - x < p
      BY <3>1
    <3>3. Not(w, x) = (p - 1) - x
      BY Zenon, <3>1 DEF Not, Ones
    <3> QED BY Zenon, <3>1, <3>2, <3>3
  <2>3. ASSUME NEW i \in 0..(w - 1) PROVE BitOf(x, i) = 1 <=> BitOf(Not(w, x), i) = 0
    <3>1. i \in Nat /\ i < w
      OBVIOUS
    <3>2. BitOf(Not(w, x), i) = 1 - BitOf(x, i) /\ BitOf(x, i) \in 0..1
      BY ZenonT(40), <3>1, ComplementBit
    <3> QED BY <3>2
  <2> QED BY Zenon, <1>2, <2>1, <2>2, <2>3 DEF Differing
<1> QED BY <1>1, <1>2

\* The number of leading digits equal to b.
Leading(w, b, x) == w - IntLog2(XorAll(w, x, b))
\* The number of bits of a number below 2^w is not above w.
LEMMA IntLog2AtMost ==
  ASSUME NEW w \in Nat, NEW y \in Nat, y < Pow2[w]
  PROVE  IntLog2(y) \in 0..w
<1>1. PICK k \in Nat : k = IntLog2(y) /\ y < Pow2[k] /\ (y # 0 => k # 0 /\ Pow2[k - 1] <= y)
  BY Zenon, IntLog2Bounds
<1>2. y = 0 => k = 0
  BY Zenon, <1>1, IntLog2Is DEF Log2Bits
<1>3. SUFFICES ASSUME w < k PROVE FALSE
  BY <1>1
<1>4. y # 0 /\ k - 1 \in Nat /\ w <= k - 1
  BY <1>2, <1>3
<1>5. Pow2[w] <= Pow2[k - 1]
  BY Zenon, <1>4, Pow2Monotone
<1>6. Pow2[w] \in Nat /\ Pow2[k - 1] \in Nat /\ Pow2[k - 1] <= y
  BY <1>1, <1>4, Pow2Def
<1> QED BY <1>5, <1>6

\* It is a number of digits of x.
LEMMA LeadingType ==
  ASSUME NEW w \in Nat, NEW b \in 0..1, NEW x \in Nat, x < Pow2[w]
  PROVE  Leading(w, b, x) \in 0..w
<1>1. Differing(w, b, x)
  BY Zenon, DifferingIs
<1>2. IntLog2(XorAll(w, x, b)) \in 0..w
  BY Zenon, <1>1, IntLog2AtMost DEF Differing
<1> QED BY <1>2 DEF Leading

\* Looking at the digits one by one, emulate() finds it, or all that it may count.
CountedIs(w, b, x, most) == LeadingCount(w, b, x, most) = SmallerOf(Leading(w, b, x), SmallerOf(w, most))
\* emulate() counts one digit at a time, Leading all of them at once.
LEMMA LeadingCountIs ==
  ASSUME NEW w \in Nat, NEW b \in 0..1, NEW x \in Nat, x < Pow2[w], NEW most \in Nat
  PROVE  CountedIs(w, b, x, most)
<1>1. PICK y \in Nat : /\ y = XorAll(w, x, b) /\ y < Pow2[w]
                       /\ \A i \in 0..(w - 1) : BitOf(x, i) = b <=> BitOf(y, i) = 0
  <2>1. Differing(w, b, x)
    BY Zenon, DifferingIs
  <2> QED BY Zenon, <2>1 DEF Differing
<1>2. PICK k \in 0..w : k = IntLog2(y)
  BY Zenon, <1>1, IntLog2AtMost
<1>3. PICK n \in 0..w : n = Leading(w, b, x) /\ k = w - n
  BY <1>1, <1>2 DEF Leading
<1>4. y < Pow2[k] /\ (y # 0 => k # 0 /\ Pow2[k - 1] <= y) /\ (y = 0 => k = 0)
  <2>1. IntLog2(y) \in Nat /\ y < Pow2[IntLog2(y)] /\ (y # 0 => IntLog2(y) # 0 /\ Pow2[IntLog2(y) - 1] <= y)
    BY Zenon, IntLog2Bounds
  <2>2. y = 0 => IntLog2(y) = 0
    BY Zenon, IntLog2Is DEF Log2Bits
  <2> QED BY Zenon, <1>2, <2>1, <2>2
<1>5. ASSUME NEW j \in 1..n PROVE BitOf(x, w - j) = b
  <2>1. w - j \in Nat /\ w - j \in 0..(w - 1) /\ k \in Nat /\ k <= w - j
    BY <1>3
  <2>2. Pow2[k] <= Pow2[w - j]
    BY Zenon, <2>1, Pow2Monotone
  <2>3. y < Pow2[w - j]
    <3>1. Pow2[k] \in Nat /\ Pow2[w - j] \in Nat
      BY <2>1, Pow2Def
    <3> QED BY <1>4, <2>2, <3>1
  <2>4. BitOf(y, w - j) = 0
    BY Zenon, <2>1, <2>3, BitsAbove
  <2> QED BY Zenon, <1>1, <2>1, <2>4
<1>6. ASSUME n < w PROVE BitOf(x, w - n - 1) # b
  <2>1. k - 1 \in Nat /\ (k - 1) + 1 = k /\ w - n - 1 = k - 1 /\ k - 1 \in 0..(w - 1) /\ k # 0
    BY <1>3, <1>6
  <2>2. BitOf(y, k - 1) = 1
    BY Zenon, <1>4, <2>1, TopBitIsOne
  <2>3. 1 # 0
    OBVIOUS
  <2> QED BY Zenon, <1>1, <2>1, <2>2, <2>3
<1>7. PICK M \in 0..w : M = SmallerOf(w, most)
  BY DEF SmallerOf
<1>8. PICK c \in 0..M : c = SmallerOf(n, M)
  BY <1>3 DEF SmallerOf
<1>9. c <= n /\ (c = M \/ c = n) /\ (n < M => c = n)
  BY <1>8 DEF SmallerOf
<1> DEFINE Is(e) == /\ \A j \in 1..e : BitOf(x, w - j) = b
                    /\ e = M \/ BitOf(x, w - e - 1) # b
<1>10. Is(c)
  <2>1. \A j \in 1..c : j \in 1..n
    BY <1>9
  <2>2. c # M => c = n /\ n < w
    BY <1>9
  <2> QED BY Zenon, <1>5, <1>6, <2>1, <2>2
<1>11. ASSUME NEW e \in 0..M, Is(e) PROVE e = c
  <2>1. ~(n < e)
    <3>1. SUFFICES ASSUME n < e PROVE FALSE
      OBVIOUS
    <3>2. n + 1 \in 1..e /\ n < w /\ w - (n + 1) = w - n - 1
      BY <3>1
    <3>3. BitOf(x, w - (n + 1)) = b
      BY Zenon, <1>11, <3>2
    <3> QED BY Zenon, <1>6, <3>2, <3>3
  <2>2. ~(e < n /\ e # M)
    <3>1. SUFFICES ASSUME e < n, e # M PROVE FALSE
      OBVIOUS
    <3>2. e + 1 \in 1..n /\ w - (e + 1) = w - e - 1
      BY <3>1
    <3>3. BitOf(x, w - (e + 1)) = b
      BY Zenon, <1>5, <3>2
    <3> QED BY Zenon, <1>11, <3>1, <3>2, <3>3
  <2> QED BY <2>1, <2>2, <1>9
<1>12. LeadingCount(w, b, x, most) = CHOOSE e \in 0..M : Is(e)
  BY Zenon, <1>7 DEF LeadingCount
<1> HIDE DEF Is
<1>13. (CHOOSE e \in 0..M : Is(e)) = c
  BY Zenon, <1>8, <1>10, <1>11
<1> QED BY Zenon, <1>3, <1>7, <1>8, <1>12, <1>13 DEF CountedIs

\* A division by a power of two takes digits away.
LEMMA IntLog2Shifted ==
  ASSUME NEW y \in Nat, NEW n \in Nat
  PROVE  IntLog2(y \div Pow2[n]) = LargerOf(IntLog2(y) - n, 0)
<1>1. PICK p \in Nat \ {0} : p = Pow2[n]
  BY Pow2Def
<1>2. PICK q \in Nat, r \in 0..(p - 1) : y = p * q + r /\ q = y \div p
  BY ZenonT(40), NaturalDivision
<1>3. PICK k \in Nat : k = IntLog2(q) /\ q < Pow2[k] /\ (q # 0 => k # 0 /\ Pow2[k - 1] <= q)
  BY Zenon, IntLog2Bounds
<1>4. CASE q = 0
  <2>1. y \in Nat /\ y < p
    BY <1>2, <1>4
  <2>2. IntLog2(y) \in 0..n
    BY Zenon, <1>1, <2>1, IntLog2AtMost
  <2>3. IntLog2(q) = 0
    BY Zenon, <1>4, IntLog2Is DEF Log2Bits
  <2>4. LargerOf(IntLog2(y) - n, 0) = 0
    BY <2>2 DEF LargerOf
  <2> QED BY Zenon, <1>1, <1>2, <2>3, <2>4
<1>5. CASE q # 0
  <2>1. k # 0 /\ k - 1 \in Nat /\ n + (k - 1) \in Nat /\ (n + (k - 1)) + 1 = n + k /\ n + k \in Nat
    BY <1>3, <1>5
  <2>2. PICK g \in Nat \ {0} : g = Pow2[k - 1]
    BY <2>1, Pow2Def
  <2>3. Pow2[k] = 2 * g
    <3>1. \A m \in Nat : Pow2[m + 1] = 2 * Pow2[m]
      BY Zenon, Pow2Def
    <3>2. (k - 1) + 1 = k
      OBVIOUS
    <3> QED BY Zenon, <2>1, <2>2, <3>1, <3>2
  <2>4. Pow2[n + (k - 1)] = p * g
    BY Zenon, <1>1, <2>1, <2>2, Pow2Sum
  <2>5. Pow2[(n + (k - 1)) + 1] = p * (2 * g)
    <3>1. Pow2[n + k] = p * (2 * g)
      BY Zenon, <1>1, <2>3, Pow2Sum
    <3> QED BY Zenon, <2>1, <3>1
  <2>6. g <= q /\ q + 1 <= 2 * g
    BY <1>3, <1>5, <2>2, <2>3
  <2>7. p * g <= p * q /\ p * (q + 1) <= p * (2 * g) /\ p * (q + 1) = p * q + p
    BY <2>6
  <2>8. p * g <= y /\ y < p * (2 * g)
    <3>1. PICK a \in Nat, b \in Nat, c \in Nat : a = p * g /\ b = p * q /\ c = p * (2 * g)
      OBVIOUS
    <3>2. a <= b /\ b + p <= c /\ y = b + r
      BY Zenon, <1>2, <2>7, <3>1
    <3>3. a <= y /\ y < c
      BY <3>2
    <3> QED BY Zenon, <3>1, <3>3
  <2>9. IntLog2(y) = (n + (k - 1)) + 1
    BY Zenon, <2>1, <2>4, <2>5, <2>8, IntLog2Between
  <2>10. LargerOf(IntLog2(y) - n, 0) = k
    BY <2>1, <2>9 DEF LargerOf
  <2> QED BY Zenon, <1>1, <1>2, <1>3, <2>10
<1> QED BY <1>4, <1>5

\* The complement of a vector of two parts is that of the parts.
Parts(m, n, b, v) ==
  /\ XorAll(m + n, v, b) \div Pow2[n] = XorAll(m, v \div Pow2[n], b)
  /\ XorAll(m + n, v, b) % Pow2[n] = XorAll(n, v % Pow2[n], b)
  /\ v \div Pow2[n] \in Nat /\ v \div Pow2[n] < Pow2[m]
  /\ v % Pow2[n] \in Nat /\ v % Pow2[n] < Pow2[n]
\* A vector of m + n bits is m bits on the left and n on the right.
LEMMA PartsAre ==
  ASSUME NEW m \in Nat, NEW n \in Nat, NEW b \in 0..1, NEW v \in Nat, v < Pow2[m + n]
  PROVE  Parts(m, n, b, v)
<1>1. PICK p \in Nat \ {0}, g \in Nat \ {0} : p = Pow2[n] /\ g = Pow2[m]
  BY Pow2Def
<1>2. Pow2[m + n] = g * p
  BY Zenon, <1>1, Pow2Sum
<1>3. PICK k \in Nat, z \in 0..(p - 1) : v = p * k + z /\ k = v \div p /\ z = v % p
  BY ZenonT(40), NaturalDivision
<1>4. k < g
  <2>1. SUFFICES ASSUME g <= k PROVE FALSE
    BY SMT
  <2>2. g * p <= p * k
    BY <2>1
  <2>3. PICK e \in Nat, h \in Nat : e = g * p /\ h = p * k
    OBVIOUS
  <2>4. v < e /\ v = h + z /\ e <= h
    BY Zenon, <1>2, <1>3, <2>2, <2>3
  <2> QED BY <2>4
<1>5. z \in Nat /\ z < p
  OBVIOUS
<1>6. CASE b = 1
  <2>1. XorAll(m + n, v, b) = p * ((g - 1) - k) + ((p - 1) - z)
    <3>1. (g * p) - 1 - (p * k + z) = p * ((g - 1) - k) + ((p - 1) - z)
      OBVIOUS
    <3> QED BY Zenon, <1>2, <1>3, <1>6, <3>1 DEF XorAll, Not, Ones
  <2>2. (p * ((g - 1) - k) + ((p - 1) - z)) \div p = (g - 1) - k
        /\ (p * ((g - 1) - k) + ((p - 1) - z)) % p = (p - 1) - z
    <3>1. (g - 1) - k \in Int /\ (p - 1) - z \in 0..(p - 1)
      OBVIOUS
    <3> QED BY ZenonT(40), <3>1, DivisionUnique
  <2>3. XorAll(m, k, b) = (g - 1) - k /\ XorAll(n, z, b) = (p - 1) - z
    BY Zenon, <1>1, <1>6 DEF XorAll, Not, Ones
  <2> QED BY Zenon, <1>1, <1>3, <1>4, <1>5, <2>1, <2>2, <2>3 DEF Parts
<1>7. CASE b = 0
  <2>1. XorAll(m + n, v, b) = v /\ XorAll(m, k, b) = k /\ XorAll(n, z, b) = z
    BY <1>7 DEF XorAll
  <2> QED BY Zenon, <1>1, <1>3, <1>4, <1>5, <2>1 DEF Parts
<1> QED BY <1>6, <1>7

\* A vector of n counted digits differs nowhere.
LEMMA FullIs ==
  ASSUME NEW n \in Nat, NEW b \in 0..1, NEW v \in Nat
  PROVE  v = Fill(n, b) <=> XorAll(n, v, b) = 0
<1>1. PICK p \in Nat : p = Pow2[n]
  BY Pow2Def
<1> QED BY <1>1 DEF Fill, XorAll, Not, Ones

\* The m left digits of a vector are all counted when its leading digits are m or more;
\* then the count goes on in the others, and else within the m.
LeadingParts(m, n, b, v) ==
  /\ v \div Pow2[n] = Fill(m, b) <=> m <= Leading(m + n, b, v)
  /\ m <= Leading(m + n, b, v) => Leading(m + n, b, v) = m + Leading(n, b, v % Pow2[n])
  /\ m > Leading(m + n, b, v) => Leading(m + n, b, v) = Leading(m, b, v \div Pow2[n])
  /\ Leading(m, b, v \div Pow2[n]) = SmallerOf(m, Leading(m + n, b, v))
\* From the number of bits of the complement of each part.
LEMMA LeadingPartsAre ==
  ASSUME NEW m \in Nat, NEW n \in Nat, NEW b \in 0..1, NEW v \in Nat, v < Pow2[m + n]
  PROVE  LeadingParts(m, n, b, v)
<1>0. m + n \in Nat
  OBVIOUS
<1>1. Parts(m, n, b, v)
  BY Zenon, PartsAre
<1>2. PICK y \in Nat : y = XorAll(m + n, v, b) /\ y < Pow2[m + n]
  <2>1. Differing(m + n, b, v)
    BY Zenon, <1>0, DifferingIs
  <2> QED BY Zenon, <2>1 DEF Differing
<1>3. PICK k \in 0..(m + n) : k = IntLog2(y)
  BY Zenon, <1>0, <1>2, IntLog2AtMost
<1>4. PICK p \in Nat \ {0} : p = Pow2[n]
  BY Pow2Def
<1>5. PICK q \in Nat, r \in 0..(p - 1) : y = p * q + r /\ q = y \div p /\ r = y % p
  BY ZenonT(40), NaturalDivision
<1>6. XorAll(m, v \div Pow2[n], b) = q /\ XorAll(n, v % Pow2[n], b) = r
  BY Zenon, <1>1, <1>2, <1>4, <1>5 DEF Parts
<1>7. IntLog2(q) = LargerOf(k - n, 0)
  <2>1. IntLog2(y \div Pow2[n]) = LargerOf(IntLog2(y) - n, 0)
    BY Zenon, IntLog2Shifted
  <2> QED BY Zenon, <1>3, <1>4, <1>5, <2>1
<1>8. Leading(m + n, b, v) = (m + n) - k
  BY Zenon, <1>2, <1>3 DEF Leading
<1>9. Leading(m, b, v \div Pow2[n]) = m - LargerOf(k - n, 0)
  BY Zenon, <1>6, <1>7 DEF Leading
<1>10. Leading(n, b, v % Pow2[n]) = n - IntLog2(r)
  BY Zenon, <1>6 DEF Leading
<1>11. q = 0 <=> LargerOf(k - n, 0) = 0
  <2>1. (q = 0 => IntLog2(q) = 0) /\ (q # 0 => IntLog2(q) # 0)
    BY Zenon, IntLog2Is DEF Log2Bits
  <2> QED BY Zenon, <1>7, <2>1
<1>12. q = 0 <=> k <= n
  BY <1>3, <1>11 DEF LargerOf
<1>13. v \div Pow2[n] = Fill(m, b) <=> q = 0
  <2>1. v \div Pow2[n] \in Nat
    BY Zenon, <1>1 DEF Parts
  <2> QED BY Zenon, <1>6, <2>1, FullIs
<1>14. q = 0 => y = r
  BY <1>5
<1>15. m <= (m + n) - k <=> k <= n
  BY <1>3
<1>16. k <= n => (m + n) - k = m + (n - k)
  BY <1>3
<1>17. m > (m + n) - k => (m + n) - k = m - LargerOf(k - n, 0)
  BY <1>3 DEF LargerOf
<1>18. m - LargerOf(k - n, 0) = SmallerOf(m, (m + n) - k)
  BY <1>3 DEF LargerOf, SmallerOf
<1>19. m <= (m + n) - k => (m + n) - k = m + (n - IntLog2(r))
  BY Zenon, <1>3, <1>12, <1>14, <1>15, <1>16
<1> QED BY Zenon, <1>8, <1>9, <1>10, <1>12, <1>13, <1>15, <1>17, <1>18, <1>19 DEF LeadingParts

-----------------------------------------------------------------------------
(***************************************************************************)
(* Levels, from the highest to level m.                                    *)
(***************************************************************************)
\* The levels from w down to m: a, and then F of the level above.
Downwards(V, m, w, a, F, f) ==
  /\ f = [i \in m..w |-> IF i = w THEN a ELSE F[<<f[i + 1], i>>]]
  /\ \A i \in m..w : f[i] \in V
\* There are such levels.
LEMMA DownwardsIs ==
  ASSUME NEW V, NEW a \in V, NEW m \in Nat, NEW w \in Nat, m <= w, NEW F \in [V \X Nat -> V]
  PROVE  \E f : Downwards(V, m, w, a, F, f)
<1> DEFINE H == [v \in V \X Nat |-> F[<<v[1], IF v[2] < w THEN w - v[2] - 1 ELSE 0>>]]
<1>1. H \in [V \X Nat -> V]
  <2> SUFFICES ASSUME NEW v \in V \X Nat
               PROVE  F[<<v[1], IF v[2] < w THEN w - v[2] - 1 ELSE 0>>] \in V
    BY Zenon
  <2>1. v[1] \in V /\ (IF v[2] < w THEN w - v[2] - 1 ELSE 0) \in Nat
    OBVIOUS
  <2> QED BY <2>1
<1>2. PICK g : Iterates(V, a, H, g)
  <2> HIDE DEF H
  <2> QED BY Zenon, <1>1, Recursion
<1>3. g \in [Nat -> V] /\ g[0] = a /\ \A n \in Nat : g[n + 1] = H[<<g[n], n>>]
  BY Zenon, <1>2 DEF Iterates
<1> DEFINE f == [i \in m..w |-> g[w - i]]
<1>4. ASSUME NEW i \in m..w PROVE g[w - i] = IF i = w THEN a ELSE F[<<f[i + 1], i>>]
  <2>1. CASE i = w
    <3>1. w - i = 0
      BY <2>1
    <3> QED BY Zenon, <1>3, <2>1, <3>1
  <2>2. CASE i # w
    <3>1. PICK n \in Nat : n + 1 = w - i /\ n = w - (i + 1) /\ n < w /\ w - n - 1 = i /\ i + 1 \in m..w
      <4>1. w - (i + 1) \in Nat
        BY <2>2
      <4> QED BY <4>1, <2>2
    <3>2. f[i + 1] = g[n]
      BY Zenon, <3>1
    <3>3. g[n] \in V
      BY Zenon, <1>3
    <3>4. <<g[n], n>> \in V \X Nat /\ <<g[n], n>>[1] = g[n] /\ <<g[n], n>>[2] = n
      BY <3>3
    <3>5. H[<<g[n], n>>] = F[<<g[n], i>>]
      <4>1. H[<<g[n], n>>] = F[<<g[n], IF n < w THEN w - n - 1 ELSE 0>>]
        BY Zenon, <3>4
      <4> QED BY Zenon, <3>1, <4>1
    <3>6. g[w - i] = F[<<f[i + 1], i>>]
      <4>1. g[n + 1] = H[<<g[n], n>>]
        BY Zenon, <1>3
      <4>2. g[n + 1] = F[<<f[i + 1], i>>]
        BY Zenon, <3>2, <3>5, <4>1
      <4> QED BY Zenon, <3>1, <4>2
    <3> QED BY Zenon, <2>2, <3>6
  <2> QED BY <2>1, <2>2
<1>5. f = [i \in m..w |-> IF i = w THEN a ELSE F[<<f[i + 1], i>>]]
  BY Zenon, <1>4
<1>6. ASSUME NEW i \in m..w PROVE f[i] \in V
  <2>1. w - i \in Nat
    OBVIOUS
  <2> QED BY Zenon, <1>3, <2>1
<1> HIDE DEF f
<1> QED BY Zenon, <1>5, <1>6 DEF Downwards

\* Slices of a vector of two parts.
LEMMA PartBits ==
  ASSUME NEW v \in Nat, NEW m \in Nat, NEW n \in Nat, v < Pow2[m + n]
  PROVE  /\ Bits(v, (m + n) - 1, n) = v \div Pow2[n]
         /\ Bits(v, n - 1, 0) = v % Pow2[n]
<1>1. Parts(m, n, 0, v)
  <2>1. 0 \in 0..1
    OBVIOUS
  <2> QED BY Zenon, <2>1, PartsAre
<1>2. PICK k \in Nat : k = v \div Pow2[n] /\ k < Pow2[m]
  BY Zenon, <1>1 DEF Parts
<1>3. PICK g \in Nat \ {0} : g = Pow2[m]
  BY Pow2Def
<1>4. k \in 0..(g - 1) /\ k \in Int
  BY <1>2, <1>3
<1>5. k % g = k
  BY ZenonT(40), <1>4, SmallRemainder
<1>6. v \in Int /\ (n + m) - 1 = (m + n) - 1 /\ (0 + n) - 1 = n - 1 /\ 0 \in Nat /\ Pow2[0] = 1 /\ v \div 1 = v
  BY Pow2Def
<1>7. Bits(v, (n + m) - 1, n) = (v \div Pow2[n]) % Pow2[m]
  BY ZenonT(40), <1>6, BitsDef
<1>8. Bits(v, (0 + n) - 1, 0) = (v \div Pow2[0]) % Pow2[n]
  BY ZenonT(40), <1>6, BitsDef
<1> QED BY Zenon, <1>2, <1>3, <1>5, <1>6, <1>7, <1>8

-----------------------------------------------------------------------------
(***************************************************************************)
(* LZOC: the digits of the count, from the left.                           *)
(***************************************************************************)
Levels == [data : Nat, O : Nat]
LZOCFirst(wIn, b, x, w) ==
  [data |-> Cat(x, Pow2[w] - 1 - wIn, Fill(Pow2[w] - 1 - wIn, 1 - b)), O |-> 0]
LZOCLevelOf(b, i, above) ==
  LET all == Bits(above.data, Pow2[i + 1] - 2, Pow2[i] - 1) = Fill(Pow2[i], b)
  IN [data |-> IF all THEN Bits(above.data, Pow2[i] - 2, 0)
                      ELSE Bits(above.data, Pow2[i + 1] - 2, Pow2[i]),
      O |-> Cat(above.O, 1, Flag(all))]
LZOCLevels(wIn, b, x, w, f) ==
  f = [i \in 2..w |-> IF i = w THEN LZOCFirst(wIn, b, x, w) ELSE LZOCLevelOf(b, i, f[i + 1])]

\* What is left to count, of n digits in all, is in the data of a level.
LZOCLevelIs(b, n, i, l) ==
  /\ l.data \in Nat /\ l.O \in Nat
  /\ l.data < Pow2[Pow2[i] - 1]
  /\ l.O * Pow2[i] + Leading(Pow2[i] - 1, b, l.data) = n
\* A level finds a digit of the count.
LEMMA LZOCLevel ==
  ASSUME NEW b \in 0..1, NEW n \in Nat, NEW i \in Nat, NEW l, LZOCLevelIs(b, n, i + 1, l)
  PROVE  LZOCLevelIs(b, n, i, LZOCLevelOf(b, i, l))
<1>1. PICK p \in Nat \ {0}, c \in Nat : p = Pow2[i] /\ c = p - 1 /\ Pow2[i + 1] = 2 * p
  <2>1. Pow2[i] \in Nat \ {0} /\ Pow2[i + 1] = 2 * Pow2[i]
    BY Pow2Def
  <2>2. Pow2[i] - 1 \in Nat
    BY <2>1
  <2> QED BY Zenon, <2>1, <2>2
<1>2. /\ Pow2[i + 1] - 1 = p + c /\ Pow2[i] - 1 = c /\ p + c = c + p /\ Pow2[i + 1] - 2 = (p + c) - 1
      /\ (c + p) - 1 = (p + c) - 1 /\ Pow2[i] - 2 = c - 1 /\ p + c \in Nat /\ c + p \in Nat
  BY <1>1
<1>3. PICK v \in Nat, o \in Nat : v = l.data /\ o = l.O /\ v < Pow2[p + c] /\ o * (2 * p) + Leading(p + c, b, v) = n
  BY Zenon, <1>1, <1>2 DEF LZOCLevelIs
<1>4. v < Pow2[c + p]
  BY Zenon, <1>2, <1>3
<1>5. LeadingParts(p, c, b, v)
  BY Zenon, <1>3, LeadingPartsAre
<1>6. LeadingParts(c, p, b, v)
  BY Zenon, <1>4, LeadingPartsAre
<1>7. Parts(p, c, b, v)
  BY Zenon, <1>3, PartsAre
<1>8. Parts(c, p, b, v)
  BY Zenon, <1>4, PartsAre
<1>9. Bits(v, (p + c) - 1, c) = v \div Pow2[c] /\ Bits(v, c - 1, 0) = v % Pow2[c]
  BY Zenon, <1>3, PartBits
<1>10. Bits(v, (c + p) - 1, p) = v \div Pow2[p]
  BY Zenon, <1>4, PartBits
<1>11. PICK L \in 0..(p + c) : L = Leading(p + c, b, v)
  BY Zenon, <1>2, <1>3, LeadingType
<1>12. PICK y : y = LZOCLevelOf(b, i, l)
  OBVIOUS
<1>13. Bits(v, Pow2[i + 1] - 2, Pow2[i] - 1) = Fill(Pow2[i], b) <=> p <= L
  BY Zenon, <1>1, <1>2, <1>5, <1>9, <1>11 DEF LeadingParts
<1>14. CASE p <= L
  <2>1. y = [data |-> v % Pow2[c], O |-> Cat(o, 1, 1)]
    <3>1. Flag(p <= L) = 1
      BY <1>14 DEF Flag
    <3>2. Bits(v, Pow2[i] - 2, 0) = v % Pow2[c]
      BY Zenon, <1>2, <1>9
    <3>3. Flag(Bits(v, Pow2[i + 1] - 2, Pow2[i] - 1) = Fill(Pow2[i], b)) = 1
      BY Zenon, <1>13, <1>14, <3>1 DEF Flag
    <3> QED BY Zenon, <1>3, <1>12, <1>13, <1>14, <3>2, <3>3 DEF LZOCLevelOf
  <2>2. y.data = v % Pow2[c] /\ y.O = Cat(o, 1, 1)
    BY Zenon, <2>1
  <2>3. v % Pow2[c] \in Nat /\ v % Pow2[c] < Pow2[c]
    BY Zenon, <1>7 DEF Parts
  <2>4. Cat(o, 1, 1) = 2 * o + 1
    BY Pow2Def DEF Cat
  <2>5. L = p + Leading(c, b, v % Pow2[c])
    BY Zenon, <1>5, <1>11, <1>14 DEF LeadingParts
  <2>6. PICK e \in 0..c : e = Leading(c, b, v % Pow2[c])
    BY Zenon, <2>3, LeadingType
  <2>7. (2 * o + 1) * p + e = n
    <3>1. (2 * o + 1) * p + e = o * (2 * p) + (p + e)
      OBVIOUS
    <3> QED BY Zenon, <1>3, <1>11, <2>5, <2>6, <3>1
  <2>8. 2 * o + 1 \in Nat
    OBVIOUS
  <2> QED BY Zenon, <1>1, <1>2, <1>12, <2>2, <2>3, <2>4, <2>6, <2>7, <2>8 DEF LZOCLevelIs
<1>15. CASE ~(p <= L)
  <2>1. y = [data |-> v \div Pow2[p], O |-> Cat(o, 1, 0)]
    <3>1. Flag(p <= L) = 0
      BY <1>15 DEF Flag
    <3>2. Bits(v, Pow2[i + 1] - 2, Pow2[i]) = v \div Pow2[p]
      BY Zenon, <1>1, <1>2, <1>10
    <3>3. Flag(Bits(v, Pow2[i + 1] - 2, Pow2[i] - 1) = Fill(Pow2[i], b)) = 0
      BY Zenon, <1>13, <1>15, <3>1 DEF Flag
    <3> QED BY Zenon, <1>3, <1>12, <1>13, <1>15, <3>2, <3>3 DEF LZOCLevelOf
  <2>2. y.data = v \div Pow2[p] /\ y.O = Cat(o, 1, 0)
    BY Zenon, <2>1
  <2>3. v \div Pow2[p] \in Nat /\ v \div Pow2[p] < Pow2[c]
    BY Zenon, <1>8 DEF Parts
  <2>4. Cat(o, 1, 0) = 2 * o
    BY Pow2Def DEF Cat
  <2>5. Leading(c, b, v \div Pow2[p]) = L
    <3>1. Leading(c, b, v \div Pow2[p]) = SmallerOf(c, Leading(c + p, b, v))
      BY Zenon, <1>6 DEF LeadingParts
    <3>2. L <= c
      BY <1>1, <1>15
    <3>3. SmallerOf(c, L) = L
      BY <3>2 DEF SmallerOf
    <3> QED BY Zenon, <1>2, <1>11, <3>1, <3>3
  <2>6. (2 * o) * p + L = n
    <3>1. (2 * o) * p + L = o * (2 * p) + L
      OBVIOUS
    <3> QED BY Zenon, <1>3, <1>11, <3>1
  <2>7. 2 * o \in Nat
    OBVIOUS
  <2> QED BY Zenon, <1>1, <1>2, <1>12, <2>2, <2>3, <2>4, <2>5, <2>6, <2>7 DEF LZOCLevelIs
<1> QED BY <1>14, <1>15

\* The levels of an LZOC, and what they hold.
LEMMA LZOCLevelsExist ==
  ASSUME NEW wIn \in Nat, NEW b \in 0..1, NEW x \in Nat, NEW w \in Nat \ {0, 1}, wIn < Pow2[w]
  PROVE  \E f : LZOCLevels(wIn, b, x, w, f)
<1> DEFINE a == LZOCFirst(wIn, b, x, w)
<1> DEFINE F == [v \in Levels \X Nat |-> LZOCLevelOf(b, v[2], v[1])]
<1>1. a \in Levels
  <2>1. Pow2[w] - 1 - wIn \in Nat
    <3>1. Pow2[w] \in Nat
      BY Pow2Def
    <3> QED BY <3>1
  <2>2. PICK n \in Nat, g \in Nat : n = Pow2[w] - 1 - wIn /\ g = Pow2[n]
    BY <2>1, Pow2Def
  <2>3. Fill(n, 1 - b) \in Nat
    <3>1. g - 1 \in Nat
      BY <2>2, Pow2Def
    <3> QED BY <2>2, <3>1 DEF Fill, Ones
  <2>4. x * g + Fill(n, 1 - b) \in Nat
    BY <2>3
  <2>5. Cat(x, n, Fill(n, 1 - b)) \in Nat
    BY Zenon, <2>2, <2>4 DEF Cat
  <2>6. 0 \in Nat
    OBVIOUS
  <2> QED BY Zenon, <2>2, <2>5, <2>6 DEF LZOCFirst, Levels
<1>2. F \in [Levels \X Nat -> Levels]
  <2> SUFFICES ASSUME NEW l \in Levels, NEW i \in Nat PROVE LZOCLevelOf(b, i, l) \in Levels
    BY SMT
  <2>1. PICK p \in Nat \ {0} : p = Pow2[i] /\ Pow2[i + 1] = 2 * p
    BY Pow2Def
  <2>2. PICK v \in Int, o \in Nat : v = l.data /\ o = l.O
    BY DEF Levels
  <2>3. p - 2 \in Int /\ (2 * p) - 2 \in Int /\ 0 \in Nat /\ p \in Nat
    OBVIOUS
  <2>4. Bits(v, p - 2, 0) \in Nat
    BY Zenon, <2>3, BitsType
  <2>5. Bits(v, (2 * p) - 2, p) \in Nat
    BY Zenon, <2>3, BitsType
  <2>6. ASSUME NEW c \in BOOLEAN PROVE Cat(o, 1, Flag(c)) \in Nat
    BY Pow2Def DEF Cat, Flag
  <2>7. (Bits(v, (2 * p) - 2, p - 1) = Fill(p, b)) \in BOOLEAN
    OBVIOUS
  <2>8. LZOCLevelOf(b, i, l)
          = [data |-> IF Bits(v, (2 * p) - 2, p - 1) = Fill(p, b) THEN Bits(v, p - 2, 0) ELSE Bits(v, (2 * p) - 2, p),
             O |-> Cat(o, 1, Flag(Bits(v, (2 * p) - 2, p - 1) = Fill(p, b)))]
    BY Zenon, <2>1, <2>2 DEF LZOCLevelOf
  <2>9. PICK y \in Nat : y = IF Bits(v, (2 * p) - 2, p - 1) = Fill(p, b) THEN Bits(v, p - 2, 0)
                             ELSE Bits(v, (2 * p) - 2, p)
    BY Zenon, <2>4, <2>5
  <2>10. PICK z \in Nat : z = Cat(o, 1, Flag(Bits(v, (2 * p) - 2, p - 1) = Fill(p, b)))
    BY Zenon, <2>6, <2>7
  <2>11. [data |-> y, O |-> z] \in Levels
    BY DEF Levels
  <2> QED BY Zenon, <2>8, <2>9, <2>10, <2>11
<1>3. PICK f : Downwards(Levels, 2, w, a, F, f)
  <2>1. 2 \in Nat /\ w \in Nat /\ 2 <= w
    OBVIOUS
  <2> HIDE DEF F, a
  <2> QED BY Zenon, <1>1, <1>2, <2>1, DownwardsIs
<1>4. f = [i \in 2..w |-> IF i = w THEN a ELSE F[<<f[i + 1], i>>]] /\ \A i \in 2..w : f[i] \in Levels
  BY Zenon, <1>3 DEF Downwards
<1>5. ASSUME NEW i \in 2..w
      PROVE  (IF i = w THEN a ELSE F[<<f[i + 1], i>>]) = IF i = w THEN a ELSE LZOCLevelOf(b, i, f[i + 1])
  <2>1. CASE i = w
    BY Zenon, <2>1
  <2>2. CASE i # w
    <3>1. i + 1 \in 2..w /\ i \in Nat
      BY <2>2
    <3>2. f[i + 1] \in Levels
      BY Zenon, <1>4, <3>1
    <3>3. <<f[i + 1], i>> \in Levels \X Nat /\ <<f[i + 1], i>>[1] = f[i + 1] /\ <<f[i + 1], i>>[2] = i
      BY <3>1, <3>2
    <3>4. F[<<f[i + 1], i>>] = LZOCLevelOf(b, i, f[i + 1])
      BY Zenon, <3>3
    <3> QED BY Zenon, <2>2, <3>4
  <2> QED BY <2>1, <2>2
<1> HIDE DEF F
<1>6. f = [i \in 2..w |-> IF i = w THEN a ELSE LZOCLevelOf(b, i, f[i + 1])]
  <2> HIDE DEF a
  <2> QED BY Zenon, <1>4, <1>5
<1> QED BY Zenon, <1>6 DEF LZOCLevels

\* The padding is not counted.
PaddedIs(wIn, m, b, x) ==
  LET v == Cat(x, m, Fill(m, 1 - b))
  IN v \in Nat /\ v < Pow2[wIn + m] /\ Leading(wIn + m, b, v) = Leading(wIn, b, x)
\* Padding on the right with the other digit leaves the count alone.
LEMMA PaddedLeading ==
  ASSUME NEW wIn \in Nat, NEW m \in Nat, NEW b \in 0..1, NEW x \in Nat, x < Pow2[wIn]
  PROVE  PaddedIs(wIn, m, b, x)
<1>1. PICK p \in Nat \ {0}, g \in Nat \ {0} : p = Pow2[wIn] /\ g = Pow2[m]
  BY Pow2Def
<1>2. PICK z \in 0..(g - 1) : z = Fill(m, 1 - b) /\ XorAll(m, z, b) = g - 1
  <2>1. CASE b = 0
    <3>1. 1 - b = 1 /\ b # 1
      BY <2>1
    <3>2. Fill(m, 1 - b) = g - 1
      BY Zenon, <1>1, <3>1 DEF Fill, Ones
    <3>3. XorAll(m, g - 1, b) = g - 1
      BY Zenon, <3>1 DEF XorAll
    <3>4. g - 1 \in 0..(g - 1)
      OBVIOUS
    <3> QED BY Zenon, <3>2, <3>3, <3>4
  <2>2. CASE b = 1
    <3>1. 1 - b # 1 /\ (g - 1) - 0 = g - 1 /\ 0 \in 0..(g - 1)
      BY <2>2
    <3>2. Fill(m, 1 - b) = 0
      BY Zenon, <3>1 DEF Fill
    <3>3. XorAll(m, 0, b) = g - 1
      BY Zenon, <1>1, <2>2, <3>1 DEF XorAll, Not, Ones
    <3> QED BY Zenon, <3>1, <3>2, <3>3
  <2> QED BY <2>1, <2>2
<1>3. PICK v \in Nat : v = x * g + z /\ v = g * x + z
  OBVIOUS
<1>4. v = Cat(x, m, Fill(m, 1 - b))
  BY Zenon, <1>1, <1>2, <1>3 DEF Cat
<1>5. Pow2[wIn + m] = p * g
  BY Zenon, <1>1, Pow2Sum
<1>6. v < p * g
  <2>1. x + 1 <= p
    BY <1>1
  <2>2. (x + 1) * g <= p * g /\ (x + 1) * g = x * g + g
    BY <2>1
  <2>3. PICK e \in Nat, h \in Nat : e = x * g /\ h = p * g
    OBVIOUS
  <2>4. e + g <= h /\ v = e + z
    BY Zenon, <1>3, <2>2, <2>3
  <2>5. v < h
    BY <2>4
  <2> QED BY Zenon, <2>3, <2>5
<1>7. v < Pow2[wIn + m]
  BY Zenon, <1>5, <1>6
<1>8. v \div g = x /\ v % g = z
  <2>1. x \in Int
    OBVIOUS
  <2>2. (g * x + z) \div g = x /\ (g * x + z) % g = z
    BY ZenonT(40), <2>1, DivisionUnique
  <2> QED BY Zenon, <1>3, <2>2
<1>9. LeadingParts(wIn, m, b, v)
  BY Zenon, <1>7, LeadingPartsAre
<1>10. Leading(wIn, b, x) = SmallerOf(wIn, Leading(wIn + m, b, v))
  BY Zenon, <1>1, <1>8, <1>9 DEF LeadingParts
<1>11. wIn <= Leading(wIn + m, b, v) => Leading(wIn + m, b, v) = wIn + Leading(m, b, z)
  BY Zenon, <1>1, <1>8, <1>9 DEF LeadingParts
<1>12. Leading(m, b, z) = 0
  <2>1. Leading(m, b, z) = m - IntLog2(g - 1)
    BY Zenon, <1>2 DEF Leading
  <2>2. IntLog2(g - 1) = m
    <3>1. CASE m = 0
      <4>1. g - 1 = 0
        BY <1>1, <3>1, Pow2Def
      <4>2. 0 \in Nat
        OBVIOUS
      <4> QED BY Zenon, <3>1, <4>1, <4>2, IntLog2Is DEF Log2Bits
    <3>2. CASE m # 0
      <4>1. PICK k \in Nat : k + 1 = m
        <5>1. m - 1 \in Nat /\ (m - 1) + 1 = m
          BY <3>2
        <5> QED BY Zenon, <5>1
      <4>2. Pow2[k] \in Nat \ {0} /\ Pow2[k + 1] = 2 * Pow2[k]
        BY Pow2Def
      <4>3. g - 1 \in Nat /\ Pow2[k] <= g - 1 /\ g - 1 < Pow2[k + 1]
        BY <1>1, <4>1, <4>2
      <4>4. IntLog2(g - 1) = k + 1
        BY Zenon, <4>3, IntLog2Between
      <4> QED BY Zenon, <4>1, <4>4
    <3> QED BY <3>1, <3>2
  <2> QED BY <2>1, <2>2
<1>13. PICK L \in 0..(wIn + m) : L = Leading(wIn + m, b, v)
  <2>1. wIn + m \in Nat
    OBVIOUS
  <2> QED BY Zenon, <1>7, <2>1, LeadingType
<1>14. L = Leading(wIn, b, x)
  <2>1. wIn <= L => L = wIn + 0
    BY Zenon, <1>11, <1>12, <1>13
  <2>2. Leading(wIn, b, x) = SmallerOf(wIn, L)
    BY Zenon, <1>10, <1>13
  <2> QED BY <2>1, <2>2 DEF SmallerOf
<1> QED BY Zenon, <1>4, <1>7, <1>13, <1>14 DEF PaddedIs

\* The levels hold what is left to count.
LZOCLevelsHold(b, n, f) == LZOCLevelIs(b, n, 2, f[2])
\* Downwards from the first, each level makes the next hold.
LEMMA LZOCLevelsAre ==
  ASSUME NEW wIn \in Nat, NEW b \in 0..1, NEW x \in Nat, NEW w \in Nat \ {0, 1}, NEW n \in Nat,
         LZOCLevelIs(b, n, w, LZOCFirst(wIn, b, x, w)), NEW f, LZOCLevels(wIn, b, x, w, f)
  PROVE  LZOCLevelsHold(b, n, f)
<1> DEFINE G == {k \in Nat : w - k \in 2..w => LZOCLevelIs(b, n, w - k, f[w - k])}
<1>1. \A i \in 2..w : f[i] = IF i = w THEN LZOCFirst(wIn, b, x, w) ELSE LZOCLevelOf(b, i, f[i + 1])
  BY Zenon DEF LZOCLevels
<1>2. 0 \in G
  <2>1. 0 \in Nat /\ w - 0 = w /\ w \in 2..w
    OBVIOUS
  <2>2. f[w] = LZOCFirst(wIn, b, x, w)
    BY Zenon, <1>1, <2>1
  <2> QED BY Zenon, <2>1, <2>2
<1>3. ASSUME NEW k \in Nat, k \in G PROVE k + 1 \in G
  <2>1. SUFFICES ASSUME w - (k + 1) \in 2..w PROVE LZOCLevelIs(b, n, w - (k + 1), f[w - (k + 1)])
    <3>1. k + 1 \in Nat
      OBVIOUS
    <3> QED BY Zenon, <3>1
  <2>2. PICK i \in Nat : i = w - (k + 1) /\ i \in 2..w /\ i # w /\ i + 1 = w - k /\ w - k \in 2..w
    BY <2>1
  <2>3. LZOCLevelIs(b, n, i + 1, f[i + 1])
    BY Zenon, <1>3, <2>2
  <2>4. f[i] = LZOCLevelOf(b, i, f[i + 1])
    BY Zenon, <1>1, <2>2
  <2>5. LZOCLevelIs(b, n, i, LZOCLevelOf(b, i, f[i + 1]))
    BY Zenon, <2>3, LZOCLevel
  <2> QED BY Zenon, <2>2, <2>4, <2>5
<1>4. \A k \in Nat : k \in G
  <2> HIDE DEF G
  <2> QED BY Zenon, <1>2, <1>3, Induction
<1>5. w - 2 \in Nat /\ w - (w - 2) = 2 /\ 2 \in 2..w
  OBVIOUS
<1> QED BY Zenon, <1>4, <1>5 DEF LZOCLevelsHold

\* The LZOC counts the leading digits.
LZOCIs(wIn, b, x) == LZOC(wIn, b, x) = LeadingCount(wIn, b, x, wIn)
\* For every width that has at least two levels.
LEMMA LZOCCounts ==
  ASSUME NEW wIn \in Nat, wIn >= 4, NEW b \in 0..1, NEW x \in Nat, x < Pow2[wIn]
  PROVE  LZOCIs(wIn, b, x)
<1>1. PICK w \in Nat \ {0, 1} : w = IntLog2(wIn) /\ wIn < Pow2[w]
  <2>1. IntLog2(wIn) \in Nat /\ wIn < Pow2[IntLog2(wIn)]
    BY Zenon, IntLog2Bounds
  <2>2. Pow2[0] = 1 /\ Pow2[1] = 2
    BY Pow2Def
  <2>3. IntLog2(wIn) # 0 /\ IntLog2(wIn) # 1
    BY <2>1, <2>2
  <2> QED BY <2>1, <2>3
<1>2. PICK m \in Nat : m = Pow2[w] - 1 - wIn /\ wIn + m = Pow2[w] - 1
  <2>1. Pow2[w] \in Nat /\ w \in Nat
    BY Pow2Def
  <2>2. Pow2[w] - 1 - wIn \in Nat
    BY <1>1, <2>1
  <2> QED BY <2>1, <2>2
<1>3. PICK n \in 0..wIn : n = Leading(wIn, b, x)
  BY Zenon, LeadingType
<1>4. LeadingCount(wIn, b, x, wIn) = n
  <2>1. CountedIs(wIn, b, x, wIn)
    BY Zenon, LeadingCountIs
  <2>2. SmallerOf(n, SmallerOf(wIn, wIn)) = n
    BY DEF SmallerOf
  <2> QED BY Zenon, <1>3, <2>1, <2>2 DEF CountedIs
<1>5. n \in Nat /\ w \in Nat
  OBVIOUS
<1>6. LZOCLevelIs(b, n, w, LZOCFirst(wIn, b, x, w))
  <2>1. PaddedIs(wIn, m, b, x)
    BY Zenon, PaddedLeading
  <2>2. PICK v \in Nat : /\ v = Cat(x, m, Fill(m, 1 - b)) /\ v < Pow2[wIn + m]
                         /\ Leading(wIn + m, b, v) = n
    BY Zenon, <1>3, <2>1 DEF PaddedIs
  <2>3. LZOCFirst(wIn, b, x, w) = [data |-> v, O |-> 0]
    BY Zenon, <1>2, <2>2 DEF LZOCFirst
  <2>4. LZOCFirst(wIn, b, x, w).data = v /\ LZOCFirst(wIn, b, x, w).O = 0
    BY <2>3
  <2>5. 0 * Pow2[w] + n = n /\ 0 \in Nat
    <3>1. Pow2[w] \in Nat
      BY <1>5, Pow2Def
    <3> QED BY <1>5, <3>1
  <2> QED BY Zenon, <1>2, <2>2, <2>4, <2>5 DEF LZOCLevelIs
<1>7. \E f : LZOCLevels(wIn, b, x, w, f)
  BY Zenon, <1>1, LZOCLevelsExist
<1> DEFINE f == CHOOSE g : LZOCLevels(wIn, b, x, w, g)
<1>8. LZOCLevels(wIn, b, x, w, f)
  BY Zenon, <1>7
<1>9. LZOC(wIn, b, x) = Cat(f[2].O, 2, LastDigits(b, f[2].data))
  BY Zenon, <1>1 DEF LZOC, LZOCLevels, LZOCFirst, LZOCLevelOf
<1> HIDE DEF f
<1>10. LZOCLevelsHold(b, n, f)
  BY Zenon, <1>5, <1>6, <1>8, LZOCLevelsAre
<1>11. Pow2[2] = 4 /\ 4 - 1 = 3 /\ 3 \in Nat /\ Pow2[3] = 8
  <2>1. Pow2[0] = 1 /\ Pow2[0 + 1] = 2 * Pow2[0] /\ Pow2[1 + 1] = 2 * Pow2[1] /\ Pow2[2 + 1] = 2 * Pow2[2]
    BY Pow2Def
  <2> QED BY <2>1
<1>12. PICK v \in Nat, o \in Nat : /\ v = f[2].data /\ o = f[2].O /\ v < Pow2[3]
                                   /\ o * 4 + Leading(3, b, v) = n
  BY Zenon, <1>10, <1>11 DEF LZOCLevelsHold, LZOCLevelIs
<1>13. PICK y \in Nat : y = XorAll(3, v, b) /\ y < 8
  <2>1. Differing(3, b, v)
    BY Zenon, <1>11, <1>12, DifferingIs
  <2> QED BY Zenon, <1>11, <2>1 DEF Differing
<1>14. LastDigits(b, v) = Leading(3, b, v)
  <2>1. CASE y < 4
    BY Zenon, <1>13, <2>1 DEF LastDigits, Leading
  <2>2. CASE ~(y < 4)
    <3>1. 2 \in Nat /\ 2 + 1 = 3 /\ 4 <= y /\ 3 - 3 = 0
      BY <2>2
    <3>2. IntLog2(y) = 2 + 1
      BY Zenon, <1>11, <1>13, <3>1, IntLog2Between
    <3> QED BY Zenon, <1>13, <2>2, <3>1, <3>2 DEF LastDigits, Leading
  <2> QED BY <2>1, <2>2
<1> QED BY Zenon, <1>4, <1>9, <1>11, <1>12, <1>14 DEF Cat, LZOCIs

-----------------------------------------------------------------------------
(***************************************************************************)
(* The normalizer: what a level drops, and what is left to normalize.      *)
(***************************************************************************)
\* Shifting the counted digits out: their number is what the count loses.
ShiftedOut(p, m, b, v, z) ==
  /\ z * Pow2[p] \in Nat /\ z * Pow2[p] < Pow2[p + m]
  /\ Leading(p + m, b, z * Pow2[p]) + p = Leading(p + m, b, v)
  /\ b = 0 => z * Pow2[p] # 0
  /\ Congruent(v * Pow2[p], z * Pow2[p], Pow2[p + m])
\* When at least p digits are counted, shifting p of them out.
LEMMA ShiftOut ==
  ASSUME NEW p \in Nat, NEW m \in Nat, NEW b \in 0..1, NEW v \in Nat, v < Pow2[p + m], b = 0 => v # 0,
         p <= Leading(p + m, b, v), NEW z, z = v % Pow2[m]
  PROVE  ShiftedOut(p, m, b, v, z)
<1>1. PICK g \in Nat \ {0}, q \in Nat \ {0} : g = Pow2[p] /\ q = Pow2[m]
  BY Pow2Def
<1>2. Pow2[p + m] = g * q /\ p + m = m + p /\ m + p \in Nat
  <2>1. p + m = m + p /\ m + p \in Nat
    OBVIOUS
  <2>2. Pow2[p + m] = g * q
    BY Zenon, <1>1, Pow2Sum
  <2> QED BY Zenon, <2>1, <2>2
<1>3. PICK k \in Nat, r \in 0..(q - 1) : v = q * k + r /\ k = v \div q /\ r = v % q
  BY ZenonT(40), NaturalDivision
<1>4. z = r
  BY Zenon, <1>1, <1>3
<1>5. LeadingParts(p, m, b, v)
  BY Zenon, LeadingPartsAre
<1>6. Leading(p + m, b, v) = p + Leading(m, b, r)
  BY Zenon, <1>1, <1>3, <1>5 DEF LeadingParts
<1>7. r \in Nat /\ r < Pow2[m]
  BY <1>1
<1>8. PICK l \in 0..m : l = Leading(m, b, r)
  BY Zenon, <1>7, LeadingType
<1>9. PICK y \in Nat : y = r * g
  OBVIOUS
<1>10. y < g * q
  <2>1. r + 1 <= q
    OBVIOUS
  <2>2. (r + 1) * g <= g * q /\ (r + 1) * g = r * g + g
    BY <2>1
  <2>3. PICK h \in Nat : h = g * q
    OBVIOUS
  <2>4. y + g <= h
    BY Zenon, <1>9, <2>2, <2>3
  <2>5. y < h
    BY <2>4
  <2> QED BY Zenon, <2>3, <2>5
<1>11. Congruent(v * g, y, g * q)
  <2>1. (q * k + r) * g = r * g + (g * q) * k
    OBVIOUS
  <2>2. k \in Int
    OBVIOUS
  <2> QED BY Zenon, <1>3, <1>9, <2>1, <2>2 DEF Congruent
<1>12. b = 0 => r # 0
  <2>1. SUFFICES ASSUME b = 0, r = 0 PROVE FALSE
    OBVIOUS
  <2>2. k = Fill(p, b)
    BY Zenon, <1>1, <1>3, <1>5 DEF LeadingParts
  <2>3. Fill(p, b) = 0
    BY <2>1 DEF Fill
  <2>4. q * 0 + 0 = 0
    OBVIOUS
  <2> QED BY Zenon, <1>3, <2>1, <2>2, <2>3, <2>4
<1>13. b = 0 => y # 0
  <2>1. r # 0 => r * g # 0
    OBVIOUS
  <2> QED BY Zenon, <1>9, <1>12, <2>1
<1>14. Leading(p + m, b, y) = l
  <2>1. CASE b = 1
    <3>1. PaddedIs(m, p, b, r)
      BY Zenon, <1>7, PaddedLeading
    <3>2. Fill(p, 1 - b) = 0 /\ r * g + 0 = r * g
      BY <2>1 DEF Fill
    <3>3. Cat(r, p, Fill(p, 1 - b)) = y
      BY Zenon, <1>1, <1>9, <3>2 DEF Cat
    <3> QED BY Zenon, <1>2, <1>8, <3>1, <3>3 DEF PaddedIs
  <2>2. CASE b = 0
    <3>1. y < Pow2[m + p]
      BY Zenon, <1>2, <1>10
    <3>2. LeadingParts(m, p, b, y)
      BY Zenon, <3>1, LeadingPartsAre
    <3>3. y \div g = r
      <4>1. r \in Int /\ 0 \in 0..(g - 1) /\ g * r + 0 = r * g
        OBVIOUS
      <4>2. (g * r + 0) \div g = r
        BY ZenonT(40), <4>1, DivisionUnique
      <4> QED BY Zenon, <1>9, <4>1, <4>2
    <3>4. l = SmallerOf(m, Leading(m + p, b, y))
      BY Zenon, <1>1, <1>8, <3>2, <3>3 DEF LeadingParts
    <3>5. l # m
      <4>1. r # 0
        BY <1>12, <2>2
      <4>2. IntLog2(r) # 0 /\ IntLog2(r) \in Nat
        BY Zenon, <1>7, <4>1, IntLog2Bounds
      <4>3. XorAll(m, r, b) = r
        BY <2>2 DEF XorAll
      <4>4. l = m - IntLog2(r)
        BY Zenon, <1>8, <4>3 DEF Leading
      <4> QED BY <4>2, <4>4
    <3>6. PICK L \in 0..(m + p) : L = Leading(m + p, b, y)
      BY Zenon, <1>2, <3>1, LeadingType
    <3>7. l = L
      BY <3>4, <3>5, <3>6 DEF SmallerOf
    <3> QED BY Zenon, <1>2, <3>6, <3>7
  <2> QED BY <2>1, <2>2
<1>15. l + p = p + l
  OBVIOUS
<1> QED BY Zenon, <1>1, <1>2, <1>4, <1>6, <1>8, <1>9, <1>10, <1>11, <1>13, <1>14, <1>15 DEF ShiftedOut

\* What a level keeps of its data, with sz bits, and what it drops: the low bits that are
\* not in the data are c, of a bits.
KeptOf(data, left, sz) ==
  Cat(Bits(data, left - 1, LargerOf(left - sz, 0)), LargerOf(sz - left, 0), 0)
DroppedOf(data, left, sz) == Bits(data, LargerOf(left - sz, 0) - 1, 0)
Kept(data, c, a, left, sz, e, lo, y) ==
  /\ lo + sz = a + (left + e) /\ y < Pow2[lo] /\ KeptOf(data, left, sz) \in Nat
  /\ ((data % Pow2[left]) * Pow2[a] + c) * Pow2[e] = KeptOf(data, left, sz) * Pow2[lo] + y
  /\ LargerOf(Flag(c # 0), Flag(DroppedOf(data, left, sz) # 0)) = Flag(y # 0)
\* A level that drops bits.
LEMMA SomeDropped ==
  ASSUME NEW data \in Nat, NEW a \in Nat, NEW c \in Nat, c < Pow2[a], NEW left \in Nat, NEW e \in Nat,
         NEW sz \in 0..left
  PROVE  \E lo \in Nat, y \in Nat : Kept(data, c, a, left, sz, e, lo, y)
<1>1. PICK dr \in Nat : dr = left - sz /\ dr + sz = left /\ LargerOf(left - sz, 0) = dr /\ LargerOf(sz - left, 0) = 0
  <2>1. left - sz \in Nat /\ LargerOf(left - sz, 0) = left - sz /\ LargerOf(sz - left, 0) = 0
    BY DEF LargerOf
  <2> QED BY <2>1
<1>0. sz \in Nat
  OBVIOUS
<1>2. PICK p \in Nat \ {0}, q \in Nat \ {0}, g \in Nat \ {0}, h \in Nat \ {0} :
        p = Pow2[a] /\ q = Pow2[dr] /\ g = Pow2[sz] /\ h = Pow2[e]
  BY <1>0, Pow2Def
<1>3. PICK H \in Nat, t \in 0..(q - 1) : H = (data \div q) % g /\ t = data % q
  <2>1. PICK k \in Nat, r \in 0..(q - 1) : data = q * k + r /\ k = data \div q /\ r = data % q
    BY ZenonT(40), NaturalDivision
  <2>2. k % g \in Nat
    OBVIOUS
  <2> QED BY Zenon, <2>1, <2>2
<1>4. data % Pow2[left] = H * q + t
  <2>1. Pow2[dr + sz] = q * g
    BY Zenon, <1>0, <1>2, Pow2Sum
  <2>2. data \in Int
    OBVIOUS
  <2>3. data % (q * g) = ((data \div q) % g) * q + (data % q)
    BY ZenonT(40), <2>2, QuotientOfQuotient
  <2> QED BY Zenon, <1>1, <1>3, <2>1, <2>3
<1>5. Bits(data, left - 1, dr) = H /\ Bits(data, dr - 1, 0) = t
  <2>1. data \in Int /\ (dr + sz) - 1 = left - 1 /\ (0 + dr) - 1 = dr - 1 /\ 0 \in Nat /\ Pow2[0] = 1 /\ data \div 1 = data
    BY <1>1, Pow2Def
  <2>2. Bits(data, (dr + sz) - 1, dr) = (data \div Pow2[dr]) % Pow2[sz]
    BY ZenonT(40), <1>0, <2>1, BitsDef
  <2>3. Bits(data, (0 + dr) - 1, 0) = (data \div Pow2[0]) % Pow2[dr]
    BY ZenonT(40), <2>1, BitsDef
  <2> QED BY Zenon, <1>2, <1>3, <2>1, <2>2, <2>3
<1>6. KeptOf(data, left, sz) = H /\ DroppedOf(data, left, sz) = t
  <2>1. Pow2[0] = 1 /\ H * 1 + 0 = H
    BY Pow2Def
  <2> QED BY Zenon, <1>1, <1>5, <2>1 DEF KeptOf, DroppedOf, Cat
<1>7. PICK lo \in Nat : lo = dr + (a + e) /\ lo + sz = a + (left + e)
  <2>1. dr + (a + e) \in Nat /\ (dr + (a + e)) + sz = a + (left + e)
    BY <1>1
  <2> QED BY Zenon, <2>1
<1>8. Pow2[lo] = q * (p * h)
  <2>1. a + e \in Nat
    OBVIOUS
  <2>2. Pow2[a + e] = p * h
    BY Zenon, <1>2, Pow2Sum
  <2>3. Pow2[dr + (a + e)] = Pow2[dr] * Pow2[a + e]
    BY Zenon, <2>1, Pow2Sum
  <2> QED BY Zenon, <1>2, <1>7, <2>2, <2>3
<1>9. PICK u \in Nat : u = t * p + c
  OBVIOUS
<1>10. PICK y \in Nat : y = u * h
  OBVIOUS
<1>11. y < q * (p * h)
  <2>1. c < p
    BY Zenon, <1>2
  <2>2. t + 1 <= q
    OBVIOUS
  <2>3. (t + 1) * p <= q * p /\ (t + 1) * p = t * p + p
    BY <2>2
  <2>4. PICK i \in Nat, j \in Nat : i = t * p /\ j = q * p
    OBVIOUS
  <2>5. i + p <= j /\ u = i + c
    BY Zenon, <1>9, <2>3, <2>4
  <2>6. u + 1 <= j
    BY <2>1, <2>5
  <2>7. (u + 1) * h <= j * h /\ (u + 1) * h = u * h + h
    BY <2>6
  <2>8. j * h = q * (p * h)
    <3>1. (q * p) * h = q * (p * h)
      OBVIOUS
    <3> QED BY Zenon, <2>4, <3>1
  <2>9. PICK k \in Nat : k = q * (p * h)
    OBVIOUS
  <2>10. y + h <= k
    BY Zenon, <1>10, <2>7, <2>8, <2>9
  <2>11. y < k
    BY <2>10
  <2> QED BY Zenon, <2>9, <2>11
<1>12. ((H * q + t) * p + c) * h = H * (q * (p * h)) + y
  <2>1. ((H * q + t) * p + c) * h = H * (q * (p * h)) + (t * p + c) * h
    OBVIOUS
  <2> QED BY Zenon, <1>9, <1>10, <2>1
<1>13. LargerOf(Flag(c # 0), Flag(t # 0)) = Flag(y # 0)
  <2>1. u # 0 <=> c # 0 \/ t # 0
    <3>1. t = 0 => t * p = 0
      OBVIOUS
    <3>2. t # 0 => t * p # 0
      OBVIOUS
    <3>3. PICK i \in Nat : i = t * p
      OBVIOUS
    <3>4. u = i + c
      BY Zenon, <1>9, <3>3
    <3> QED BY <3>1, <3>2, <3>3, <3>4
  <2>2. y # 0 <=> u # 0
    <3>1. u # 0 => u * h # 0
      OBVIOUS
    <3>2. u = 0 => u * h = 0
      OBVIOUS
    <3> QED BY Zenon, <1>10, <3>1, <3>2
  <2> QED BY <2>1, <2>2 DEF LargerOf, Flag
<1>14. Kept(data, c, a, left, sz, e, lo, y)
  BY Zenon, <1>2, <1>4, <1>6, <1>7, <1>8, <1>11, <1>12, <1>13 DEF Kept
<1> QED BY Zenon, <1>14

\* A level that has fewer bits left than its size drops none.
LEMMA NoneDropped ==
  ASSUME NEW data \in Nat, NEW left \in Nat, NEW e \in Nat, NEW sz \in Nat, left < sz, sz <= left + e
  PROVE  \E lo \in Nat, y \in Nat : Kept(data, 0, 0, left, sz, e, lo, y)
<1>1. PICK f \in Nat : f = sz - left /\ LargerOf(left - sz, 0) = 0 /\ LargerOf(sz - left, 0) = f
  <2>1. sz - left \in Nat /\ LargerOf(left - sz, 0) = 0 /\ LargerOf(sz - left, 0) = sz - left
    BY DEF LargerOf
  <2> QED BY <2>1
<1>2. PICK lo \in Nat : lo = e - f /\ f + lo = e /\ lo + sz = 0 + (left + e)
  <2>1. e - f \in Nat /\ f + (e - f) = e /\ (e - f) + sz = 0 + (left + e)
    BY <1>1
  <2> QED BY Zenon, <2>1
<1>3. PICK p \in Nat \ {0}, q \in Nat \ {0}, g \in Nat \ {0} : p = Pow2[lo] /\ q = Pow2[f] /\ g = Pow2[left]
  BY Pow2Def
<1>4. Pow2[e] = q * p
  <2>1. Pow2[f + lo] = q * p
    BY Zenon, <1>3, Pow2Sum
  <2> QED BY Zenon, <1>2, <2>1
<1>5. PICK H \in Nat : H = data % g
  <2>1. data % g \in Nat
    OBVIOUS
  <2> QED BY Zenon, <2>1
<1>6. Bits(data, left - 1, 0) = H /\ Bits(data, 0 - 1, 0) = 0
  <2>1. data \in Int /\ (0 + left) - 1 = left - 1 /\ 0 \in Nat /\ Pow2[0] = 1 /\ data \div 1 = data /\ 0 - 1 < 0
    BY Pow2Def
  <2>2. Bits(data, (0 + left) - 1, 0) = (data \div Pow2[0]) % Pow2[left]
    BY ZenonT(40), <2>1, BitsDef
  <2>3. Bits(data, 0 - 1, 0) = 0
    BY Zenon, <2>1 DEF Bits
  <2> QED BY Zenon, <1>3, <1>5, <2>1, <2>2, <2>3
<1>7. KeptOf(data, left, sz) = H * q /\ DroppedOf(data, left, sz) = 0 /\ H * q \in Nat
  <2>1. H * q + 0 = H * q /\ H * q \in Nat
    OBVIOUS
  <2> QED BY Zenon, <1>1, <1>3, <1>6, <2>1 DEF KeptOf, DroppedOf, Cat
<1>8. (H * 1 + 0) * (q * p) = (H * q) * p + 0
  OBVIOUS
<1>9. 0 < p /\ 0 \in Nat /\ Pow2[0] = 1
  BY Pow2Def
<1>10. LargerOf(Flag(0 # 0), Flag(0 # 0)) = Flag(0 # 0)
  BY DEF LargerOf, Flag
<1>11. Kept(data, 0, 0, left, sz, e, lo, 0)
  BY Zenon, <1>2, <1>3, <1>4, <1>5, <1>7, <1>8, <1>9, <1>10 DEF Kept
<1> QED BY Zenon, <1>9, <1>11

\* The sizes of two levels: a level is smaller than the one above by what that may shift,
\* unless no bit has been dropped above it.
NormSize(wX, wR, w, i) == IF i = w THEN wX ELSE LevelSize(wX, wR, i)
NormSizesAre(wX, wR, w, i, p, sz, up) ==
  /\ p = Pow2[i] /\ Pow2[i + 1] = 2 * p
  /\ sz = NormSize(wX, wR, w, i) /\ up = NormSize(wX, wR, w, i + 1)
  /\ sz <= up /\ up <= wX /\ p <= up
  /\ up = wX \/ sz + p <= up
\* For every level of every normalizer.
LEMMA NormSizesExist ==
  ASSUME NEW wX \in Nat, NEW wR \in 2..wX, NEW w \in Nat, w = IntLog2(wX), NEW i \in 0..(w - 1)
  PROVE  \E p \in Nat \ {0}, sz \in Nat, up \in Nat : NormSizesAre(wX, wR, w, i, p, sz, up)
<1>1. i \in Nat /\ w - 1 \in Nat /\ i <= w - 1 /\ i # w /\ wX # 0 /\ i + 1 \in Nat /\ wR \in Nat
  OBVIOUS
<1>2. PICK p \in Nat \ {0} : p = Pow2[i] /\ Pow2[i + 1] = 2 * p
  BY <1>1, Pow2Def
<1>3. p <= wX
  <2>1. Pow2[i] <= Pow2[w - 1]
    BY Zenon, <1>1, Pow2Monotone
  <2>2. Pow2[w - 1] <= wX
    BY Zenon, <1>1, IntLog2Bounds
  <2>3. Pow2[w - 1] \in Nat
    BY <1>1, Pow2Def
  <2> QED BY <1>2, <2>1, <2>2, <2>3
<1>4. PICK m \in Nat : m = LargerOf(wR, p) /\ m >= p /\ m >= wR /\ (m = p \/ m = wR)
  BY <1>1 DEF LargerOf
<1>5. PICK k \in Nat : k = LargerOf(wR, 2 * p) /\ k >= 2 * p /\ k >= wR
  BY <1>1 DEF LargerOf
<1>6. PICK sz \in Nat : sz = SmallerOf(m + p - 1, wX) /\ sz <= m + p - 1 /\ sz <= wX
  <2>1. m + p - 1 \in Nat
    OBVIOUS
  <2> QED BY <2>1 DEF SmallerOf
<1>7. PICK g \in Nat : g = SmallerOf(k + (2 * p) - 1, wX) /\ g <= wX /\ (g = wX \/ g = k + (2 * p) - 1)
  <2>1. k + (2 * p) - 1 \in Nat
    OBVIOUS
  <2> QED BY <2>1 DEF SmallerOf
<1>8. NormSize(wX, wR, w, i) = sz
  BY Zenon, <1>1, <1>2, <1>4, <1>6 DEF NormSize, LevelSize
<1>9. PICK up \in Nat : up = NormSize(wX, wR, w, i + 1) /\ up <= wX /\ (up = wX \/ up = k + (2 * p) - 1)
  <2>1. CASE i + 1 = w
    <3>1. wX <= wX
      OBVIOUS
    <3> QED BY Zenon, <2>1, <3>1 DEF NormSize
  <2>2. CASE i + 1 # w
    BY Zenon, <1>2, <1>5, <1>7, <2>2 DEF NormSize, LevelSize
  <2> QED BY <2>1, <2>2
<1>10. sz <= up /\ p <= up /\ (up = wX \/ sz + p <= up)
  BY <1>3, <1>4, <1>5, <1>6, <1>9
<1>11. NormSizesAre(wX, wR, w, i, p, sz, up)
  BY Zenon, <1>2, <1>8, <1>9, <1>10 DEF NormSizesAre
<1> QED BY Zenon, <1>11

\* What a level makes of the one above.
NormFirst(x) == [data |-> x, Count |-> 0, Sticky |-> 0]
NormLevelOf(wX, wR, b, w, i, above) ==
  LET sz == NormSize(wX, wR, w, i)
      wide == NormSize(wX, wR, w, i + 1)
      all == Bits(above.data, wide - 1, wide - Pow2[i]) = Fill(Pow2[i], b)
      left == IF all THEN wide - Pow2[i] ELSE wide
  IN [data |-> KeptOf(above.data, left, sz),
      Count |-> Cat(above.Count, 1, Flag(all)),
      Sticky |-> LargerOf(above.Sticky, Flag(DroppedOf(above.data, left, sz) # 0))]

\* What a level holds: of v, the input shifted by the count so far, the left bits; the
\* others are c, and the sticky bit tells whether they are zero.
Normalizing(wX, b, x, n, i, l, a, c, v) ==
  /\ v = l.data * Pow2[a] + c /\ c < Pow2[a] /\ v < Pow2[wX] /\ l.Sticky = Flag(c # 0)
  /\ b = 0 => v # 0
  /\ Congruent(x * Pow2[l.Count * Pow2[i]], v, Pow2[wX])
  /\ l.Count * Pow2[i] + Leading(wX, b, v) = n /\ Leading(wX, b, v) < Pow2[i]
NormLevelIs(wX, b, x, n, sz, i, l) ==
  /\ l.data \in Nat /\ l.Count \in Nat
  /\ \E a \in Nat, c \in Nat, v \in Nat : a + sz = wX /\ Normalizing(wX, b, x, n, i, l, a, c, v)

\* Shifting an integer keeps what is congruent to it.
LEMMA CongruentShift ==
  ASSUME NEW u \in Int, NEW v \in Int, NEW t \in Int, NEW p \in Nat, NEW h \in Nat,
         Congruent(u, v, p), Congruent(v * h, t, p)
  PROVE  Congruent(u * h, t, p)
<1>1. PICK k \in Int : u = v + p * k
  BY Zenon DEF Congruent
<1>2. PICK l \in Int : v * h = t + p * l
  BY Zenon DEF Congruent
<1>3. (v + p * k) * h = v * h + p * (k * h) /\ (t + p * l) + p * (k * h) = t + p * (l + k * h)
  OBVIOUS
<1>4. u * h = t + p * (l + k * h)
  BY Zenon, <1>1, <1>2, <1>3
<1>5. l + k * h \in Int
  OBVIOUS
<1> QED BY Zenon, <1>4, <1>5 DEF Congruent

\* The top p bits of the data are those of v.
TopBitsOf(m, p, b, v, data, up) ==
  Bits(data, up - 1, up - p) = Fill(p, b) <=> p <= Leading(p + m, b, v)
TopBits(r, a, p, b, v, data, c) ==
  /\ TopBitsOf(r + a, p, b, v, data, p + r)
  /\ data < Pow2[p + r]
  /\ v % Pow2[r + a] = (data % Pow2[r]) * Pow2[a] + c
\* Whether the top p bits are all counted tells whether p leading digits are.
LEMMA TopBitsAre ==
  ASSUME NEW p \in Nat, NEW r \in Nat, NEW a \in Nat, NEW b \in 0..1, NEW data \in Nat,
         NEW c \in Nat, c < Pow2[a], NEW v \in Nat, v = data * Pow2[a] + c, v < Pow2[p + (r + a)]
  PROVE  TopBits(r, a, p, b, v, data, c)
<1>1. PICK g \in Nat \ {0}, q \in Nat \ {0}, h \in Nat \ {0} : g = Pow2[a] /\ q = Pow2[r] /\ h = Pow2[p]
  BY Pow2Def
<1>2. r + a \in Nat /\ p + r \in Nat /\ (p + r) + a = p + (r + a)
  OBVIOUS
<1>3. Pow2[r + a] = g * q /\ Pow2[p + (r + a)] = Pow2[p + r] * g
  <2>1. Pow2[r + a] = q * g /\ q * g = g * q
    <3>1. Pow2[r + a] = q * g
      BY Zenon, <1>1, Pow2Sum
    <3> QED BY <3>1
  <2>2. Pow2[(p + r) + a] = Pow2[p + r] * g
    BY Zenon, <1>1, <1>2, Pow2Sum
  <2> QED BY Zenon, <1>2, <2>1, <2>2
<1>4. v \div g = data /\ v % g = c
  <2>1. c \in 0..(g - 1) /\ data \in Int /\ data * g + c = g * data + c
    BY <1>1
  <2>2. (g * data + c) \div g = data /\ (g * data + c) % g = c
    BY ZenonT(40), <2>1, DivisionUnique
  <2> QED BY Zenon, <1>1, <2>1, <2>2
<1>5. (v \div g) \div q = v \div (g * q) /\ v % (g * q) = ((v \div g) % q) * g + (v % g)
  <2>1. v \in Int
    OBVIOUS
  <2> QED BY ZenonT(40), <2>1, QuotientOfQuotient
<1>6. data < Pow2[p + r]
  <2>1. PICK k \in Nat : k = Pow2[p + r]
    BY <1>2, Pow2Def
  <2>2. SUFFICES ASSUME k <= data PROVE FALSE
    BY <2>1
  <2>3. k * g <= data * g
    BY <2>2
  <2>4. PICK i \in Nat, j \in Nat : i = k * g /\ j = data * g
    OBVIOUS
  <2>5. v = j + c /\ v < i /\ i <= j
    BY Zenon, <1>1, <1>3, <2>1, <2>3, <2>4
  <2> QED BY <2>5
<1>7. Bits(data, (p + r) - 1, r) = data \div Pow2[r]
  BY Zenon, <1>6, PartBits
<1>8. LeadingParts(p, r + a, b, v)
  BY Zenon, <1>2, LeadingPartsAre
<1>9. (p + r) - p = r
  OBVIOUS
<1>10. Bits(data, (p + r) - 1, (p + r) - p) = v \div Pow2[r + a]
  BY Zenon, <1>1, <1>3, <1>4, <1>5, <1>7, <1>9
<1>11. TopBitsOf(r + a, p, b, v, data, p + r)
  BY Zenon, <1>8, <1>10 DEF LeadingParts, TopBitsOf
<1>12. v % Pow2[r + a] = (data % Pow2[r]) * Pow2[a] + c
  BY Zenon, <1>1, <1>3, <1>4, <1>5
<1> QED BY Zenon, <1>6, <1>11, <1>12 DEF TopBits

\* A level finds a digit of the count, and shifts by it.
LEMMA NormLevel ==
  ASSUME NEW wX \in Nat, NEW wR \in 2..wX, NEW w \in Nat, w = IntLog2(wX), NEW i \in 0..(w - 1),
         NEW b \in 0..1, NEW x \in Nat, NEW n \in Nat, NEW l,
         NormLevelIs(wX, b, x, n, NormSize(wX, wR, w, i + 1), i + 1, l)
  PROVE  NormLevelIs(wX, b, x, n, NormSize(wX, wR, w, i), i, NormLevelOf(wX, wR, b, w, i, l))
<1>0. \A e \in Nat \ {0} : e \in Nat
  OBVIOUS
<1>1. PICK p \in Nat \ {0}, sz \in Nat, up \in Nat : NormSizesAre(wX, wR, w, i, p, sz, up)
  BY Zenon, NormSizesExist
<1>2. /\ p = Pow2[i] /\ Pow2[i + 1] = 2 * p
      /\ sz = NormSize(wX, wR, w, i) /\ up = NormSize(wX, wR, w, i + 1)
      /\ sz <= up /\ up <= wX /\ p <= up /\ (up = wX \/ sz + p <= up)
  BY Zenon, <1>1 DEF NormSizesAre
<1>3. PICK data \in Nat, o \in Nat : data = l.data /\ o = l.Count
  BY Zenon DEF NormLevelIs
<1>4. PICK a \in Nat, c \in Nat, v \in Nat : a + up = wX /\ Normalizing(wX, b, x, n, i + 1, l, a, c, v)
  BY Zenon, <1>2 DEF NormLevelIs
<1>5. /\ v = data * Pow2[a] + c /\ c < Pow2[a] /\ v < Pow2[wX] /\ l.Sticky = Flag(c # 0)
      /\ (b = 0 => v # 0)
      /\ Congruent(x * Pow2[o * (2 * p)], v, Pow2[wX])
      /\ o * (2 * p) + Leading(wX, b, v) = n /\ Leading(wX, b, v) < 2 * p
  BY Zenon, <1>2, <1>3, <1>4 DEF Normalizing
<1>6. PICK r \in Nat : r = up - p /\ up = p + r /\ p + (r + a) = wX /\ r + a \in Nat /\ up + 0 = p + r
  <2>1. up - p \in Nat
    BY <1>2
  <2> QED BY <1>4, <2>1
<1>7. PICK L \in 0..wX : L = Leading(wX, b, v)
  BY Zenon, <1>5, LeadingType
<1>8. /\ TopBitsOf(r + a, p, b, v, data, p + r)
      /\ data < Pow2[p + r]
      /\ v % Pow2[r + a] = (data % Pow2[r]) * Pow2[a] + c
  <2>1. v < Pow2[p + (r + a)] /\ p \in Nat
    BY Zenon, <1>5, <1>6, <1>0
  <2>2. TopBits(r, a, p, b, v, data, c)
    BY Zenon, <1>5, <2>1, TopBitsAre
  <2> QED BY Zenon, <2>2 DEF TopBits
<1>9. Bits(data, up - 1, up - p) = Fill(p, b) <=> p <= L
  BY Zenon, <1>6, <1>7, <1>8 DEF TopBitsOf
<1>10. PICK h \in Nat \ {0}, g \in Nat, f \in Nat, k \in Nat :
         h = Pow2[p] /\ g = Pow2[o * (2 * p)] /\ f = Pow2[wX] /\ k = Pow2[a]
  <2>1. o * (2 * p) \in Nat
    OBVIOUS
  <2> QED BY <2>1, Pow2Def
<1>11. PICK m : m = NormLevelOf(wX, wR, b, w, i, l)
  OBVIOUS
<1>12. CASE p <= L
  <2>1. PICK z \in Nat : z = v % Pow2[r + a] /\ z = (data % Pow2[r]) * k + c
    <3>1. PICK q \in Nat \ {0} : q = Pow2[r + a]
      BY <1>6, Pow2Def
    <3>2. v % q \in Nat
      OBVIOUS
    <3> QED BY Zenon, <1>8, <1>10, <3>1, <3>2
  <2>2. ShiftedOut(p, r + a, b, v, z)
    <3>1. v < Pow2[p + (r + a)] /\ p <= Leading(p + (r + a), b, v) /\ p \in Nat
      BY Zenon, <1>5, <1>6, <1>7, <1>12
    <3> QED BY Zenon, <1>5, <1>6, <2>1, <3>1, ShiftOut
  <2>3. PICK y \in Nat : y = z * h
    OBVIOUS
  <2>4. /\ y < f /\ Leading(wX, b, y) + p = L /\ (b = 0 => y # 0)
        /\ Congruent(v * h, y, f)
    BY Zenon, <1>6, <1>7, <1>10, <2>2, <2>3 DEF ShiftedOut
  <2>5. PICK lo \in Nat, y2 \in Nat : Kept(data, c, a, r, sz, p, lo, y2)
    <3>1. CASE sz <= r
      <4>1. sz \in 0..r
        BY <3>1
      <4> QED BY Zenon, <1>5, <4>1, <1>0, SomeDropped
    <3>2. CASE ~(sz <= r)
      <4>1. r < sz /\ sz <= r + p /\ p \in Nat
        BY <1>2, <1>6, <3>2
      <4>2. up = wX
        BY <1>2, <1>6, <3>2
      <4>3. a = 0
        BY <1>4, <4>2
      <4>4. c = 0
        <5>1. Pow2[0] = 1
          BY Pow2Def
        <5> QED BY <1>5, <4>3, <5>1
      <4> QED BY Zenon, <4>1, <4>3, <4>4, NoneDropped
    <3> QED BY <3>1, <3>2
  <2>6. /\ lo + sz = a + (r + p) /\ y2 < Pow2[lo] /\ KeptOf(data, r, sz) \in Nat
        /\ y = KeptOf(data, r, sz) * Pow2[lo] + y2
        /\ LargerOf(Flag(c # 0), Flag(DroppedOf(data, r, sz) # 0)) = Flag(y2 # 0)
    BY Zenon, <1>10, <2>1, <2>3, <2>5 DEF Kept
  <2>7. m = [data |-> KeptOf(data, r, sz), Count |-> Cat(o, 1, 1), Sticky |-> Flag(y2 # 0)]
    <3>1. (Bits(data, up - 1, up - p) = Fill(p, b)) = TRUE
      BY <1>9, <1>12
    <3>2. Flag(TRUE) = 1
      BY DEF Flag
    <3> QED BY Zenon, <1>2, <1>3, <1>5, <1>6, <1>11, <2>6, <3>1, <3>2 DEF NormLevelOf
  <2>8. m.data = KeptOf(data, r, sz) /\ m.Count = 2 * o + 1 /\ m.Sticky = Flag(y2 # 0) /\ 2 * o + 1 \in Nat
    <3>1. Cat(o, 1, 1) = 2 * o + 1
      BY Pow2Def DEF Cat
    <3> QED BY <2>7, <3>1
  <2>9. Congruent(x * Pow2[(2 * o + 1) * p], y, f)
    <3>1. (2 * o + 1) * p = o * (2 * p) + p /\ o * (2 * p) \in Nat
      OBVIOUS
    <3>2. Pow2[o * (2 * p) + p] = g * h
      BY Zenon, <1>10, <3>1, <1>0, Pow2Sum
    <3>3. PICK u \in Int : u = x * g
      OBVIOUS
    <3>4. Congruent(u, v, f)
      BY Zenon, <1>5, <1>10, <3>3
    <3>5. Congruent(u * h, y, f)
      <4>1. v \in Int /\ y \in Int /\ h \in Nat
        OBVIOUS
      <4> QED BY Zenon, <2>4, <3>4, <4>1, CongruentShift
    <3>6. (x * g) * h = x * (g * h)
      OBVIOUS
    <3> QED BY Zenon, <3>1, <3>2, <3>3, <3>5, <3>6
  <2>10. PICK e \in Int : e = Leading(wX, b, y)
    <3>1. Leading(wX, b, y) \in 0..wX
      BY Zenon, <1>10, <2>4, LeadingType
    <3> QED BY <3>1
  <2>11. (2 * o + 1) * p + e = n /\ e < p
    <3>1. (2 * o + 1) * p = o * (2 * p) + p
      OBVIOUS
    <3>2. PICK j \in Nat, q \in Nat : j = o * (2 * p) /\ q = (2 * o + 1) * p
      OBVIOUS
    <3>3. q = j + p /\ j + L = n /\ L < 2 * p /\ e + p = L
      BY Zenon, <1>5, <1>7, <2>4, <2>10, <3>1, <3>2
    <3>4. q + e = n /\ e < p
      BY <3>3
    <3> QED BY Zenon, <3>2, <3>4
  <2>12. a + (r + p) = wX
    BY <1>6
  <2>13. Normalizing(wX, b, x, n, i, m, lo, y2, y)
    BY Zenon, <1>2, <1>10, <2>4, <2>6, <2>8, <2>9, <2>10, <2>11 DEF Normalizing
  <2> QED BY Zenon, <1>2, <1>11, <2>6, <2>8, <2>12, <2>13 DEF NormLevelIs
<1>13. CASE ~(p <= L)
  <2>1. PICK lo \in Nat, y2 \in Nat : Kept(data, c, a, up, sz, 0, lo, y2)
    <3>1. sz \in 0..up /\ 0 \in Nat
      BY <1>2
    <3> QED BY Zenon, <1>5, <3>1, SomeDropped
  <2>2. data % Pow2[up] = data
    <3>1. PICK q \in Nat \ {0} : q = Pow2[up]
      BY Pow2Def
    <3>2. data \in 0..(q - 1) /\ data \in Int
      BY <1>6, <1>8, <3>1
    <3> QED BY ZenonT(40), <3>1, <3>2, SmallRemainder
  <2>3. /\ lo + sz = a + (up + 0) /\ y2 < Pow2[lo] /\ KeptOf(data, up, sz) \in Nat
        /\ v = KeptOf(data, up, sz) * Pow2[lo] + y2
        /\ LargerOf(Flag(c # 0), Flag(DroppedOf(data, up, sz) # 0)) = Flag(y2 # 0)
    <3>1. (data * Pow2[a] + c) * Pow2[0] = data * Pow2[a] + c
      <4>1. Pow2[0] = 1 /\ (data * k + c) * 1 = data * k + c
        BY Pow2Def
      <4> QED BY Zenon, <1>10, <4>1
    <3> QED BY Zenon, <1>5, <2>1, <2>2, <3>1 DEF Kept
  <2>4. m = [data |-> KeptOf(data, up, sz), Count |-> Cat(o, 1, 0), Sticky |-> Flag(y2 # 0)]
    <3>1. (Bits(data, up - 1, up - p) = Fill(p, b)) = FALSE
      BY <1>9, <1>13
    <3>2. Flag(FALSE) = 0
      BY DEF Flag
    <3> QED BY Zenon, <1>2, <1>3, <1>5, <1>11, <2>3, <3>1, <3>2 DEF NormLevelOf
  <2>5. m.data = KeptOf(data, up, sz) /\ m.Count = 2 * o /\ m.Sticky = Flag(y2 # 0) /\ 2 * o \in Nat
    <3>1. Cat(o, 1, 0) = 2 * o
      BY Pow2Def DEF Cat
    <3> QED BY <2>4, <3>1
  <2>6. (2 * o) * p = o * (2 * p) /\ L < p
    BY <1>13
  <2>7. a + (up + 0) = wX
    BY <1>4
  <2>8. Normalizing(wX, b, x, n, i, m, lo, y2, v)
    BY Zenon, <1>2, <1>5, <1>7, <2>3, <2>5, <2>6 DEF Normalizing
  <2> QED BY Zenon, <1>2, <1>11, <2>3, <2>5, <2>7, <2>8 DEF NormLevelIs
<1> QED BY <1>12, <1>13

\* The levels of a normalizer.
NormLevelSet == [data : Nat, Count : Nat, Sticky : Nat]
NormLevels(wX, wR, b, x, w, f) ==
  f = [i \in 0..w |-> IF i = w THEN NormFirst(x) ELSE NormLevelOf(wX, wR, b, w, i, f[i + 1])]
\* What is kept is a number.
LEMMA KeptType ==
  ASSUME NEW data \in Nat, NEW left \in Int, NEW sz \in Nat
  PROVE  KeptOf(data, left, sz) \in Nat
<1>1. PICK dr \in Nat, up \in Nat : dr = LargerOf(left - sz, 0) /\ up = LargerOf(sz - left, 0)
  <2>1. LargerOf(left - sz, 0) \in Nat
    BY DEF LargerOf
  <2>2. LargerOf(sz - left, 0) \in Nat
    BY DEF LargerOf
  <2> QED BY Zenon, <2>1, <2>2
<1>2. data \in Int /\ left - 1 \in Int
  OBVIOUS
<1>3. PICK v \in Nat : v = Bits(data, left - 1, dr)
  <2>1. Bits(data, left - 1, dr) \in Nat
    BY Zenon, <1>2, BitsType
  <2> QED BY Zenon, <2>1
<1>4. PICK g \in Nat : g = Pow2[up]
  BY Pow2Def
<1>5. v * g + 0 \in Nat
  OBVIOUS
<1> QED BY Zenon, <1>1, <1>3, <1>4, <1>5 DEF KeptOf, Cat

\* The sizes of the levels are numbers.
LEMMA NormSizeType ==
  ASSUME NEW wX \in Nat, NEW wR \in 2..wX, NEW w \in Nat, NEW i \in Nat
  PROVE  NormSize(wX, wR, w, i) \in Nat
<1>1. PICK p \in Nat \ {0} : p = Pow2[i]
  BY Pow2Def
<1>2. SmallerOf(LargerOf(wR, p) + p - 1, wX) \in Nat
  <2>1. PICK m \in Nat : m = LargerOf(wR, p)
    BY DEF LargerOf
  <2>2. m + p - 1 \in Nat
    OBVIOUS
  <2>3. SmallerOf(m + p - 1, wX) \in Nat
    BY <2>2 DEF SmallerOf
  <2> QED BY Zenon, <2>1, <2>3
<1> QED BY Zenon, <1>1, <1>2 DEF NormSize, LevelSize

\* There are such levels.
LEMMA NormLevelsExist ==
  ASSUME NEW wX \in Nat, NEW wR \in 2..wX, NEW w \in Nat, NEW b \in 0..1, NEW x \in Nat
  PROVE  \E f : NormLevels(wX, wR, b, x, w, f)
<1> DEFINE a == NormFirst(x)
<1> DEFINE F == [v \in NormLevelSet \X Nat |-> NormLevelOf(wX, wR, b, w, v[2], v[1])]
<1>1. a \in NormLevelSet
  BY DEF NormFirst, NormLevelSet
<1>2. F \in [NormLevelSet \X Nat -> NormLevelSet]
  <2> SUFFICES ASSUME NEW l \in NormLevelSet, NEW i \in Nat PROVE NormLevelOf(wX, wR, b, w, i, l) \in NormLevelSet
    BY SMT
  <2>1. PICK p \in Nat \ {0} : p = Pow2[i]
    BY Pow2Def
  <2>2. PICK v \in Nat, o \in Nat, t \in Nat : v = l.data /\ o = l.Count /\ t = l.Sticky
    BY DEF NormLevelSet
  <2>3. PICK sz \in Nat, up \in Nat : sz = NormSize(wX, wR, w, i) /\ up = NormSize(wX, wR, w, i + 1)
    <3>1. i + 1 \in Nat
      OBVIOUS
    <3>2. NormSize(wX, wR, w, i) \in Nat
      BY Zenon, NormSizeType
    <3>3. NormSize(wX, wR, w, i + 1) \in Nat
      BY Zenon, <3>1, NormSizeType
    <3> QED BY Zenon, <3>2, <3>3
  <2>4. PICK e \in BOOLEAN : e = (Bits(v, up - 1, up - p) = Fill(p, b))
    OBVIOUS
  <2>5. PICK left \in Int : left = IF e THEN up - p ELSE up
    <3>1. up - p \in Int /\ up \in Int
      OBVIOUS
    <3> QED BY Zenon, <3>1
  <2>6. PICK y \in Nat : y = KeptOf(v, left, sz)
    <3>1. KeptOf(v, left, sz) \in Nat
      BY Zenon, KeptType
    <3> QED BY Zenon, <3>1
  <2>7. PICK z \in Nat : z = Cat(o, 1, Flag(e))
    BY Pow2Def DEF Cat, Flag
  <2>8. PICK u \in Nat : u = LargerOf(t, Flag(DroppedOf(v, left, sz) # 0))
    BY DEF LargerOf, Flag
  <2>9. NormLevelOf(wX, wR, b, w, i, l) = [data |-> y, Count |-> z, Sticky |-> u]
    BY Zenon, <2>1, <2>2, <2>3, <2>4, <2>5, <2>6, <2>7, <2>8 DEF NormLevelOf
  <2>10. [data |-> y, Count |-> z, Sticky |-> u] \in NormLevelSet
    BY DEF NormLevelSet
  <2> QED BY Zenon, <2>9, <2>10
<1>3. PICK f : Downwards(NormLevelSet, 0, w, a, F, f)
  <2>1. 0 \in Nat /\ 0 <= w
    OBVIOUS
  <2> HIDE DEF F, a
  <2> QED BY Zenon, <1>1, <1>2, <2>1, DownwardsIs
<1>4. f = [i \in 0..w |-> IF i = w THEN a ELSE F[<<f[i + 1], i>>]] /\ \A i \in 0..w : f[i] \in NormLevelSet
  BY Zenon, <1>3 DEF Downwards
<1>5. ASSUME NEW i \in 0..w
      PROVE  (IF i = w THEN a ELSE F[<<f[i + 1], i>>]) = IF i = w THEN a ELSE NormLevelOf(wX, wR, b, w, i, f[i + 1])
  <2>1. CASE i = w
    BY Zenon, <2>1
  <2>2. CASE i # w
    <3>1. i + 1 \in 0..w /\ i \in Nat
      BY <2>2
    <3>2. f[i + 1] \in NormLevelSet
      BY Zenon, <1>4, <3>1
    <3>3. <<f[i + 1], i>> \in NormLevelSet \X Nat /\ <<f[i + 1], i>>[1] = f[i + 1] /\ <<f[i + 1], i>>[2] = i
      BY <3>1, <3>2
    <3>4. F[<<f[i + 1], i>>] = NormLevelOf(wX, wR, b, w, i, f[i + 1])
      BY Zenon, <3>3
    <3> QED BY Zenon, <2>2, <3>4
  <2> QED BY <2>1, <2>2
<1> HIDE DEF F
<1>6. f = [i \in 0..w |-> IF i = w THEN a ELSE NormLevelOf(wX, wR, b, w, i, f[i + 1])]
  <2> HIDE DEF a
  <2> QED BY Zenon, <1>4, <1>5
<1> QED BY Zenon, <1>6 DEF NormLevels

\* The levels hold what is left to normalize.
NormLevelsHold(wX, wR, b, x, n, w, f) == NormLevelIs(wX, b, x, n, NormSize(wX, wR, w, 0), 0, f[0])
\* Downwards from the input, each level makes the next hold.
LEMMA NormLevelsAre ==
  ASSUME NEW wX \in Nat, NEW wR \in 2..wX, NEW w \in Nat, w = IntLog2(wX), NEW b \in 0..1, NEW x \in Nat,
         NEW n \in Nat, NormLevelIs(wX, b, x, n, NormSize(wX, wR, w, w), w, NormFirst(x)),
         NEW f, NormLevels(wX, wR, b, x, w, f)
  PROVE  NormLevelsHold(wX, wR, b, x, n, w, f)
<1> DEFINE G == {k \in Nat : w - k \in 0..w =>
                   NormLevelIs(wX, b, x, n, NormSize(wX, wR, w, w - k), w - k, f[w - k])}
<1>1. \A i \in 0..w : f[i] = IF i = w THEN NormFirst(x) ELSE NormLevelOf(wX, wR, b, w, i, f[i + 1])
  BY Zenon DEF NormLevels
<1>2. 0 \in G
  <2>1. 0 \in Nat /\ w - 0 = w /\ w \in 0..w
    OBVIOUS
  <2>2. f[w] = NormFirst(x)
    BY Zenon, <1>1, <2>1
  <2> QED BY Zenon, <2>1, <2>2
<1>3. ASSUME NEW k \in Nat, k \in G PROVE k + 1 \in G
  <2>1. SUFFICES ASSUME w - (k + 1) \in 0..w
                 PROVE  NormLevelIs(wX, b, x, n, NormSize(wX, wR, w, w - (k + 1)), w - (k + 1), f[w - (k + 1)])
    <3>1. k + 1 \in Nat
      OBVIOUS
    <3> QED BY Zenon, <3>1
  <2>2. PICK i \in 0..(w - 1) : i = w - (k + 1) /\ i \in 0..w /\ i # w /\ i + 1 = w - k /\ w - k \in 0..w
    BY <2>1
  <2>3. NormLevelIs(wX, b, x, n, NormSize(wX, wR, w, i + 1), i + 1, f[i + 1])
    BY Zenon, <1>3, <2>2
  <2>4. f[i] = NormLevelOf(wX, wR, b, w, i, f[i + 1])
    BY Zenon, <1>1, <2>2
  <2>5. NormLevelIs(wX, b, x, n, NormSize(wX, wR, w, i), i, NormLevelOf(wX, wR, b, w, i, f[i + 1]))
    BY Zenon, <2>3, NormLevel
  <2> QED BY Zenon, <2>2, <2>4, <2>5
<1>4. \A k \in Nat : k \in G
  <2> HIDE DEF G
  <2> QED BY Zenon, <1>2, <1>3, Induction
<1>5. w - w = 0 /\ 0 \in 0..w
  OBVIOUS
<1> QED BY Zenon, <1>4, <1>5 DEF NormLevelsHold

\* A slice of zero.
LEMMA BitsOfZero ==
  ASSUME NEW hi \in Int, NEW lo \in Nat
  PROVE  Bits(0, hi, lo) = 0
<1>1. CASE hi < lo
  BY Zenon, <1>1 DEF Bits
<1>2. CASE ~(hi < lo)
  <2>1. PICK N \in Nat : N = (hi - lo) + 1
    BY <1>2
  <2>2. hi = (lo + N) - 1
    BY <2>1
  <2>3. PICK p \in Nat \ {0}, q \in Nat \ {0} : p = Pow2[lo] /\ q = Pow2[N]
    BY Pow2Def
  <2>4. 0 \in Int /\ 0 \in 0..(p - 1) /\ 0 \in 0..(q - 1) /\ p * 0 + 0 = 0
    OBVIOUS
  <2>5. Bits(0, (lo + N) - 1, lo) = (0 \div p) % q
    <3>1. Bits(0, (lo + N) - 1, lo) = (0 \div Pow2[lo]) % Pow2[N]
      BY ZenonT(40), <2>4, BitsDef
    <3> QED BY Zenon, <2>3, <3>1
  <2>6. (p * 0 + 0) \div p = 0
    BY ZenonT(40), <2>4, DivisionUnique
  <2>7. 0 % q = 0
    BY ZenonT(40), <2>4, SmallRemainder
  <2> QED BY Zenon, <2>2, <2>4, <2>5, <2>6, <2>7
<1> QED BY <1>1, <1>2

\* The levels of a zero whose leading zeros are counted: they count whatever they can.
NormZeroIs(w, i, l) == l.data = 0 /\ l.Count \in Nat /\ (l.Count + 1) * Pow2[i] = Pow2[w]
\* A level finds another one.
LEMMA NormZeroLevel ==
  ASSUME NEW wX \in Nat, NEW wR \in 2..wX, NEW w \in Nat, w = IntLog2(wX), NEW i \in 0..(w - 1), NEW l,
         NormZeroIs(w, i + 1, l)
  PROVE  NormZeroIs(w, i, NormLevelOf(wX, wR, 0, w, i, l))
<1>1. PICK p \in Nat \ {0}, sz \in Nat, up \in Nat : NormSizesAre(wX, wR, w, i, p, sz, up)
  BY Zenon, NormSizesExist
<1>2. /\ p = Pow2[i] /\ Pow2[i + 1] = 2 * p
      /\ sz = NormSize(wX, wR, w, i) /\ up = NormSize(wX, wR, w, i + 1) /\ p <= up
  BY Zenon, <1>1 DEF NormSizesAre
<1>3. PICK o \in Nat : o = l.Count /\ l.data = 0 /\ (o + 1) * (2 * p) = Pow2[w]
  BY Zenon, <1>2 DEF NormZeroIs
<1>4. PICK left \in Nat : left = up - p
  <2>1. up - p \in Nat
    BY <1>2
  <2> QED BY Zenon, <2>1
<1>5. Bits(0, up - 1, left) = 0
  <2>1. up - 1 \in Int
    OBVIOUS
  <2> QED BY Zenon, <2>1, BitsOfZero
<1>6. (Bits(0, up - 1, left) = Fill(p, 0)) = TRUE
  BY <1>5 DEF Fill
<1>7. KeptOf(0, left, sz) = 0
  <2>1. PICK g \in Nat, dr \in Nat : g = Pow2[LargerOf(sz - left, 0)] /\ dr = LargerOf(left - sz, 0)
    <3>1. LargerOf(sz - left, 0) \in Nat
      BY DEF LargerOf
    <3>2. LargerOf(left - sz, 0) \in Nat
      BY DEF LargerOf
    <3> QED BY <3>1, <3>2, Pow2Def
  <2>2. left - 1 \in Int
    OBVIOUS
  <2>3. Bits(0, left - 1, dr) = 0
    BY Zenon, <2>2, BitsOfZero
  <2>4. 0 * g + 0 = 0
    OBVIOUS
  <2> QED BY Zenon, <2>1, <2>3, <2>4 DEF KeptOf, Cat
<1>8. PICK u : u = LargerOf(l.Sticky, Flag(DroppedOf(0, left, sz) # 0))
  OBVIOUS
<1>9. NormLevelOf(wX, wR, 0, w, i, l) = [data |-> 0, Count |-> Cat(o, 1, 1), Sticky |-> u]
  <2>1. Flag(TRUE) = 1
    BY DEF Flag
  <2> QED BY Zenon, <1>2, <1>3, <1>4, <1>6, <1>7, <1>8, <2>1 DEF NormLevelOf
<1>10. Cat(o, 1, 1) = 2 * o + 1
  BY Pow2Def DEF Cat
<1>11. NormLevelOf(wX, wR, 0, w, i, l).data = 0 /\ NormLevelOf(wX, wR, 0, w, i, l).Count = 2 * o + 1
  BY <1>9, <1>10
<1>12. (2 * o + 1) + 1 = 2 * (o + 1) /\ 2 * o + 1 \in Nat /\ (2 * (o + 1)) * p = (o + 1) * (2 * p)
  OBVIOUS
<1> QED BY Zenon, <1>2, <1>3, <1>11, <1>12 DEF NormZeroIs

\* So do all of them.
LEMMA NormZeroLevelsAre ==
  ASSUME NEW wX \in Nat, NEW wR \in 2..wX, NEW w \in Nat, w = IntLog2(wX),
         NEW f, NormLevels(wX, wR, 0, 0, w, f)
  PROVE  NormZeroIs(w, 0, f[0])
<1> DEFINE G == {k \in Nat : w - k \in 0..w => NormZeroIs(w, w - k, f[w - k])}
<1>1. \A i \in 0..w : f[i] = IF i = w THEN NormFirst(0) ELSE NormLevelOf(wX, wR, 0, w, i, f[i + 1])
  BY Zenon DEF NormLevels
<1>2. 0 \in G
  <2>1. 0 \in Nat /\ w - 0 = w /\ w \in 0..w
    OBVIOUS
  <2>2. f[w] = NormFirst(0)
    BY Zenon, <1>1, <2>1
  <2>3. NormZeroIs(w, w, NormFirst(0))
    BY Pow2Def DEF NormZeroIs, NormFirst
  <2> QED BY Zenon, <2>1, <2>2, <2>3
<1>3. ASSUME NEW k \in Nat, k \in G PROVE k + 1 \in G
  <2>1. SUFFICES ASSUME w - (k + 1) \in 0..w PROVE NormZeroIs(w, w - (k + 1), f[w - (k + 1)])
    <3>1. k + 1 \in Nat
      OBVIOUS
    <3> QED BY Zenon, <3>1
  <2>2. PICK i \in 0..(w - 1) : i = w - (k + 1) /\ i \in 0..w /\ i # w /\ i + 1 = w - k /\ w - k \in 0..w
    BY <2>1
  <2>3. NormZeroIs(w, i + 1, f[i + 1])
    BY Zenon, <1>3, <2>2
  <2>4. f[i] = NormLevelOf(wX, wR, 0, w, i, f[i + 1])
    BY Zenon, <1>1, <2>2
  <2>5. NormZeroIs(w, i, NormLevelOf(wX, wR, 0, w, i, f[i + 1]))
    BY Zenon, <2>3, NormZeroLevel
  <2> QED BY Zenon, <2>2, <2>4, <2>5
<1>4. \A k \in Nat : k \in G
  <2> HIDE DEF G
  <2> QED BY Zenon, <1>2, <1>3, Induction
<1>5. w - w = 0 /\ 0 \in 0..w
  OBVIOUS
<1> QED BY Zenon, <1>4, <1>5

\* The normalizer is its levels.
LEMMA NormalizerLevels ==
  ASSUME NEW wX, NEW wR, NEW b, NEW x
  PROVE  LET f == CHOOSE g : NormLevels(wX, wR, b, x, IntLog2(wX), g)
         IN Normalizer(wX, wR, wX, b, x) = [R |-> f[0].data, Count |-> f[0].Count, Sticky |-> f[0].Sticky]
BY Zenon DEF Normalizer, NormLevels, NormFirst, NormLevelOf, NormSize, KeptOf, DroppedOf

\* The normalizer counts the leading digits, as far as its count goes, and shifts them out.
Normalized(wX, wR, b, x) ==
  LET most == Ones(IntLog2(wX))
      count == LeadingCount(wX, b, x, most)
      shifted == (x * Pow2[count]) % Pow2[wX]
      rest == Pow2[wX - wR]
      out == Normalizer(wX, wR, wX, b, x)
  IN IF x = 0 /\ b = 0
     THEN out.Count = most /\ out.R = 0
     ELSE out = [R |-> shifted \div rest, Count |-> count, Sticky |-> Flag(shifted % rest # 0)]
\* For every width and every range of the result narrower than it.
LEMMA NormalizerIs ==
  ASSUME NEW wX \in Nat, NEW wR \in 2..wX, NEW b \in 0..1, NEW x \in Nat, x < Pow2[wX]
  PROVE  Normalized(wX, wR, b, x)
<1>1. PICK w \in Nat \ {0} : w = IntLog2(wX) /\ wX < Pow2[w]
  <2>1. IntLog2(wX) \in Nat /\ wX < Pow2[IntLog2(wX)] /\ (wX # 0 => IntLog2(wX) # 0)
    BY Zenon, IntLog2Bounds
  <2>2. wX # 0
    OBVIOUS
  <2> QED BY <2>1, <2>2
<1>2. PICK most \in Nat : most = Ones(w) /\ most + 1 = Pow2[w] /\ wX <= most
  <2>1. Pow2[w] \in Nat
    BY Pow2Def
  <2> QED BY <1>1, <2>1 DEF Ones
<1>3. PICK n \in 0..wX : n = Leading(wX, b, x)
  BY Zenon, LeadingType
<1>4. LeadingCount(wX, b, x, most) = n
  <2>1. CountedIs(wX, b, x, most)
    BY Zenon, LeadingCountIs
  <2>2. SmallerOf(n, SmallerOf(wX, most)) = n
    BY <1>2 DEF SmallerOf
  <2> QED BY Zenon, <1>3, <2>1, <2>2 DEF CountedIs
<1>5. n \in Nat /\ w \in Nat /\ wR \in Nat
  OBVIOUS
<1>6. \E f : NormLevels(wX, wR, b, x, w, f)
  BY Zenon, <1>5, NormLevelsExist
<1> DEFINE f == CHOOSE g : NormLevels(wX, wR, b, x, w, g)
<1>7. NormLevels(wX, wR, b, x, w, f)
  BY Zenon, <1>6
<1>8. Normalizer(wX, wR, wX, b, x) = [R |-> f[0].data, Count |-> f[0].Count, Sticky |-> f[0].Sticky]
  BY Zenon, <1>1, NormalizerLevels
<1> HIDE DEF f
<1>9. PICK out : out = Normalizer(wX, wR, wX, b, x)
  OBVIOUS
<1>10. CASE x = 0 /\ b = 0
  <2>1. NormLevels(wX, wR, 0, 0, w, f)
    BY Zenon, <1>7, <1>10
  <2>2. NormZeroIs(w, 0, f[0])
    BY Zenon, <1>1, <1>5, <2>1, NormZeroLevelsAre
  <2>3. PICK o \in Nat : o = f[0].Count /\ f[0].data = 0 /\ (o + 1) * Pow2[0] = Pow2[w]
    BY Zenon, <2>2 DEF NormZeroIs
  <2>4. o = most
    <3>1. (o + 1) * Pow2[0] = o + 1
      BY Pow2Def
    <3> QED BY <1>2, <2>3, <3>1
  <2>5. out = [R |-> 0, Count |-> most, Sticky |-> f[0].Sticky]
    BY Zenon, <1>8, <1>9, <2>3, <2>4
  <2>6. out.Count = most /\ out.R = 0
    BY <2>5
  <2> QED BY Zenon, <1>1, <1>2, <1>9, <1>10, <2>6 DEF Normalized
<1>11. CASE ~(x = 0 /\ b = 0)
  <2>1. NormLevelIs(wX, b, x, n, NormSize(wX, wR, w, w), w, NormFirst(x))
    <3>1. NormFirst(x).data = x /\ NormFirst(x).Count = 0 /\ NormFirst(x).Sticky = 0
      BY DEF NormFirst
    <3>2. Pow2[0] = 1 /\ x * 1 + 0 = x /\ x * 1 = x /\ 0 < 1 /\ 0 \in Nat /\ Flag(0 # 0) = 0 /\ 0 + wX = wX
      BY Pow2Def DEF Flag
    <3>3. 0 * Pow2[w] = 0 /\ 0 + n = n /\ n < Pow2[w]
      <4>1. Pow2[w] \in Nat
        BY Pow2Def
      <4> QED BY <1>1, <4>1
    <3>4. Congruent(x, x, Pow2[wX])
      <4>1. PICK p \in Nat : p = Pow2[wX]
        BY Pow2Def
      <4>2. x = x + p * 0 /\ 0 \in Int
        OBVIOUS
      <4> QED BY Zenon, <4>1, <4>2 DEF Congruent
    <3>5. b = 0 => x # 0
      BY Zenon, <1>11
    <3>6. Normalizing(wX, b, x, n, w, NormFirst(x), 0, 0, x)
      BY Zenon, <1>3, <3>1, <3>2, <3>3, <3>4, <3>5 DEF Normalizing
    <3>7. NormSize(wX, wR, w, w) = wX
      BY Zenon DEF NormSize
    <3> QED BY Zenon, <3>1, <3>2, <3>6, <3>7 DEF NormLevelIs
  <2>2. NormLevelsHold(wX, wR, b, x, n, w, f)
    BY Zenon, <1>1, <1>5, <1>7, <2>1, NormLevelsAre
  <2>3. NormSize(wX, wR, w, 0) = wR
    <3>1. SmallerOf(LargerOf(wR, 1) + 1 - 1, wX) = wR
      BY DEF SmallerOf, LargerOf
    <3>2. 0 # w /\ Pow2[0] = 1
      BY Pow2Def
    <3> QED BY Zenon, <3>1, <3>2 DEF NormSize, LevelSize
  <2>4. PICK data \in Nat, o \in Nat, a \in Nat, c \in Nat, v \in Nat :
          /\ data = f[0].data /\ o = f[0].Count /\ a + wR = wX /\ Normalizing(wX, b, x, n, 0, f[0], a, c, v)
    BY Zenon, <2>2, <2>3 DEF NormLevelsHold, NormLevelIs
  <2>5. PICK p \in Nat \ {0}, g \in Nat \ {0}, h \in Nat \ {0} : p = Pow2[wX] /\ g = Pow2[a] /\ h = Pow2[n]
    BY <1>5, Pow2Def
  <2>6. Pow2[0] = 1 /\ o * 1 = o
    BY Pow2Def
  <2>7. /\ v = data * g + c /\ c < g /\ v < p /\ f[0].Sticky = Flag(c # 0)
        /\ Congruent(x * Pow2[o], v, p)
        /\ o + Leading(wX, b, v) = n /\ Leading(wX, b, v) < 1
    BY Zenon, <2>4, <2>5, <2>6 DEF Normalizing
  <2>8. o = n
    <3>1. Leading(wX, b, v) \in 0..wX
      BY Zenon, <2>5, <2>7, LeadingType
    <3> QED BY <2>7, <3>1
  <2>9. (x * h) % p = v
    <3>1. v \in 0..(p - 1) /\ v \in Int
      BY <2>7
    <3>2. x * h \in Int /\ v \in Int /\ p \in Nat \ {0}
      OBVIOUS
    <3>3. Congruent(x * h, v, p)
      BY Zenon, <2>5, <2>7, <2>8
    <3>4. (x * h) % p = v % p
      BY Zenon, <3>2, <3>3, CongruentRemainder
    <3>5. v % p = v
      BY ZenonT(40), <3>1, SmallRemainder
    <3> QED BY Zenon, <3>4, <3>5
  <2>10. v \div g = data /\ v % g = c
    <3>1. c \in 0..(g - 1) /\ data \in Int /\ data * g + c = g * data + c
      BY <2>7
    <3>2. (g * data + c) \div g = data /\ (g * data + c) % g = c
      BY ZenonT(40), <3>1, DivisionUnique
    <3> QED BY Zenon, <2>7, <3>1, <3>2
  <2>11. wX - wR = a
    BY <2>4
  <2>12. out = [R |-> v \div g, Count |-> n, Sticky |-> Flag(v % g # 0)]
    BY Zenon, <1>8, <1>9, <2>4, <2>7, <2>8, <2>10
  <2> QED BY Zenon, <1>1, <1>2, <1>4, <1>9, <1>11, <2>5, <2>9, <2>11, <2>12 DEF Normalized
<1> QED BY <1>10, <1>11

-----------------------------------------------------------------------------
(***************************************************************************)
(* LZOC3: the blocks, and the carry that stops at the first that is not    *)
(* full.                                                                   *)
(***************************************************************************)
\* The or of one vector is that vector, and of none is zero.
OrIs(w, v) == OrOf(w, {v}) = v /\ OrOf(w, {}) = 0
\* The bits of the or are those of the only vector.
LEMMA OrOfOne ==
  ASSUME NEW w \in Nat, NEW v \in Nat, v < Pow2[w]
  PROVE  OrIs(w, v)
<1> DEFINE ones == [i \in 0..(w - 1) |-> Flag(\E u \in {v} : BitOf(u, i) = 1)]
<1> DEFINE none == [i \in 0..(w - 1) |-> Flag(\E u \in {} : BitOf(u, i) = 1)]
<1>1. ASSUME NEW i \in 0..(w - 1) PROVE ones[i] = BitOf(v, i) /\ none[i] = 0
  <2>1. i \in Nat
    OBVIOUS
  <2>2. PICK p \in Nat \ {0} : p = Pow2[i]
    BY <2>1, Pow2Def
  <2>3. PICK k \in Nat : k = v \div p
    OBVIOUS
  <2>4. k % 2 \in {0, 1}
    OBVIOUS
  <2>5. BitOf(v, i) \in {0, 1}
    BY Zenon, <2>2, <2>3, <2>4 DEF BitOf
  <2>6. ones[i] = Flag(BitOf(v, i) = 1)
    BY Zenon
  <2>7. Flag(BitOf(v, i) = 1) = BitOf(v, i)
    BY <2>5 DEF Flag
  <2>8. none[i] = 0
    BY Zenon DEF Flag
  <2> QED BY Zenon, <2>6, <2>7, <2>8
<1>2. OrOf(w, {v}) = Weighted(ones, w) /\ OrOf(w, {}) = Weighted(none, w)
  BY Zenon DEF OrOf
<1> HIDE DEF ones, none
<1>3. Weighted(none, w) = 0
  BY Zenon, <1>1, WeightedZero
<1>4. LowBits(ones, v, w)
  BY Zenon, <1>1 DEF LowBits, BitOf
<1>5. v \in Int /\ 0 <= v
  OBVIOUS
<1>6. Weighted(ones, w) = v
  BY Zenon, <1>4, <1>5, UnsignedDigits
<1> QED BY Zenon, <1>2, <1>3, <1>6 DEF OrIs

\* The first digit is counted when any is.
CountedFirst(w, b, x) == BitOf(x, w - 1) = b <=> Leading(w, b, x) # 0
\* The leading digits begin at the leftmost bit.
LEMMA LeadingTop ==
  ASSUME NEW w \in Nat \ {0}, NEW b \in 0..1, NEW x \in Nat, x < Pow2[w]
  PROVE  CountedFirst(w, b, x)
<1>1. PICK m \in Nat : m + 1 = w /\ w - 1 = m /\ m \in 0..(w - 1)
  <2>1. w - 1 \in Nat /\ (w - 1) + 1 = w /\ w - 1 \in 0..(w - 1)
    OBVIOUS
  <2> QED BY Zenon, <2>1
<1>2. w \in Nat
  OBVIOUS
<1>3. PICK y \in Nat : y = XorAll(w, x, b) /\ y < Pow2[m + 1] /\ (BitOf(x, m) = b <=> BitOf(y, m) = 0)
  <2>1. Differing(w, b, x)
    BY Zenon, <1>2, DifferingIs
  <2> QED BY Zenon, <1>1, <2>1 DEF Differing
<1>4. Leading(w, b, x) = w - IntLog2(y)
  BY Zenon, <1>3 DEF Leading
<1>5. Pow2[m] \in Nat
  BY Pow2Def
<1>6. CASE y < Pow2[m]
  <2>1. BitOf(y, m) = 0
    BY Zenon, <1>6, BitsAbove
  <2>2. IntLog2(y) \in 0..m
    BY Zenon, <1>6, IntLog2AtMost
  <2>3. w - IntLog2(y) # 0
    BY <1>1, <2>2
  <2> QED BY Zenon, <1>1, <1>3, <1>4, <2>1, <2>3 DEF CountedFirst
<1>7. CASE ~(y < Pow2[m])
  <2>1. Pow2[m] <= y
    BY <1>5, <1>7
  <2>2. BitOf(y, m) = 1
    BY Zenon, <1>3, <2>1, TopBitIsOne
  <2>3. IntLog2(y) = m + 1
    BY Zenon, <1>3, <2>1, IntLog2Between
  <2>4. w - (m + 1) = 0 /\ 1 # 0
    BY <1>1
  <2> QED BY Zenon, <1>1, <1>3, <1>4, <2>2, <2>3, <2>4 DEF CountedFirst
<1> QED BY <1>6, <1>7

\* The count in the block behind h counted digits.
BlockCount(h, size, l, b, v) ==
  LET block == Bits(v, (l + size) - 1, l)
      n == Leading(h + (size + l), b, v)
  IN /\ block \in Nat /\ block < Pow2[size]
     /\ h <= n => Leading(size, b, block) = SmallerOf(size, n - h)
\* The leading digits of a block, from those of the whole vector.
LEMMA BlockCounts ==
  ASSUME NEW h \in Nat, NEW size \in Nat, NEW l \in Nat, NEW b \in 0..1, NEW v \in Nat,
         v < Pow2[h + (size + l)]
  PROVE  BlockCount(h, size, l, b, v)
<1>1. h + size \in Nat /\ (h + size) + l = h + (size + l)
  OBVIOUS
<1>2. v < Pow2[(h + size) + l]
  BY Zenon, <1>1
<1>3. LeadingParts(h + size, l, b, v)
  BY Zenon, <1>1, <1>2, LeadingPartsAre
<1>4. Parts(h + size, l, b, v)
  BY Zenon, <1>1, <1>2, PartsAre
<1>5. PICK u \in Nat : u = v \div Pow2[l] /\ u < Pow2[h + size]
  BY Zenon, <1>4 DEF Parts
<1>6. LeadingParts(h, size, b, u)
  BY Zenon, <1>5, LeadingPartsAre
<1>7. Parts(h, size, b, u)
  BY Zenon, <1>5, PartsAre
<1>8. PICK block \in Nat : block = u % Pow2[size] /\ block < Pow2[size]
  BY Zenon, <1>7 DEF Parts
<1>9. Bits(v, (l + size) - 1, l) = block
  <2>1. v \in Int
    OBVIOUS
  <2>2. Bits(v, (l + size) - 1, l) = (v \div Pow2[l]) % Pow2[size]
    BY ZenonT(40), <2>1, BitsDef
  <2> QED BY Zenon, <1>5, <1>8, <2>2
<1>10. PICK n \in Nat : n = Leading(h + (size + l), b, v)
  <2>1. Leading(h + (size + l), b, v) \in 0..(h + (size + l))
    <3>1. h + (size + l) \in Nat
      OBVIOUS
    <3> QED BY Zenon, <3>1, LeadingType
  <2> QED BY <2>1
<1>11. PICK j \in Nat : j = Leading(size, b, block)
  <2>1. Leading(size, b, block) \in 0..size
    BY Zenon, <1>8, LeadingType
  <2> QED BY <2>1
<1>12. PICK i \in Nat : i = Leading(h + size, b, u) /\ i = SmallerOf(h + size, n)
  <2>1. SmallerOf(h + size, n) \in Nat
    BY DEF SmallerOf
  <2>2. Leading(h + size, b, u) = SmallerOf(h + size, n)
    BY Zenon, <1>1, <1>3, <1>5, <1>10 DEF LeadingParts
  <2> QED BY Zenon, <2>1, <2>2
<1>13. h <= i => i = h + j
  BY Zenon, <1>6, <1>8, <1>11, <1>12 DEF LeadingParts
<1>14. h <= n => j = SmallerOf(size, n - h)
  BY <1>12, <1>13 DEF SmallerOf
<1> QED BY Zenon, <1>8, <1>9, <1>10, <1>11, <1>14 DEF BlockCount

\* The sum of the first m blocks, a carry from the left included: it runs through the full
\* blocks, a of them, and leaves a digit 2 at the first other.
CarryIs(a, m, s) ==
  /\ s \in Nat
  /\ m <= a => s = Pow2[2 * m]
  /\ a < m => s < Pow2[2 * m]
  /\ \A k \in 0..(m - 1) : (s \div Pow2[2 * k]) % 4 = 2 <=> k = a
\* One block more: the carry goes on, stops in it, or stopped before.
LEMMA CarryStep ==
  ASSUME NEW a \in Nat, NEW m \in Nat, NEW s, CarryIs(a, m, s), NEW q \in 0..1,
         m < a => q = 1, m = a => q = 0
  PROVE  CarryIs(a, m + 1, s + (2 * q + 1) * Pow2[2 * m])
<1>1. PICK p \in Nat \ {0} : p = Pow2[2 * m] /\ Pow2[2 * (m + 1)] = 4 * p
  <2>1. 2 * m \in Nat /\ 2 * (m + 1) = 2 * m + 2
    OBVIOUS
  <2>2. Pow2[2] = 4
    <3>1. Pow2[0] = 1 /\ Pow2[0 + 1] = 2 * Pow2[0] /\ Pow2[1 + 1] = 2 * Pow2[1]
      BY Pow2Def
    <3> QED BY <3>1
  <2>3. Pow2[2 * m + 2] = Pow2[2 * m] * 4
    <3>1. 2 \in Nat
      OBVIOUS
    <3> QED BY Zenon, <2>1, <2>2, <3>1, Pow2Sum
  <2>4. Pow2[2 * m] \in Nat \ {0}
    BY <2>1, Pow2Def
  <2> QED BY <2>1, <2>3, <2>4
<1>2. s \in Nat /\ (m <= a => s = p) /\ (a < m => s < p)
  BY Zenon, <1>1 DEF CarryIs
<1>3. \A k \in 0..(m - 1) : (s \div Pow2[2 * k]) % 4 = 2 <=> k = a
  BY Zenon DEF CarryIs
<1>4. PICK z \in Nat : z = s + (2 * q + 1) * p
  <2>1. s + (2 * q + 1) * p \in Nat
    BY <1>2
  <2> QED BY Zenon, <2>1
<1>5. /\ m < a => z = 4 * p
      /\ m = a => z = 2 * p
      /\ a < m => (q = 0 /\ z = p + s) \/ (q = 1 /\ z = 3 * p + s)
  <2>1. CASE q = 0
    <3>1. z = s + p
      BY <1>4, <2>1
    <3> QED BY <1>2, <2>1, <3>1
  <2>2. CASE q = 1
    <3>1. z = s + 3 * p
      BY <1>4, <2>2
    <3> QED BY <1>2, <2>2, <3>1
  <2> QED BY <2>1, <2>2
<1>6. m + 1 <= a => z = 4 * p
  BY <1>5
<1>7. a < m + 1 => z < 4 * p
  BY <1>2, <1>5
<1>8. (z \div p) % 4 = 2 <=> m = a
  <2>1. CASE m < a
    <3>1. 0 \in 0..(p - 1) /\ 4 \in Int /\ p * 4 + 0 = 4 * p /\ 4 % 4 # 2 /\ m # a
      BY <2>1
    <3>2. (p * 4 + 0) \div p = 4
      BY ZenonT(40), <3>1, DivisionUnique
    <3>3. z \div p = 4
      BY Zenon, <1>5, <2>1, <3>1, <3>2
    <3> QED BY Zenon, <3>1, <3>3
  <2>2. CASE m = a
    <3>1. 0 \in 0..(p - 1) /\ 2 \in Int /\ p * 2 + 0 = 2 * p /\ 2 % 4 = 2
      OBVIOUS
    <3>2. (p * 2 + 0) \div p = 2
      BY ZenonT(40), <3>1, DivisionUnique
    <3>3. z \div p = 2
      BY Zenon, <1>5, <2>2, <3>1, <3>2
    <3> QED BY Zenon, <2>2, <3>1, <3>3
  <2>3. CASE a < m
    <3>1. s \in 0..(p - 1) /\ m # a /\ 1 \in Int /\ 3 \in Int /\ p * 1 + s = p + s /\ p * 3 + s = 3 * p + s
      BY <1>2, <2>3
    <3>2. (p * 1 + s) \div p = 1
      BY ZenonT(40), <3>1, DivisionUnique
    <3>3. (p * 3 + s) \div p = 3
      BY ZenonT(40), <3>1, DivisionUnique
    <3>4. 1 % 4 # 2 /\ 3 % 4 # 2
      OBVIOUS
    <3>5. z = p * 1 + s \/ z = p * 3 + s
      BY Zenon, <1>5, <2>3, <3>1
    <3> QED BY Zenon, <3>1, <3>2, <3>3, <3>4, <3>5
  <2> QED BY <2>1, <2>2, <2>3
<1>9. ASSUME NEW k \in 0..(m - 1) PROVE (z \div Pow2[2 * k]) % 4 = (s \div Pow2[2 * k]) % 4
  <2>1. 2 * k \in Nat /\ 2 * (k + 1) \in Nat /\ 2 * ((m - k) - 1) \in Nat
        /\ 2 * k + 2 = 2 * (k + 1) /\ 2 * (k + 1) + 2 * ((m - k) - 1) = 2 * m /\ 2 \in Nat
    OBVIOUS
  <2>2. PICK g \in Nat \ {0}, e \in Nat \ {0} : g = Pow2[2 * k] /\ e = Pow2[2 * ((m - k) - 1)]
    BY <2>1, Pow2Def
  <2>3. Pow2[2] = 4
    <3>1. Pow2[0] = 1 /\ Pow2[0 + 1] = 2 * Pow2[0] /\ Pow2[1 + 1] = 2 * Pow2[1]
      BY Pow2Def
    <3> QED BY <3>1
  <2>4. Pow2[2 * k + 2] = g * 4
    <3>1. Pow2[2 * k + 2] = Pow2[2 * k] * Pow2[2]
      BY Zenon, <2>1, Pow2Sum
    <3> QED BY Zenon, <2>2, <2>3, <3>1
  <2>5. Pow2[2 * (k + 1) + 2 * ((m - k) - 1)] = Pow2[2 * (k + 1)] * e
    BY Zenon, <2>1, <2>2, Pow2Sum
  <2>6. p = (g * 4) * e
    BY Zenon, <1>1, <2>1, <2>4, <2>5
  <2>7. PICK t \in Nat, y \in 0..(g - 1) : s = g * t + y /\ t = s \div g
    <3>1. s \in Nat
      BY <1>2
    <3> QED BY ZenonT(40), <3>1, NaturalDivision
  <2>8. PICK i \in Nat : i = e * (2 * q + 1)
    OBVIOUS
  <2>9. (g * t + y) + (2 * q + 1) * ((g * 4) * e) = g * (t + 4 * (e * (2 * q + 1))) + y
    OBVIOUS
  <2>10. z = g * (t + 4 * i) + y
    BY Zenon, <1>4, <2>6, <2>7, <2>8, <2>9
  <2>11. t + 4 * i \in Int /\ (t + 4 * i) % 4 = t % 4
    OBVIOUS
  <2>12. (g * (t + 4 * i) + y) \div g = t + 4 * i
    BY ZenonT(40), <2>11, DivisionUnique
  <2> QED BY Zenon, <2>2, <2>7, <2>10, <2>11, <2>12
<1>10. ASSUME NEW k \in 0..((m + 1) - 1) PROVE (z \div Pow2[2 * k]) % 4 = 2 <=> k = a
  <2>1. k = m \/ k \in 0..(m - 1)
    OBVIOUS
  <2>2. CASE k = m
    BY Zenon, <1>1, <1>8, <2>2
  <2>3. CASE k \in 0..(m - 1)
    BY Zenon, <1>3, <1>9, <2>3
  <2> QED BY <2>1, <2>2, <2>3
<1>11. z = s + (2 * q + 1) * Pow2[2 * m]
  BY Zenon, <1>1, <1>4
<1> QED BY Zenon, <1>1, <1>6, <1>7, <1>10, <1>11 DEF CarryIs

\* The terms of that sum.
CarryTerms(a, nb, q, t) ==
  \A k \in 0..(nb - 1) : /\ q[k] \in 0..1 /\ t[k] = (2 * q[k] + 1) * Pow2[2 * k]
                         /\ k < a => q[k] = 1
                         /\ k = a => q[k] = 0
\* By adding the blocks one at a time.
LEMMA CarryOver ==
  ASSUME NEW a \in Nat, NEW nb \in Nat, NEW q, NEW t, CarryTerms(a, nb, q, t)
  PROVE  CarryIs(a, nb, 1 + SumBelow(t, nb))
<1> DEFINE G == {m \in Nat : m <= nb => CarryIs(a, m, 1 + SumBelow(t, m))}
<1>1. 0 \in G
  <2>1. SumBelow(t, 0) = 0
    BY Zenon, SumDef
  <2>2. CarryIs(a, 0, 1)
    BY Pow2Def DEF CarryIs
  <2>3. 1 + 0 = 1 /\ 0 \in Nat
    OBVIOUS
  <2> QED BY Zenon, <2>1, <2>2, <2>3
<1>2. ASSUME NEW m \in Nat, m \in G PROVE m + 1 \in G
  <2>1. SUFFICES ASSUME m + 1 <= nb PROVE CarryIs(a, m + 1, 1 + SumBelow(t, m + 1))
    <3>1. m + 1 \in Nat
      OBVIOUS
    <3> QED BY Zenon, <3>1
  <2>2. m <= nb /\ m \in 0..(nb - 1)
    BY <2>1
  <2>3. CarryIs(a, m, 1 + SumBelow(t, m))
    BY Zenon, <1>2, <2>2
  <2>4. PICK e \in 0..1 : e = q[m] /\ t[m] = (2 * e + 1) * Pow2[2 * m] /\ (m < a => e = 1) /\ (m = a => e = 0)
    BY Zenon, <2>2 DEF CarryTerms
  <2>5. CarryIs(a, m + 1, (1 + SumBelow(t, m)) + (2 * e + 1) * Pow2[2 * m])
    BY Zenon, <2>3, <2>4, CarryStep
  <2>6. SumBelow(t, m + 1) = SumBelow(t, m) + t[m]
    BY Zenon, SumDef
  <2>7. PICK u \in Int, y \in Int : u = SumBelow(t, m) /\ y = t[m]
    <3>1. Pow2[2 * m] \in Nat
      BY Pow2Def
    <3>2. t[m] \in Int
      BY <2>4, <3>1
    <3>3. SumBelow(t, m) \in Int
      <4>1. 1 + SumBelow(t, m) \in Nat
        BY Zenon, <2>3 DEF CarryIs
      <4>2. \A k \in 0..(m - 1) : t[k] \in Int
        <5> SUFFICES ASSUME NEW k \in 0..(m - 1) PROVE t[k] \in Int
          OBVIOUS
        <5>1. k \in 0..(nb - 1) /\ 2 * k \in Nat
          BY <2>2
        <5>2. t[k] = (2 * q[k] + 1) * Pow2[2 * k] /\ q[k] \in 0..1
          BY Zenon, <5>1 DEF CarryTerms
        <5>3. Pow2[2 * k] \in Nat
          BY <5>1, Pow2Def
        <5> QED BY <5>2, <5>3
      <4> QED BY Zenon, <4>2, SumType
    <3> QED BY Zenon, <3>2, <3>3
  <2>8. (1 + u) + y = 1 + (u + y)
    OBVIOUS
  <2> QED BY Zenon, <2>4, <2>5, <2>6, <2>7, <2>8
<1>3. \A m \in Nat : m \in G
  <2> HIDE DEF G
  <2> QED BY Zenon, <1>1, <1>2, Induction
<1>4. nb <= nb
  OBVIOUS
<1> QED BY Zenon, <1>3, <1>4

\* A block is full, and the blocks of an input whose n leading digits are a full blocks
\* and r digits of the next.
FullBlock(size, b, v) == BitOf(v, size - 1) = b /\ RunLength(size, v) = size
BlockIs(a, r, size, b, k, v) ==
  /\ k < a => FullBlock(size, b, v)
  /\ k = a => ~FullBlock(size, b, v)
  /\ k = a => (BitOf(v, size - 1) = b <=> r # 0)
  /\ k = a /\ BitOf(v, size - 1) = b => RunLength(size, v) = r
\* From the count in each block.
LEMMA BlocksAre ==
  ASSUME NEW size \in Nat \ {0}, NEW nb \in Nat, NEW k \in 0..(nb - 1), NEW b \in 0..1, NEW v \in Nat,
         v < Pow2[nb * size], NEW a \in Nat, NEW r \in 0..(size - 1), NEW n \in Nat, n = size * a + r,
         n = Leading(nb * size, b, v)
  PROVE  BlockIs(a, r, size, b, k, Bits(v, (nb - k) * size - 1, (nb - k - 1) * size))
<1>1. PICK h \in Nat, l \in Nat : /\ h = k * size /\ l = (nb - k - 1) * size
                                  /\ (nb - k) * size = l + size /\ nb * size = h + (size + l)
  <2>1. nb - k - 1 \in Nat
    OBVIOUS
  <2>2. k * size \in Nat /\ (nb - k - 1) * size \in Nat
    BY <2>1
  <2>3. (nb - k) * size = (nb - k - 1) * size + size
    OBVIOUS
  <2>4. nb * size = k * size + (size + (nb - k - 1) * size)
    OBVIOUS
  <2> QED BY Zenon, <2>2, <2>3, <2>4
<1>2. size \in Nat
  OBVIOUS
<1>3. v < Pow2[h + (size + l)]
  BY Zenon, <1>1
<1>4. BlockCount(h, size, l, b, v)
  BY Zenon, <1>2, <1>3, BlockCounts
<1>5. PICK u \in Nat : /\ u = Bits(v, (nb - k) * size - 1, (nb - k - 1) * size) /\ u < Pow2[size]
                       /\ h <= n => Leading(size, b, u) = SmallerOf(size, n - h)
  BY Zenon, <1>1, <1>4 DEF BlockCount
<1>6. CountedFirst(size, b, u)
  BY Zenon, <1>5, LeadingTop
<1>7. PICK j \in 0..size : j = Leading(size, b, u)
  BY Zenon, <1>2, <1>5, LeadingType
<1>8. BitOf(u, size - 1) = b <=> j # 0
  BY Zenon, <1>6, <1>7 DEF CountedFirst
<1>9. BitOf(u, size - 1) = b => RunLength(size, u) = j
  BY Zenon, <1>7 DEF RunLength, Leading
<1>10. k < a => j = size
  <2>1. SUFFICES ASSUME k < a PROVE j = size
    OBVIOUS
  <2>2. PICK i \in Nat : i = size * a
    OBVIOUS
  <2>3. size * (k + 1) <= size * a /\ size * (k + 1) = k * size + size
    BY <2>1
  <2>4. h + size <= i /\ n = i + r
    BY Zenon, <1>1, <2>2, <2>3
  <2>5. h <= n /\ SmallerOf(size, n - h) = size
    BY <2>4 DEF SmallerOf
  <2> QED BY Zenon, <1>5, <1>7, <2>5
<1>11. k = a => j = r
  <2>1. SUFFICES ASSUME k = a PROVE j = r
    OBVIOUS
  <2>2. size * a = k * size
    BY <2>1
  <2>3. n = h + r
    BY Zenon, <1>1, <2>2
  <2>4. h <= n /\ SmallerOf(size, n - h) = r
    BY <2>3 DEF SmallerOf
  <2> QED BY Zenon, <1>5, <1>7, <2>4
<1>12. r # size /\ size # 0
  OBVIOUS
<1>13. k < a => FullBlock(size, b, u)
  BY Zenon, <1>8, <1>9, <1>10, <1>12 DEF FullBlock
<1>14. k = a => ~FullBlock(size, b, u)
  BY Zenon, <1>9, <1>11, <1>12 DEF FullBlock
<1>15. BlockIs(a, r, size, b, k, u)
  BY Zenon, <1>8, <1>9, <1>11, <1>13, <1>14 DEF BlockIs
<1> QED BY Zenon, <1>5, <1>15

\* How many blocks there are, and of what size.
BlockSizesAre(wIn, lut, low, size, nb) ==
  /\ size = BlockSize(lut) /\ size = Pow2[low] /\ IntLog2(size - 1) = low
  /\ nb = Blocks(wIn, lut) /\ wIn <= nb * size
  /\ low <= IntLog2(wIn)
\* For every lookup table smaller than the input.
LEMMA BlockSizesExist ==
  ASSUME NEW wIn \in Nat, NEW lut \in Nat, 4 <= lut, lut < wIn
  PROVE  \E low \in Nat, size \in Nat \ {0}, nb \in Nat : BlockSizesAre(wIn, lut, low, size, nb)
<1>1. Pow2[0] = 1 /\ Pow2[1] = 2 /\ Pow2[2] = 4
  <2>1. Pow2[0] = 1 /\ Pow2[0 + 1] = 2 * Pow2[0] /\ Pow2[1 + 1] = 2 * Pow2[1]
    BY Pow2Def
  <2> QED BY <2>1
<1>2. PICK e \in Nat : e = IntLog2(lut) /\ lut < Pow2[e] /\ (lut # 0 => Pow2[e - 1] <= lut)
  BY Zenon, IntLog2Bounds
<1>3. e # 0 /\ e # 1 /\ e # 2 /\ lut # 0
  BY <1>1, <1>2
<1>4. PICK m \in Nat : e - 1 = m + 1
  <2>1. e - 2 \in Nat /\ e - 1 = (e - 2) + 1
    BY <1>3
  <2> QED BY Zenon, <2>1
<1>5. PICK low \in Nat : low = m + 1
  OBVIOUS
<1>6. PICK p \in Nat \ {0} : p = Pow2[m] /\ Pow2[m + 1] = 2 * p
  BY Pow2Def
<1>7. PICK size \in Nat \ {0} : size = 2 * p
  OBVIOUS
<1>8. size = BlockSize(lut) /\ size = Pow2[low] /\ size <= lut
  BY Zenon, <1>2, <1>3, <1>4, <1>5, <1>6, <1>7 DEF BlockSize
<1>9. IntLog2(size - 1) = low
  <2>1. size - 1 \in Nat /\ p <= size - 1 /\ size - 1 < 2 * p
    BY <1>7
  <2>2. IntLog2(size - 1) = m + 1
    BY Zenon, <1>6, <2>1, IntLog2Between
  <2> QED BY Zenon, <1>5, <2>2
<1>10. PICK nb \in Nat, r \in 0..(size - 1) : (wIn + size) - 1 = size * nb + r /\ nb = ((wIn + size) - 1) \div size
  <2>1. (wIn + size) - 1 \in Nat
    OBVIOUS
  <2> QED BY ZenonT(40), <2>1, NaturalDivision
<1>11. nb = Blocks(wIn, lut)
  <2>1. wIn + size - 1 = (wIn + size) - 1
    OBVIOUS
  <2> QED BY Zenon, <1>8, <1>10, <2>1 DEF Blocks
<1>12. wIn <= nb * size
  <2>1. PICK i \in Nat : i = size * nb /\ i = nb * size
    OBVIOUS
  <2>2. (wIn + size) - 1 = i + r
    BY Zenon, <1>10, <2>1
  <2>3. wIn <= i
    BY <2>2
  <2> QED BY Zenon, <2>1, <2>3
<1>13. low <= IntLog2(wIn)
  <2>1. PICK w \in Nat : w = IntLog2(wIn) /\ wIn < Pow2[w]
    BY Zenon, IntLog2Bounds
  <2>2. SUFFICES ASSUME w < low PROVE FALSE
    BY <2>1
  <2>3. w <= low
    BY <2>2
  <2>4. Pow2[w] <= size
    BY Zenon, <1>8, <2>3, Pow2Monotone
  <2>5. Pow2[w] \in Nat
    BY Pow2Def
  <2> QED BY <1>8, <2>1, <2>4, <2>5
<1> QED BY Zenon, <1>8, <1>9, <1>11, <1>12, <1>13 DEF BlockSizesAre

\* The parts of an LZOC3.
PaddedBlocks(wIn, size, nb, b, x) ==
  [k \in 0..(nb - 1) |->
     Bits(Cat(x, nb * size - wIn, Fill(nb * size - wIn, 1 - b)), (nb - k) * size - 1, (nb - k - 1) * size)]
FullFlags(size, b, f) == [k \in DOMAIN f |-> (2 * Flag(FullBlock(size, b, f[k])) + 1) * Pow2[2 * k]]
ActiveBlocks(f, nb, s) ==
  {k \in DOMAIN f : Bits(s, 2 * k + 1, 2 * k) = 2} \cup {k \in {nb} : BitOf(s, 2 * nb) = 1}
ActiveRuns(size, nb, b, f, active) ==
  {RunLength(size, f[k]) % size : k \in {k \in active \ {nb} : BitOf(f[k], size - 1) = b}}
\* An LZOC3 in terms of its blocks, by its definition.
LEMMA LZOC3Parts ==
  ASSUME NEW wIn, NEW lut, NEW b, NEW x, ~(wIn <= lut)
  PROVE  LET size == BlockSize(lut)
             nb == Blocks(wIn, lut)
             low == IntLog2(size - 1)
             f == PaddedBlocks(wIn, size, nb, b, x)
             active == ActiveBlocks(f, nb, 1 + SumBelow(FullFlags(size, b, f), nb))
         IN LZOC3(wIn, lut, b, x) = Cat(OrOf(IntLog2(wIn) - low, active), low,
                                        OrOf(low, ActiveRuns(size, nb, b, f, active)))
BY Zenon DEF LZOC3, PaddedBlocks, FullFlags, FullBlock, ActiveBlocks, ActiveRuns

\* The active block is the first that is not full.
LEMMA ActiveIs ==
  ASSUME NEW nb \in Nat, NEW a \in 0..nb, NEW s, CarryIs(a, nb, s), NEW f, DOMAIN f = 0..(nb - 1)
  PROVE  ActiveBlocks(f, nb, s) = {a}
<1>1. s \in Nat /\ (nb <= a => s = Pow2[2 * nb]) /\ (a < nb => s < Pow2[2 * nb])
  BY Zenon DEF CarryIs
<1>2. ASSUME NEW k \in 0..(nb - 1) PROVE Bits(s, 2 * k + 1, 2 * k) = 2 <=> k = a
  <2>1. (s \div Pow2[2 * k]) % 4 = 2 <=> k = a
    BY Zenon DEF CarryIs
  <2>2. s \in Int /\ 2 * k \in Nat /\ 2 \in Nat /\ (2 * k + 2) - 1 = 2 * k + 1
    BY <1>1
  <2>3. Pow2[2] = 4
    <3>1. Pow2[0] = 1 /\ Pow2[0 + 1] = 2 * Pow2[0] /\ Pow2[1 + 1] = 2 * Pow2[1]
      BY Pow2Def
    <3> QED BY <3>1
  <2>4. Bits(s, (2 * k + 2) - 1, 2 * k) = (s \div Pow2[2 * k]) % Pow2[2]
    BY ZenonT(40), <2>2, BitsDef
  <2> QED BY Zenon, <2>1, <2>2, <2>3, <2>4
<1>3. BitOf(s, 2 * nb) = 1 <=> nb = a
  <2>2. 2 * nb \in Nat
    OBVIOUS
  <2>1. PICK p \in Nat \ {0} : p = Pow2[2 * nb]
    BY <2>2, Pow2Def
  <2>3. CASE a < nb
    <3>1. BitOf(s, 2 * nb) = 0
      BY Zenon, <1>1, <2>2, <2>3, BitsAbove
    <3>2. 0 # 1 /\ nb # a
      BY <2>3
    <3> QED BY Zenon, <3>1, <3>2
  <2>4. CASE ~(a < nb)
    <3>1. nb = a /\ nb <= a
      BY <2>4
    <3>2. p * 1 + 0 = p /\ 1 \in Int /\ 0 \in 0..(p - 1) /\ 1 % 2 = 1
      OBVIOUS
    <3>3. (p * 1 + 0) \div p = 1
      BY ZenonT(40), <3>2, DivisionUnique
    <3>4. s = p
      BY Zenon, <1>1, <2>1, <3>1
    <3> QED BY Zenon, <2>1, <3>1, <3>2, <3>3, <3>4 DEF BitOf
  <2> QED BY <2>3, <2>4
<1>4. a = nb \/ a \in 0..(nb - 1)
  OBVIOUS
<1> QED BY Zenon, <1>2, <1>3, <1>4 DEF ActiveBlocks

\* An LZOC3 counts the leading digits.
LZOC3Is(wIn, lut, b, x) == LZOC3(wIn, lut, b, x) = LeadingCount(wIn, b, x, wIn)
\* Either the input is looked up, or one block is active, and its count is what the
\* full blocks before it leave over.
LEMMA LZOC3Counts ==
  ASSUME NEW wIn \in Nat \ {0}, NEW lut \in Nat, 4 <= lut, NEW b \in 0..1, NEW x \in Nat, x < Pow2[wIn]
  PROVE  LZOC3Is(wIn, lut, b, x)
<1>0. wIn \in Nat
  OBVIOUS
<1>1. PICK n \in 0..wIn : n = Leading(wIn, b, x)
  BY Zenon, <1>0, LeadingType
<1>2. LeadingCount(wIn, b, x, wIn) = n
  <2>1. CountedIs(wIn, b, x, wIn)
    BY Zenon, <1>0, LeadingCountIs
  <2>2. SmallerOf(n, SmallerOf(wIn, wIn)) = n
    BY DEF SmallerOf
  <2> QED BY Zenon, <1>1, <2>1, <2>2 DEF CountedIs
<1>3. CASE wIn <= lut
  BY Zenon, <1>1, <1>2, <1>3 DEF LZOC3, Leading, LZOC3Is
<1>4. CASE ~(wIn <= lut)
  <2>1. PICK low \in Nat, size \in Nat \ {0}, nb \in Nat : BlockSizesAre(wIn, lut, low, size, nb)
    <3>1. lut < wIn
      BY <1>4
    <3> QED BY Zenon, <1>0, <3>1, BlockSizesExist
  <2>2. /\ size = BlockSize(lut) /\ size = Pow2[low] /\ IntLog2(size - 1) = low
        /\ nb = Blocks(wIn, lut) /\ wIn <= nb * size /\ low <= IntLog2(wIn)
    BY Zenon, <2>1 DEF BlockSizesAre
  <2>3. PICK m \in Nat : m = nb * size - wIn /\ wIn + m = nb * size
    <3>1. PICK i \in Nat : i = nb * size
      OBVIOUS
    <3>2. i - wIn \in Nat /\ wIn + (i - wIn) = i
      BY <2>2, <3>1
    <3> QED BY Zenon, <3>1, <3>2
  <2>4. PICK v \in Nat : v = Cat(x, m, Fill(m, 1 - b)) /\ v < Pow2[nb * size] /\ n = Leading(nb * size, b, v)
    <3>1. PaddedIs(wIn, m, b, x)
      BY Zenon, <1>0, PaddedLeading
    <3> QED BY Zenon, <1>1, <2>3, <3>1 DEF PaddedIs
  <2>5. PICK a \in Nat, r \in 0..(size - 1) : n = size * a + r
    <3>1. n \in Nat
      OBVIOUS
    <3>2. \E q \in Nat, r \in 0..(size - 1) : n = size * q + r /\ q = n \div size /\ r = n % size
      BY ZenonT(40), <3>1, NaturalDivision
    <3> QED BY Zenon, <3>2
  <2>6. a \in 0..nb /\ (a = nb => r = 0)
    <3>1. PICK i \in Nat, j \in Nat : i = size * a /\ j = nb * size
      OBVIOUS
    <3>2. n = i + r /\ wIn <= j
      BY Zenon, <2>2, <2>5, <3>1
    <3>3. i + r <= j
      BY <3>2
    <3>4. ~(nb < a)
      <4>1. SUFFICES ASSUME nb < a PROVE FALSE
        OBVIOUS
      <4>2. size * (nb + 1) <= size * a /\ size * (nb + 1) = nb * size + size
        BY <4>1
      <4>3. j + size <= i
        BY Zenon, <3>1, <4>2
      <4> QED BY <3>3, <4>3
    <3>5. a = nb => i = j
      BY <3>1
    <3> QED BY <3>3, <3>4, <3>5
  <2>7. PICK f : f = PaddedBlocks(wIn, size, nb, b, x)
    OBVIOUS
  <2>8. ASSUME NEW k \in 0..(nb - 1) PROVE BlockIs(a, r, size, b, k, f[k])
    <3>1. f[k] = Bits(v, (nb - k) * size - 1, (nb - k - 1) * size)
      BY Zenon, <2>3, <2>4, <2>7 DEF PaddedBlocks
    <3>2. n \in Nat
      OBVIOUS
    <3>3. BlockIs(a, r, size, b, k, Bits(v, (nb - k) * size - 1, (nb - k - 1) * size))
      BY Zenon, <2>4, <2>5, <3>2, BlocksAre
    <3> QED BY Zenon, <3>1, <3>3
  <2>9. DOMAIN f = 0..(nb - 1)
    BY Zenon, <2>7 DEF PaddedBlocks
  <2>10. PICK t : t = FullFlags(size, b, f)
    OBVIOUS
  <2>11. PICK q : q = [k \in 0..(nb - 1) |-> Flag(FullBlock(size, b, f[k]))]
    OBVIOUS
  <2>12. CarryTerms(a, nb, q, t)
    <3> SUFFICES ASSUME NEW k \in 0..(nb - 1)
                 PROVE  /\ q[k] \in 0..1 /\ t[k] = (2 * q[k] + 1) * Pow2[2 * k]
                        /\ k < a => q[k] = 1
                        /\ k = a => q[k] = 0
      BY Zenon DEF CarryTerms
    <3>1. q[k] = Flag(FullBlock(size, b, f[k]))
      BY Zenon, <2>11
    <3>2. t[k] = (2 * Flag(FullBlock(size, b, f[k])) + 1) * Pow2[2 * k]
      BY Zenon, <2>9, <2>10 DEF FullFlags
    <3>3. BlockIs(a, r, size, b, k, f[k])
      BY Zenon, <2>8
    <3>4. 0 \in 0..1 /\ 1 \in 0..1
      OBVIOUS
    <3>5. q[k] \in 0..1
      BY Zenon, <3>1, <3>4 DEF Flag
    <3> QED BY Zenon, <3>1, <3>2, <3>3, <3>5 DEF BlockIs, Flag
  <2>13. CarryIs(a, nb, 1 + SumBelow(t, nb))
    BY Zenon, <2>12, CarryOver
  <2>14. PICK active : active = ActiveBlocks(f, nb, 1 + SumBelow(t, nb)) /\ active = {a}
    BY Zenon, <2>6, <2>9, <2>13, ActiveIs
  <2>15. r \in Nat /\ r < Pow2[low] /\ r % size = r
    <3>1. r \in Int /\ r \in Nat /\ r < size
      OBVIOUS
    <3>2. r % size = r
      BY ZenonT(40), <3>1, SmallRemainder
    <3> QED BY Zenon, <2>2, <3>1, <3>2
  <2>16. OrIs(low, r)
    BY Zenon, <2>15, OrOfOne
  <2>17. OrOf(low, ActiveRuns(size, nb, b, f, active)) = r
    <3>1. CASE a = nb
      <4>1. ActiveRuns(size, nb, b, f, active) = {}
        BY Zenon, <2>14, <3>1 DEF ActiveRuns
      <4> QED BY Zenon, <2>6, <2>16, <3>1, <4>1 DEF OrIs
    <3>2. CASE a # nb
      <4>1. a \in 0..(nb - 1)
        BY <2>6, <3>2
      <4>2. BlockIs(a, r, size, b, a, f[a])
        BY Zenon, <2>8, <4>1
      <4>3. CASE BitOf(f[a], size - 1) = b
        <5>1. RunLength(size, f[a]) % size = r
          BY Zenon, <2>15, <4>2, <4>3 DEF BlockIs
        <5>2. ActiveRuns(size, nb, b, f, active) = {r}
          BY Zenon, <2>14, <3>2, <4>3, <5>1 DEF ActiveRuns
        <5> QED BY Zenon, <2>16, <5>2 DEF OrIs
      <4>4. CASE BitOf(f[a], size - 1) # b
        <5>1. r = 0
          BY Zenon, <4>2, <4>4 DEF BlockIs
        <5>2. ActiveRuns(size, nb, b, f, active) = {}
          BY Zenon, <2>14, <4>4 DEF ActiveRuns
        <5> QED BY Zenon, <2>16, <5>1, <5>2 DEF OrIs
      <4> QED BY <4>3, <4>4
    <3> QED BY <3>1, <3>2
  <2>18. PICK e \in Nat : e = IntLog2(wIn) - low /\ a < Pow2[e]
    <3>1. PICK w \in Nat : w = IntLog2(wIn) /\ wIn < Pow2[w]
      BY Zenon, <1>0, IntLog2Bounds
    <3>2. PICK e \in Nat : e = w - low /\ e + low = w
      <4>1. w - low \in Nat /\ (w - low) + low = w
        BY <2>2, <3>1
      <4> QED BY Zenon, <4>1
    <3>3. PICK g \in Nat : g = Pow2[e]
      BY Pow2Def
    <3>4. Pow2[w] = g * size
      <4>1. Pow2[e + low] = Pow2[e] * Pow2[low]
        BY Zenon, Pow2Sum
      <4> QED BY Zenon, <2>2, <3>2, <3>3, <4>1
    <3>5. a < g
      <4>1. SUFFICES ASSUME g <= a PROVE FALSE
        OBVIOUS
      <4>2. g * size <= size * a
        BY <4>1
      <4>3. PICK i \in Nat, j \in Nat : i = g * size /\ j = size * a
        OBVIOUS
      <4>4. n = j + r /\ i <= j /\ wIn < i
        BY Zenon, <2>5, <3>1, <3>4, <4>2, <4>3
      <4> QED BY <4>4
    <3> QED BY Zenon, <3>1, <3>2, <3>3, <3>5
  <2>19. OrOf(e, {a}) = a
    <3>1. OrIs(e, a)
      BY Zenon, <2>18, OrOfOne
    <3> QED BY Zenon, <3>1 DEF OrIs
  <2>20. LZOC3(wIn, lut, b, x) = Cat(OrOf(IntLog2(wIn) - low, active), low,
                                     OrOf(low, ActiveRuns(size, nb, b, f, active)))
    <3>1. active = ActiveBlocks(f, nb, 1 + SumBelow(FullFlags(size, b, f), nb))
      BY Zenon, <2>10, <2>14
    <3> QED BY Zenon, <1>4, <2>2, <2>7, <3>1, LZOC3Parts
  <2>21. LZOC3(wIn, lut, b, x) = Cat(a, low, r)
    BY Zenon, <2>14, <2>17, <2>18, <2>19, <2>20
  <2>22. Cat(a, low, r) = n
    <3>1. a * size + r = size * a + r
      OBVIOUS
    <3> QED BY Zenon, <2>2, <2>5, <3>1 DEF Cat
  <2> QED BY Zenon, <1>2, <2>21, <2>22 DEF LZOC3Is
<1> QED BY <1>3, <1>4

-----------------------------------------------------------------------------
(***************************************************************************)
(* The shifters, normalizers and counters under test: an operator has the  *)
(* parameters that it was generated with, and inputs of its widths.        *)
(***************************************************************************)
ShiftingOps == {"ShiftRight", "ShiftLeft", "ShiftSticky", "Normalizer", "LZOC", "LZOC3"}
ShifterInv ==
  /\ unit.op = "none" => inputs = <<>>
  /\ unit.op \in ShiftingOps =>
       /\ unit \in ShifterUnits \cup CounterUnits
       /\ \/ inputs = <<>>
          \/ \E x \in FirstInputs(unit) : inputs = <<x>>
          \/ \E x \in FirstInputs(unit), y \in SecondInputs(unit) : inputs = <<x, y>>

\* A vector of w bits.
LEMMA VectorOf ==
  ASSUME NEW w \in Nat, NEW x \in 0..Ones(w)
  PROVE  x \in Nat /\ x < Pow2[w]
<1>1. PICK p \in Nat : p = Pow2[w]
  BY Pow2Def
<1>2. x \in 0..(p - 1)
  BY Zenon, <1>1 DEF Ones
<1>3. x \in Nat /\ x < p
  BY <1>2
<1> QED BY Zenon, <1>1, <1>3

\* The inputs of an operator under test.
FirstIs(op) == Tested(op) => X \in 0..Ones(unit.c.wX)
SecondIs(op) == Tested(op) => Y \in SecondInputs(unit)
\* The vectors an operator is tested on are those its declared inputs can hold.
LEMMA InputsAre ==
  ASSUME ShifterInv
  PROVE  /\ \A op \in ShiftingOps : FirstIs(op)
         /\ \A op \in {"ShiftRight", "ShiftLeft", "ShiftSticky"} : SecondIs(op)
         /\ \A op \in ShiftingOps : Tested(op) => unit \in ShifterUnits \cup CounterUnits /\ unit.op = op
<1>1. ASSUME NEW op \in ShiftingOps, Tested(op) PROVE X \in 0..Ones(unit.c.wX)
  <2>1. unit.op = op /\ Len(inputs) \in {1, 2}
    BY <1>1 DEF Tested, Operands, ShiftingOps
  <2>2. \/ inputs = <<>>
        \/ \E x \in FirstInputs(unit) : inputs = <<x>>
        \/ \E x \in FirstInputs(unit), y \in SecondInputs(unit) : inputs = <<x, y>>
    BY Zenon, <2>1 DEF ShifterInv
  <2>3. inputs # <<>>
    <3>1. Len(<<>>) = 0
      OBVIOUS
    <3>2. 0 \notin {1, 2}
      OBVIOUS
    <3> QED BY Zenon, <2>1, <3>1, <3>2
  <2>4. X \in FirstInputs(unit)
    <3>1. ASSUME NEW x \in FirstInputs(unit), inputs = <<x>> PROVE inputs[1] = x
      BY <3>1
    <3>2. ASSUME NEW x \in FirstInputs(unit), NEW y \in SecondInputs(unit), inputs = <<x, y>> PROVE inputs[1] = x
      BY <3>2
    <3> QED BY Zenon, <2>2, <2>3, <3>1, <3>2 DEF X
  <2>5. FirstInputs(unit) = 0..Ones(unit.c.wX)
    BY <2>1 DEF FirstInputs, ShiftingOps
  <2> QED BY Zenon, <2>4, <2>5
<1>2. ASSUME NEW op \in {"ShiftRight", "ShiftLeft", "ShiftSticky"}, Tested(op) PROVE Y \in SecondInputs(unit)
  <2>1. unit.op = op /\ Len(inputs) = 2 /\ op \in ShiftingOps
    BY <1>2 DEF Tested, Operands, ShiftingOps
  <2>2. \/ inputs = <<>>
        \/ \E x \in FirstInputs(unit) : inputs = <<x>>
        \/ \E x \in FirstInputs(unit), y \in SecondInputs(unit) : inputs = <<x, y>>
    BY Zenon, <2>1 DEF ShifterInv
  <2>3. inputs # <<>>
    BY <2>1
  <2>4. ASSUME NEW x, inputs = <<x>> PROVE FALSE
    BY <2>1, <2>4
  <2>5. ASSUME NEW x, NEW y, inputs = <<x, y>> PROVE inputs[2] = y
    BY <2>5
  <2> QED BY Zenon, <2>2, <2>3, <2>4, <2>5 DEF Y
<1>3. ASSUME NEW op \in ShiftingOps, Tested(op) PROVE unit \in ShifterUnits \cup CounterUnits /\ unit.op = op
  BY Zenon, <1>3 DEF ShifterInv, Tested
<1> QED BY Zenon, <1>1, <1>2, <1>3 DEF FirstIs, SecondIs

\* The shifters under test shift.
LEMMA ShiftsAre ==
  ASSUME ShifterInv
  PROVE  ShiftIsExact
<1>1. \A op \in ShiftingOps : FirstIs(op)
  BY Zenon, InputsAre
<1>2. \A op \in {"ShiftRight", "ShiftLeft", "ShiftSticky"} : SecondIs(op) /\ op \in ShiftingOps
  <2>1. {"ShiftRight", "ShiftLeft", "ShiftSticky"} \subseteq ShiftingOps
    BY DEF ShiftingOps
  <2> QED BY Zenon, <2>1, InputsAre
<1>3. \A op \in ShiftingOps : Tested(op) => unit \in ShifterUnits \cup CounterUnits /\ unit.op = op
  BY Zenon, InputsAre
<1>4. \A e \in ShifterSizes : /\ e.wX \in Nat /\ e.maxShift \in Nat \ {0} /\ e.maxShift \in Nat /\ e.wR \in Nat
                              /\ e.wX <= e.wR /\ e.wR <= e.wX + e.maxShift
  BY DatapathsAssumption DEF DatapathsAssumption
<1>5. CASE Tested("ShiftRight")
  <2>1. unit.op = "ShiftRight" /\ unit \in ShifterUnits \cup CounterUnits
    BY <1>3, <1>5 DEF ShiftingOps
  <2>2. unit.c \in ShifterSizes /\ unit.pad \in {0, 1}
    BY <2>1 DEF ShifterUnits, CounterUnits
  <2>3. X \in 0..Ones(unit.c.wX) /\ Y \in 0..Ones(ShiftWidth(unit.c.maxShift))
    <3>1. X \in 0..Ones(unit.c.wX)
      BY <1>1, <1>5 DEF ShiftingOps, FirstIs
    <3>2. Y \in SecondInputs(unit)
      BY Zenon, <1>2, <1>5 DEF SecondIs
    <3> QED BY <2>1, <3>1, <3>2 DEF SecondInputs
  <2>4. X \in Nat
    BY Zenon, <1>4, <2>2, <2>3, VectorOf
  <2>5. unit.pad \in 0..1
    BY <2>2
  <2>6. RightShiftIs(unit.c.wX, unit.c.maxShift, unit.c.wR, unit.pad, X, Y)
    BY Zenon, <1>4, <2>2, <2>3, <2>4, <2>5, RightShifterIs
  <2>7. ~Tested("ShiftLeft") /\ ~Tested("ShiftSticky")
    BY <2>1 DEF Tested
  <2> QED BY Zenon, <2>6, <2>7 DEF RightShiftIs, ShiftIsExact
<1>6. CASE Tested("ShiftLeft")
  <2>1. unit.op = "ShiftLeft" /\ unit \in ShifterUnits \cup CounterUnits
    BY <1>3, <1>6 DEF ShiftingOps
  <2>2. unit.c \in ShifterSizes /\ unit.pad \in {0, 1}
    BY <2>1 DEF ShifterUnits, CounterUnits
  <2>3. X \in 0..Ones(unit.c.wX) /\ Y \in 0..Ones(ShiftWidth(unit.c.maxShift))
    <3>1. X \in 0..Ones(unit.c.wX)
      BY <1>1, <1>6 DEF ShiftingOps, FirstIs
    <3>2. Y \in SecondInputs(unit)
      BY Zenon, <1>2, <1>6 DEF SecondIs
    <3> QED BY <2>1, <3>1, <3>2 DEF SecondInputs
  <2>4. X \in Nat
    BY Zenon, <1>4, <2>2, <2>3, VectorOf
  <2>5. unit.pad \in 0..1
    BY <2>2
  <2>6. LeftShiftIs(unit.c.wX, unit.c.maxShift, unit.c.wR, unit.pad, X, Y)
    BY Zenon, <1>4, <2>2, <2>3, <2>4, <2>5, LeftShifterIs
  <2>7. ~Tested("ShiftRight") /\ ~Tested("ShiftSticky")
    BY <2>1 DEF Tested
  <2> QED BY Zenon, <2>6, <2>7 DEF LeftShiftIs, ShiftIsExact
<1>7. CASE Tested("ShiftSticky")
  <2>1. unit.op = "ShiftSticky" /\ unit \in ShifterUnits \cup CounterUnits
    BY <1>3, <1>7 DEF ShiftingOps
  <2>2. unit.c \in ShifterSizes /\ unit.c.wR >= Pow2[ShiftWidth(unit.c.maxShift) - 1]
    BY <2>1 DEF ShifterUnits, CounterUnits
  <2>3. PICK wX \in Nat, maxShift \in Nat \ {0}, wR \in Nat :
          /\ wX = unit.c.wX /\ maxShift = unit.c.maxShift /\ wR = unit.c.wR /\ wX <= wR
    BY Zenon, <1>4, <2>2
  <2>4. PICK i : i = Pow2[ShiftWidth(maxShift) - 1] /\ i <= wR
    BY <2>2, <2>3
  <2>5. X \in 0..Ones(wX) /\ Y \in 0..Ones(ShiftWidth(maxShift))
    <3>1. X \in 0..Ones(unit.c.wX)
      BY <1>1, <1>7 DEF ShiftingOps, FirstIs
    <3>2. Y \in SecondInputs(unit)
      BY Zenon, <1>2, <1>7 DEF SecondIs
    <3>3. Y \in 0..SmallerOf(Ones(ShiftWidth(maxShift)), wR)
      BY <2>1, <2>3, <3>2 DEF SecondInputs
    <3>4. PICK g \in Int : g = Ones(ShiftWidth(maxShift))
      <4>1. ShiftWidth(maxShift) \in Nat
        BY Zenon, <1>4, <2>2, <2>3, IntLog2Bounds DEF ShiftWidth
      <4> QED BY <4>1, Pow2Def DEF Ones
    <3>5. Y \in 0..SmallerOf(g, wR)
      BY Zenon, <3>3, <3>4
    <3>6. Y \in 0..g
      BY <3>5 DEF SmallerOf
    <3> QED BY Zenon, <2>3, <3>1, <3>4, <3>6
  <2>6. X \in Nat /\ X < Pow2[wX]
    BY Zenon, <2>5, VectorOf
  <2>7. StickyShiftIs(wX, maxShift, wR, X, Y)
    BY Zenon, <2>3, <2>4, <2>5, <2>6, StickyShifterIs
  <2>8. ~Tested("ShiftRight") /\ ~Tested("ShiftLeft")
    BY <2>1 DEF Tested
  <2> QED BY Zenon, <2>3, <2>7, <2>8 DEF StickyShiftIs, ShiftIsExact
<1> QED BY Zenon, <1>5, <1>6, <1>7 DEF ShiftIsExact

\* The normalizers and counters under test count.
LEMMA CountsAre ==
  ASSUME ShifterInv
  PROVE  CountIsExact
<1>1. \A op \in ShiftingOps : FirstIs(op)
  BY Zenon, InputsAre
<1>2. \A op \in ShiftingOps : Tested(op) => unit \in ShifterUnits \cup CounterUnits /\ unit.op = op
  BY Zenon, InputsAre
<1>3. CASE Tested("Normalizer")
  <2>1. unit.op = "Normalizer" /\ unit \in ShifterUnits \cup CounterUnits /\ X \in 0..Ones(unit.c.wX)
    BY <1>1, <1>2, <1>3 DEF ShiftingOps, FirstIs
  <2>2. unit.c \in NormalizerSizes /\ unit.counted \in 0..1
    BY <2>1 DEF ShifterUnits, CounterUnits
  <2>3. PICK wX \in Nat, wR \in Nat : wX = unit.c.wX /\ wR = unit.c.wR /\ wR \in 2..wX
    BY <2>2, DatapathsAssumption DEF DatapathsAssumption
  <2>4. X \in Nat /\ X < Pow2[wX]
    BY Zenon, <2>1, <2>3, VectorOf
  <2>5. Normalized(wX, wR, unit.counted, X)
    BY Zenon, <2>2, <2>3, <2>4, NormalizerIs
  <2>6. ~Tested("LZOC") /\ ~Tested("LZOC3")
    BY <2>1 DEF Tested
  <2> QED BY Zenon, <2>3, <2>5, <2>6 DEF Normalized, CountIsExact
<1>4. CASE Tested("LZOC")
  <2>1. unit.op = "LZOC" /\ unit \in ShifterUnits \cup CounterUnits /\ X \in 0..Ones(unit.c.wX)
    BY <1>1, <1>2, <1>4 DEF ShiftingOps, FirstIs
  <2>2. unit.c.wX \in LZOCWidths /\ unit.counted \in 0..1
    BY <2>1 DEF ShifterUnits, CounterUnits
  <2>3. PICK wX \in Nat : wX = unit.c.wX /\ wX >= 4
    BY <2>2, DatapathsAssumption DEF DatapathsAssumption
  <2>4. X \in Nat /\ X < Pow2[wX]
    BY Zenon, <2>1, <2>3, VectorOf
  <2>5. LZOCIs(wX, unit.counted, X)
    BY Zenon, <2>2, <2>3, <2>4, LZOCCounts
  <2>6. ~Tested("Normalizer") /\ ~Tested("LZOC3")
    BY <2>1 DEF Tested
  <2> QED BY Zenon, <2>3, <2>5, <2>6 DEF LZOCIs, CountIsExact
<1>5. CASE Tested("LZOC3")
  <2>1. unit.op = "LZOC3" /\ unit \in ShifterUnits \cup CounterUnits /\ X \in 0..Ones(unit.c.wX)
    BY <1>1, <1>2, <1>5 DEF ShiftingOps, FirstIs
  <2>2. unit.c \in LZOC3Sizes /\ unit.counted \in 0..1
    BY <2>1 DEF ShifterUnits, CounterUnits
  <2>3. PICK wX \in Nat \ {0}, lut \in Nat : wX = unit.c.wX /\ lut = unit.c.lut /\ 4 <= lut
    BY <2>2, DatapathsAssumption DEF DatapathsAssumption
  <2>4. X \in Nat /\ X < Pow2[wX]
    <3>1. wX \in Nat
      OBVIOUS
    <3> QED BY Zenon, <2>1, <2>3, <3>1, VectorOf
  <2>5. LZOC3Is(wX, lut, unit.counted, X)
    BY Zenon, <2>2, <2>3, <2>4, LZOC3Counts
  <2>6. ~Tested("Normalizer") /\ ~Tested("LZOC")
    BY <2>1 DEF Tested
  <2> QED BY Zenon, <2>3, <2>5, <2>6 DEF LZOC3Is, CountIsExact
<1> QED BY Zenon, <1>3, <1>4, <1>5 DEF CountIsExact

\* The second input comes behind the first.
LEMMA SecondInput ==
  ASSUME NEW x, NEW y
  PROVE  Append(<<x>>, y) = <<x, y>>
<1>1. ASSUME NEW U, NEW s \in Seq(U), Len(s) = 2 PROVE s = <<s[1], s[2]>>
  <2>1. s = [i \in 1..2 |-> s[i]]
    BY <1>1
  <2>2. 1..2 = {1, 2}
    OBVIOUS
  <2>3. <<s[1], s[2]>> = [i \in {1, 2} |-> s[i]]
    OBVIOUS
  <2> QED BY Zenon, <2>1, <2>2, <2>3
<1>2. <<x>> \in Seq({x, y}) /\ y \in {x, y} /\ Len(<<x>>) = 1 /\ <<x>>[1] = x
  OBVIOUS
<1>3. /\ Append(<<x>>, y) \in Seq({x, y}) /\ Len(Append(<<x>>, y)) = 2
      /\ Append(<<x>>, y)[1] = x /\ Append(<<x>>, y)[2] = y
  BY <1>2
<1> QED BY Zenon, <1>1, <1>3

\* The shifters and counters are exact, for every size and all inputs: the levels of
\* multiplexers of Shifter move every bit by the distance asked for, whichever way they go,
\* the sticky bit tells whether a one is dropped at any level, the normalizer, whose levels
\* drop what the output cannot need, counts the leading digits and shifts them out, and
\* both counters, with the carry through the full blocks of LZOC3, count the leading digits.
THEOREM ShiftersAreRight == Spec => []ShiftersAreExact
<1>1. Init => ShifterInv
  BY DEF Init, UnitInit, ShifterInv, ShiftingOps
<1>2. ASSUME ShifterInv, [Next]_vars PROVE ShifterInv'
  <2>1. CASE UNCHANGED unitVars
    <3>1. unit' = unit /\ inputs' = inputs
      BY <2>1 DEF unitVars
    <3>2. FirstInputs(unit)' = FirstInputs(unit) /\ SecondInputs(unit)' = SecondInputs(unit)
      BY Zenon, <3>1 DEF FirstInputs, SecondInputs
    <3> QED BY Zenon, <1>2, <3>1, <3>2 DEF ShifterInv
  <2>2. CASE UnitNext
    <3>1. ASSUME NEW units, Generate(units), \A v \in units : v.op # "none",
                 \A v \in units : v.op \in ShiftingOps => v \in ShifterUnits \cup CounterUnits
          PROVE  ShifterInv'
      <4>1. unit.op = "none" /\ unit' \in units /\ inputs' = <<>>
        BY <1>2, <3>1 DEF Generate, ShifterInv
      <4> QED BY Zenon, <3>1, <4>1 DEF ShifterInv
    <3>2. CASE Generate(ShifterUnits)
      <4>1. \A v \in ShifterUnits : v.op # "none" /\ v \in ShifterUnits \cup CounterUnits
        BY DEF ShifterUnits
      <4> QED BY Zenon, <3>1, <3>2, <4>1
    <3>3. CASE Generate(CounterUnits)
      <4>1. \A v \in CounterUnits : v.op # "none" /\ v \in ShifterUnits \cup CounterUnits
        BY DEF CounterUnits
      <4> QED BY Zenon, <3>1, <3>3, <4>1
    <3>4. CASE Generate(FPUnits)
      <4>1. \A v \in FPUnits : v.op # "none" /\ v.op \notin ShiftingOps
        BY DEF FPUnits, ShiftingOps
      <4> QED BY Zenon, <3>1, <3>4, <4>1
    <3>5. CASE Generate(IEEEUnits)
      <4>1. \A v \in IEEEUnits : v.op # "none" /\ v.op \notin ShiftingOps
        BY DEF IEEEUnits, ShiftingOps
      <4> QED BY Zenon, <3>1, <3>5, <4>1
    <3>6. CASE Generate(PositUnits)
      <4>1. \A v \in PositUnits : v.op # "none" /\ v.op \notin ShiftingOps
        BY DEF PositUnits, ShiftingOps
      <4> QED BY Zenon, <3>1, <3>6, <4>1
    <3>7. CASE SetFirstInput
      <4>1. unit.op # "none" /\ unit' = unit
        BY <3>7 DEF SetFirstInput
      <4>2. PICK x \in FirstInputs(unit) : inputs' = <<x>>
        BY Zenon, <3>7 DEF SetFirstInput
      <4> QED BY Zenon, <1>2, <4>1, <4>2 DEF ShifterInv
    <3>8. CASE SetSecondInput
      <4>1. Len(inputs) = 1 /\ unit' = unit
        BY <3>8 DEF SetSecondInput
      <4>2. PICK y \in SecondInputs(unit) : inputs' = Append(inputs, y)
        BY Zenon, <3>8 DEF SetSecondInput
      <4>3. unit.op # "none" /\ inputs # <<>>
        BY <1>2, <4>1 DEF ShifterInv
      <4>4. ASSUME NEW x, inputs = <<x>> PROVE Append(inputs, y) = <<x, y>>
        BY Zenon, <4>4, SecondInput
      <4>5. ASSUME NEW x, NEW z, inputs = <<x, z>> PROVE FALSE
        BY <4>1, <4>5
      <4> QED BY Zenon, <1>2, <4>1, <4>2, <4>3, <4>4, <4>5 DEF ShifterInv
    <3>9. CASE SetThirdInput
      <4>1. Operands(unit.op) = 3 /\ Len(inputs) = 2 /\ unit' = unit
        BY <3>9 DEF SetThirdInput
      <4>2. unit.op \notin ShiftingOps /\ unit.op # "none"
        BY <4>1 DEF Operands, ShiftingOps
      <4> QED BY Zenon, <4>1, <4>2 DEF ShifterInv
    <3> QED BY <2>2, <3>2, <3>3, <3>4, <3>5, <3>6, <3>7, <3>8, <3>9 DEF UnitNext
  <2>3. CASE Combinational
    BY <2>2, <2>3 DEF Combinational
  <2>4. CASE StartDivision \/ DivisionStep
    BY <2>1, <2>4 DEF StartDivision, DivisionStep
  <2>5. CASE StartRoot \/ RootStep
    BY <2>1, <2>5 DEF StartRoot, RootStep
  <2>6. CASE StartConstantDivision \/ ConstantDivisionStep
    BY <2>1, <2>6 DEF StartConstantDivision, ConstantDivisionStep
  <2>7. CASE StartMultiplier \/ MultiplierStep
    BY <2>1, <2>7 DEF StartMultiplier, MultiplierStep
  <2>8. CASE UNCHANGED vars
    BY <2>1, <2>8 DEF vars
  <2> QED BY <1>2, <2>3, <2>4, <2>5, <2>6, <2>7, <2>8 DEF Next
<1>3. Spec => []ShifterInv
  BY <1>1, <1>2, PTL DEF Spec
<1>4. ShifterInv => ShiftersAreExact
  BY Zenon, ShiftsAre, CountsAre DEF ShiftersAreExact
<1> QED BY <1>3, <1>4, PTL
=============================================================================
